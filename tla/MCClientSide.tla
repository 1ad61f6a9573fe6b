----------------------------- MODULE MCClientSide -----------------------------
(* The parts of the program that stand between a command and its server,   *)
(* for TLC.  They share no state: each behaviour is one of one part.  That *)
(* of the kubeconfig file is followed until a save is overlapped or cut    *)
(* short; a file that was left empty or torn before is where others start. *)
EXTENDS TokenSource

CONSTANTS Lookers, URLs, Contents, MaxVersions, MaxFetches,
          Closers, Lengths, captureLimit,
          Logins, Names

ASSUME LookersAssumption == "nobody" \notin Lookers
ASSUME ManifestsAssumption ==
    /\ {MaxVersions, MaxFetches} \subseteq Nat
    /\ Contents \subseteq [region : BOOLEAN, has : SUBSET {"platformAPI", "oidc"}, valid : BOOLEAN]
ASSUME LengthsAssumption ==
    /\ captureLimit \in Nat /\ Lengths \subseteq Nat
    /\ \E n \in Lengths : \A k \in Lengths : k <= n

VARIABLES part,
    published, cacheMutex, manifestsByURL, fetches, fetched, look,
    source, observed, reader, closer, logged,
    cancelled, request, worker, hook, copy,
    file, login, kept, lossy

endpointVars == <<published, cacheMutex, manifestsByURL, fetches, fetched, look>>
responseVars == <<source, observed, reader, closer, logged>>
requestVars == <<cancelled, request, worker, hook, copy>>
kubeconfigVars == <<file, login, kept, lossy>>

Full(nr) == [nr |-> nr, region |-> TRUE, has |-> {"platformAPI", "oidc"}, valid |-> TRUE]

(* A manifest with all, without one endpoint, the region, and validity.    *)
SomeContents == {[region |-> TRUE, has |-> {"platformAPI", "oidc"}, valid |-> TRUE],
                 [region |-> TRUE, has |-> {"platformAPI"}, valid |-> TRUE],
                 [region |-> FALSE, has |-> {}, valid |-> TRUE],
                 [region |-> TRUE, has |-> {"platformAPI", "oidc"}, valid |-> FALSE]}

Server == [n \in Names |-> n]

Endpoints == INSTANCE Discovery
Response == INSTANCE ResponseBody
Request == INSTANCE RequestSnapshot
Kubeconfig == INSTANCE KubeconfigLogin

(* A request that was sent without a body.                                 *)
NoRequest ==
    /\ cancelled = FALSE
    /\ request = [at |-> "sending", shown |-> "none"]
    /\ worker = [at |-> "idle", outcome |-> "none"]
    /\ hook = "none"
    /\ copy = [is |-> "none", closing |-> FALSE, closes |-> 0]

PartsInit ==
    /\ part \in {"token", "endpoints", "response", "request", "kubeconfig"}
    /\ IF part = "request" THEN Request!Init ELSE NoRequest
    /\ Init /\ Endpoints!Init /\ Response!Init /\ Kubeconfig!Init
    /\ part # "endpoints" => \A u \in URLs : published[u] = Full(1)
    /\ part # "response" => source.length = 0 /\ observed.expected = "known"
    /\ part # "kubeconfig" => file.is = "absent" /\ \A p, q \in Logins : login[p] = login[q]
    /\ login["p1"].name = "x"    \* names are interchangeable

PartsNext ==
    \/ /\ part = "token" /\ Next
       /\ UNCHANGED <<part, endpointVars, responseVars, requestVars, kubeconfigVars>>
    \/ /\ part = "endpoints" /\ Endpoints!Next
       /\ UNCHANGED <<part, vars, responseVars, requestVars, kubeconfigVars>>
    \/ /\ part = "response" /\ Response!Next
       /\ UNCHANGED <<part, vars, endpointVars, requestVars, kubeconfigVars>>
    \/ /\ part = "request" /\ Request!Next
       /\ UNCHANGED <<part, vars, endpointVars, responseVars, kubeconfigVars>>
    \/ /\ part = "kubeconfig" /\ ~lossy /\ Kubeconfig!Next
       /\ UNCHANGED <<part, vars, endpointVars, responseVars, requestVars>>

partsVars == <<part, vars, endpointVars, responseVars, requestVars, kubeconfigVars>>

PartsSpec == PartsInit /\ [][PartsNext]_partsVars /\ Fairness /\ Response!Fairness /\ Request!Fairness

-----------------------------------------------------------------------------
(* Every variable of every part has its type.                              *)
PartsTypeOK ==
    TypeOK /\ Endpoints!TypeOK /\ Response!TypeOK /\ Request!TypeOK /\ Kubeconfig!TypeOK

(* One trusted manifest for each environment (discovery.go:194-283).       *)
OneManifest == Endpoints!OneManifest

(* Of a response's body the trace prints the whole or nothing, once; the   *)
(* copy of a request's body is closed once, whoever closes either          *)
(* (body.go:91-104, 149-214).                                              *)
BodiesTold == Response!PrintedWhole /\ Request!ClosedOnce

(* The kubeconfig file keeps what others put there (kubeconfig.go:51-151). *)
NothingLost == Kubeconfig!NothingLost
LoneLogin == Kubeconfig!LoneLogin

(* A cancelled request is not held by its snapshot, even if the copy of    *)
(* its body never comes (body.go:59-61).                                   *)
RequestsGoOn == Request!RequestsGoOn

(* A close gets through to the trace though the reader of the body hangs   *)
(* (body.go:149-151).                                                      *)
BodyNamed == Response!BodyNamed
===============================================================================
