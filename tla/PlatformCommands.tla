-------------------------- MODULE PlatformCommands --------------------------
(***************************************************************************)
(* The commands over the platform API: cluster create, delete and upgrade  *)
(* policies, nodepool create, scale and delete, role and rolebinding       *)
(* create, update and delete, and the paged listings.  Each invocation is  *)
(* a process; arguments and flags are taken as valid, for a command that   *)
(* refuses them has sent nothing.                                          *)
(*                                                                         *)
(* cluster create --setup-infra first makes IAM and network resources      *)
(* under an infra ID of its own (the modules IamInfra and NetworkInfra     *)
(* model how), then posts the cluster.  If it fails for certain, somebody  *)
(* may remove what it made.                                                *)
(***************************************************************************)
EXTENDS PlatformApi, Sequences

CONSTANTS
    CommandLines,    \* what the invocations may be
    Catalogs,        \* lengths of the catalog in pages; 0: a server that makes up tokens
    MaxToken,        \* bound: tokens such a server may send more than once
    MaxListPages,    \* maxPlatformRoleListPages
    MaxVersion       \* bound: others stop writing at this version

ASSUME ListAssumption ==
    /\ Catalogs \subseteq Nat
    /\ MaxToken \in Nat
    /\ MaxListPages \in Nat

VARIABLES
    line,       \* line[c]: the command line
    seen,       \* seen[c]: the role that update role read
    infra,      \* infra[c]: the resources under the infra ID c generated
    verdict,    \* verdict[c]: how it ended
    listing,    \* listing[c]: a listing so far
    catalog     \* the pages of the catalog

clientVars == <<at, line, seen, infra, verdict, listing, catalog>>
vars == <<serverVars, clientVars>>

Listings == {"list roles", "list rolebindings", "list platformroles"}
Names == Listings \cup
    {"create cluster", "delete cluster", "create policy", "update policy", "delete policy",
     "create nodepool", "scale nodepool", "delete nodepool",
     "create role", "update role", "delete role", "create binding", "delete binding"}

(* setupInfra, configs and dryRun are forms of create cluster, exclusions  *)
(* one of update policy.                                                   *)
Lines == {l \in [name : Names,
                  form : {"plain", "setupInfra", "configs", "dryRun", "exclusions"}] :
              /\ l.name = "create cluster" <=> l.form \in {"setupInfra", "configs", "dryRun"}
              /\ l.form = "exclusions" => l.name = "update policy"}
NoLine == [name |-> "none", form |-> "plain"]

ASSUME LinesAssumption == CommandLines \subseteq Lines

Places == {"idle", "version", "iam", "network", "configs", "get", "send", "wait", "page", "end"}

Extent == {"none", "part", "full"}
Provisioned == [iam : Extent, network : Extent]
NothingYet == [iam |-> "none", network |-> "none"]

Verdicts == {"none", "ok", "failed", "uncertain", "shown", "killed"}

Listed == [token : Nat, seen : SUBSET Nat, items : Seq(Nat), pages : Nat]
NoListing == [token |-> 0, seen |-> {}, items |-> <<>>, pages |-> 0]

TypeOK ==
    /\ ServerTypeOK
    /\ line \in [Commands -> CommandLines \cup {NoLine}]
    /\ at \in [Commands -> Places]
    /\ seen \in [Commands -> Objects]
    /\ infra \in [Commands -> Provisioned]
    /\ verdict \in [Commands -> Verdicts]
    /\ listing \in [Commands -> Listed]
    /\ catalog \in Catalogs
    /\ \A c \in Commands :
        /\ at[c] = "idle" <=> line[c] = NoLine
        /\ at[c] = "end" <=> verdict[c] # "none"
        /\ seen[c] # Absent => line[c].name = "update role"

-----------------------------------------------------------------------------
(* The write of each command.                                              *)
CallOf(name) ==
    CASE name = "create cluster" -> ClusterCreate
      [] name = "delete cluster" -> ClusterDelete
      [] name = "create policy" -> PolicyCreate
      [] name = "update policy" -> PolicyPatch
      [] name = "delete policy" -> PolicyDelete
      [] name = "create nodepool" -> NodePoolCreate
      [] name = "scale nodepool" -> NodePoolPatch
      [] name = "delete nodepool" -> NodePoolDelete
      [] name = "create role" -> RoleCreate
      [] name = "update role" -> RoleUpdate
      [] name = "delete role" -> RoleDelete
      [] name = "create binding" -> RoleBindingCreate
      [] name = "delete binding" -> RoleBindingDelete
      [] OTHER -> NoCall

(* What update-upgrade-policy and scale put into their merge patch: a      *)
(* policy's exclusions only if the flags replace or clear them.            *)
PatchedFields(l) == IF l.form = "exclusions" THEN {"own", "extra"} ELSE {"own"}

(* What the command reads first, if anything.                              *)
ReadBy == [n \in {"delete cluster", "create policy", "update role"} |->
              IF n = "update role" THEN "roles" ELSE "clusters"]

FirstPlace(name) ==
    IF name \in Listings THEN "page"
    ELSE IF name = "create cluster" THEN "version"
    ELSE IF name \in DOMAIN ReadBy THEN "get"
    ELSE "send"

Init ==
    /\ ServerInit
    /\ line = [c \in Commands |-> NoLine]
    /\ at = [c \in Commands |-> "idle"]
    /\ seen = [c \in Commands |-> Absent]
    /\ infra = [c \in Commands |-> NothingYet]
    /\ verdict = [c \in Commands |-> "none"]
    /\ listing = [c \in Commands |-> NoListing]
    /\ catalog \in Catalogs

GoTo(c, place) ==
    /\ at' = [at EXCEPT ![c] = place]
    /\ UNCHANGED verdict

EndWith(c, v) ==
    /\ at' = [at EXCEPT ![c] = "end"]
    /\ verdict' = [verdict EXCEPT ![c] = v]

Start(c) ==
    /\ at[c] = "idle"
    /\ \E l \in CommandLines :
        /\ line' = [line EXCEPT ![c] = l]
        /\ GoTo(c, FirstPlace(l.name))
    /\ UNCHANGED <<serverVars, seen, infra, listing, catalog>>

-----------------------------------------------------------------------------
(* cluster create, up to its POST.                                         *)
validateVersion(c) ==
    /\ at[c] = "version"
    /\ \/ EndWith(c, "failed")
       \/ GoTo(c, IF line[c].form = "setupInfra" THEN "iam" ELSE "configs")
    /\ UNCHANGED <<serverVars, line, seen, infra, listing, catalog>>

(* The two files are read and checked.  They describe resources that an    *)
(* earlier iam create and network create made, which is not this command's *)
(* business.                                                               *)
buildPayloadFromConfigs(c) ==
    /\ at[c] = "configs"
    /\ \/ EndWith(c, "failed")
       \/ line[c].form = "dryRun" /\ EndWith(c, "shown")
       \/ line[c].form # "dryRun" /\ GoTo(c, "send")
    /\ UNCHANGED <<serverVars, line, seen, infra, listing, catalog>>

CreateIAM(c) ==
    /\ at[c] = "iam"
    /\ \/ infra' = [infra EXCEPT ![c].iam = "full"] /\ GoTo(c, "network")
       \/ /\ \E r \in Extent : infra' = [infra EXCEPT ![c].iam = r]
          /\ EndWith(c, "failed")
    /\ UNCHANGED <<serverVars, line, seen, listing, catalog>>

CreateNetwork(c) ==
    /\ at[c] = "network"
    /\ \/ infra' = [infra EXCEPT ![c].network = "full"] /\ GoTo(c, "send")
       \/ /\ \E r \in Extent : infra' = [infra EXCEPT ![c].network = r]
          /\ EndWith(c, "failed")
    /\ UNCHANGED <<serverVars, line, seen, listing, catalog>>

(* decorateCreateError: after a definite failure, and only then, nothing   *)
(* tells the user to look before he cleans up; he removes the resources.   *)
CleanUp(c) ==
    /\ line[c].form = "setupInfra"
    /\ verdict[c] = "failed"
    /\ infra' = [infra EXCEPT ![c] = NothingYet]
    /\ UNCHANGED <<serverVars, line, at, seen, verdict, listing, catalog>>

-----------------------------------------------------------------------------
(* Mutant: the error of the get is reported, but does not end the command. *)
ReadFirstGoesOn(c) ==
    /\ at[c] = "get"
    /\ LET o == store[ReadBy[line[c].name]] IN
        \/ /\ o.is # "none"
           /\ seen' = [seen EXCEPT ![c] = IF line[c].name = "update role" THEN o ELSE Absent]
           /\ GoTo(c, "send")
        \/ /\ at' = [at EXCEPT ![c] = "send"]
           /\ verdict' = [verdict EXCEPT ![c] = "failed"]
           /\ UNCHANGED seen
    /\ UNCHANGED <<serverVars, line, infra, listing, catalog>>

(* Get: what delete cluster, create policy and update role do first.  The  *)
(* cluster need only exist; the role is changed and sent back.             *)
ReadFirst(c) ==
    /\ at[c] = "get"
    /\ LET o == store[ReadBy[line[c].name]] IN
        \/ /\ o.is # "none"
           /\ seen' = [seen EXCEPT ![c] = IF line[c].name = "update role" THEN o ELSE Absent]
           /\ GoTo(c, "send")
        \/ EndWith(c, "failed") /\ UNCHANGED seen
    /\ UNCHANGED <<serverVars, line, infra, listing, catalog>>

(* Mutant: the role is sent with the version that is current now.          *)
SendUnversioned(c) ==
    /\ at[c] = "send"
    /\ Send(c, CallOf(line[c].name), PatchedFields(line[c]),
            [seen[c] EXCEPT !.rv = store[CallOf(line[c].name).resource].rv])
    /\ seen' = [seen EXCEPT ![c] = Absent]
    /\ GoTo(c, "wait")
    /\ UNCHANGED <<line, infra, listing, catalog>>

SendWrite(c) ==
    /\ at[c] = "send"
    /\ Send(c, CallOf(line[c].name), PatchedFields(line[c]), seen[c])
    /\ seen' = [seen EXCEPT ![c] = Absent]
    /\ GoTo(c, "wait")
    /\ UNCHANGED <<line, infra, listing, catalog>>

Receive(c) ==
    /\ at[c] = "wait"
    /\ reply[c] # NoReply
    /\ EndWith(c, decodeResult(CallOf(line[c].name), reply[c]))
    /\ reply' = [reply EXCEPT ![c] = NoReply]
    /\ UNCHANGED <<store, version, sent, effect, line, seen, infra, listing, catalog>>

(* No token, no connection, or no answer.                                  *)
GiveUp(c) ==
    /\ at[c] \in {"send", "wait"}
    /\ EndWith(c, decodeResult(CallOf(line[c].name), NoReply))
    /\ reply' = [reply EXCEPT ![c] = NoReply]
    /\ UNCHANGED <<store, version, sent, effect, line, seen, infra, listing, catalog>>

Killed(c) ==
    /\ at[c] \notin {"idle", "end"}
    /\ EndWith(c, "killed")
    /\ reply' = [reply EXCEPT ![c] = NoReply]
    /\ UNCHANGED <<store, version, sent, effect, line, seen, infra, listing, catalog>>

-----------------------------------------------------------------------------
(* Listings.  Token 0 is the empty one.  The token of a page of the        *)
(* catalog is its number, and so is its content.  A server that makes up   *)
(* tokens sends empty pages; it may go on for ever with tokens it never    *)
(* sent before, for which MaxToken + 1 and MaxToken + 2 stand by turns.    *)
NeverSent(t) == catalog = 0 /\ t > MaxToken

NextTokens(t) ==
    IF catalog > 0 THEN {IF t + 1 < catalog THEN t + 1 ELSE 0}
    ELSE 0 .. MaxToken \cup {IF t = MaxToken + 1 THEN MaxToken + 2 ELSE MaxToken + 1}

(* Only the listing of platform roles counts its pages.                    *)
Limited(c) == line[c].name = "list platformroles"

WithPage(c, t) ==
    LET l == listing[c] IN
    [token |-> t,
     seen |-> l.seen \cup {u \in {t} : ~NeverSent(u)},
     items |-> IF catalog > 0 THEN Append(l.items, l.token) ELSE l.items,
     pages |-> IF Limited(c) THEN l.pages + 1 ELSE l.pages]

(* Mutant: the limit cuts the listing short.                               *)
FetchPageCut(c) ==
    /\ at[c] = "page"
    /\ IF Limited(c) /\ listing[c].pages = MaxListPages
       THEN EndWith(c, "ok") /\ UNCHANGED listing
       ELSE \/ EndWith(c, "failed") /\ UNCHANGED listing
            \/ \E t \in NextTokens(listing[c].token) :
                /\ listing' = [listing EXCEPT ![c] = WithPage(c, t)]
                /\ IF t = 0 THEN EndWith(c, "ok")
                   ELSE IF t \in listing[c].seen THEN EndWith(c, "failed")
                   ELSE GoTo(c, "page")
    /\ UNCHANGED <<serverVars, line, seen, infra, catalog>>

(* Mutant: platform roles are listed without the limit.                    *)
FetchPageUnlimited(c) ==
    /\ at[c] = "page"
    /\ \/ EndWith(c, "failed") /\ UNCHANGED listing
       \/ \E t \in NextTokens(listing[c].token) :
            /\ listing' = [listing EXCEPT ![c] = [WithPage(c, t) EXCEPT !.pages = 0]]
            /\ IF t = 0 THEN EndWith(c, "ok")
               ELSE IF t \in listing[c].seen THEN EndWith(c, "failed")
               ELSE GoTo(c, "page")
    /\ UNCHANGED <<serverVars, line, seen, infra, catalog>>

(* One round of the loop: the limit of platform roles, a page or an error, *)
(* the last page, a token that was there before.                           *)
FetchPage(c) ==
    /\ at[c] = "page"
    /\ IF Limited(c) /\ listing[c].pages = MaxListPages
       THEN EndWith(c, "failed") /\ UNCHANGED listing
       ELSE \/ EndWith(c, "failed") /\ UNCHANGED listing
            \/ \E t \in NextTokens(listing[c].token) :
                /\ listing' = [listing EXCEPT ![c] = WithPage(c, t)]
                /\ IF t = 0 THEN EndWith(c, "ok")
                   ELSE IF t \in listing[c].seen THEN EndWith(c, "failed")
                   ELSE GoTo(c, "page")
    /\ UNCHANGED <<serverVars, line, seen, infra, catalog>>

-----------------------------------------------------------------------------
Proceeds(c) ==
    \/ validateVersion(c) \/ buildPayloadFromConfigs(c) \/ CreateIAM(c) \/ CreateNetwork(c)
    \/ ReadFirst(c) \/ SendWrite(c) \/ Receive(c) \/ FetchPage(c)

Next ==
    \/ \E c \in Commands :
        \/ Start(c) \/ Proceeds(c) \/ GiveUp(c) \/ CleanUp(c) \/ Killed(c)
        \/ Serve(c) /\ UNCHANGED clientVars
    \/ \E k \in Kinds :
        /\ \/ version < MaxVersion /\ OthersWrite(k)
           \/ DeletionDone(k)
        /\ UNCHANGED clientVars

Spec == Init /\ [][Next]_vars

(* The program runs.  A read is answered or fails; a write may wait for    *)
(* ever, for no request has a timeout.                                     *)
FairSpec == Spec /\ \A c \in Commands : WF_vars(Proceeds(c))

-----------------------------------------------------------------------------
(* Success means that the write was carried out, and a definite failure of *)
(* a POST or PUT that it was not and never will be, although the server    *)
(* may handle a request after the client gave up on it (result.go:19-31:   *)
(* uncertain is what "may have taken effect").                             *)
VerdictsTrue ==
    \A c \in Commands :
        /\ verdict[c] = "ok" /\ line[c].name \notin Listings => c \in effect
        /\ verdict[c] = "failed" /\ CallOf(line[c].name).nonIdempotent
              => c \notin effect /\ ~InFlight(c)

(* Cleaning up after failed attempts never takes the resources of a        *)
(* cluster that exists, or comes to exist late, and no cluster is created  *)
(* before its resources are complete (create.go:242-254).                  *)
ClusterBacked ==
    LET o == store["clusters"] IN
    o.is # "none" /\ o.maker # "others" /\ line[o.maker].form = "setupInfra"
        => infra[o.maker] = [iam |-> "full", network |-> "full"]

(* No write brings back a field that the command did not mean: neither a   *)
(* role update, which sends the whole object it read, nor a merge patch,   *)
(* nor any of them on an object created anew meanwhile.                    *)
NoReversal ==
    [][\A k \in Kinds : store[k].is # "none" /\ store'[k].is # "none" =>
          \A f \in Fields : store'[k].fields[f] >= store[k].fields[f]]_vars

(* A listing that succeeds has every page of the catalog once, in order;   *)
(* a limit or a repeated token never passes for the end.                   *)
ListComplete ==
    \A c \in Commands :
        verdict[c] = "ok" /\ line[c].name \in Listings /\ catalog > 0
            => listing[c].items = [i \in 1 .. catalog |-> i - 1]

(* What may keep a command busy for ever: a write that is never answered,  *)
(* or roles and role bindings from a server that always has another token  *)
(* (access.go:60-88, 165-193: the loops have no limit).                    *)
Unanswered(c) == at[c] = "wait" /\ reply[c] = NoReply
Endless(c) ==
    at[c] = "page" /\ line[c].name \in {"list roles", "list rolebindings"}
        /\ NeverSent(listing[c].token)

(* Every command ends, unless from some time on it waits for the answer to *)
(* a write, or it gets such a token again and again.  Tokens that repeat   *)
(* do not keep it, and platform roles stop at their limit                  *)
(* (platformroles.go:45-52).                                               *)
CommandsEnd ==
    \A c \in Commands :
        at[c] # "idle" ~> at[c] = "end" \/ []Unanswered(c) \/ []<>Endless(c)
=============================================================================
