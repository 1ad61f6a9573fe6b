--------------------------- MODULE ClientSideProofs ---------------------------
(***************************************************************************)
(* Theorems about the parts between a command and its server, for any      *)
(* number of goroutines, logins, URLs, contexts and lengths: endpoint      *)
(* discovery, the traced bodies of requests and responses, and the         *)
(* kubeconfig file.  Each part has an inductive invariant of its own,      *)
(* which the steps of the other parts, on other variables, cannot disturb. *)
(***************************************************************************)
EXTENDS MCClientSide, TokenSourceProofs

-----------------------------------------------------------------------------
(* Endpoint discovery.                                                     *)

(* A manifest is fetched by who holds the mutex, for a URL without one.    *)
EndpointsInv ==
    /\ Endpoints!TypeOK /\ OneManifest
    /\ \A u \in URLs : fetched[u] > 0 => manifestsByURL[u] # Endpoints!Absent
    /\ \A l \in Lookers : look[l].at = "fetch" =>
          /\ cacheMutex = l /\ fetches > 0
          /\ manifestsByURL[look[l].url] = Endpoints!Absent

LEMMA EndpointsInit == Endpoints!Init => EndpointsInv
<1> SUFFICES ASSUME Endpoints!Init PROVE EndpointsInv
  OBVIOUS
<1> USE ManifestsAssumption, LookersAssumption
<1>1. PICK u \in URLs : look = [l \in Lookers |->
          [at |-> "out", url |-> u, given |-> {}, named |-> FALSE,
           manifest |-> Endpoints!Absent, result |-> Endpoints!Nothing]]
  BY DEF Endpoints!Init
<1>2. Endpoints!Nothing \in [Endpoints!Endpoints -> {"given", "manifest", "none"}]
  BY DEF Endpoints!Nothing
<1>3. look \in [Lookers -> Endpoints!Looks]
  BY <1>1, <1>2 DEF Endpoints!Looks, Endpoints!Places
<1>4. published \in [URLs -> Endpoints!Manifests]
  BY DEF Endpoints!Init
<1>5. Endpoints!TypeOK
  <2>1. fetches \in 0 .. MaxFetches /\ fetched \in [URLs -> 0 .. MaxFetches]
    BY DEF Endpoints!Init
  <2>2. manifestsByURL \in [URLs -> Endpoints!Manifests \cup {Endpoints!Absent}]
    BY DEF Endpoints!Init
  <2>3. cacheMutex = "nobody"
    BY DEF Endpoints!Init
  <2> QED
    BY <1>3, <1>4, <2>1, <2>2, <2>3 DEF Endpoints!TypeOK
<1>6. OneManifest
  BY <1>1 DEF Endpoints!Init, OneManifest, Endpoints!OneManifest
<1> QED
  BY <1>1, <1>5, <1>6 DEF Endpoints!Init, EndpointsInv

(* A step of l leaves what others look for, and what they got.             *)
LEMMA LookStep ==
  ASSUME EndpointsInv, NEW l \in Lookers, NEW new \in Endpoints!Looks,
         look' = [look EXCEPT ![l] = new],
         UNCHANGED <<published, cacheMutex, manifestsByURL, fetches, fetched>>,
         new.at # "fetch",
         new.manifest # Endpoints!Absent => new.manifest = manifestsByURL[new.url]
  PROVE  EndpointsInv'
<1>1. look'[l] = new /\ \A k \in Lookers \ {l} : look'[k] = look[k]
  BY DEF EndpointsInv, Endpoints!TypeOK
<1>2. Endpoints!TypeOK'
  BY DEF EndpointsInv, Endpoints!TypeOK
<1>3. OneManifest'
  BY <1>1 DEF EndpointsInv, OneManifest, Endpoints!OneManifest
<1> QED
  BY <1>1, <1>2, <1>3 DEF EndpointsInv

LEMMA EndpointsStep ==
  ASSUME EndpointsInv, [Endpoints!Next]_(Endpoints!vars) PROVE EndpointsInv'
<1> USE ManifestsAssumption
<1>1. ASSUME NEW u \in URLs, Endpoints!Publish(u) PROVE EndpointsInv'
  <2>1. published' \in [URLs -> Endpoints!Manifests]
    BY <1>1 DEF EndpointsInv, Endpoints!TypeOK, Endpoints!Publish
  <2> QED
    BY <1>1, <2>1 DEF EndpointsInv, Endpoints!TypeOK, OneManifest, Endpoints!OneManifest,
       Endpoints!Publish
<1>2. ASSUME NEW l \in Lookers, Endpoints!Region(l) PROVE EndpointsInv'
  <2>1. PICK u \in URLs, given \in SUBSET Endpoints!Endpoints, named \in BOOLEAN :
          look' = [look EXCEPT ![l] =
            [at |-> IF given = Endpoints!Endpoints \/ ~named THEN "ok" ELSE "lock",
             url |-> u, given |-> given, named |-> named, manifest |-> Endpoints!Absent,
             result |-> [e \in Endpoints!Endpoints |-> IF e \in given THEN "given" ELSE "none"]]]
    BY <1>2 DEF Endpoints!Region
  <2> DEFINE new ==
            [at |-> IF given = Endpoints!Endpoints \/ ~named THEN "ok" ELSE "lock",
             url |-> u, given |-> given, named |-> named, manifest |-> Endpoints!Absent,
             result |-> [e \in Endpoints!Endpoints |-> IF e \in given THEN "given" ELSE "none"]]
  <2>2. new \in Endpoints!Looks
    BY DEF Endpoints!Looks, Endpoints!Places
  <2>3. new.at # "fetch" /\ new.manifest = Endpoints!Absent /\ look' = [look EXCEPT ![l] = new]
    BY <2>1
  <2> HIDE DEF new
  <2> QED
    BY <1>2, <2>2, <2>3, LookStep DEF Endpoints!Region
<1>3. ASSUME NEW l \in Lookers, Endpoints!cachedManifest(l) PROVE EndpointsInv'
  <2>1. look[l] \in Endpoints!Looks /\ look[l].url \in URLs
    BY DEF EndpointsInv, Endpoints!TypeOK, Endpoints!Looks
  <2> DEFINE m == manifestsByURL[look[l].url]
  <2>2. CASE m # Endpoints!Absent
    <3>1. [look[l] EXCEPT !.at = "resolve", !.manifest = m] \in Endpoints!Looks
      BY <2>1 DEF EndpointsInv, Endpoints!TypeOK, Endpoints!Looks, Endpoints!Places
    <3>2. look' = [look EXCEPT ![l] = [look[l] EXCEPT !.at = "resolve", !.manifest = m]]
      BY <1>3, <2>2 DEF Endpoints!cachedManifest, EndpointsInv, Endpoints!TypeOK
    <3>3. UNCHANGED <<published, cacheMutex, manifestsByURL, fetches, fetched>>
      BY <1>3, <2>2 DEF Endpoints!cachedManifest
    <3>4. /\ [look[l] EXCEPT !.at = "resolve", !.manifest = m].at # "fetch"
          /\ [look[l] EXCEPT !.at = "resolve", !.manifest = m].manifest = m
          /\ [look[l] EXCEPT !.at = "resolve", !.manifest = m].url = look[l].url
      BY <2>1 DEF Endpoints!Looks
    <3> QED
      BY <3>1, <3>2, <3>3, <3>4, LookStep
  <2>3. CASE m = Endpoints!Absent
    <3>1. /\ look' = [look EXCEPT ![l] = [look[l] EXCEPT !.at = "fetch"]]
          /\ UNCHANGED <<published, manifestsByURL, fetched>>
          /\ cacheMutex = "nobody" /\ cacheMutex' = l
          /\ fetches < MaxFetches /\ fetches' = fetches + 1
      BY <1>3, <2>3 DEF Endpoints!cachedManifest, EndpointsInv, Endpoints!TypeOK
    <3>2. [look[l] EXCEPT !.at = "fetch"] \in Endpoints!Looks
      BY <2>1 DEF Endpoints!Looks, Endpoints!Places
    <3>3. /\ look'[l].at = "fetch" /\ look'[l].url = look[l].url
          /\ look'[l].manifest = look[l].manifest
          /\ \A k \in Lookers \ {l} : look'[k] = look[k] /\ look[k].at # "fetch"
      BY <2>1, <3>1, LookersAssumption DEF EndpointsInv, Endpoints!TypeOK, Endpoints!Looks
    <3>4. fetches \in Nat /\ fetches' \in 0 .. MaxFetches /\ fetches' > 0
      BY <3>1 DEF EndpointsInv, Endpoints!TypeOK
    <3>5. Endpoints!TypeOK'
      BY <3>1, <3>2, <3>4 DEF EndpointsInv, Endpoints!TypeOK
    <3>6. OneManifest'
      BY <3>1, <3>3 DEF EndpointsInv, OneManifest, Endpoints!OneManifest
    <3> QED
      BY <2>3, <3>1, <3>3, <3>4, <3>5, <3>6 DEF EndpointsInv
  <2> QED
    BY <2>2, <2>3
<1>4. ASSUME NEW l \in Lookers, Endpoints!Fetch(l) PROVE EndpointsInv'
  <2> DEFINE u == look[l].url
  <2>1. look[l] \in Endpoints!Looks /\ u \in URLs /\ look[l].at = "fetch"
    BY <1>4 DEF EndpointsInv, Endpoints!TypeOK, Endpoints!Looks, Endpoints!Fetch
  <2>2. /\ published[u].valid /\ published[u] \in Endpoints!Manifests
        /\ manifestsByURL' = [manifestsByURL EXCEPT ![u] = published[u]]
        /\ fetched' = [fetched EXCEPT ![u] = @ + 1]
        /\ look' = [look EXCEPT ![l] = [look[l] EXCEPT !.at = "resolve", !.manifest = published[u]]]
        /\ cacheMutex' = "nobody" /\ UNCHANGED <<published, fetches>>
    BY <1>4, <2>1 DEF Endpoints!Fetch, EndpointsInv, Endpoints!TypeOK
  <2>3. published[u] # Endpoints!Absent
    BY <2>2 DEF Endpoints!Absent
  <2>4. cacheMutex = l /\ fetches > 0 /\ manifestsByURL[u] = Endpoints!Absent
    BY <2>1 DEF EndpointsInv
  <2>5. fetched[u] = 0
    BY <2>1, <2>4 DEF EndpointsInv, Endpoints!TypeOK
  <2>6. /\ look'[l].at = "resolve" /\ look'[l].url = u /\ look'[l].manifest = published[u]
        /\ \A k \in Lookers \ {l} : look'[k] = look[k] /\ look[k].at # "fetch"
    BY <2>1, <2>2, <2>4 DEF EndpointsInv, Endpoints!TypeOK, Endpoints!Looks
  <2>7. /\ manifestsByURL'[u] = published[u] /\ fetched'[u] = 1
        /\ \A v \in URLs \ {u} : manifestsByURL'[v] = manifestsByURL[v] /\ fetched'[v] = fetched[v]
    BY <2>1, <2>2, <2>5 DEF EndpointsInv, Endpoints!TypeOK
  <2>8. [look[l] EXCEPT !.at = "resolve", !.manifest = published[u]] \in Endpoints!Looks
    BY <2>1, <2>2 DEF Endpoints!Looks, Endpoints!Places
  <2>9. Endpoints!TypeOK'
    <3>1. 1 \in 0 .. MaxFetches
      BY <2>4 DEF EndpointsInv, Endpoints!TypeOK
    <3>2. fetched' \in [URLs -> 0 .. MaxFetches]
      <4>1. fetched' = [fetched EXCEPT ![u] = 1]
        BY <2>2, <2>5
      <4> HIDE DEF u
      <4> QED
        BY <3>1, <4>1 DEF EndpointsInv, Endpoints!TypeOK
    <3>3. look' \in [Lookers -> Endpoints!Looks]
      BY <2>2, <2>8 DEF EndpointsInv, Endpoints!TypeOK
    <3>4. manifestsByURL' \in [URLs -> Endpoints!Manifests \cup {Endpoints!Absent}]
      BY <2>2 DEF EndpointsInv, Endpoints!TypeOK
    <3> QED
      BY <2>2, <3>2, <3>3, <3>4 DEF EndpointsInv, Endpoints!TypeOK
  <2> HIDE DEF u
  <2>10. \A k \in Lookers : look[k].url \in URLs /\ look'[k].url \in URLs
    BY <2>9 DEF EndpointsInv, Endpoints!TypeOK, Endpoints!Looks
  <2>11. OneManifest'
    <3>1. \A v \in URLs : fetched'[v] <= 1
      BY <2>7 DEF EndpointsInv, OneManifest, Endpoints!OneManifest
    <3>2. \A v \in URLs : manifestsByURL'[v] # Endpoints!Absent => manifestsByURL'[v].valid
      BY <2>2, <2>7 DEF EndpointsInv, OneManifest, Endpoints!OneManifest
    <3>3. ASSUME NEW k \in Lookers, look'[k].manifest # Endpoints!Absent
          PROVE  look'[k].manifest = manifestsByURL'[look'[k].url]
      <4>1. CASE k = l
        BY <2>6, <2>7, <4>1
      <4>2. CASE k # l
        <5>1. look[k].manifest = manifestsByURL[look[k].url]
          BY <2>6, <3>3, <4>2 DEF EndpointsInv, OneManifest, Endpoints!OneManifest
        <5>2. look[k].url # u
          BY <2>4, <2>6, <3>3, <4>2, <5>1
        <5> QED
          BY <2>6, <2>7, <2>10, <4>2, <5>1, <5>2
      <4> QED
        BY <4>1, <4>2
    <3> QED
      BY <3>1, <3>2, <3>3 DEF OneManifest, Endpoints!OneManifest
  <2> QED
    BY <2>3, <2>6, <2>7, <2>9, <2>11 DEF EndpointsInv
<1>5. ASSUME NEW l \in Lookers, Endpoints!FetchFails(l) PROVE EndpointsInv'
  <2>1. look[l] \in Endpoints!Looks /\ look[l].at = "fetch" /\ cacheMutex = l
    BY <1>5 DEF EndpointsInv, Endpoints!TypeOK, Endpoints!FetchFails
  <2>2. /\ look' = [look EXCEPT ![l] = [look[l] EXCEPT !.at = "error"]]
        /\ cacheMutex' = "nobody" /\ UNCHANGED <<published, manifestsByURL, fetches, fetched>>
    BY <1>5 DEF EndpointsInv, Endpoints!TypeOK, Endpoints!FetchFails
  <2>3. [look[l] EXCEPT !.at = "error"] \in Endpoints!Looks
    BY <2>1 DEF Endpoints!Looks, Endpoints!Places
  <2>4. /\ look'[l].at = "error" /\ look'[l].url = look[l].url
        /\ look'[l].manifest = look[l].manifest
        /\ \A k \in Lookers \ {l} : look'[k] = look[k] /\ look[k].at # "fetch"
    BY <2>1, <2>2 DEF EndpointsInv, Endpoints!TypeOK, Endpoints!Looks
  <2>5. Endpoints!TypeOK'
    BY <2>2, <2>3 DEF EndpointsInv, Endpoints!TypeOK
  <2>6. OneManifest'
    BY <2>2, <2>4 DEF EndpointsInv, OneManifest, Endpoints!OneManifest
  <2> QED
    BY <2>2, <2>4, <2>5, <2>6 DEF EndpointsInv
<1>6. ASSUME NEW l \in Lookers, Endpoints!Resolve(l) \/ Endpoints!Again(l) PROVE EndpointsInv'
  <2>1. look[l] \in Endpoints!Looks /\ look[l].result \in [Endpoints!Endpoints -> {"given", "manifest", "none"}]
    BY DEF EndpointsInv, Endpoints!TypeOK, Endpoints!Looks
  <2>2. UNCHANGED <<published, cacheMutex, manifestsByURL, fetches, fetched>>
    BY <1>6 DEF Endpoints!Resolve, Endpoints!Again
  <2>3. CASE Endpoints!Resolve(l)
    <3> DEFINE at == IF look[l].manifest.region THEN "ok" ELSE "error"
               result == [e \in Endpoints!Endpoints |->
                   IF look[l].result[e] = "none" /\ e \in look[l].manifest.has THEN "manifest"
                   ELSE look[l].result[e]]
               new == [look[l] EXCEPT !.at = at, !.result = result]
    <3>1. at \in {"ok", "error"} /\ result \in [Endpoints!Endpoints -> {"given", "manifest", "none"}]
      BY <2>1
    <3>2. look' = [look EXCEPT ![l] = new]
      BY <2>3 DEF Endpoints!Resolve, EndpointsInv, Endpoints!TypeOK
    <3> HIDE DEF at, result
    <3>3. new \in Endpoints!Looks /\ new.at # "fetch" /\ new.manifest = look[l].manifest
          /\ new.url = look[l].url
      BY <2>1, <3>1 DEF Endpoints!Looks, Endpoints!Places
    <3> HIDE DEF new
    <3> QED
      BY <2>2, <3>2, <3>3, LookStep DEF EndpointsInv, OneManifest, Endpoints!OneManifest
  <2>4. CASE Endpoints!Again(l)
    <3> DEFINE new == [look[l] EXCEPT !.at = "out", !.given = {}, !.named = FALSE,
                          !.manifest = Endpoints!Absent, !.result = Endpoints!Nothing]
    <3>1. look' = [look EXCEPT ![l] = new]
      BY <2>4 DEF Endpoints!Again, EndpointsInv, Endpoints!TypeOK
    <3>2. Endpoints!Nothing \in [Endpoints!Endpoints -> {"given", "manifest", "none"}]
      BY DEF Endpoints!Nothing
    <3>3. new \in Endpoints!Looks /\ new.at # "fetch" /\ new.manifest = Endpoints!Absent
      BY <2>1, <3>2 DEF Endpoints!Looks, Endpoints!Places
    <3> HIDE DEF new
    <3> QED
      BY <2>2, <3>1, <3>3, LookStep
  <2> QED
    BY <1>6, <2>3, <2>4
<1>7. CASE UNCHANGED Endpoints!vars
  BY <1>7 DEF Endpoints!vars, EndpointsInv, Endpoints!TypeOK, OneManifest, Endpoints!OneManifest
<1> QED
  BY <1>1, <1>2, <1>3, <1>4, <1>5, <1>6, <1>7 DEF Endpoints!Next

-----------------------------------------------------------------------------
(* The body of a traced request.                                           *)

(* The copy is closed by who found nobody closing it, and before the       *)
(* worker is done.                                                         *)
RequestInv ==
    /\ Request!TypeOK /\ Request!ClosedOnce
    /\ copy.closing => copy.closes = 1
    /\ ~copy.closing => copy.closes = 0
    /\ request.at = "check" => worker.at = "idle"
    /\ worker.at \in {"idle", "getBody"} => copy.is = "none" /\ hook = "none"
    /\ worker.at = "closing" => copy.closing
    /\ hook = "closing" => copy.closing
    /\ worker.at = "done" /\ copy.is # "none" => copy.closing

LEMMA RequestInit == Request!Init \/ NoRequest => RequestInv
<1> SUFFICES ASSUME Request!Init \/ NoRequest PROVE RequestInv
  OBVIOUS
<1>1. cancelled \in BOOLEAN
  BY DEF Request!Init, NoRequest
<1>2. Request!TypeOK
  <2>1. copy = [is |-> "none", closing |-> FALSE, closes |-> 0]
    BY DEF Request!Init, NoRequest
  <2>2. copy \in [is : {"none", "open", "closed"}, closing : BOOLEAN, closes : 0 .. 2]
    BY <2>1
  <2>3. worker = [at |-> "idle", outcome |-> "none"] /\ hook = "none"
        /\ request \in [at : {"check", "sending"}, shown : {"none"}]
    BY DEF Request!Init, NoRequest
  <2> QED
    BY <1>1, <2>2, <2>3 DEF Request!TypeOK, Request!Outcomes
<1>3. /\ request.at \in {"check", "sending"} /\ request.shown = "none" /\ worker.at = "idle"
      /\ hook = "none" /\ copy.is = "none" /\ ~copy.closing /\ copy.closes = 0
  BY DEF Request!Init, NoRequest
<1> QED
  BY <1>2, <1>3 DEF RequestInv, Request!ClosedOnce

LEMMA CloseBegins ==
  ASSUME NEW c \in [is : {"none", "open", "closed"}, closing : BOOLEAN, closes : 0 .. 2]
  PROVE  [c EXCEPT !.closing = TRUE, !.closes = 1]
             \in [is : {"none", "open", "closed"}, closing : BOOLEAN, closes : 0 .. 2]
<1>1. 1 \in 0 .. 2
  OBVIOUS
<1> QED
  BY <1>1

LEMMA RequestStep ==
  ASSUME RequestInv, [Request!Next]_(Request!vars) PROVE RequestInv'
<1> USE DEF RequestInv, Request!ClosedOnce, Request!TypeOK, Request!Outcomes
<1>1. CASE (Request!Cancel \/ UNCHANGED Request!vars)
  <2>1. UNCHANGED <<request, worker, hook, copy>>
    BY <1>1 DEF Request!Cancel, Request!vars
  <2>2. cancelled' \in BOOLEAN
    BY <1>1 DEF Request!Cancel, Request!vars
  <2> QED
    BY <2>1, <2>2
<1>2. CASE Request!requestBody
  <2>1. CASE cancelled
    BY <1>2, <2>1 DEF Request!requestBody, Request!Show
  <2>2. CASE ~cancelled
    <3>1. /\ request'.at = "select" /\ request'.shown = request.shown
          /\ request' \in [at : {"select"}, shown : Request!Outcomes]
      BY <1>2, <2>2 DEF Request!requestBody
    <3>2. worker' = [at |-> "getBody", outcome |-> worker.outcome]
      BY <1>2, <2>2 DEF Request!requestBody
    <3> QED
      BY <1>2, <2>2, <3>1, <3>2 DEF Request!requestBody
  <2> QED
    BY <2>1, <2>2
<1>3. CASE Request!Select
  BY <1>3 DEF Request!Select, Request!Show
<1>11. CASE Request!RoundTrip
  BY <1>11 DEF Request!RoundTrip
<1>4. CASE Request!GetBody
  <2>1. CASE UNCHANGED <<hook, copy>>
    BY <1>4, <2>1 DEF Request!GetBody, Request!WorkerAt
  <2>2. CASE copy' = [copy EXCEPT !.is = "open"]
    <3>1. copy' = [is |-> "open", closing |-> copy.closing, closes |-> copy.closes]
      BY <2>2
    <3> QED
      BY <1>4, <3>1 DEF Request!GetBody, Request!WorkerAt
  <2> QED
    BY <1>4, <2>1, <2>2 DEF Request!GetBody
<1>5. CASE Request!CheckAgain \/ Request!ReadCopy
  BY <1>5 DEF Request!CheckAgain, Request!ReadCopy, Request!WorkerAt
<1>6. CASE Request!CloseByWorker
  <2>1. ~copy.closing => copy' = [copy EXCEPT !.closing = TRUE, !.closes = 1]
    <3> SUFFICES ASSUME ~copy.closing PROVE copy' = [copy EXCEPT !.closing = TRUE, !.closes = 1]
      OBVIOUS
    <3>1. copy.closes + 1 = 1
      OBVIOUS
    <3>2. copy' = [copy EXCEPT !.closing = TRUE, !.closes = copy.closes + 1]
      BY <1>6, Zenon DEF Request!CloseByWorker
    <3> QED
      BY <3>1, <3>2, Zenon
  <2>2. ~copy.closing => copy' \in [is : {"none", "open", "closed"}, closing : BOOLEAN, closes : 0 .. 2]
    BY <2>1, CloseBegins
  <2>3. ~copy.closing => copy'.is = copy.is /\ copy'.closing = TRUE /\ copy'.closes = 1
    BY <2>1
  <2> QED
    BY <1>6, <2>2, <2>3 DEF Request!CloseByWorker, Request!WorkerAt
<1>7. CASE Request!WorkerClosed
  <2>1. copy' = [is |-> "closed", closing |-> copy.closing, closes |-> copy.closes]
    BY <1>7 DEF Request!WorkerClosed
  <2> QED
    BY <1>7, <2>1 DEF Request!WorkerClosed, Request!WorkerAt
<1>8. CASE Request!HookRuns
  BY <1>8 DEF Request!HookRuns
<1>9. CASE Request!CloseByHook
  <2>1. ~copy.closing => copy' = [copy EXCEPT !.closing = TRUE, !.closes = 1]
    <3> SUFFICES ASSUME ~copy.closing PROVE copy' = [copy EXCEPT !.closing = TRUE, !.closes = 1]
      OBVIOUS
    <3>1. copy.closes + 1 = 1
      OBVIOUS
    <3>2. copy' = [copy EXCEPT !.closing = TRUE, !.closes = copy.closes + 1]
      BY <1>9, Zenon DEF Request!CloseByHook
    <3> QED
      BY <3>1, <3>2, Zenon
  <2>2. ~copy.closing => copy' \in [is : {"none", "open", "closed"}, closing : BOOLEAN, closes : 0 .. 2]
    BY <2>1, CloseBegins
  <2>3. ~copy.closing => copy'.is = copy.is /\ copy'.closing = TRUE /\ copy'.closes = 1
    BY <2>1
  <2> QED
    BY <1>9, <2>2, <2>3 DEF Request!CloseByHook
<1>10. CASE Request!HookClosed
  <2>1. copy' = [is |-> "closed", closing |-> copy.closing, closes |-> copy.closes]
    BY <1>10 DEF Request!HookClosed
  <2> QED
    BY <1>10, <2>1 DEF Request!HookClosed
<1> QED
  BY <1>1, <1>2, <1>3, <1>4, <1>5, <1>6, <1>7, <1>8, <1>9, <1>10, <1>11 DEF Request!Next

-----------------------------------------------------------------------------
(* The body of a traced response.                                          *)

(* What was delivered is counted, all of it but what the reader has in     *)
(* hand, as long as the body is not done with.                             *)
InHandOf(r) == IF r.at = "section" THEN r.n ELSE 0
Counted ==
    /\ source.read <= source.length
    /\ observed.total + InHandOf(reader) <= source.read
    /\ ~observed.done =>
          /\ observed.total + InHandOf(reader) = source.read
          /\ observed.data = observed.total /\ observed.total <= captureLimit
    /\ reader.at = "section" /\ reader.err = "EOF" => source.read = source.length

(* One message, of who found the body not done with: about to be logged,   *)
(* or logged.                                                              *)
Right(m) == m.printed => m.kept = source.length
OneSpeaks ==
    /\ ~observed.done => logged = {} /\ reader.at # "log" /\ \A k \in Closers : closer[k].at # "log"
    /\ logged # {} => reader.at # "log" /\ \A k \in Closers : closer[k].at # "log"
    /\ reader.at = "log" => \A k \in Closers : closer[k].at # "log"
    /\ \A j, k \in Closers : closer[j].at = "log" /\ closer[k].at = "log" => j = k
    /\ reader.at = "log" => Right(reader.message)
    /\ \A k \in Closers : closer[k].at = "log" => Right(closer[k].message)

ResponseInv == Response!TypeOK /\ Counted /\ OneSpeaks /\ Response!PrintedWhole

LEMMA LongestBody ==
  /\ captureLimit \in Nat /\ Response!MaxLength \in Nat
  /\ \A n \in Lengths : n \in Nat /\ n <= Response!MaxLength
<1>1. Response!MaxLength \in Lengths /\ \A k \in Lengths : k <= Response!MaxLength
  BY LengthsAssumption DEF Response!MaxLength
<1> QED
  BY <1>1, LengthsAssumption

LEMMA ResponseInit == Response!Init => ResponseInv
<1> SUFFICES ASSUME Response!Init PROVE ResponseInv
  OBVIOUS
<1> USE LongestBody DEF Response!Init
<1>1. source.length \in Nat /\ source.read = 0 /\ observed.total = 0 /\ observed.data = 0
  OBVIOUS
<1>2. Response!None \in Response!Messages
  BY DEF Response!None, Response!Messages
<1>3. Response!TypeOK
  <2>1. source \in [length : Lengths, read : 0 .. Response!MaxLength, is : {"open", "failed", "closed"}]
    OBVIOUS
  <2>2. observed \in [expected : {"known", "unknown"}, total : 0 .. Response!MaxLength,
                      data : 0 .. captureLimit, done : BOOLEAN]
    <3>1. PICK x \in {"known", "unknown"} :
              observed = [expected |-> x, total |-> 0, data |-> 0, done |-> FALSE]
      OBVIOUS
    <3> QED
      BY <3>1
  <2>3. reader \in [at : {"idle", "reading", "section", "log", "over"}, n : 0 .. Response!MaxLength,
                    err : {"nil", "EOF", "error"}, message : Response!Messages]
    BY <1>2
  <2> QED
    BY <1>2, <2>1, <2>2, <2>3 DEF Response!TypeOK
<1>4. Counted
  BY <1>1 DEF Counted, InHandOf
<1>5. OneSpeaks /\ Response!PrintedWhole
  BY DEF OneSpeaks, Response!PrintedWhole
<1> QED
  BY <1>3, <1>4, <1>5 DEF ResponseInv

(* What is known of the numbers and places.                                *)
LEMMA ResponseNumbers ==
  ASSUME Response!TypeOK
  PROVE  /\ source.read \in Nat /\ source.length \in Nat /\ source.length <= Response!MaxLength
         /\ observed.total \in Nat /\ observed.data \in Nat /\ reader.n \in Nat
         /\ observed.done \in BOOLEAN
  BY LongestBody DEF Response!TypeOK

LEMMA FinishTypes ==
  ASSUME Response!TypeOK, NEW complete \in BOOLEAN, NEW data \in 0 .. Response!MaxLength
  PROVE  /\ Response!Finish(complete, data) \in Response!Messages
         /\ Response!Finish(complete, data).printed = complete
         /\ complete => Response!Finish(complete, data).kept = data
  BY LongestBody DEF Response!Finish, Response!Messages

Readers == [at : {"idle", "reading", "section", "log", "over"}, n : 0 .. Response!MaxLength,
            err : {"nil", "EOF", "error"}, message : Response!Messages]
Observations == [expected : {"known", "unknown"}, total : 0 .. Response!MaxLength,
                 data : 0 .. captureLimit, done : BOOLEAN]
Closings == [at : {"idle", "closing", "section", "log", "over"}, err : BOOLEAN,
             message : Response!Messages]

(* The reader is about to log, or just returns.                            *)
LEMMA ReaderMoves ==
  ASSUME Response!TypeOK
  PROVE  /\ \A place \in {"idle", "reading", "over"} :
              /\ [reader EXCEPT !.at = place] \in Readers
              /\ [reader EXCEPT !.at = place].at = place
         /\ \A m \in Response!Messages :
              /\ [reader EXCEPT !.at = "log", !.message = m] \in Readers
              /\ [reader EXCEPT !.at = "log", !.message = m].at = "log"
              /\ [reader EXCEPT !.at = "log", !.message = m].message = m
  BY DEF Response!TypeOK, Readers

(* One goroutine finishes the body: nobody has spoken, and now it will.    *)
LEMMA ObservedEnds ==
  ASSUME Response!TypeOK, NEW total \in 0 .. Response!MaxLength
  PROVE  /\ [observed EXCEPT !.data = 0, !.done = TRUE, !.total = total] \in Observations
         /\ [observed EXCEPT !.data = 0, !.done = TRUE, !.total = total].done = TRUE
         /\ [observed EXCEPT !.data = 0, !.done = TRUE, !.total = total].total = total
         /\ [observed EXCEPT !.data = 0, !.done = TRUE] \in Observations
         /\ [observed EXCEPT !.data = 0, !.done = TRUE].done = TRUE
         /\ [observed EXCEPT !.data = 0, !.done = TRUE].total = observed.total
<1>1. 0 \in 0 .. captureLimit
  BY LongestBody
<1> QED
  BY <1>1 DEF Response!TypeOK, Observations

LEMMA CloserMoves ==
  ASSUME Response!TypeOK, NEW k \in Closers
  PROVE  /\ \A place \in {"idle", "closing", "section", "over"} :
              /\ [closer[k] EXCEPT !.at = place] \in Closings
              /\ [closer[k] EXCEPT !.at = place].at = place
         /\ \A err \in BOOLEAN :
              /\ [closer[k] EXCEPT !.at = "section", !.err = err] \in Closings
              /\ [closer[k] EXCEPT !.at = "section", !.err = err].at = "section"
         /\ \A m \in Response!Messages :
              /\ [closer[k] EXCEPT !.at = "log", !.message = m] \in Closings
              /\ [closer[k] EXCEPT !.at = "log", !.message = m].at = "log"
              /\ [closer[k] EXCEPT !.at = "log", !.message = m].message = m
<1>1. closer[k] \in Closings
  BY DEF Response!TypeOK, Closings
<1> QED
  BY <1>1 DEF Closings

LEMMA ReaderSteps ==
  ASSUME ResponseInv,
         Response!Read \/ Response!ReadReturns \/ Response!ReadLogs \/ Response!ReaderStops
  PROVE  ResponseInv'
<1>1. Response!TypeOK /\ Counted /\ OneSpeaks /\ Response!PrintedWhole /\ reader \in Readers
  BY DEF ResponseInv, Response!TypeOK, Readers
<1>2. CASE Response!Read \/ Response!ReaderStops
  <2>1. PICK place \in {"reading", "over"} :
            reader' = [reader EXCEPT !.at = place] /\ reader.at = "idle"
            /\ UNCHANGED <<source, observed, closer, logged>>
    BY <1>2 DEF Response!Read, Response!ReaderStops
  <2>2. reader' \in Readers /\ reader'.at = place
    BY <1>1, <2>1, ReaderMoves
  <2>3. Response!TypeOK'
    BY <1>1, <2>1, <2>2 DEF Response!TypeOK, Readers
  <2>4. Counted'
    BY <1>1, <2>1, <2>2 DEF Counted, InHandOf
  <2>5. OneSpeaks' /\ Response!PrintedWhole'
    BY <1>1, <2>1, <2>2 DEF OneSpeaks, Right, Response!PrintedWhole
  <2> QED
    BY <2>3, <2>4, <2>5 DEF ResponseInv
<1>3. CASE Response!ReadReturns
  <2>1. reader.at = "reading" /\ UNCHANGED <<observed, closer, logged>>
    BY <1>3 DEF Response!ReadReturns
  <2>2. PICK n \in 0 .. (source.length - source.read), err \in {"nil", "EOF", "error"} :
            /\ err = "EOF" => source.read + n = source.length
            /\ source' = [source EXCEPT !.read = @ + n,
                              !.is = IF err = "error" /\ @ = "open" THEN "failed" ELSE @]
            /\ reader' = [reader EXCEPT !.at = "section", !.n = n, !.err = err]
    BY <1>3 DEF Response!ReadReturns
  <2>3. /\ source.read \in Nat /\ source.length \in Nat /\ source.length <= Response!MaxLength
        /\ observed.total \in Nat /\ Response!MaxLength \in Nat
        /\ source.read <= source.length
    BY <1>1, ResponseNumbers, LongestBody DEF Counted
  <2>4. n \in Nat /\ source.read + n <= source.length /\ source.read + n \in 0 .. Response!MaxLength
        /\ n \in 0 .. Response!MaxLength
    BY <2>3
  <2>5. /\ source' \in [length : Lengths, read : 0 .. Response!MaxLength, is : {"open", "failed", "closed"}]
        /\ source'.read = source.read + n /\ source'.length = source.length
    BY <1>1, <2>2, <2>4 DEF Response!TypeOK
  <2>6. reader' \in Readers /\ reader'.at = "section" /\ reader'.n = n /\ reader'.err = err
    BY <1>1, <2>2, <2>4 DEF Readers
  <2>7. Response!TypeOK'
    BY <1>1, <2>1, <2>5, <2>6 DEF Response!TypeOK, Readers
  <2>8. observed.total <= source.read
        /\ (~observed.done => observed.total = source.read /\ observed.data = observed.total
                              /\ observed.total <= captureLimit)
    BY <1>1, <2>1, <2>3 DEF Counted, InHandOf
  <2>9. Counted'
    BY <2>1, <2>2, <2>3, <2>4, <2>5, <2>6, <2>8 DEF Counted, InHandOf
  <2>10. OneSpeaks' /\ Response!PrintedWhole'
    BY <1>1, <2>1, <2>5, <2>6 DEF OneSpeaks, Right, Response!PrintedWhole
  <2> QED
    BY <2>7, <2>9, <2>10 DEF ResponseInv
<1>4. CASE Response!ReadLogs
  <2>1. PICK place \in {"idle", "over"} : reader' = [reader EXCEPT !.at = place]
    BY <1>4 DEF Response!ReadLogs, Response!AfterRead
  <2>2. /\ reader.at = "log" /\ UNCHANGED <<source, observed, closer>>
        /\ logged' = logged \cup {[by |-> "reader", message |-> reader.message]}
    BY <1>4 DEF Response!ReadLogs
  <2>3. reader' \in Readers /\ reader'.at = place
    BY <1>1, <2>1, ReaderMoves
  <2>4. Response!TypeOK'
    <3>1. logged' \subseteq [by : {"reader"} \cup Closers, message : Response!Messages]
      BY <1>1, <2>2 DEF Response!TypeOK, Readers
    <3> QED
      BY <1>1, <2>2, <2>3, <3>1 DEF Response!TypeOK, Readers
  <2>5. Counted'
    BY <1>1, <2>2, <2>3 DEF Counted, InHandOf
  <2>6. logged = {} /\ observed.done /\ Right(reader.message)
        /\ \A k \in Closers : closer[k].at # "log"
    BY <1>1, <2>2 DEF OneSpeaks
  <2>7. OneSpeaks'
    BY <1>1, <2>2, <2>3, <2>6 DEF OneSpeaks
  <2>8. Response!PrintedWhole'
    BY <2>2, <2>6 DEF Response!PrintedWhole, Right
  <2> QED
    BY <2>4, <2>5, <2>7, <2>8 DEF ResponseInv
<1> QED
  BY <1>2, <1>3, <1>4

(* Who finds the body not done with, and finishes it.                      *)
LEMMA ReadSectionStep == ASSUME ResponseInv, Response!ReadSection PROVE ResponseInv'
<1>1. Response!TypeOK /\ Counted /\ OneSpeaks /\ Response!PrintedWhole /\ reader \in Readers
      /\ reader.at = "section" /\ UNCHANGED <<source, closer, logged>>
  BY DEF ResponseInv, Response!TypeOK, Readers, Response!ReadSection
<1> DEFINE total == observed.total + reader.n
<1>2. /\ observed.total \in Nat /\ reader.n \in Nat /\ source.read \in Nat /\ captureLimit \in Nat
      /\ source.length \in Nat /\ source.length <= Response!MaxLength /\ Response!MaxLength \in Nat
      /\ observed.done \in BOOLEAN
  BY <1>1, ResponseNumbers, LongestBody
<1>3. /\ total <= source.read /\ source.read <= source.length
      /\ ~observed.done => total = source.read /\ observed.data = observed.total
      /\ reader.err = "EOF" => source.read = source.length
  BY <1>1 DEF Counted, InHandOf
<1>4. total \in 0 .. Response!MaxLength
  BY <1>2, <1>3
<1>5. CASE observed.done
  <2>1. PICK place \in {"idle", "over"} : reader' = [reader EXCEPT !.at = place]
    BY <1>5 DEF Response!ReadSection, Response!AfterRead
  <2>2. UNCHANGED observed
    BY <1>5 DEF Response!ReadSection
  <2>3. reader' \in Readers /\ reader'.at = place
    BY <1>1, <2>1, ReaderMoves
  <2>4. Response!TypeOK'
    BY <1>1, <2>2, <2>3 DEF Response!TypeOK, Readers
  <2>5. Counted'
    BY <1>1, <1>2, <1>3, <1>5, <2>2, <2>3 DEF Counted, InHandOf
  <2>6. OneSpeaks' /\ Response!PrintedWhole'
    BY <1>1, <2>2, <2>3 DEF OneSpeaks, Right, Response!PrintedWhole
  <2> QED
    BY <2>4, <2>5, <2>6 DEF ResponseInv
<1>6. CASE ~observed.done /\ total <= captureLimit /\ reader.err = "nil"
  <2>1. /\ observed' = [observed EXCEPT !.total = total, !.data = total]
        /\ reader' = [reader EXCEPT !.at = "idle"]
    BY <1>2, <1>6 DEF Response!ReadSection
  <2>2. reader' \in Readers /\ reader'.at = "idle"
    BY <1>1, <2>1, ReaderMoves
  <2>3. total \in 0 .. captureLimit
    BY <1>2, <1>6
  <2> HIDE DEF total
  <2>4. observed' \in Observations
    BY <1>1, <1>4, <2>1, <2>3 DEF Response!TypeOK, Observations
  <2>5. observed'.total = total /\ observed'.data = total /\ observed'.done = observed.done
    BY <1>1, <2>1 DEF Response!TypeOK
  <2>6. Response!TypeOK'
    BY <1>1, <2>2, <2>4 DEF Response!TypeOK, Readers, Observations
  <2>7. Counted'
    BY <1>1, <1>2, <1>3, <1>4, <1>6, <2>2, <2>5 DEF Counted, InHandOf
  <2>8. OneSpeaks' /\ Response!PrintedWhole'
    BY <1>1, <1>6, <2>2, <2>5 DEF OneSpeaks, Right, Response!PrintedWhole
  <2> QED
    BY <2>6, <2>7, <2>8 DEF ResponseInv
<1>7. CASE ~observed.done /\ ~(total <= captureLimit /\ reader.err = "nil")
  <2>1. PICK m \in Response!Messages :
            /\ observed' = [observed EXCEPT !.data = 0, !.done = TRUE, !.total = total]
            /\ reader' = [reader EXCEPT !.at = "log", !.message = m]
            /\ Right(m)
    <3>1. CASE total > captureLimit
      <4>1. Response!Finish(FALSE, 0) \in Response!Messages /\ Right(Response!Finish(FALSE, 0))
        <5>1. 0 \in 0 .. Response!MaxLength
          BY <1>2
        <5>2. /\ Response!Finish(FALSE, 0) \in Response!Messages
              /\ Response!Finish(FALSE, 0).printed = FALSE
          BY <1>1, <5>1, FinishTypes
        <5> QED
          BY <5>2 DEF Right
      <4> QED
        BY <1>7, <3>1, <4>1 DEF Response!ReadSection, Response!Finished
    <3>2. CASE ~(total > captureLimit)
      <4> DEFINE m == Response!Finish(reader.err = "EOF", total)
      <4>1. m \in Response!Messages /\ m.printed = (reader.err = "EOF")
            /\ (reader.err = "EOF" => m.kept = total)
        BY <1>1, <1>4, FinishTypes
      <4>2. Right(m)
        BY <1>3, <1>7, <4>1 DEF Right
      <4>3. /\ observed' = [observed EXCEPT !.data = 0, !.done = TRUE, !.total = total]
            /\ reader' = [reader EXCEPT !.at = "log", !.message = m]
        BY <1>2, <1>7, <3>2 DEF Response!ReadSection, Response!Finished
      <4> QED
        BY <4>1, <4>2, <4>3
    <3> QED
      BY <3>1, <3>2
  <2> HIDE DEF total
  <2>2. observed' \in Observations /\ observed'.done = TRUE /\ observed'.total = total
    BY <1>1, <1>4, <2>1, ObservedEnds
  <2>3. reader' \in Readers /\ reader'.at = "log" /\ reader'.message = m
    BY <1>1, <2>1, ReaderMoves
  <2>4. Response!TypeOK'
    BY <1>1, <2>2, <2>3 DEF Response!TypeOK, Readers, Observations
  <2>5. Counted'
    BY <1>1, <1>2, <1>3, <1>4, <2>2, <2>3 DEF Counted, InHandOf
  <2>6. OneSpeaks' /\ Response!PrintedWhole'
    BY <1>1, <1>7, <2>1, <2>2, <2>3 DEF OneSpeaks, Right, Response!PrintedWhole
  <2> QED
    BY <2>4, <2>5, <2>6 DEF ResponseInv
<1> QED
  BY <1>2, <1>5, <1>6, <1>7

LEMMA CloserSteps ==
  ASSUME ResponseInv, NEW k \in Closers,
         Response!Close(k) \/ Response!CloseReturns(k) \/ Response!CloseSection(k)
             \/ Response!CloseLogs(k)
  PROVE  ResponseInv'
<1>1. /\ Response!TypeOK /\ Counted /\ OneSpeaks /\ Response!PrintedWhole /\ reader \in Readers
      /\ closer \in [Closers -> Closings]
  BY DEF ResponseInv, Response!TypeOK, Readers, Closings
<1>2. /\ observed.total \in Nat /\ reader.n \in Nat /\ source.read \in Nat
      /\ source.length \in Nat /\ source.length <= Response!MaxLength /\ Response!MaxLength \in Nat
      /\ observed.done \in BOOLEAN
  BY <1>1, ResponseNumbers, LongestBody
<1>3. ASSUME NEW new \in Closings, closer' = [closer EXCEPT ![k] = new], new.at # "log",
             UNCHANGED <<observed, reader, logged>>,
             /\ source' \in [length : Lengths, read : 0 .. Response!MaxLength,
                             is : {"open", "failed", "closed"}]
             /\ source'.read = source.read /\ source'.length = source.length
      PROVE  ResponseInv'
  <2>1. closer'[k] = new /\ \A j \in Closers \ {k} : closer'[j] = closer[j]
    BY <1>1, <1>3
  <2>2. closer' \in [Closers -> Closings]
    BY <1>1, <1>3
  <2>3. Response!TypeOK'
    BY <1>1, <1>3, <2>2 DEF Response!TypeOK, Closings
  <2>4. Counted'
    BY <1>1, <1>3 DEF Counted, InHandOf
  <2>5. OneSpeaks' /\ Response!PrintedWhole'
    BY <1>1, <1>3, <2>1 DEF OneSpeaks, Right, Response!PrintedWhole
  <2> QED
    BY <2>3, <2>4, <2>5 DEF ResponseInv
<1>4. CASE Response!Close(k)
  <2>1. closer' = [closer EXCEPT ![k] = [closer[k] EXCEPT !.at = "closing"]]
        /\ UNCHANGED <<source, observed, reader, logged>>
    BY <1>1, <1>4 DEF Response!Close
  <2> QED
    BY <1>1, <1>3, <2>1, CloserMoves DEF Response!TypeOK
<1>5. CASE Response!CloseReturns(k)
  <2>1. PICK err \in BOOLEAN :
            closer' = [closer EXCEPT ![k] = [closer[k] EXCEPT !.at = "section", !.err = err]]
    BY <1>1, <1>5 DEF Response!CloseReturns
  <2>2. source' = [source EXCEPT !.is = "closed"] /\ UNCHANGED <<observed, reader, logged>>
    BY <1>5 DEF Response!CloseReturns
  <2>3. /\ source' \in [length : Lengths, read : 0 .. Response!MaxLength,
                        is : {"open", "failed", "closed"}]
        /\ source'.read = source.read /\ source'.length = source.length
    BY <1>1, <2>2 DEF Response!TypeOK
  <2> QED
    BY <1>1, <1>3, <2>1, <2>2, <2>3, CloserMoves
<1>6. CASE Response!CloseSection(k) /\ observed.done
  <2>1. closer' = [closer EXCEPT ![k] = [closer[k] EXCEPT !.at = "over"]]
        /\ UNCHANGED <<source, observed, reader, logged>>
    BY <1>1, <1>6 DEF Response!CloseSection
  <2> QED
    BY <1>1, <1>3, <2>1, CloserMoves DEF Response!TypeOK
<1>7. CASE Response!CloseSection(k) /\ ~observed.done
  <2> DEFINE complete == ~closer[k].err /\ observed.expected = "known"
                             /\ observed.total = source.length
             m == Response!Finish(complete, observed.data)
  <2>1. /\ observed' = [observed EXCEPT !.data = 0, !.done = TRUE]
        /\ closer' = [closer EXCEPT ![k] = [closer[k] EXCEPT !.at = "log", !.message = m]]
        /\ UNCHANGED <<source, reader, logged>>
    BY <1>1, <1>7 DEF Response!CloseSection, Response!Finished
  <2>2. observed.data = observed.total /\ observed.total \in 0 .. Response!MaxLength
        /\ observed.total <= source.read /\ source.read <= source.length
    BY <1>1, <1>2, <1>7 DEF Counted, InHandOf, Response!TypeOK
  <2>3. m \in Response!Messages /\ m.printed = complete /\ (complete => m.kept = observed.data)
    BY <1>1, <2>2, FinishTypes
  <2>4. Right(m)
    BY <2>2, <2>3 DEF Right
  <2> HIDE DEF complete, m
  <2>5. observed' \in Observations /\ observed'.done = TRUE /\ observed'.total = observed.total
    BY <1>1, <2>1, <2>2, ObservedEnds
  <2>6. /\ closer' \in [Closers -> Closings]
        /\ closer'[k].at = "log" /\ closer'[k].message = m
        /\ \A j \in Closers \ {k} : closer'[j] = closer[j]
    <3>1. [closer[k] EXCEPT !.at = "log", !.message = m] \in Closings
          /\ [closer[k] EXCEPT !.at = "log", !.message = m].at = "log"
          /\ [closer[k] EXCEPT !.at = "log", !.message = m].message = m
      <4>1. m \in Response!Messages
        BY <2>3
      <4>2. \A l \in Response!Messages :
              /\ [closer[k] EXCEPT !.at = "log", !.message = l] \in Closings
              /\ [closer[k] EXCEPT !.at = "log", !.message = l].at = "log"
              /\ [closer[k] EXCEPT !.at = "log", !.message = l].message = l
        BY <1>1, CloserMoves
      <4> QED
        BY <4>1, <4>2
    <3> QED
      BY <1>1, <2>1, <3>1
  <2>7. Response!TypeOK'
    BY <1>1, <2>1, <2>5, <2>6 DEF Response!TypeOK, Closings, Observations
  <2>8. Counted'
    BY <1>1, <1>2, <2>1, <2>2, <2>5 DEF Counted, InHandOf
  <2>9. OneSpeaks' /\ Response!PrintedWhole'
    BY <1>1, <1>7, <2>1, <2>4, <2>5, <2>6 DEF OneSpeaks, Right, Response!PrintedWhole
  <2> QED
    BY <2>7, <2>8, <2>9 DEF ResponseInv
<1>8. CASE Response!CloseLogs(k)
  <2>1. /\ closer' = [closer EXCEPT ![k] = [closer[k] EXCEPT !.at = "over"]]
        /\ closer[k].at = "log" /\ UNCHANGED <<source, observed, reader>>
        /\ logged' = logged \cup {[by |-> k, message |-> closer[k].message]}
    BY <1>1, <1>8 DEF Response!CloseLogs
  <2>2. /\ closer' \in [Closers -> Closings] /\ closer'[k].at = "over"
        /\ \A j \in Closers \ {k} : closer'[j] = closer[j]
    BY <1>1, <2>1, CloserMoves
  <2>3. logged' \subseteq [by : {"reader"} \cup Closers, message : Response!Messages]
    BY <1>1, <2>1 DEF Response!TypeOK, Closings
  <2>4. Response!TypeOK'
    BY <1>1, <2>1, <2>2, <2>3 DEF Response!TypeOK, Closings
  <2>5. Counted'
    BY <1>1, <2>1 DEF Counted, InHandOf
  <2>6. logged = {} /\ observed.done /\ reader.at # "log" /\ Right(closer[k].message)
        /\ \A j \in Closers \ {k} : closer[j].at # "log"
    BY <1>1, <2>1 DEF OneSpeaks
  <2>7. OneSpeaks'
    BY <1>1, <2>1, <2>2, <2>6 DEF OneSpeaks
  <2>8. Response!PrintedWhole'
    BY <2>1, <2>6 DEF Response!PrintedWhole, Right
  <2> QED
    BY <2>4, <2>5, <2>7, <2>8 DEF ResponseInv
<1> QED
  BY <1>4, <1>5, <1>6, <1>7, <1>8

LEMMA ResponseStep ==
  ASSUME ResponseInv, [Response!Next]_(Response!vars) PROVE ResponseInv'
<1>1. CASE UNCHANGED Response!vars
  BY <1>1 DEF Response!vars, ResponseInv, Response!TypeOK, Counted, InHandOf, OneSpeaks, Right,
     Response!PrintedWhole
<1> QED
  BY <1>1, ReaderSteps, ReadSectionStep, CloserSteps DEF Response!Next

-----------------------------------------------------------------------------
(* The kubeconfig file.                                                    *)

(* A login that writes has emptied the file; until it is done, the file    *)
(* tells nothing, and what others load then is lost.                       *)
Writes(p) == login[p].at \in {"write", "rewrite"}
Covers(cfg) == \A e \in kept : cfg.entries[e[1]] \in {e[2], Server[e[1]]}

KeptInv ==
    ~lossy =>
        /\ \A p, q \in Logins : Writes(p) /\ Writes(q) => p = q
        /\ file.is = "whole" => Covers(file.config)
        /\ file.is # "whole" /\ (\A p \in Logins : ~Writes(p)) => kept = {}
        /\ \A q \in Logins : Kubeconfig!Loaded(q) /\ (\A p \in Logins \ {q} : ~Writes(p)) =>
              Covers(login[q].mine)

(* What a login that nobody disturbs has made of what it found.            *)
Mine(p) == Kubeconfig!Update(login[p].found, login[p].name)
Restored(p) == [Mine(p) EXCEPT !.current = login[p].found.current]
AloneInv == \A p \in Logins :
    /\ login[p].at \in Kubeconfig!LoginPlaces => ~login[p].restored
    /\ login[p].alone =>
          /\ login[p].at \in {"open", "write"} => login[p].mine = Mine(p)
          /\ login[p].at \in {"validate", "reload"} => file = [config |-> Mine(p), is |-> "whole"]
          /\ login[p].at \in {"reopen", "rewrite"} => login[p].mine = Restored(p)

KubeconfigInv == Kubeconfig!TypeOK /\ KeptInv /\ AloneInv
LoginStates ==
    [at : Kubeconfig!LoginPlaces \cup Kubeconfig!Ends, name : Names, found : Kubeconfig!Configs,
     mine : Kubeconfig!Configs, alone : BOOLEAN, restored : BOOLEAN]
KeptTypes == SUBSET (Names \X {Server[n] : n \in Names} \cup Names \X {"other"})

LEMMA ConfigTypes ==
  /\ Kubeconfig!NewConfig \in Kubeconfig!Configs
  /\ \A cfg \in Kubeconfig!Configs, name \in Names :
        Kubeconfig!Update(cfg, name) \in Kubeconfig!Configs
  /\ \A cfg \in Kubeconfig!Configs, current \in Names \cup {""} :
        [cfg EXCEPT !.current = current] \in Kubeconfig!Configs
  /\ \A cfg \in Kubeconfig!Configs : Kubeconfig!EntriesOf(cfg) \in KeptTypes
<1>1. Kubeconfig!NewConfig \in Kubeconfig!Configs
  BY DEF Kubeconfig!NewConfig, Kubeconfig!Configs, Kubeconfig!Entries
<1>2. ASSUME NEW cfg \in Kubeconfig!Configs, NEW name \in Names
      PROVE  Kubeconfig!Update(cfg, name) \in Kubeconfig!Configs
  <2>1. [cfg.entries EXCEPT ![name] = Server[name]] \in Kubeconfig!Entries
    BY DEF Kubeconfig!Configs, Kubeconfig!Entries
  <2> QED
    BY <2>1 DEF Kubeconfig!Update, Kubeconfig!Configs
<1>3. ASSUME NEW cfg \in Kubeconfig!Configs, NEW current \in Names \cup {""}
      PROVE  [cfg EXCEPT !.current = current] \in Kubeconfig!Configs
  BY DEF Kubeconfig!Configs
<1>4. ASSUME NEW cfg \in Kubeconfig!Configs PROVE Kubeconfig!EntriesOf(cfg) \in KeptTypes
  <2>1. \A n \in Names : cfg.entries[n] # "" =>
            cfg.entries[n] \in {Server[k] : k \in Names} \cup {"other"}
    BY DEF Kubeconfig!Configs, Kubeconfig!Entries
  <2>2. ASSUME NEW e \in Kubeconfig!EntriesOf(cfg)
        PROVE  e \in Names \X {Server[n] : n \in Names} \cup Names \X {"other"}
    <3>1. PICK n \in Names : cfg.entries[n] # "" /\ e = <<n, cfg.entries[n]>>
      BY <2>2 DEF Kubeconfig!EntriesOf
    <3> QED
      BY <2>1, <3>1
  <2> QED
    BY <2>2 DEF KeptTypes
<1> QED
  BY <1>1, <1>2, <1>3, <1>4

LEMMA LoadsTypes ==
  ASSUME file \in Kubeconfig!Files
  PROVE  /\ \A cfg \in Kubeconfig!Loads : cfg \in Kubeconfig!Configs
         /\ file.is = "whole" => Kubeconfig!Loads = {file.config}
<1>1. file.config \in Kubeconfig!Configs /\ file.is \in {"absent", "whole", "empty", "torn"}
  BY DEF Kubeconfig!Files
<1>2. file.is = "whole" => Kubeconfig!Loads = {file.config}
  BY DEF Kubeconfig!Loads
<1>3. file.is \in {"absent", "empty"} => Kubeconfig!Loads = {Kubeconfig!NewConfig}
  BY DEF Kubeconfig!Loads
<1>4. ASSUME file.is = "torn", NEW cfg \in Kubeconfig!Loads PROVE cfg \in Kubeconfig!Configs
  <2>1. PICK S \in SUBSET Names :
            cfg = [entries |-> [n \in Names |-> IF n \in S THEN file.config.entries[n] ELSE ""],
                   current |-> ""]
    BY <1>4 DEF Kubeconfig!Loads
  <2>2. [n \in Names |-> IF n \in S THEN file.config.entries[n] ELSE ""] \in Kubeconfig!Entries
    BY <1>1 DEF Kubeconfig!Configs, Kubeconfig!Entries
  <2> QED
    BY <2>1, <2>2 DEF Kubeconfig!Configs
<1> QED
  BY <1>1, <1>2, <1>3, <1>4, ConfigTypes

LEMMA DisturbedTypes ==
  ASSUME NEW l \in LoginStates
  PROVE  /\ Kubeconfig!Disturbed(l) \in LoginStates
         /\ Kubeconfig!Disturbed(l).at = l.at /\ Kubeconfig!Disturbed(l).mine = l.mine
         /\ Kubeconfig!Disturbed(l).restored = l.restored
         /\ Kubeconfig!Disturbed(l).alone => l.at \in {"start"} \cup Kubeconfig!Ends
<1>1. CASE l.at \in {"start"} \cup Kubeconfig!Ends
  BY <1>1 DEF Kubeconfig!Disturbed
<1>2. CASE l.at \notin {"start"} \cup Kubeconfig!Ends
  <2> DEFINE found == [l.found EXCEPT !.entries = Kubeconfig!NewConfig.entries]
  <2>1. Kubeconfig!Disturbed(l) = [l EXCEPT !.alone = FALSE, !.found = found]
    BY <1>2 DEF Kubeconfig!Disturbed, LoginStates
  <2>2. found \in Kubeconfig!Configs
    BY ConfigTypes DEF LoginStates, Kubeconfig!Configs
  <2> HIDE DEF found
  <2> QED
    BY <2>1, <2>2 DEF LoginStates
<1> QED
  BY <1>1, <1>2

LEMMA KubeconfigFacts ==
  ASSUME Kubeconfig!TypeOK
  PROVE  /\ file \in Kubeconfig!Files /\ login \in [Logins -> LoginStates]
         /\ kept \in KeptTypes /\ lossy \in BOOLEAN
         /\ file.config \in Kubeconfig!Configs
         /\ \A p \in Logins : login[p] \in LoginStates
  BY DEF Kubeconfig!TypeOK, Kubeconfig!Files, LoginStates, KeptTypes

LEMMA KubeconfigTyped ==
  ASSUME file' \in Kubeconfig!Files, login' \in [Logins -> LoginStates], kept' \in KeptTypes,
         lossy' \in BOOLEAN
  PROVE  Kubeconfig!TypeOK'
  BY DEF Kubeconfig!TypeOK, LoginStates, KeptTypes

(* What a login may know, which AloneInv says of all.                      *)
AloneGood(l, f) ==
    /\ l.at \in Kubeconfig!LoginPlaces => ~l.restored
    /\ l.alone =>
          LET done == Kubeconfig!Update(l.found, l.name) IN
          /\ l.at \in {"open", "write"} => l.mine = done
          /\ l.at \in {"validate", "reload"} => f = [config |-> done, is |-> "whole"]
          /\ l.at \in {"reopen", "rewrite"} => l.mine = [done EXCEPT !.current = l.found.current]

LEMMA AloneEach == AloneInv <=> \A p \in Logins : AloneGood(login[p], file)
  BY DEF AloneInv, AloneGood, Mine, Restored

(* A step of p that leaves the file alone.                                 *)
LEMMA LoginMoves ==
  ASSUME KubeconfigInv, NEW p \in Logins, NEW new \in LoginStates,
         login' = [login EXCEPT ![p] = new], UNCHANGED <<file, kept, lossy>>,
         ~Writes(p), new.at \notin {"write", "rewrite"}, AloneGood(new, file),
         /\ ~lossy /\ new.at \in {"open", "reopen"} /\ (\A q \in Logins \ {p} : ~Writes(q))
         => Covers(new.mine)
  PROVE  KubeconfigInv'
<1>1. Kubeconfig!TypeOK /\ KeptInv /\ AloneInv /\ login \in [Logins -> LoginStates]
      /\ file \in Kubeconfig!Files /\ kept \in KeptTypes /\ lossy \in BOOLEAN
  BY KubeconfigFacts DEF KubeconfigInv
<1>2. login'[p] = new /\ login' \in [Logins -> LoginStates]
      /\ \A q \in Logins \ {p} : login'[q] = login[q]
  BY <1>1
<1>3. Kubeconfig!TypeOK'
  BY <1>1, <1>2, KubeconfigTyped
<1>4. KeptInv'
  <2>1. \A q \in Logins : Writes(q)' <=> Writes(q)
    BY <1>2 DEF Writes
  <2>2. \A cfg : Covers(cfg)' <=> Covers(cfg)
    BY DEF Covers
  <2>3. ASSUME ~lossy, NEW q \in Logins, Kubeconfig!Loaded(q)',
               \A r \in Logins \ {q} : ~Writes(r)
        PROVE  Covers(login'[q].mine)
    <3>1. CASE q = p
      BY <1>2, <2>3, <3>1 DEF Kubeconfig!Loaded
    <3>2. CASE q # p
      BY <1>1, <1>2, <2>3, <3>2 DEF KeptInv, Kubeconfig!Loaded
    <3> QED
      BY <3>1, <3>2
  <2>4. ~lossy => /\ \A r, q \in Logins : Writes(r) /\ Writes(q) => r = q
                  /\ file.is = "whole" => Covers(file.config)
                  /\ file.is # "whole" /\ (\A r \in Logins : ~Writes(r)) => kept = {}
    BY <1>1 DEF KeptInv
  <2> QED
    BY <2>1, <2>2, <2>3, <2>4 DEF KeptInv, Covers
<1>5. AloneInv'
  BY <1>1, <1>2, AloneEach DEF AloneInv, AloneGood, Mine, Restored
<1> QED
  BY <1>3, <1>4, <1>5 DEF KubeconfigInv

(* A step of p that touches the file: nobody else is alone with it.        *)
LEMMA OthersDisturbed ==
  ASSUME KubeconfigInv, NEW p \in Logins, NEW new \in LoginStates,
         login' = [q \in Logins |-> IF q = p THEN new ELSE Kubeconfig!Disturbed(login[q])],
         AloneGood(new, file')
  PROVE  /\ login' \in [Logins -> LoginStates] /\ login'[p] = new
         /\ \A q \in Logins \ {p} : login'[q].at = login[q].at /\ login'[q].mine = login[q].mine
         /\ AloneInv'
<1>1. login \in [Logins -> LoginStates] /\ AloneInv
  BY KubeconfigFacts DEF KubeconfigInv
<1>2. \A q \in Logins \ {p} :
          /\ login'[q] \in LoginStates
          /\ login'[q].at = login[q].at /\ login'[q].mine = login[q].mine
          /\ login'[q].restored = login[q].restored
          /\ login'[q].alone => login[q].at \in {"start"} \cup Kubeconfig!Ends
  BY <1>1, DisturbedTypes
<1>3. login'[p] = new
  OBVIOUS
<1>4. ASSUME NEW q \in Logins PROVE AloneGood(login'[q], file')
  <2>1. CASE q = p
    BY <1>3, <2>1
  <2>2. CASE q # p
    BY <1>1, <1>2, <2>2 DEF AloneInv, AloneGood, Kubeconfig!Ends
  <2> QED
    BY <2>1, <2>2
<1>5. AloneInv'
  BY <1>4 DEF AloneInv, AloneGood, Mine, Restored
<1>6. login' \in [Logins -> LoginStates]
  BY <1>1, <1>2, <1>3
<1> QED
  BY <1>2, <1>3, <1>5, <1>6

LEMMA EndTyped ==
  ASSUME KubeconfigInv, NEW p \in Logins, NEW how \in Kubeconfig!Ends
  PROVE  /\ Kubeconfig!End(p, how) \in LoginStates
         /\ Kubeconfig!End(p, how).at = how
         /\ [Kubeconfig!End(p, how) EXCEPT !.restored = TRUE] \in LoginStates
         /\ [Kubeconfig!End(p, how) EXCEPT !.restored = TRUE].at = how
         /\ [Kubeconfig!End(p, how) EXCEPT !.alone = FALSE] \in LoginStates
         /\ [Kubeconfig!End(p, how) EXCEPT !.alone = FALSE].at = how
         /\ \A l \in LoginStates : l.at = how => \A f : AloneGood(l, f)
<1>1. login[p] \in LoginStates
  BY KubeconfigFacts DEF KubeconfigInv
<1>2. Kubeconfig!End(p, how) \in LoginStates /\ Kubeconfig!End(p, how).at = how
  BY <1>1, ConfigTypes DEF Kubeconfig!End, LoginStates
<1>3. \A l \in LoginStates : [l EXCEPT !.restored = TRUE] \in LoginStates
                             /\ [l EXCEPT !.restored = TRUE].at = l.at
                             /\ [l EXCEPT !.alone = FALSE] \in LoginStates
                             /\ [l EXCEPT !.alone = FALSE].at = l.at
  BY DEF LoginStates
<1>4. \A l \in LoginStates : l.at = how => \A f : AloneGood(l, f)
  BY DEF AloneGood, Kubeconfig!Ends, Kubeconfig!LoginPlaces
<1> QED
  BY <1>2, <1>3, <1>4

LEMMA EndMoves ==
  ASSUME KubeconfigInv, NEW p \in Logins, ~Writes(p), NEW how \in Kubeconfig!Ends,
         Kubeconfig!Moves(p, Kubeconfig!End(p, how))
  PROVE  KubeconfigInv'
<1>1. how \notin {"write", "rewrite", "open", "reopen"}
  BY DEF Kubeconfig!Ends
<1>2. /\ login' = [login EXCEPT ![p] = Kubeconfig!End(p, how)]
      /\ UNCHANGED <<file, kept, lossy>>
  BY DEF Kubeconfig!Moves
<1>3. /\ Kubeconfig!End(p, how) \in LoginStates /\ Kubeconfig!End(p, how).at = how
      /\ AloneGood(Kubeconfig!End(p, how), file)
  BY EndTyped
<1> DEFINE new == Kubeconfig!End(p, how)
<1>4. /\ login' = [login EXCEPT ![p] = new] /\ new \in LoginStates /\ new.at = how
      /\ AloneGood(new, file)
  BY <1>2, <1>3
<1> HIDE DEF new
<1> QED
  BY <1>1, <1>2, <1>4, LoginMoves

(* What can be loaded has what is kept, if nobody writes.                  *)
LEMMA LoadsCover ==
  ASSUME KubeconfigInv, ~lossy, \A q \in Logins : ~Writes(q), NEW cfg \in Kubeconfig!Loads
  PROVE  Covers(cfg)
<1>1. file \in Kubeconfig!Files /\ KeptInv
  BY KubeconfigFacts DEF KubeconfigInv
<1>2. CASE file.is = "whole"
  BY <1>1, <1>2, LoadsTypes DEF KeptInv
<1>3. CASE file.is # "whole"
  BY <1>1, <1>3 DEF KeptInv, Covers
<1> QED
  BY <1>2, <1>3

LEMMA KeptNames == ASSUME kept \in KeptTypes, NEW e \in kept PROVE e[1] \in Names
  BY DEF KeptTypes

LEMMA UpdateCovers ==
  ASSUME kept \in KeptTypes, NEW cfg \in Kubeconfig!Configs, NEW name \in Names, Covers(cfg)
  PROVE  Covers(Kubeconfig!Update(cfg, name))
<1>1. \A n \in Names : Kubeconfig!Update(cfg, name).entries[n] =
          IF n = name THEN Server[name] ELSE cfg.entries[n]
  BY DEF Kubeconfig!Update, Kubeconfig!Configs, Kubeconfig!Entries
<1> QED
  BY <1>1, KeptNames DEF Covers

LEMMA LoadStep ==
  ASSUME KubeconfigInv, NEW p \in Logins,
         Kubeconfig!resolveClusterEndpoint(p) \/ Kubeconfig!Load(p)
  PROVE  KubeconfigInv'
<1>1. /\ login[p] \in LoginStates /\ ~Writes(p) /\ file \in Kubeconfig!Files /\ kept \in KeptTypes
      /\ AloneGood(login[p], file) /\ login[p].at \in {"start", "load"}
  BY KubeconfigFacts, AloneEach
     DEF KubeconfigInv, Writes, Kubeconfig!resolveClusterEndpoint, Kubeconfig!Load
<1>2. "failed" \in Kubeconfig!Ends
  BY DEF Kubeconfig!Ends
<1>3. CASE Kubeconfig!Moves(p, Kubeconfig!End(p, "failed"))
  BY <1>1, <1>2, <1>3, EndMoves
<1>4. CASE Kubeconfig!Moves(p, [login[p] EXCEPT !.at = "load"])
  <2> DEFINE new == [login[p] EXCEPT !.at = "load"]
  <2>1. /\ login' = [login EXCEPT ![p] = new] /\ UNCHANGED <<file, kept, lossy>>
    BY <1>4 DEF Kubeconfig!Moves
  <2>2. new \in LoginStates /\ new.at = "load" /\ new.restored = login[p].restored
    BY <1>1 DEF LoginStates, Kubeconfig!LoginPlaces
  <2>3. AloneGood(new, file)
    BY <1>1, <2>2 DEF AloneGood, Kubeconfig!LoginPlaces
  <2> HIDE DEF new
  <2> QED
    BY <1>1, <2>1, <2>2, <2>3, LoginMoves
<1>5. ASSUME NEW cfg \in Kubeconfig!Loads,
             Kubeconfig!Moves(p, [login[p] EXCEPT !.at = "open", !.found = cfg,
                                      !.mine = Kubeconfig!Update(cfg, login[p].name)])
      PROVE  KubeconfigInv'
  <2> DEFINE mine == Kubeconfig!Update(cfg, login[p].name)
             new == [login[p] EXCEPT !.at = "open", !.found = cfg, !.mine = mine]
  <2>1. /\ login' = [login EXCEPT ![p] = new] /\ UNCHANGED <<file, kept, lossy>>
    BY <1>5 DEF Kubeconfig!Moves
  <2>2. cfg \in Kubeconfig!Configs /\ login[p].name \in Names
    BY <1>1, LoadsTypes DEF LoginStates
  <2>3. mine \in Kubeconfig!Configs
    BY <2>2, ConfigTypes
  <2>4. ~lossy /\ (\A q \in Logins \ {p} : ~Writes(q)) => Covers(mine)
    BY <1>1, <2>2, LoadsCover, UpdateCovers
  <2>5. mine = Kubeconfig!Update(cfg, login[p].name)
    OBVIOUS
  <2> HIDE DEF mine
  <2>6. /\ new \in LoginStates /\ new.at = "open" /\ new.restored = login[p].restored
        /\ new.mine = mine /\ new.found = cfg /\ new.name = login[p].name
    BY <1>1, <2>2, <2>3 DEF LoginStates, Kubeconfig!LoginPlaces
  <2> HIDE DEF new
  <2>7. AloneGood(new, file)
    BY <1>1, <2>5, <2>6 DEF AloneGood, Kubeconfig!LoginPlaces
  <2> QED
    BY <1>1, <2>1, <2>4, <2>6, <2>7, LoginMoves
<1> QED
  BY <1>3, <1>4, <1>5 DEF Kubeconfig!resolveClusterEndpoint, Kubeconfig!Load

LEMMA ValidateStep ==
  ASSUME KubeconfigInv, NEW p \in Logins,
         Kubeconfig!validateAccess(p) \/ Kubeconfig!RestoreContext(p)
  PROVE  KubeconfigInv'
<1>1. /\ login[p] \in LoginStates /\ ~Writes(p) /\ file \in Kubeconfig!Files /\ kept \in KeptTypes
      /\ AloneGood(login[p], file) /\ login[p].at \in {"validate", "reload"}
  BY KubeconfigFacts, AloneEach
     DEF KubeconfigInv, Writes, Kubeconfig!validateAccess, Kubeconfig!RestoreContext
<1>2. {"ok", "rejected"} \subseteq Kubeconfig!Ends
  BY DEF Kubeconfig!Ends
<1>3. CASE \E how \in {"ok", "rejected"} : Kubeconfig!Moves(p, Kubeconfig!End(p, how))
  BY <1>1, <1>2, <1>3, EndMoves
<1>4. CASE Kubeconfig!Moves(p, [login[p] EXCEPT !.at = "reload"]) /\ login[p].at = "validate"
  <2> DEFINE new == [login[p] EXCEPT !.at = "reload"]
  <2>1. /\ login' = [login EXCEPT ![p] = new] /\ UNCHANGED <<file, kept, lossy>>
    BY <1>4 DEF Kubeconfig!Moves
  <2>2. /\ new \in LoginStates /\ new.at = "reload" /\ new.restored = login[p].restored
        /\ new.alone = login[p].alone /\ new.found = login[p].found /\ new.name = login[p].name
    BY <1>1 DEF LoginStates, Kubeconfig!LoginPlaces
  <2> HIDE DEF new
  <2>3. AloneGood(new, file)
    BY <1>1, <1>4, <2>2 DEF AloneGood, Kubeconfig!LoginPlaces
  <2> QED
    BY <1>1, <2>1, <2>2, <2>3, LoginMoves
<1>5. ASSUME NEW cfg \in Kubeconfig!Loads, login[p].at = "reload",
             Kubeconfig!Moves(p, [login[p] EXCEPT !.at = "reopen",
                                      !.mine = [cfg EXCEPT !.current = login[p].found.current]])
      PROVE  KubeconfigInv'
  <2> DEFINE mine == [cfg EXCEPT !.current = login[p].found.current]
             new == [login[p] EXCEPT !.at = "reopen", !.mine = mine]
  <2>1. /\ login' = [login EXCEPT ![p] = new] /\ UNCHANGED <<file, kept, lossy>>
    BY <1>5 DEF Kubeconfig!Moves
  <2>2. cfg \in Kubeconfig!Configs /\ login[p].found.current \in Names \cup {""}
    BY <1>1, LoadsTypes DEF LoginStates, Kubeconfig!Configs
  <2>3. mine \in Kubeconfig!Configs /\ mine.entries = cfg.entries
    BY <2>2, ConfigTypes DEF Kubeconfig!Configs
  <2>4. ~lossy /\ (\A q \in Logins \ {p} : ~Writes(q)) => Covers(mine)
    BY <1>1, <2>3, LoadsCover DEF Covers
  <2>5. mine = [cfg EXCEPT !.current = login[p].found.current]
    OBVIOUS
  <2> HIDE DEF mine
  <2>6. /\ new \in LoginStates /\ new.at = "reopen" /\ new.restored = login[p].restored
        /\ new.alone = login[p].alone
        /\ new.mine = mine /\ new.found = login[p].found /\ new.name = login[p].name
    BY <1>1, <2>2, <2>3 DEF LoginStates, Kubeconfig!LoginPlaces
  <2> HIDE DEF new
  <2>7. login[p].alone => cfg = Kubeconfig!Update(login[p].found, login[p].name)
    <3>1. login[p].alone =>
              file = [config |-> Kubeconfig!Update(login[p].found, login[p].name), is |-> "whole"]
      BY <1>1, <1>5 DEF AloneGood
    <3> QED
      BY <1>1, <3>1, LoadsTypes
  <2>8. AloneGood(new, file)
    BY <1>1, <2>5, <2>6, <2>7 DEF AloneGood, Kubeconfig!LoginPlaces
  <2> QED
    BY <1>1, <2>1, <2>4, <2>6, <2>8, LoginMoves
<1>6. CASE Kubeconfig!validateAccess(p)
  BY <1>3, <1>4, <1>6 DEF Kubeconfig!validateAccess
<1>7. CASE Kubeconfig!RestoreContext(p)
  BY <1>3, <1>5, <1>7 DEF Kubeconfig!RestoreContext
<1> QED
  BY <1>6, <1>7

(* Nobody else has loaded the file if a save of p loses nothing.           *)
LEMMA Undisturbed ==
  ASSUME KubeconfigInv, NEW p \in Logins, Kubeconfig!Loaded(p), ~lossy,
         \A q \in Logins \ {p} : ~Kubeconfig!Loaded(q)
  PROVE  Covers(login[p].mine)
<1>1. \A q \in Logins \ {p} : ~Writes(q)
  BY DEF Writes, Kubeconfig!Loaded
<1> QED
  BY <1>1 DEF KubeconfigInv, KeptInv

LEMMA OpenStep ==
  ASSUME KubeconfigInv, NEW p \in Logins, Kubeconfig!Open(p) PROVE KubeconfigInv'
<1>1. /\ login[p] \in LoginStates /\ kept \in KeptTypes /\ lossy \in BOOLEAN
      /\ AloneGood(login[p], file) /\ login[p].at \in {"open", "reopen"} /\ ~Writes(p)
  BY KubeconfigFacts, AloneEach DEF KubeconfigInv, Kubeconfig!Open, Writes
<1>2. CASE Kubeconfig!Moves(p, Kubeconfig!End(p, Kubeconfig!AfterError(p)))
  <2>1. Kubeconfig!AfterError(p) \in Kubeconfig!Ends
    BY DEF Kubeconfig!AfterError, Kubeconfig!Ends
  <2> QED
    BY <1>1, <1>2, <2>1, EndMoves
<1>3. CASE /\ file' = [config |-> Kubeconfig!NewConfig, is |-> "empty"]
           /\ Kubeconfig!Touches(p, [login[p] EXCEPT !.at = IF @ = "open" THEN "write" ELSE "rewrite"])
           /\ Kubeconfig!Keep(kept)
  <2> DEFINE at == IF login[p].at = "open" THEN "write" ELSE "rewrite"
             new == [login[p] EXCEPT !.at = at]
  <2>1. /\ lossy' = (lossy \/ \E q \in Logins \ {p} : Kubeconfig!Loaded(q))
        /\ login' = [q \in Logins |-> IF q = p THEN new ELSE Kubeconfig!Disturbed(login[q])]
        /\ kept' = IF lossy' THEN {} ELSE kept
    BY <1>3 DEF Kubeconfig!Touches, Kubeconfig!Keep
  <2>2. at \in {"write", "rewrite"} /\ (login[p].at = "open" <=> at = "write")
    OBVIOUS
  <2> HIDE DEF at
  <2>3. /\ new \in LoginStates /\ new.at = at /\ new.restored = login[p].restored
        /\ new.alone = login[p].alone /\ new.mine = login[p].mine
        /\ new.found = login[p].found /\ new.name = login[p].name
    BY <1>1, <2>2 DEF LoginStates, Kubeconfig!LoginPlaces
  <2> HIDE DEF new
  <2>4. AloneGood(new, file')
    BY <1>1, <2>2, <2>3 DEF AloneGood, Kubeconfig!LoginPlaces
  <2>5. /\ login' \in [Logins -> LoginStates] /\ login'[p] = new
        /\ \A q \in Logins \ {p} : login'[q].at = login[q].at /\ login'[q].mine = login[q].mine
        /\ AloneInv'
    BY <2>1, <2>3, <2>4, OthersDisturbed
  <2>6. Kubeconfig!TypeOK'
    <3>1. file' \in Kubeconfig!Files
      BY <1>3, ConfigTypes DEF Kubeconfig!Files
    <3>2. lossy' \in BOOLEAN
      BY <2>1
    <3>3. kept' \in KeptTypes
      BY <1>1, <2>1 DEF KeptTypes
    <3> QED
      BY <2>5, <3>1, <3>2, <3>3, KubeconfigTyped
  <2>7. KeptInv'
    <3> SUFFICES ASSUME ~lossy' PROVE KeptInv'
      BY DEF KeptInv
    <3>1. ~lossy /\ kept' = kept /\ \A q \in Logins \ {p} : ~Kubeconfig!Loaded(q)
      BY <2>1
    <3>2. Covers(login[p].mine)
      BY <1>1, <3>1, Undisturbed DEF Kubeconfig!Loaded
    <3>3. Writes(p)' /\ \A q \in Logins \ {p} : ~Kubeconfig!Loaded(q)' /\ ~Writes(q)'
      BY <2>2, <2>3, <2>5, <3>1 DEF Writes, Kubeconfig!Loaded
    <3>4. Covers(login[p].mine)'
      BY <2>3, <2>5, <3>1, <3>2 DEF Covers
    <3> QED
      BY <1>3, <3>3, <3>4 DEF KeptInv
  <2> QED
    BY <2>5, <2>6, <2>7 DEF KubeconfigInv
<1> QED
  BY <1>2, <1>3 DEF Kubeconfig!Open

LEMMA WriteStep ==
  ASSUME KubeconfigInv, NEW p \in Logins, Kubeconfig!Write(p) PROVE KubeconfigInv'
<1>1. /\ login[p] \in LoginStates /\ kept \in KeptTypes /\ lossy \in BOOLEAN
      /\ AloneGood(login[p], file) /\ login[p].at \in {"write", "rewrite"}
      /\ login[p].mine \in Kubeconfig!Configs /\ Kubeconfig!AfterError(p) \in Kubeconfig!Ends
  BY KubeconfigFacts, AloneEach
     DEF KubeconfigInv, Kubeconfig!Write, LoginStates, Kubeconfig!AfterError, Kubeconfig!Ends
<1>2. ASSUME NEW new \in LoginStates, new.at \in {"validate"} \cup Kubeconfig!Ends,
             Kubeconfig!Touches(p, new),
             file' = [config |-> login[p].mine, is |-> "whole"],
             Kubeconfig!Keep(kept \cup Kubeconfig!EntriesOf(login[p].mine)),
             AloneGood(new, file')
      PROVE  KubeconfigInv'
  <2>1. /\ lossy' = (lossy \/ \E q \in Logins \ {p} : Kubeconfig!Loaded(q))
        /\ login' = [q \in Logins |-> IF q = p THEN new ELSE Kubeconfig!Disturbed(login[q])]
        /\ kept' = IF lossy' THEN {} ELSE kept \cup Kubeconfig!EntriesOf(login[p].mine)
    BY <1>2 DEF Kubeconfig!Touches, Kubeconfig!Keep
  <2>2. /\ login' \in [Logins -> LoginStates] /\ login'[p] = new
        /\ \A q \in Logins \ {p} : login'[q].at = login[q].at /\ login'[q].mine = login[q].mine
        /\ AloneInv'
    BY <1>2, <2>1, OthersDisturbed
  <2>3. Kubeconfig!TypeOK'
    <3>1. file' \in Kubeconfig!Files
      BY <1>1, <1>2 DEF Kubeconfig!Files
    <3>2. lossy' \in BOOLEAN
      BY <2>1
    <3>3. kept' \in KeptTypes
      BY <1>1, <2>1, ConfigTypes DEF KeptTypes
    <3> QED
      BY <2>2, <3>1, <3>2, <3>3, KubeconfigTyped
  <2>4. KeptInv'
    <3> SUFFICES ASSUME ~lossy' PROVE KeptInv'
      BY DEF KeptInv
    <3>1. /\ ~lossy /\ \A q \in Logins \ {p} : ~Kubeconfig!Loaded(q)
          /\ kept' = kept \cup Kubeconfig!EntriesOf(login[p].mine)
      BY <2>1
    <3>2. Covers(login[p].mine)
      BY <1>1, <3>1, Undisturbed DEF Kubeconfig!Loaded
    <3>3. \A q \in Logins : ~Kubeconfig!Loaded(q)' /\ ~Writes(q)'
      BY <1>2, <2>2, <3>1 DEF Writes, Kubeconfig!Loaded, Kubeconfig!Ends
    <3>4. ASSUME NEW e \in Kubeconfig!EntriesOf(login[p].mine)
          PROVE  login[p].mine.entries[e[1]] = e[2]
      <4>1. PICK n \in Names : e = <<n, login[p].mine.entries[n]>>
        BY <3>4 DEF Kubeconfig!EntriesOf
      <4> QED
        BY <4>1
    <3>5. Covers(file.config)'
      BY <1>2, <3>1, <3>2, <3>4 DEF Covers
    <3> QED
      BY <1>2, <3>3, <3>5 DEF KeptInv
  <2> QED
    BY <2>2, <2>3, <2>4 DEF KubeconfigInv
<1>3. CASE /\ file' = [config |-> login[p].mine, is |-> "whole"]
           /\ Kubeconfig!Written(p)
           /\ Kubeconfig!Keep(kept \cup Kubeconfig!EntriesOf(login[p].mine))
  <2>1. CASE /\ login[p].at = "write"
             /\ Kubeconfig!Touches(p, [login[p] EXCEPT !.at = "validate",
                                                       !.mine = Kubeconfig!NewConfig])
    <3> DEFINE new == [login[p] EXCEPT !.at = "validate", !.mine = Kubeconfig!NewConfig]
    <3>1. /\ new \in LoginStates /\ new.at = "validate" /\ new.restored = login[p].restored
          /\ new.alone = login[p].alone /\ new.found = login[p].found /\ new.name = login[p].name
      BY <1>1, ConfigTypes DEF LoginStates, Kubeconfig!LoginPlaces
    <3>2. Kubeconfig!Touches(p, new)
      BY <2>1
    <3> HIDE DEF new
    <3>3. AloneGood(new, file')
      BY <1>1, <1>3, <2>1, <3>1 DEF AloneGood, Kubeconfig!LoginPlaces
    <3> QED
      BY <1>2, <1>3, <3>1, <3>2, <3>3
  <2>2. ASSUME NEW new \in LoginStates, new.at \in Kubeconfig!Ends, Kubeconfig!Touches(p, new)
        PROVE  KubeconfigInv'
    <3>1. AloneGood(new, file')
      BY <2>2, EndTyped
    <3> QED
      BY <1>2, <1>3, <2>2, <3>1
  <2>3. CASE Kubeconfig!Touches(p, [Kubeconfig!End(p, "rejected") EXCEPT !.restored = TRUE])
    <3>1. "rejected" \in Kubeconfig!Ends
      BY DEF Kubeconfig!Ends
    <3>2. /\ [Kubeconfig!End(p, "rejected") EXCEPT !.restored = TRUE] \in LoginStates
          /\ [Kubeconfig!End(p, "rejected") EXCEPT !.restored = TRUE].at \in Kubeconfig!Ends
      BY <3>1, EndTyped
    <3> QED
      BY <2>2, <2>3, <3>2
  <2>4. CASE Kubeconfig!Touches(p, [Kubeconfig!End(p, Kubeconfig!AfterError(p)) EXCEPT
                                        !.alone = FALSE])
    <3>1. /\ [Kubeconfig!End(p, Kubeconfig!AfterError(p)) EXCEPT !.alone = FALSE] \in LoginStates
          /\ [Kubeconfig!End(p, Kubeconfig!AfterError(p)) EXCEPT !.alone = FALSE].at
                 \in Kubeconfig!Ends
      BY <1>1, EndTyped
    <3> QED
      BY <2>2, <2>4, <3>1
  <2> QED
    BY <1>3, <2>1, <2>3, <2>4 DEF Kubeconfig!Written
<1>4. CASE /\ file' = [config |-> login[p].mine, is |-> "torn"]
           /\ login' = [q \in Logins |-> IF q = p THEN Kubeconfig!End(p, Kubeconfig!AfterError(p))
                                         ELSE Kubeconfig!Disturbed(login[q])]
           /\ lossy' = TRUE /\ kept' = {}
  <2>1. /\ Kubeconfig!End(p, Kubeconfig!AfterError(p)) \in LoginStates
        /\ AloneGood(Kubeconfig!End(p, Kubeconfig!AfterError(p)), file')
    BY <1>1, EndTyped
  <2>2. login' \in [Logins -> LoginStates] /\ AloneInv'
    BY <1>4, <2>1, OthersDisturbed
  <2>3. Kubeconfig!TypeOK'
    BY <1>1, <1>4, <2>2, KubeconfigTyped DEF Kubeconfig!Files, KeptTypes
  <2> QED
    BY <1>4, <2>2, <2>3 DEF KubeconfigInv, KeptInv
<1> QED
  BY <1>3, <1>4 DEF Kubeconfig!Write

LEMMA KilledStep ==
  ASSUME KubeconfigInv, NEW p \in Logins, Kubeconfig!Killed(p) PROVE KubeconfigInv'
<1>1. /\ login' = [login EXCEPT ![p] = Kubeconfig!End(p, "killed")] /\ UNCHANGED file
      /\ lossy' = (lossy \/ login[p].at \in {"write", "rewrite"})
      /\ kept' = IF lossy' THEN {} ELSE kept
  BY DEF Kubeconfig!Killed, Kubeconfig!Keep
<1>2. "killed" \in Kubeconfig!Ends
  BY DEF Kubeconfig!Ends
<1>3. CASE ~lossy'
  <2>1. ~Writes(p) /\ Kubeconfig!Moves(p, Kubeconfig!End(p, "killed"))
    <3>1. kept' = kept
      BY <1>1, <1>3
    <3>2. lossy' = lossy
      <4>1. lossy' \in BOOLEAN /\ lossy \in BOOLEAN /\ ~lossy
        BY <1>1, <1>3, KubeconfigFacts DEF KubeconfigInv
      <4> QED
        BY <1>3, <4>1
    <3> QED
      BY <1>1, <1>3, <3>1, <3>2 DEF Writes, Kubeconfig!Moves
  <2> QED
    BY <1>2, <2>1, EndMoves
<1>4. CASE lossy'
  <2>1. login \in [Logins -> LoginStates] /\ file \in Kubeconfig!Files /\ AloneInv
    BY KubeconfigFacts DEF KubeconfigInv
  <2>2. /\ Kubeconfig!End(p, "killed") \in LoginStates
        /\ Kubeconfig!End(p, "killed").at = "killed"
        /\ AloneGood(Kubeconfig!End(p, "killed"), file)
    BY <1>2, EndTyped
  <2>3. /\ login' \in [Logins -> LoginStates] /\ login'[p] = Kubeconfig!End(p, "killed")
        /\ \A q \in Logins \ {p} : login'[q] = login[q]
    BY <1>1, <2>1, <2>2
  <2>4. \A q \in Logins : AloneGood(login'[q], file')
    BY <1>1, <2>1, <2>2, <2>3, AloneEach
  <2>5. AloneInv'
    BY <2>4 DEF AloneInv, AloneGood, Mine, Restored
  <2>6. Kubeconfig!TypeOK'
    <3>1. lossy' \in BOOLEAN /\ kept' \in KeptTypes
      BY <1>1, <1>4 DEF KeptTypes
    <3> QED
      BY <1>1, <2>1, <2>3, <3>1, KubeconfigTyped
  <2> QED
    BY <1>4, <2>5, <2>6 DEF KubeconfigInv, KeptInv
<1> QED
  BY <1>3, <1>4

LEMMA KubectlStep == ASSUME KubeconfigInv, Kubeconfig!Kubectl PROVE KubeconfigInv'
<1>1. /\ login \in [Logins -> LoginStates] /\ file \in Kubeconfig!Files /\ kept \in KeptTypes
      /\ file.config \in Kubeconfig!Configs /\ lossy \in BOOLEAN
  BY KubeconfigFacts DEF KubeconfigInv
<1>2. /\ file.is = "whole"
      /\ lossy' = (lossy \/ \E q \in Logins : Kubeconfig!Loaded(q))
      /\ login' = [q \in Logins |-> Kubeconfig!Disturbed(login[q])]
  BY DEF Kubeconfig!Kubectl
<1>3. \A q \in Logins :
          /\ login'[q] \in LoginStates
          /\ login'[q].at = login[q].at /\ login'[q].restored = login[q].restored
          /\ login'[q].alone => login[q].at \in {"start"} \cup Kubeconfig!Ends
  BY <1>1, <1>2, DisturbedTypes
<1>4. AloneInv'
  BY <1>3 DEF KubeconfigInv, AloneInv, Kubeconfig!Ends
<1>5. login' \in [Logins -> LoginStates] /\ lossy' \in BOOLEAN
  BY <1>2, <1>3
<1>6. ASSUME NEW config \in Kubeconfig!Configs, NEW entries \in KeptTypes,
             file' = [file EXCEPT !.config = config], Kubeconfig!Keep(entries),
             ~lossy => \A e \in entries : config.entries[e[1]] \in {e[2], Server[e[1]]}
      PROVE  KubeconfigInv'
  <2>1. file'.config = config /\ file'.is = "whole" /\ file' \in Kubeconfig!Files
    BY <1>1, <1>2, <1>6 DEF Kubeconfig!Files
  <2>2. kept' = IF lossy' THEN {} ELSE entries
    BY <1>6 DEF Kubeconfig!Keep
  <2>3. kept' \in KeptTypes
    BY <2>2 DEF KeptTypes
  <2>4. Kubeconfig!TypeOK'
    BY <1>5, <2>1, <2>3, KubeconfigTyped
  <2>5. KeptInv'
    <3> SUFFICES ASSUME ~lossy' PROVE KeptInv'
      BY DEF KeptInv
    <3>1. ~lossy /\ kept' = entries /\ \A q \in Logins : ~Kubeconfig!Loaded(q)
      BY <1>2, <2>2
    <3>2. \A q \in Logins : ~Kubeconfig!Loaded(q)' /\ ~Writes(q)'
      BY <1>3, <3>1 DEF Writes, Kubeconfig!Loaded
    <3>3. Covers(file.config)'
      BY <1>6, <2>1, <3>1 DEF Covers
    <3> QED
      BY <2>1, <3>2, <3>3 DEF KeptInv
  <2> QED
    BY <1>4, <2>4, <2>5 DEF KubeconfigInv
<1>7. ~lossy => Covers(file.config)
  BY <1>2 DEF KubeconfigInv, KeptInv
<1>8. PICK n \in Names :
        \/ file' = [file EXCEPT !.config.current = n] /\ Kubeconfig!Keep(kept)
        \/ /\ file' = [file EXCEPT !.config.entries[n] = "other"]
           /\ Kubeconfig!Keep({e \in kept : e[1] # n} \cup {<<n, "other">>})
        \/ /\ file' = [file EXCEPT !.config.entries[n] = ""]
           /\ Kubeconfig!Keep({e \in kept : e[1] # n})
  BY DEF Kubeconfig!Kubectl
<1>9. file.config.entries \in Kubeconfig!Entries
  BY <1>1 DEF Kubeconfig!Configs
<1>10. ASSUME file' = [file EXCEPT !.config.current = n], Kubeconfig!Keep(kept)
       PROVE  KubeconfigInv'
  <2> DEFINE config == [file.config EXCEPT !.current = n]
  <2>1. config \in Kubeconfig!Configs /\ config.entries = file.config.entries
        /\ file' = [file EXCEPT !.config = config]
    BY <1>1, <1>10, ConfigTypes DEF Kubeconfig!Configs
  <2> HIDE DEF config
  <2> QED
    BY <1>1, <1>6, <1>7, <1>10, <2>1 DEF Covers
<1>11. ASSUME NEW server \in {"other", ""}, NEW entries,
              file' = [file EXCEPT !.config.entries[n] = server],
              entries = {e \in kept : e[1] # n}
                            \cup {e \in {<<n, "other">>} : server = "other"},
              Kubeconfig!Keep(entries)
       PROVE  KubeconfigInv'
  <2> DEFINE all == [file.config.entries EXCEPT ![n] = server]
             config == [file.config EXCEPT !.entries = all]
  <2>1. file' = [file EXCEPT !.config = config]
    BY <1>1, <1>11
  <2>2. all \in Kubeconfig!Entries /\ all[n] = server
        /\ \A k \in Names \ {n} : all[k] = file.config.entries[k]
    BY <1>9, <1>11 DEF Kubeconfig!Entries
  <2> HIDE DEF all
  <2>3. config \in Kubeconfig!Configs /\ config.entries = all
    BY <1>1, <2>2 DEF Kubeconfig!Configs
  <2> HIDE DEF config
  <2>4. entries \in KeptTypes
    <3>1. kept \subseteq Names \X {Server[k] : k \in Names} \cup Names \X {"other"}
      BY <1>1 DEF KeptTypes
    <3>2. <<n, "other">> \in Names \X {"other"}
      OBVIOUS
    <3>3. ASSUME NEW e \in entries
          PROVE  e \in Names \X {Server[k] : k \in Names} \cup Names \X {"other"}
      <4>1. e \in kept \/ e = <<n, "other">>
        BY <1>11, <3>3
      <4> QED
        BY <3>1, <3>2, <4>1
    <3> QED
      BY <3>3 DEF KeptTypes
  <2>5. ASSUME ~lossy, NEW e \in entries PROVE all[e[1]] \in {e[2], Server[e[1]]}
    <3>1. CASE e = <<n, "other">> /\ server = "other"
      BY <2>2, <3>1
    <3>2. CASE e \in kept /\ e[1] # n
      BY <1>1, <1>7, <2>2, <2>5, <3>2, KeptNames DEF Covers
    <3> QED
      BY <1>11, <2>5, <3>1, <3>2
  <2> QED
    BY <1>6, <1>11, <2>1, <2>3, <2>4, <2>5
<1>12. CASE /\ file' = [file EXCEPT !.config.entries[n] = "other"]
            /\ Kubeconfig!Keep({e \in kept : e[1] # n} \cup {<<n, "other">>})
  <2>1. {e \in kept : e[1] # n} \cup {<<n, "other">>}
            = {e \in kept : e[1] # n} \cup {e \in {<<n, "other">>} : "other" = "other"}
    OBVIOUS
  <2> QED
    BY <1>11, <1>12, <2>1
<1>13. CASE /\ file' = [file EXCEPT !.config.entries[n] = ""]
            /\ Kubeconfig!Keep({e \in kept : e[1] # n})
  <2>1. {e \in kept : e[1] # n}
            = {e \in kept : e[1] # n} \cup {e \in {<<n, "other">>} : "" = "other"}
    OBVIOUS
  <2> QED
    BY <1>11, <1>13, <2>1
<1> QED
  BY <1>8, <1>10, <1>12, <1>13

LEMMA KubeconfigStep ==
  ASSUME KubeconfigInv, [Kubeconfig!Next]_(Kubeconfig!vars) PROVE KubeconfigInv'
<1>1. CASE UNCHANGED Kubeconfig!vars
  <2>1. UNCHANGED <<file, login, kept, lossy>>
    BY <1>1 DEF Kubeconfig!vars
  <2>2. Kubeconfig!TypeOK'
    BY <2>1 DEF KubeconfigInv, Kubeconfig!TypeOK
  <2>3. KeptInv'
    BY <2>1 DEF KubeconfigInv, KeptInv, Covers, Writes, Kubeconfig!Loaded
  <2>4. AloneInv'
    BY <2>1 DEF KubeconfigInv, AloneInv, Mine, Restored
  <2> QED
    BY <2>2, <2>3, <2>4 DEF KubeconfigInv
<1> QED
  BY <1>1, LoadStep, OpenStep, WriteStep, ValidateStep, KilledStep, KubectlStep
     DEF Kubeconfig!Next

LEMMA KubeconfigInit == Kubeconfig!Init => KubeconfigInv
<1> SUFFICES ASSUME Kubeconfig!Init PROVE KubeconfigInv
  OBVIOUS
<1>1. PICK entries \in [Names -> {"", "other"}], current \in Names \cup {""},
           is \in {"absent", "whole", "empty", "torn"} :
        file = [config |-> [entries |-> entries, current |-> current], is |-> is]
  BY DEF Kubeconfig!Init
<1>2. /\ file.is \in {"absent", "empty"} => file.config = Kubeconfig!NewConfig
      /\ kept = IF file.is = "torn" THEN {} ELSE Kubeconfig!EntriesOf(file.config)
      /\ lossy = FALSE
  BY DEF Kubeconfig!Init
<1>3. file \in Kubeconfig!Files /\ file.config \in Kubeconfig!Configs
  <2>1. entries \in Kubeconfig!Entries
    BY DEF Kubeconfig!Entries
  <2> DEFINE config == [entries |-> entries, current |-> current]
  <2>2. config \in Kubeconfig!Configs
    BY <2>1 DEF Kubeconfig!Configs
  <2>3. file = [config |-> config, is |-> is]
    BY <1>1
  <2> HIDE DEF config
  <2> QED
    BY <2>2, <2>3 DEF Kubeconfig!Files
<1>4. login \in [Logins -> [at : {"start"}, name : Names, found : {Kubeconfig!NewConfig},
                            mine : {Kubeconfig!NewConfig}, alone : {TRUE}, restored : {FALSE}]]
  BY DEF Kubeconfig!Init
<1>5. login \in [Logins -> LoginStates]
  <2>1. ASSUME NEW l \in [at : {"start"}, name : Names, found : {Kubeconfig!NewConfig},
                          mine : {Kubeconfig!NewConfig}, alone : {TRUE}, restored : {FALSE}]
        PROVE  l \in LoginStates
    BY ConfigTypes DEF LoginStates, Kubeconfig!LoginPlaces
  <2> QED
    BY <1>4, <2>1
<1>6. kept \in KeptTypes
  BY <1>2, <1>3, ConfigTypes DEF KeptTypes
<1>7. Kubeconfig!TypeOK
  BY <1>2, <1>3, <1>5, <1>6 DEF Kubeconfig!TypeOK, LoginStates, KeptTypes
<1>8. \A p \in Logins : login[p].at = "start" /\ login[p].restored = FALSE
  BY <1>4
<1>9. AloneInv
  BY <1>8 DEF AloneInv
<1>10. KeptInv
  <2>1. Kubeconfig!EntriesOf(Kubeconfig!NewConfig) = {}
    BY DEF Kubeconfig!EntriesOf, Kubeconfig!NewConfig
  <2>2. file.is # "whole" => kept = {}
    BY <1>2, <1>3, <2>1 DEF Kubeconfig!Files
  <2>3. file.is = "whole" => Covers(file.config)
    <3> SUFFICES ASSUME file.is = "whole", NEW e \in kept
                 PROVE  file.config.entries[e[1]] = e[2]
      BY DEF Covers
    <3>1. PICK n \in Names : e = <<n, file.config.entries[n]>>
      BY <1>2 DEF Kubeconfig!EntriesOf
    <3> QED
      BY <3>1
  <2> QED
    BY <1>8, <2>2, <2>3 DEF KeptInv, Writes, Kubeconfig!Loaded
<1> QED
  BY <1>7, <1>9, <1>10 DEF KubeconfigInv

(* Only its own step can end a login.                                      *)
LEMMA OthersGoOn ==
  ASSUME KubeconfigInv, Kubeconfig!Next, NEW p \in Logins,
         login'[p].at # login[p].at
  PROVE  \/ Kubeconfig!resolveClusterEndpoint(p) \/ Kubeconfig!Load(p) \/ Kubeconfig!Open(p)
         \/ Kubeconfig!Write(p) \/ Kubeconfig!validateAccess(p)
         \/ Kubeconfig!RestoreContext(p) \/ Kubeconfig!Killed(p)
<1>1. login \in [Logins -> LoginStates]
  BY KubeconfigFacts DEF KubeconfigInv
<1>2. login[p] \in LoginStates /\ Kubeconfig!Disturbed(login[p]).at = login[p].at
  BY <1>1, DisturbedTypes
<1>3. ~Kubeconfig!Kubectl
  BY <1>2 DEF Kubeconfig!Kubectl
<1>4. ASSUME NEW q \in Logins \ {p}, NEW new, Kubeconfig!Moves(q, new) PROVE FALSE
  BY <1>1, <1>4 DEF Kubeconfig!Moves
<1>5. ASSUME NEW q \in Logins \ {p}, NEW new, Kubeconfig!Touches(q, new) PROVE FALSE
  BY <1>2, <1>5 DEF Kubeconfig!Touches
<1>6. PICK q \in Logins :
        \/ Kubeconfig!resolveClusterEndpoint(q) \/ Kubeconfig!Load(q) \/ Kubeconfig!Open(q)
        \/ Kubeconfig!Write(q) \/ Kubeconfig!validateAccess(q)
        \/ Kubeconfig!RestoreContext(q) \/ Kubeconfig!Killed(q)
  BY <1>3 DEF Kubeconfig!Next
<1>7. ASSUME q # p PROVE FALSE
  <2>1. q \in Logins \ {p}
    BY <1>7
  <2>2. ~Kubeconfig!resolveClusterEndpoint(q)
    BY <1>4, <2>1 DEF Kubeconfig!resolveClusterEndpoint
  <2>3. ~Kubeconfig!Load(q)
    BY <1>4, <2>1 DEF Kubeconfig!Load
  <2>4. ~Kubeconfig!Open(q)
    BY <1>4, <1>5, <2>1 DEF Kubeconfig!Open
  <2>5. ~Kubeconfig!Write(q)
    BY <1>2, <1>5, <2>1 DEF Kubeconfig!Write, Kubeconfig!Written
  <2>6. ~Kubeconfig!validateAccess(q)
    BY <1>4, <2>1 DEF Kubeconfig!validateAccess
  <2>7. ~Kubeconfig!RestoreContext(q)
    BY <1>4, <2>1 DEF Kubeconfig!RestoreContext
  <2>8. ~Kubeconfig!Killed(q)
    BY <1>1, <2>1 DEF Kubeconfig!Killed
  <2> QED
    BY <1>6, <2>2, <2>3, <2>4, <2>5, <2>6, <2>7, <2>8
<1> QED
  BY <1>6, <1>7

(* What LoneLogin says of a step of p.                                     *)
LoneStep(p) ==
    login[p].at \in Kubeconfig!LoginPlaces /\ login'[p].alone
    /\ login'[p].at \in {"ok", "rejected"} =>
        /\ login'[p].at = "ok" => file'.config = Mine(p)
        /\ login'[p].restored => file'.config = Restored(p)

(* A login that is turned away with nothing set back.                      *)
LEMMA PlainEnd ==
  ASSUME KubeconfigInv, NEW p \in Logins, login[p].at \in Kubeconfig!LoginPlaces,
         NEW how \in Kubeconfig!Ends, how # "ok", login'[p] = Kubeconfig!End(p, how)
  PROVE  LoneStep(p)
<1>1. login[p] \in LoginStates /\ ~login[p].restored
  BY KubeconfigFacts DEF KubeconfigInv, AloneInv
<1>2. login'[p].at = how /\ login'[p].restored = login[p].restored
  BY <1>1 DEF Kubeconfig!End, LoginStates
<1> QED
  BY <1>1, <1>2 DEF LoneStep

LEMMA LoneEnds ==
  ASSUME KubeconfigInv, Kubeconfig!Next, NEW p \in Logins PROVE LoneStep(p)
<1> SUFFICES ASSUME login[p].at \in Kubeconfig!LoginPlaces, login'[p].at \in {"ok", "rejected"}
             PROVE  LoneStep(p)
  BY DEF LoneStep
<1>1. /\ login \in [Logins -> LoginStates] /\ login[p] \in LoginStates
      /\ ~login[p].restored /\ AloneGood(login[p], file)
  BY KubeconfigFacts, AloneEach DEF KubeconfigInv, AloneInv
<1>2. login'[p].at # login[p].at
  BY DEF Kubeconfig!LoginPlaces
<1>3. \A new : Kubeconfig!Moves(p, new) => login'[p] = new /\ file' = file
  BY <1>1 DEF Kubeconfig!Moves
<1>4. \A new : Kubeconfig!Touches(p, new) => login'[p] = new
  BY <1>1 DEF Kubeconfig!Touches
<1>5. {"failed", "rejected", "killed"} \subseteq Kubeconfig!Ends
      /\ Kubeconfig!AfterError(p) \in {"failed", "rejected"}
  BY DEF Kubeconfig!Ends, Kubeconfig!AfterError
<1>6. /\ \A found, mine : [login[p] EXCEPT !.at = "open", !.found = found, !.mine = mine].at = "open"
      /\ \A mine : [login[p] EXCEPT !.at = "reopen", !.mine = mine].at = "reopen"
  BY <1>1 DEF LoginStates
<1>7. ASSUME Kubeconfig!resolveClusterEndpoint(p) PROVE LoneStep(p)
  <2>1. ~Kubeconfig!Moves(p, [login[p] EXCEPT !.at = "load"])
    BY <1>1, <1>3 DEF LoginStates
  <2> QED
    BY <1>3, <1>5, <1>7, <2>1, PlainEnd DEF Kubeconfig!resolveClusterEndpoint
<1>8. ASSUME Kubeconfig!Load(p) PROVE LoneStep(p)
  <2>1. ASSUME NEW cfg, Kubeconfig!Moves(p, [login[p] EXCEPT !.at = "open", !.found = cfg,
                            !.mine = Kubeconfig!Update(cfg, login[p].name)])
        PROVE  FALSE
    <3>1. login'[p] = [login[p] EXCEPT !.at = "open", !.found = cfg,
                            !.mine = Kubeconfig!Update(cfg, login[p].name)]
      BY <1>3, <2>1
    <3>2. login'[p].at = "open"
      BY <1>6, <3>1
    <3> QED
      BY <3>2
  <2> QED
    BY <1>3, <1>5, <1>8, <2>1, PlainEnd DEF Kubeconfig!Load
<1>9. ASSUME Kubeconfig!Open(p) PROVE LoneStep(p)
  <2>1. ~Kubeconfig!Touches(p, [login[p] EXCEPT !.at = IF @ = "open" THEN "write" ELSE "rewrite"])
    BY <1>1, <1>4 DEF LoginStates
  <2> QED
    BY <1>3, <1>5, <1>9, <2>1, PlainEnd DEF Kubeconfig!Open
<1>10. ASSUME Kubeconfig!Write(p) PROVE LoneStep(p)
  <2>1. CASE login'[p] = Kubeconfig!End(p, Kubeconfig!AfterError(p))
    BY <1>5, <2>1, PlainEnd
  <2>2. CASE login'[p] = [Kubeconfig!End(p, Kubeconfig!AfterError(p)) EXCEPT !.alone = FALSE]
    <3>1. login'[p].alone = FALSE
      BY <1>1, <2>2 DEF Kubeconfig!End, LoginStates
    <3> QED
      BY <3>1 DEF LoneStep
  <2>3. CASE login'[p] = [login[p] EXCEPT !.at = "validate", !.mine = Kubeconfig!NewConfig]
    <3>1. login'[p].at = "validate"
      BY <1>1, <2>3 DEF LoginStates
    <3> QED
      BY <3>1
  <2>4. CASE /\ login[p].at = "rewrite" /\ file'.config = login[p].mine
             /\ login'[p] = [Kubeconfig!End(p, "rejected") EXCEPT !.restored = TRUE]
    <3>1. login'[p].at = "rejected" /\ login'[p].alone = login[p].alone
      BY <1>1, <2>4 DEF Kubeconfig!End, LoginStates
    <3>2. login[p].alone => login[p].mine = Restored(p)
      BY <1>1, <2>4 DEF AloneGood, Restored, Mine
    <3> QED
      BY <2>4, <3>1, <3>2 DEF LoneStep
  <2>5. CASE file' = [config |-> login[p].mine, is |-> "whole"] /\ Kubeconfig!Written(p)
    <3>1. file'.config = login[p].mine
      BY <2>5
    <3> QED
      BY <1>4, <2>2, <2>3, <2>4, <2>5, <3>1 DEF Kubeconfig!Written
  <2>6. CASE login' = [q \in Logins |-> IF q = p THEN Kubeconfig!End(p, Kubeconfig!AfterError(p))
                                        ELSE Kubeconfig!Disturbed(login[q])]
    BY <2>1, <2>6
  <2> QED
    BY <1>10, <2>5, <2>6 DEF Kubeconfig!Write
<1>11. ASSUME Kubeconfig!validateAccess(p) PROVE LoneStep(p)
  <2>1. CASE Kubeconfig!Moves(p, Kubeconfig!End(p, "ok"))
    <3>1. login'[p] = Kubeconfig!End(p, "ok") /\ file' = file
      BY <1>3, <2>1
    <3>2. login'[p].alone = login[p].alone /\ login'[p].restored = login[p].restored
      BY <1>1, <3>1 DEF Kubeconfig!End, LoginStates
    <3>3. login[p].alone => file = [config |-> Mine(p), is |-> "whole"]
      BY <1>1, <1>11 DEF AloneGood, Mine, Kubeconfig!validateAccess
    <3> QED
      BY <1>1, <3>1, <3>2, <3>3 DEF LoneStep
  <2>2. CASE Kubeconfig!Moves(p, IF login[p].found.current = "" THEN Kubeconfig!End(p, "rejected")
                                 ELSE [login[p] EXCEPT !.at = "reload"])
    <3>1. ~Kubeconfig!Moves(p, [login[p] EXCEPT !.at = "reload"])
      BY <1>1, <1>3 DEF LoginStates
    <3>2. Kubeconfig!Moves(p, Kubeconfig!End(p, "rejected"))
      BY <2>2, <3>1
    <3> QED
      BY <1>3, <1>5, <3>2, PlainEnd
  <2> QED
    BY <1>11, <2>1, <2>2 DEF Kubeconfig!validateAccess
<1>12. ASSUME Kubeconfig!RestoreContext(p) PROVE LoneStep(p)
  <2>1. ASSUME NEW cfg, Kubeconfig!Moves(p, [login[p] EXCEPT !.at = "reopen",
                            !.mine = [cfg EXCEPT !.current = login[p].found.current]])
        PROVE  FALSE
    <3>1. login'[p] = [login[p] EXCEPT !.at = "reopen",
                            !.mine = [cfg EXCEPT !.current = login[p].found.current]]
      BY <1>3, <2>1
    <3>2. login'[p].at = "reopen"
      BY <1>6, <3>1
    <3> QED
      BY <3>2
  <2> QED
    BY <1>3, <1>5, <1>12, <2>1, PlainEnd DEF Kubeconfig!RestoreContext
<1>13. ASSUME Kubeconfig!Killed(p) PROVE LoneStep(p)
  <2>1. login'[p] = Kubeconfig!End(p, "killed")
    BY <1>1, <1>13 DEF Kubeconfig!Killed
  <2> QED
    BY <1>5, <2>1, PlainEnd
<1> QED
  BY <1>2, <1>7, <1>8, <1>9, <1>10, <1>11, <1>12, <1>13, OthersGoOn

-----------------------------------------------------------------------------
(* The parts together: a step of one leaves the variables of the others.   *)
PartsInv ==
    /\ Inv /\ Unanswered
    /\ EndpointsInv
    /\ ResponseInv
    /\ RequestInv
    /\ KubeconfigInv

LEMMA PartsStart == PartsInit => PartsInv
<1> SUFFICES ASSUME PartsInit PROVE PartsInv
  OBVIOUS
<1>1. Init /\ Endpoints!Init /\ Response!Init /\ Kubeconfig!Init
  BY DEF PartsInit
<1>2. Request!Init \/ NoRequest
  BY DEF PartsInit
<1> QED
  BY <1>1, <1>2, InitInv, InitUnanswered, EndpointsInit, ResponseInit, RequestInit,
     KubeconfigInit DEF PartsInv

LEMMA EachPartSteps ==
  ASSUME [PartsNext]_partsVars
  PROVE  /\ [Next]_vars
         /\ [Endpoints!Next]_(Endpoints!vars)
         /\ [Response!Next]_(Response!vars)
         /\ [Request!Next]_(Request!vars)
         /\ [Kubeconfig!Next]_(Kubeconfig!vars)
<1> USE DEF endpointVars, responseVars, requestVars, kubeconfigVars, vars, Endpoints!vars,
        Response!vars, Request!vars, Kubeconfig!vars
<1>1. CASE UNCHANGED partsVars
  BY <1>1 DEF partsVars
<1>2. CASE PartsNext
  BY <1>2 DEF PartsNext
<1> QED
  BY <1>1, <1>2

LEMMA PartsStep == ASSUME PartsInv, [PartsNext]_partsVars PROVE PartsInv'
<1>1. Inv' /\ Unanswered'
  BY EachPartSteps, Step, UnansweredStep DEF PartsInv
<1>2. EndpointsInv'
  BY EachPartSteps, EndpointsStep DEF PartsInv
<1>3. ResponseInv'
  BY EachPartSteps, ResponseStep DEF PartsInv
<1>4. RequestInv'
  BY EachPartSteps, RequestStep DEF PartsInv
<1>5. KubeconfigInv'
  BY EachPartSteps, KubeconfigStep DEF PartsInv
<1> QED
  BY <1>1, <1>2, <1>3, <1>4, <1>5 DEF PartsInv

(* The invariants of all parts hold, whichever of them moves.              *)
THEOREM PartsInvariance == PartsSpec => []PartsInv
<1>1. PartsInit => PartsInv
  BY PartsStart
<1>2. PartsInv /\ [PartsNext]_partsVars => PartsInv'
  BY PartsStep
<1> QED BY <1>1, <1>2, PTL DEF PartsSpec

(* Every variable of every part has its type: the caches, mutexes and      *)
(* manifests, the bodies with their counters, the file and its logins.     *)
THEOREM PartsTypeCorrect == PartsSpec => []PartsTypeOK
<1>1. PartsInv => PartsTypeOK
  BY DEF PartsInv, PartsTypeOK, Inv, EndpointsInv, ResponseInv, RequestInv, KubeconfigInv
<1> QED BY <1>1, PartsInvariance, PTL

(* All who look for the endpoints of an environment see one manifest of    *)
(* it, fetched once and trusted, whatever is published meanwhile: the      *)
(* cache is read under the mutex that a fetch holds (discovery.go:165-283).*)
THEOREM OneManifestTheorem == PartsSpec => []OneManifest
<1>1. PartsInv => OneManifest
  BY DEF PartsInv, EndpointsInv
<1> QED BY <1>1, PartsInvariance, PTL

(* A response's body is named once in the trace, and printed only if all   *)
(* of it was read and kept, whoever of reader and closers comes first; the *)
(* copy of a request's body is closed once, by the worker or by the hook   *)
(* of the cancellation, and shown only if it was read whole                *)
(* (body.go:83-214).                                                       *)
THEOREM BodiesToldTheorem == PartsSpec => []BodiesTold
<1>1. PartsInv => BodiesTold
  BY DEF PartsInv, BodiesTold, ResponseInv, RequestInv
<1> QED BY <1>1, PartsInvariance, PTL

(* No entry of the kubeconfig file is lost, but to a login to the same     *)
(* cluster, unless a save was overlapped or cut short: everything that     *)
(* others put there is in what a login has loaded, and in what it saves    *)
(* (kubeconfig.go:51-151).                                                 *)
THEOREM NothingLostTheorem == PartsSpec => []NothingLost
<1>1. PartsInv => NothingLost
  BY DEF PartsInv, KubeconfigInv, KeptInv, Covers, NothingLost, Kubeconfig!NothingLost
<1> QED BY <1>1, PartsInvariance, PTL

(* A login that nobody disturbs ends with its own entry in the file as it  *)
(* found it, and with its own context if it succeeded, the one before if   *)
(* it set that back (login.go:98-107).                                     *)
THEOREM LoneLoginTheorem == PartsSpec => LoneLogin
<1>1. PartsInv /\ [PartsNext]_partsVars =>
        [\A p \in Logins : LoneStep(p)]_(Kubeconfig!vars)
  BY EachPartSteps, LoneEnds DEF PartsInv
<1>2. (\A p \in Logins : LoneStep(p)) =>
        \A p \in Logins :
          login[p].at \in Kubeconfig!LoginPlaces /\ login'[p].alone
          /\ login'[p].at \in {"ok", "rejected"} =>
            LET done == Kubeconfig!Update(login[p].found, login[p].name) IN
            /\ login'[p].at = "ok" => file'.config = done
            /\ login'[p].restored => file'.config = [done EXCEPT !.current =
                                                        login[p].found.current]
  BY DEF LoneStep, Mine, Restored
<1> QED BY <1>1, <1>2, PartsInvariance, PTL DEF PartsSpec, LoneLogin, Kubeconfig!LoneLogin
=============================================================================
