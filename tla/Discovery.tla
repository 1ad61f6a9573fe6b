------------------------------ MODULE Discovery ------------------------------
(***************************************************************************)
(* Resolver (pkg/discovery): the endpoints of a region, from flags,        *)
(* environment and configuration, or from the manifest that the            *)
(* environment publishes.  Manifests are cached by URL, under a mutex that *)
(* is held while one is fetched.  What is published is external, and may   *)
(* change between any two fetches.                                         *)
(***************************************************************************)
EXTENDS Naturals

CONSTANTS
    Lookers,        \* goroutines that resolve endpoints
    URLs,           \* manifest URLs of the environments
    Contents,       \* what a manifest may have: region, has, valid
    MaxVersions,    \* bound: manifests published
    MaxFetches      \* bound: fetches begun

Endpoints == {"platformAPI", "oidc"}

VARIABLES
    published,      \* published[u]: the manifest at u
    cacheMutex,     \* who holds it
    manifestsByURL, \* the cache
    fetches,        \* fetches begun, and fetched[u]: those of u that succeeded
    fetched,
    look            \* look[l]: a call of Region

vars == <<published, cacheMutex, manifestsByURL, fetches, fetched, look>>

(* A manifest, as one region sees it: its number, whether it has the       *)
(* region, which endpoints, and whether it parses and all its endpoints    *)
(* are in the trusted domain.                                              *)
Manifests == {[nr |-> n, region |-> c.region, has |-> c.has, valid |-> c.valid] :
                 n \in 1 .. MaxVersions, c \in Contents}
Absent == [nr |-> 0, region |-> FALSE, has |-> {}, valid |-> FALSE]

Places == {"out", "lock", "fetch", "resolve", "ok", "error"}

(* given: the endpoints set explicitly; named: environment and region are  *)
(* set; manifest: the one it got; result: where each endpoint is from, 0   *)
(* for an explicit value.                                                  *)
Looks == [at : Places, url : URLs, given : SUBSET Endpoints, named : BOOLEAN,
          manifest : Manifests \cup {Absent}, result : [Endpoints -> {"given", "manifest", "none"}]]

Nothing == [e \in Endpoints |-> "none"]

TypeOK ==
    /\ published \in [URLs -> Manifests]
    /\ cacheMutex \in Lookers \cup {"nobody"}
    /\ manifestsByURL \in [URLs -> Manifests \cup {Absent}]
    /\ fetches \in 0 .. MaxFetches
    /\ fetched \in [URLs -> 0 .. MaxFetches]
    /\ look \in [Lookers -> Looks]

-----------------------------------------------------------------------------
Init ==
    /\ published \in [URLs -> {m \in Manifests : m.nr = 1}]
    /\ cacheMutex = "nobody"
    /\ manifestsByURL = [u \in URLs |-> Absent]
    /\ fetches = 0
    /\ fetched = [u \in URLs |-> 0]
    /\ \E u \in URLs : look = [l \in Lookers |->
        [at |-> "out", url |-> u, given |-> {}, named |-> FALSE, manifest |-> Absent,
         result |-> Nothing]]

Publish(u) ==
    /\ \E m \in Manifests : m.nr = published[u].nr + 1 /\ published' = [published EXCEPT ![u] = m]
    /\ UNCHANGED <<cacheMutex, manifestsByURL, fetches, fetched, look>>

(* Region: explicit values first; without environment or region, only      *)
(* those.                                                                  *)
Region(l) ==
    /\ look[l].at = "out"
    /\ \E u \in URLs, given \in SUBSET Endpoints, named \in BOOLEAN :
        look' = [look EXCEPT ![l] =
            [at |-> IF given = Endpoints \/ ~named THEN "ok" ELSE "lock",
             url |-> u, given |-> given, named |-> named, manifest |-> Absent,
             result |-> [e \in Endpoints |-> IF e \in given THEN "given" ELSE "none"]]]
    /\ UNCHANGED <<published, cacheMutex, manifestsByURL, fetches, fetched>>

(* Mutant: the mutex guards the map, but not the fetch.                    *)
cachedManifestUnlocked(l) ==
    /\ look[l].at = "lock" /\ cacheMutex = "nobody"
    /\ LET m == manifestsByURL[look[l].url] IN
        IF m # Absent
        THEN /\ look' = [look EXCEPT ![l].at = "resolve", ![l].manifest = m]
             /\ UNCHANGED fetches
        ELSE /\ fetches < MaxFetches /\ fetches' = fetches + 1
             /\ look' = [look EXCEPT ![l].at = "fetch"]
    /\ UNCHANGED <<published, cacheMutex, manifestsByURL, fetched>>

cachedManifest(l) ==
    /\ look[l].at = "lock" /\ cacheMutex = "nobody"
    /\ LET m == manifestsByURL[look[l].url] IN
        IF m # Absent
        THEN /\ look' = [look EXCEPT ![l].at = "resolve", ![l].manifest = m]
             /\ UNCHANGED <<cacheMutex, fetches>>
        ELSE /\ fetches < MaxFetches /\ fetches' = fetches + 1
             /\ look' = [look EXCEPT ![l].at = "fetch"]
             /\ cacheMutex' = l
    /\ UNCHANGED <<published, manifestsByURL, fetched>>

(* Fetch and ParseManifest: no answer, another status, too long, not       *)
(* understood or not trusted; or the manifest.                             *)
FetchFails(l) ==
    /\ look[l].at = "fetch"
    /\ look' = [look EXCEPT ![l].at = "error"]
    /\ cacheMutex' = "nobody"
    /\ UNCHANGED <<published, manifestsByURL, fetches, fetched>>

Fetch(l) ==
    /\ look[l].at = "fetch"
    /\ LET u == look[l].url IN
        /\ published[u].valid
        /\ manifestsByURL' = [manifestsByURL EXCEPT ![u] = published[u]]
        /\ fetched' = [fetched EXCEPT ![u] = @ + 1]
        /\ look' = [look EXCEPT ![l].at = "resolve", ![l].manifest = published[u]]
    /\ cacheMutex' = "nobody"
    /\ UNCHANGED <<published, fetches>>

(* The rest of Region: the manifest supplies what is missing.              *)
Resolve(l) ==
    /\ look[l].at = "resolve"
    /\ look' = [look EXCEPT ![l].at = IF look[l].manifest.region THEN "ok" ELSE "error",
                    ![l].result = [e \in Endpoints |->
                        IF @[e] = "none" /\ e \in look[l].manifest.has THEN "manifest" ELSE @[e]]]
    /\ UNCHANGED <<published, cacheMutex, manifestsByURL, fetches, fetched>>

Again(l) ==
    /\ look[l].at \in {"ok", "error"}
    /\ look' = [look EXCEPT ![l] = [@ EXCEPT !.at = "out", !.given = {}, !.named = FALSE,
                                             !.manifest = Absent, !.result = Nothing]]
    /\ UNCHANGED <<published, cacheMutex, manifestsByURL, fetches, fetched>>

Next ==
    \/ \E u \in URLs : Publish(u)
    \/ \E l \in Lookers :
        \/ Region(l) \/ cachedManifest(l) \/ Fetch(l) \/ FetchFails(l) \/ Resolve(l) \/ Again(l)

Spec == Init /\ [][Next]_vars

-----------------------------------------------------------------------------
(* One process sees one manifest of an environment: it is fetched with     *)
(* success at most once, by one of those that wait for each other, what is *)
(* published meanwhile is not mixed with it (discovery.go:165-167), and a  *)
(* fetch that failed leaves nothing behind: it was trusted in all parts.   *)
OneManifest ==
    /\ \A u \in URLs : fetched[u] <= 1
    /\ \A u \in URLs : manifestsByURL[u] # Absent => manifestsByURL[u].valid
    /\ \A l \in Lookers : look[l].manifest # Absent =>
            look[l].manifest = manifestsByURL[look[l].url]
=============================================================================
