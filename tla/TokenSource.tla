----------------------------- MODULE TokenSource -----------------------------
(***************************************************************************)
(* TokenSource (pkg/auth): the identity token of all requests of a         *)
(* process, refreshed under a mutex by the request that finds it stale.    *)
(* What fetches it is external: the SDK tells when a token expires, gcloud *)
(* does not, and a fresh token of gcloud is taken to live as long as the   *)
(* code assumes (defaultTokenLifetime).  A refresh has a deadline.  auth   *)
(* token hands the expiry on to kubectl, with the same margin.             *)
(***************************************************************************)
EXTENDS Naturals

CONSTANTS
    Callers,                \* goroutines with a request, invocations of auth token
    TokenEarlyRefresh,      \* margin before the expiry
    defaultTokenLifetime,   \* lifetime of a token of unknown expiry
    tokenRefreshTimeout,    \* deadline of a refresh
    MaxTime                 \* bound: the clock stops here

ASSUME TimeAssumption ==
    /\ {TokenEarlyRefresh, defaultTokenLifetime, tokenRefreshTimeout, MaxTime} \subseteq Nat
    /\ defaultTokenLifetime > 0
    /\ tokenRefreshTimeout <= TokenEarlyRefresh

ASSUME CallersAssumption == "nobody" \notin Callers

VARIABLES
    now,           \* the time
    tokenMutex,    \* who holds ts.mu
    cached,        \* ts.token, ts.expiry, ts.userEmail
    call           \* call[c]: a call of Token

vars == <<now, tokenMutex, cached, call>>

(* A token: when it really ends.  0 stands for no token.                   *)
Cached == [token : Nat, expiry : Nat, email : BOOLEAN]
Places == {"out", "lock", "token", "email", "ok", "error"}

(* since: the start of its refresh; told: whether the expiry is known;     *)
(* token, expiry, email: what it has in hand, or returned; hit, when:      *)
(* whether that came from the cache, and the time.                         *)
CallStates == [at : Places, since : Nat, told : BOOLEAN, token : Nat, expiry : Nat,
               email : BOOLEAN, hit : BOOLEAN, when : Nat]

Idle == [at |-> "out", since |-> 0, told |-> FALSE, token |-> 0, expiry |-> 0,
         email |-> FALSE, hit |-> FALSE, when |-> 0]

TypeOK ==
    /\ now \in Nat
    /\ tokenMutex \in Callers \cup {"nobody"}
    /\ cached \in Cached
    /\ call \in [Callers -> CallStates]

Refreshing(c) == call[c].at \in {"token", "email"}

Fresh == cached.token # 0 /\ now + TokenEarlyRefresh < cached.expiry

-----------------------------------------------------------------------------
Init ==
    /\ now = 0
    /\ tokenMutex = "nobody"
    /\ cached = [token |-> 0, expiry |-> 0, email |-> FALSE]
    /\ call = [c \in Callers |-> Idle]

Enter(c) ==
    /\ call[c].at \in {"out", "ok", "error"}
    /\ call' = [call EXCEPT ![c] = [Idle EXCEPT !.at = "lock"]]
    /\ UNCHANGED <<now, tokenMutex, cached>>

(* The lock, and the token if it is fresh.                                 *)
Acquire(c) ==
    /\ call[c].at = "lock" /\ tokenMutex = "nobody"
    /\ IF Fresh
       THEN /\ call' = [call EXCEPT ![c] = [@ EXCEPT !.at = "ok", !.token = cached.token,
                            !.expiry = cached.expiry, !.email = cached.email, !.hit = TRUE,
                            !.when = now]]
            /\ UNCHANGED tokenMutex
       ELSE /\ call' = [call EXCEPT ![c].at = "token", ![c].since = now]
            /\ tokenMutex' = c
    /\ UNCHANGED <<now, cached>>

(* Mutant: the lock is kept.                                               *)
FailLocked(c) ==
    /\ call' = [call EXCEPT ![c] = [Idle EXCEPT !.at = "error"]]
    /\ UNCHANGED <<tokenMutex, cached>>

Fail(c) ==
    /\ call' = [call EXCEPT ![c] = [Idle EXCEPT !.at = "error"]]
    /\ tokenMutex' = "nobody"
    /\ UNCHANGED cached

(* Mutant: the margin is added to the lifetime that is assumed.            *)
CommitLong(c, token, told) ==
    LET expiry == IF told THEN token ELSE now + defaultTokenLifetime + TokenEarlyRefresh IN
    /\ cached' = [token |-> token, expiry |-> expiry, email |-> TRUE]
    /\ call' = [call EXCEPT ![c] = [@ EXCEPT !.at = "ok", !.token = token, !.expiry = expiry,
                                    !.email = TRUE, !.when = now]]
    /\ tokenMutex' = "nobody"

Commit(c, token, told) ==
    LET expiry == IF told THEN token ELSE now + defaultTokenLifetime IN
    /\ cached' = [token |-> token, expiry |-> expiry, email |-> TRUE]
    /\ call' = [call EXCEPT ![c] = [@ EXCEPT !.at = "ok", !.token = token, !.expiry = expiry,
                                    !.email = TRUE, !.when = now]]
    /\ tokenMutex' = "nobody"

(* When a token ends that was made since the refresh began: of the SDK,    *)
(* that may be soon; of gcloud, after the lifetime that is assumed.        *)
Ends(c, told) ==
    IF told THEN (now + 1) .. (now + defaultTokenLifetime)
    ELSE {t + defaultTokenLifetime : t \in call[c].since .. now}

(* Mutant: the token is cached before the e-mail is known.                 *)
FetchIdentityTokenCaching(c) ==
    /\ call[c].at = "token"
    /\ \/ Fail(c)
       \/ \E told \in BOOLEAN : \E token \in Ends(c, told) :
            IF cached.email
            THEN Commit(c, token, told)
            ELSE /\ call' = [call EXCEPT ![c] = [@ EXCEPT !.at = "email", !.token = token,
                                                          !.told = told]]
                 /\ cached' = [cached EXCEPT !.token = token,
                        !.expiry = IF told THEN token ELSE now + defaultTokenLifetime]
                 /\ UNCHANGED tokenMutex
    /\ UNCHANGED now

FetchIdentityToken(c) ==
    /\ call[c].at = "token"
    /\ \/ Fail(c)
       \/ \E told \in BOOLEAN : \E token \in Ends(c, told) :
            IF cached.email
            THEN Commit(c, token, told)
            ELSE /\ call' = [call EXCEPT ![c] = [@ EXCEPT !.at = "email", !.token = token,
                                                          !.told = told]]
                 /\ UNCHANGED <<tokenMutex, cached>>
    /\ UNCHANGED now

FetchAccountEmail(c) ==
    /\ call[c].at = "email"
    /\ Fail(c) \/ Commit(c, call[c].token, call[c].told)
    /\ UNCHANGED now

(* Time passes, but for no refresh beyond its deadline.                    *)
Tick ==
    /\ now < MaxTime
    /\ \A c \in Callers : Refreshing(c) => now < call[c].since + tokenRefreshTimeout
    /\ now' = now + 1
    /\ UNCHANGED <<tokenMutex, cached, call>>

Next ==
    \/ \E c \in Callers :
        Enter(c) \/ Acquire(c) \/ FetchIdentityToken(c) \/ FetchAccountEmail(c)
    \/ Tick

(* sync.Mutex lets no waiter starve.                                       *)
Fairness == \A c \in Callers :
    /\ SF_vars(Acquire(c))
    /\ WF_vars(FetchIdentityToken(c) \/ FetchAccountEmail(c))

Spec == Init /\ [][Next]_vars

-----------------------------------------------------------------------------
(* A token out of the cache is still good when it is handed out, and no    *)
(* token is said to live longer than it does, less the margin with which   *)
(* kubectl is told, although the life of a gcloud token is a guess counted *)
(* from the end of the refresh (auth.go:36-40, token.go:69-77).            *)
NeverStale ==
    \A c \in Callers : call[c].at = "ok" =>
        /\ call[c].hit => call[c].when < call[c].token
        /\ call[c].expiry <= call[c].token + TokenEarlyRefresh

(* Callers always see a token with its e-mail, never half of the pair:     *)
(* neither in what they get nor, after any failure, in the cache           *)
(* (auth.go:114-124).                                                      *)
PairWhole ==
    /\ cached.token # 0 <=> cached.email
    /\ \A c \in Callers : call[c].at = "ok" => call[c].token # 0 /\ call[c].email

(* However many callers found the last token stale at the same time, one   *)
(* of them fetches a new one, and only while there is no fresh one         *)
(* (auth.go:103-108).                                                      *)
OneFetch ==
    \A c \in Callers : Refreshing(c) =>
        /\ ~Fresh
        /\ \A d \in Callers : Refreshing(d) => d = c

(* Every call returns: a hung fetch keeps its callers no longer than the   *)
(* deadline.                                                               *)
CallsEnd == \A c \in Callers : call[c].at = "lock" ~> call[c].at \in {"ok", "error"}
=============================================================================
