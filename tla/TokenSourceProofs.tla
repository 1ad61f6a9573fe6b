-------------------------- MODULE TokenSourceProofs --------------------------
(***************************************************************************)
(* TokenSource hands out no stale token and no half of a pair, for every   *)
(* number of callers and every lifetime, margin and deadline, as long as   *)
(* the deadline is within the margin.                                      *)
(*                                                                         *)
(* Inv is inductive: whoever refreshes holds the mutex (Locked) and is     *)
(* within its deadline (InTime); what it has in hand (InHand), what is     *)
(* cached (CacheGood) and what was returned (AnswersGood) expires, by its  *)
(* own account, no later than the margin after its end.                    *)
(***************************************************************************)
EXTENDS TokenSource, TLAPS

(* What the cache or an answer says of a token.                            *)
Said(token, expiry) == token # 0 /\ expiry <= token + TokenEarlyRefresh

Locked == \A c \in Callers : Refreshing(c) => tokenMutex = c

InTime == \A c \in Callers : Refreshing(c) =>
    call[c].since <= now /\ now <= call[c].since + tokenRefreshTimeout

InHand == \A c \in Callers : call[c].at = "email" =>
    /\ call[c].token # 0
    /\ ~call[c].told => call[c].since + defaultTokenLifetime <= call[c].token

CacheGood ==
    /\ cached.token # 0 <=> cached.email
    /\ cached.token # 0 => Said(cached.token, cached.expiry)

AnswerGood(a) ==
    /\ Said(a.token, a.expiry) /\ a.email
    /\ a.hit => a.when < a.token

AnswersGood == \A c \in Callers : call[c].at = "ok" => AnswerGood(call[c])

Needed == \A c \in Callers : Refreshing(c) => ~Fresh

Inv ==
    /\ TypeOK /\ Locked /\ InTime /\ InHand /\ CacheGood /\ AnswersGood /\ Needed

-----------------------------------------------------------------------------
LEMMA InitInv == Init => Inv
BY TimeAssumption DEF Init, Inv, TypeOK, Cached, CallStates, Places, Idle, Locked, InTime, InHand,
    CacheGood, AnswersGood, Needed, Refreshing

(* A step of c that writes only its call leaves the calls of the others.   *)
LEMMA OtherCalls ==
    ASSUME TypeOK, NEW c \in Callers, NEW a, call' = [call EXCEPT ![c] = a]
    PROVE  call'[c] = a /\ \A d \in Callers \ {c} : call'[d] = call[d]
BY DEF TypeOK

(* The end of a refresh: the mutex is free, nobody refreshes, and c has    *)
(* its answer.                                                             *)
LEMMA RefreshOver ==
    ASSUME Inv, NEW c \in Callers, Refreshing(c), now' = now,
           NEW a \in CallStates, call' = [call EXCEPT ![c] = a],
           a.at \in {"ok", "error"}, a.at = "ok" => AnswerGood(a),
           tokenMutex' = "nobody", cached' \in Cached, CacheGood'
    PROVE  Inv'
<1>1. call'[c] = a /\ \A d \in Callers \ {c} : call'[d] = call[d]
  BY OtherCalls DEF Inv
<1>2. \A d \in Callers : ~Refreshing(d)'
  <2>1. ~Refreshing(c)'
    BY <1>1 DEF Refreshing
  <2>2. ASSUME NEW d \in Callers \ {c} PROVE ~Refreshing(d)'
    <3>1. ~Refreshing(d)
      BY <2>2 DEF Inv, Locked
    <3> QED BY <1>1, <2>2, <3>1 DEF Refreshing
  <2> QED BY <2>1, <2>2
<1>3. TypeOK'
  BY DEF Inv, TypeOK
<1>4. AnswersGood'
  BY <1>1 DEF Inv, AnswersGood, AnswerGood, Said
<1>5. Locked' /\ InTime' /\ Needed'
  BY <1>2 DEF Locked, InTime, Needed
<1>6. InHand'
  BY <1>2 DEF InHand, Refreshing
<1> QED BY <1>3, <1>4, <1>5, <1>6 DEF Inv

LEMMA FailInv ==
    ASSUME Inv, NEW c \in Callers, Refreshing(c), now' = now, Fail(c)
    PROVE  Inv'
<1> DEFINE a == [Idle EXCEPT !.at = "error"]
<1>1. a \in CallStates /\ a.at = "error"
  BY DEF CallStates, Places, Idle
<1>2. cached' \in Cached /\ CacheGood'
  BY DEF Fail, Inv, TypeOK, CacheGood, Said
<1>3. call' = [call EXCEPT ![c] = a] /\ tokenMutex' = "nobody"
  BY DEF Fail
<1> HIDE DEF a
<1> QED BY <1>1, <1>2, <1>3, RefreshOver

LEMMA CommitInv ==
    ASSUME Inv, NEW c \in Callers, Refreshing(c), now' = now,
           NEW token \in Nat, NEW told \in BOOLEAN, token # 0,
           ~told => call[c].since + defaultTokenLifetime <= token,
           call[c].hit = FALSE, Commit(c, token, told)
    PROVE  Inv'
<1> DEFINE expiry == IF told THEN token ELSE now + defaultTokenLifetime
           a == [call[c] EXCEPT !.at = "ok", !.token = token, !.expiry = expiry,
                                !.email = TRUE, !.when = now]
<1>1. call[c] \in CallStates /\ now \in Nat
  BY DEF Inv, TypeOK
<1>2. expiry \in Nat /\ expiry <= token + TokenEarlyRefresh
  <2>1. CASE told
    BY <2>1, TimeAssumption
  <2>2. CASE ~told
    <3>1. now <= call[c].since + tokenRefreshTimeout
      BY DEF Inv, InTime
    <3>2. call[c].since \in Nat
      BY <1>1 DEF CallStates
    <3> QED BY <1>1, <2>2, <3>1, <3>2, TimeAssumption
  <2> QED BY <2>1, <2>2
<1>3. /\ cached' = [token |-> token, expiry |-> expiry, email |-> TRUE]
      /\ call' = [call EXCEPT ![c] = a] /\ tokenMutex' = "nobody"
  BY DEF Commit
<1> HIDE DEF expiry
<1>4. a \in CallStates /\ a.at = "ok" /\ a.token = token /\ a.expiry = expiry /\ a.email
      /\ a.hit = FALSE
  BY <1>1, <1>2 DEF CallStates, Places
<1>5. AnswerGood(a)
  BY <1>2, <1>4 DEF AnswerGood, Said
<1>6. cached' \in Cached /\ CacheGood'
  BY <1>2, <1>3 DEF Cached, CacheGood, Said
<1> HIDE DEF a
<1> QED BY <1>3, <1>4, <1>5, <1>6, RefreshOver

(* A refresh has no answer yet.                                            *)
Unanswered == \A c \in Callers : Refreshing(c) \/ call[c].at = "lock" => call[c].hit = FALSE

LEMMA InitUnanswered == Init => Unanswered
BY DEF Init, Unanswered, Idle, Refreshing

LEMMA EnterInv == ASSUME Inv, NEW c \in Callers, Enter(c) PROVE Inv'
<1> DEFINE a == [Idle EXCEPT !.at = "lock"]
<1>1. a \in CallStates /\ a.at = "lock"
  BY DEF CallStates, Places, Idle
<1>2. call' = [call EXCEPT ![c] = a] /\ UNCHANGED <<now, tokenMutex, cached>>
  BY DEF Enter
<1> HIDE DEF a
<1>3. call'[c] = a /\ \A d \in Callers \ {c} : call'[d] = call[d]
  BY <1>2, OtherCalls DEF Inv
<1>4. TypeOK'
  BY <1>1, <1>2 DEF Inv, TypeOK
<1>5. Locked' /\ InTime' /\ InHand' /\ Needed'
  BY <1>1, <1>2, <1>3 DEF Inv, Locked, InTime, InHand, Needed, Refreshing, Fresh
<1>6. CacheGood' /\ AnswersGood'
  BY <1>1, <1>2, <1>3 DEF Inv, CacheGood, AnswersGood, AnswerGood, Said
<1> QED BY <1>4, <1>5, <1>6 DEF Inv

LEMMA AcquireInv == ASSUME Inv, NEW c \in Callers, Acquire(c) PROVE Inv'
<1>1. call[c] \in CallStates /\ now \in Nat /\ cached \in Cached
      /\ UNCHANGED <<now, cached>> /\ call[c].at = "lock" /\ tokenMutex = "nobody"
  BY DEF Acquire, Inv, TypeOK
<1>2. CASE Fresh
  <2> DEFINE a == [call[c] EXCEPT !.at = "ok", !.token = cached.token, !.expiry = cached.expiry,
                                  !.email = cached.email, !.hit = TRUE, !.when = now]
  <2>1. a \in CallStates /\ a.at = "ok" /\ a.token = cached.token /\ a.expiry = cached.expiry
        /\ a.email = cached.email /\ a.when = now
    BY <1>1 DEF CallStates, Places, Cached
  <2>2. call' = [call EXCEPT ![c] = a] /\ UNCHANGED tokenMutex
    BY <1>2 DEF Acquire
  <2> HIDE DEF a
  <2>3. call'[c] = a /\ \A d \in Callers \ {c} : call'[d] = call[d]
    BY <2>2, OtherCalls DEF Inv
  <2>4. AnswerGood(a)
    <3>1. cached.token # 0 /\ cached.email /\ cached.expiry <= cached.token + TokenEarlyRefresh
      BY <1>2 DEF Fresh, Inv, CacheGood, Said
    <3>2. now < cached.token
      BY <1>1, <1>2, <3>1, TimeAssumption DEF Fresh, Cached
    <3> QED BY <2>1, <3>1, <3>2 DEF AnswerGood, Said
  <2>5. TypeOK'
    BY <1>1, <2>1, <2>2 DEF Inv, TypeOK
  <2>6. Locked' /\ InTime' /\ InHand' /\ Needed'
    BY <1>1, <2>1, <2>2, <2>3 DEF Inv, Locked, InTime, InHand, Needed, Refreshing, Fresh
  <2>7. CacheGood'
    BY <1>1 DEF Inv, CacheGood, Said
  <2>8. AnswersGood'
    BY <2>3, <2>4 DEF Inv, AnswersGood, AnswerGood, Said
  <2> QED BY <2>5, <2>6, <2>7, <2>8 DEF Inv
<1>3. CASE ~Fresh
  <2> DEFINE a == [call[c] EXCEPT !.at = "token", !.since = now]
  <2>1. a \in CallStates /\ a.at = "token" /\ a.since = now
    BY <1>1 DEF CallStates, Places
  <2>2. call' = [call EXCEPT ![c] = a] /\ tokenMutex' = c
    BY <1>3 DEF Acquire
  <2> HIDE DEF a
  <2>3. call'[c] = a /\ \A d \in Callers \ {c} : call'[d] = call[d]
    BY <2>2, OtherCalls DEF Inv
  <2>4. \A d \in Callers : ~Refreshing(d)
    BY <1>1, CallersAssumption DEF Inv, Locked
  <2>5. TypeOK'
    BY <1>1, <2>1, <2>2 DEF Inv, TypeOK
  <2>6. Locked' /\ InHand'
    BY <2>1, <2>2, <2>3, <2>4 DEF Locked, InHand, Refreshing
  <2>7. InTime'
    BY <1>1, <2>1, <2>3, <2>4, TimeAssumption DEF InTime, Refreshing
  <2>8. Needed'
    BY <1>1, <1>3 DEF Needed, Fresh
  <2>9. CacheGood' /\ AnswersGood'
    BY <1>1, <2>1, <2>3 DEF Inv, CacheGood, AnswersGood, AnswerGood, Said
  <2> QED BY <2>5, <2>6, <2>7, <2>8, <2>9 DEF Inv
<1> QED BY <1>2, <1>3

LEMMA FetchInv ==
    ASSUME Inv, Unanswered, NEW c \in Callers, FetchIdentityToken(c) PROVE Inv'
<1>1. call[c] \in CallStates /\ now \in Nat /\ call[c].at = "token" /\ now' = now
  BY DEF FetchIdentityToken, Inv, TypeOK
<1>2. Refreshing(c) /\ call[c].hit = FALSE
  BY <1>1 DEF Refreshing, Unanswered
<1>3. CASE Fail(c)
  BY <1>1, <1>2, <1>3, FailInv
<1>4. ASSUME NEW told \in BOOLEAN, NEW token \in Ends(c, told)
      PROVE  token \in Nat /\ token # 0
             /\ (~told => call[c].since + defaultTokenLifetime <= token)
  <2>1. call[c].since \in Nat
    BY <1>1 DEF CallStates
  <2> QED BY <1>1, <1>4, <2>1, TimeAssumption DEF Ends
<1>5. ASSUME NEW told \in BOOLEAN, NEW token \in Ends(c, told), Commit(c, token, told)
      PROVE  Inv'
  BY <1>1, <1>2, <1>4, <1>5, CommitInv
<1>6. ASSUME NEW told \in BOOLEAN, NEW token \in Ends(c, told),
             call' = [call EXCEPT ![c] = [@ EXCEPT !.at = "email", !.token = token,
                                                   !.told = told]],
             UNCHANGED <<tokenMutex, cached>>
      PROVE  Inv'
  <2> DEFINE a == [call[c] EXCEPT !.at = "email", !.token = token, !.told = told]
  <2>1. token \in Nat /\ token # 0 /\ (~told => call[c].since + defaultTokenLifetime <= token)
    BY <1>4, <1>6
  <2>2. a \in CallStates /\ a.at = "email" /\ a.since = call[c].since /\ a.token = token
        /\ a.told = told
    BY <1>1, <1>6, <2>1 DEF CallStates, Places
  <2>3. call' = [call EXCEPT ![c] = a] /\ UNCHANGED <<now, tokenMutex, cached>>
    BY <1>1, <1>6
  <2> HIDE DEF a
  <2>4. call'[c] = a /\ \A d \in Callers \ {c} : call'[d] = call[d]
    BY <2>3, OtherCalls DEF Inv
  <2>5. TypeOK'
    BY <2>2, <2>3 DEF Inv, TypeOK
  <2>6. Locked' /\ InTime' /\ Needed'
    BY <1>2, <2>2, <2>3, <2>4 DEF Inv, Locked, InTime, Needed, Refreshing, Fresh
  <2>7. InHand'
    BY <2>1, <2>2, <2>4 DEF Inv, InHand
  <2>8. CacheGood' /\ AnswersGood'
    BY <2>2, <2>3, <2>4 DEF Inv, CacheGood, AnswersGood, AnswerGood, Said
  <2> QED BY <2>5, <2>6, <2>7, <2>8 DEF Inv
<1> QED BY <1>3, <1>5, <1>6 DEF FetchIdentityToken

LEMMA EmailInv ==
    ASSUME Inv, Unanswered, NEW c \in Callers, FetchAccountEmail(c) PROVE Inv'
<1>1. call[c] \in CallStates /\ call[c].at = "email" /\ now' = now
  BY DEF FetchAccountEmail, Inv, TypeOK
<1>2. Refreshing(c) /\ call[c].hit = FALSE
  BY <1>1 DEF Refreshing, Unanswered
<1>3. call[c].token \in Nat /\ call[c].told \in BOOLEAN
  BY <1>1 DEF CallStates
<1>4. /\ call[c].token # 0
      /\ ~call[c].told => call[c].since + defaultTokenLifetime <= call[c].token
  BY <1>1 DEF Inv, InHand
<1>5. CASE Fail(c)
  BY <1>1, <1>2, <1>5, FailInv
<1>6. CASE Commit(c, call[c].token, call[c].told)
  BY <1>1, <1>2, <1>3, <1>4, <1>6, CommitInv
<1> QED BY <1>5, <1>6 DEF FetchAccountEmail

LEMMA TickInv == ASSUME Inv, Tick PROVE Inv'
<1>1. now \in Nat /\ now' = now + 1 /\ UNCHANGED <<tokenMutex, cached, call>>
  BY DEF Tick, Inv, TypeOK
<1>2. TypeOK' /\ Locked' /\ InHand' /\ CacheGood' /\ AnswersGood'
  BY <1>1 DEF Inv, TypeOK, Locked, InHand, CacheGood, AnswersGood, AnswerGood, Said, Refreshing
<1>3. InTime'
  <2> SUFFICES ASSUME NEW c \in Callers, Refreshing(c)
               PROVE  call[c].since <= now + 1 /\ now + 1 <= call[c].since + tokenRefreshTimeout
    BY <1>1 DEF InTime, Refreshing
  <2>1. call[c].since \in Nat
    BY DEF Inv, TypeOK, CallStates
  <2>2. call[c].since <= now /\ now < call[c].since + tokenRefreshTimeout
    BY DEF Inv, InTime, Tick
  <2> QED BY <1>1, <2>1, <2>2, TimeAssumption
<1>4. Needed'
  <2>1. cached.expiry \in Nat
    BY DEF Inv, TypeOK, Cached
  <2>2. Fresh' => Fresh
    BY <1>1, <2>1, TimeAssumption DEF Fresh
  <2> QED BY <1>1, <2>2 DEF Inv, Needed, Refreshing
<1> QED BY <1>2, <1>3, <1>4 DEF Inv

LEMMA UnansweredStep == ASSUME Inv, Unanswered, [Next]_vars PROVE Unanswered'
<1>1. CASE UNCHANGED call
  BY <1>1 DEF Unanswered, Refreshing
<1>2. ASSUME NEW c \in Callers,
             Enter(c) \/ Acquire(c) \/ FetchIdentityToken(c) \/ FetchAccountEmail(c)
      PROVE  Unanswered'
  <2>1. \A d \in Callers \ {c} : call'[d] = call[d]
    BY <1>2 DEF Inv, TypeOK, Enter, Acquire, FetchIdentityToken, FetchAccountEmail, Fail, Commit
  <2>2. call[c] \in CallStates
    BY DEF Inv, TypeOK
  <2>3. c \in DOMAIN call
    BY DEF Inv, TypeOK
  <2>4. ASSUME call'[c].at \in {"lock", "token", "email"} PROVE call'[c].hit = FALSE
    <3>1. CASE Enter(c)
      BY <2>2, <2>4, <3>1 DEF Inv, TypeOK, CallStates, Enter, Idle
    <3>2. CASE Acquire(c)
      <4>1. call[c].hit = FALSE
        BY <3>2 DEF Acquire, Unanswered
      <4>2. CASE Fresh
        BY <2>2, <2>4, <2>3, <3>2, <4>2 DEF Acquire, CallStates
      <4>3. CASE ~Fresh
        BY <2>2, <2>3, <3>2, <4>1, <4>3 DEF Acquire, CallStates
      <4> QED BY <4>2, <4>3
    <3>3. ASSUME call'[c] = [Idle EXCEPT !.at = "error"] PROVE FALSE
      BY <2>4, <3>3 DEF Idle
    <3>4. ASSUME NEW token, NEW told, Commit(c, token, told) PROVE FALSE
      BY <2>2, <2>4, <2>3, <3>4 DEF Commit, CallStates
    <3>5. CASE FetchIdentityToken(c)
      <4>1. call[c].hit = FALSE
        BY <3>5 DEF FetchIdentityToken, Unanswered, Refreshing
      <4>2. CASE Fail(c)
        BY <2>3, <3>3, <4>2 DEF Fail
      <4>3. ASSUME NEW token, NEW told,
                   call' = [call EXCEPT ![c] = [@ EXCEPT !.at = "email", !.token = token,
                                                         !.told = told]]
            PROVE  call'[c].hit = FALSE
        BY <2>2, <2>3, <4>1, <4>3 DEF CallStates
      <4> QED BY <3>4, <3>5, <4>2, <4>3 DEF FetchIdentityToken
    <3>6. CASE FetchAccountEmail(c)
      BY <2>3, <3>3, <3>4, <3>6 DEF FetchAccountEmail, Fail
    <3> QED BY <1>2, <3>1, <3>2, <3>5, <3>6
  <2> QED BY <2>1, <2>4 DEF Unanswered, Refreshing
<1>3. CASE Tick
  BY <1>1, <1>3 DEF Tick
<1>4. CASE UNCHANGED vars
  BY <1>1, <1>4 DEF vars
<1> QED BY <1>2, <1>3, <1>4 DEF Next

LEMMA Step == ASSUME Inv, Unanswered, [Next]_vars PROVE Inv'
<1>1. ASSUME NEW c \in Callers, Enter(c) PROVE Inv'
  BY <1>1, EnterInv
<1>2. ASSUME NEW c \in Callers, Acquire(c) PROVE Inv'
  BY <1>2, AcquireInv
<1>3. ASSUME NEW c \in Callers, FetchIdentityToken(c) PROVE Inv'
  BY <1>3, FetchInv
<1>4. ASSUME NEW c \in Callers, FetchAccountEmail(c) PROVE Inv'
  BY <1>4, EmailInv
<1>5. CASE Tick
  BY <1>5, TickInv
<1>6. CASE UNCHANGED vars
  BY <1>6 DEF vars, Inv, TypeOK, Locked, InTime, InHand, CacheGood, AnswersGood, AnswerGood,
      Said, Needed, Refreshing, Fresh
<1> QED BY <1>1, <1>2, <1>3, <1>4, <1>5, <1>6 DEF Next

(* The inductive invariant: who refreshes holds the mutex and is in time,  *)
(* and what is in hand, cached or returned ends no earlier than is said.   *)
THEOREM Invariance == Spec => [](Inv /\ Unanswered)
<1>1. Init => Inv /\ Unanswered
  BY InitInv, InitUnanswered
<1>2. Inv /\ Unanswered /\ [Next]_vars => (Inv /\ Unanswered)'
  BY Step, UnansweredStep
<1> QED BY <1>1, <1>2, PTL DEF Spec

(* The variables of TokenSource have their types (auth.go:74-80).          *)
THEOREM TypeCorrect == Spec => []TypeOK
<1>1. Inv => TypeOK
  BY DEF Inv
<1> QED BY <1>1, Invariance, PTL

(* What the cache hands out is good, and nothing is said to live longer    *)
(* than it does, less the margin (auth.go:36-40).                          *)
THEOREM TokensLive == Spec => []NeverStale
<1>1. Inv => NeverStale
  BY DEF Inv, AnswersGood, AnswerGood, Said, NeverStale
<1> QED BY <1>1, Invariance, PTL

(* A token and its e-mail are seen together (auth.go:114-124).             *)
THEOREM PairsWhole == Spec => []PairWhole
<1>1. Inv => PairWhole
  BY DEF Inv, CacheGood, AnswersGood, AnswerGood, Said, PairWhole
<1> QED BY <1>1, Invariance, PTL

(* Of any number of callers one refreshes at a time, and only while there  *)
(* is no fresh token, however many had found the last one stale: whoever   *)
(* refreshes holds the mutex, and looked after it got it.                  *)
THEOREM OneFetchTheorem == Spec => []OneFetch
<1>1. Inv => OneFetch
  BY DEF Inv, Locked, Needed, OneFetch
<1> QED BY <1>1, Invariance, PTL
=============================================================================
