---------------------------- MODULE CompanionProofs ----------------------------
(* Theorems about Companion, for any number of questions, calls, denials,  *)
(* retries and sessions.                                                   *)
EXTENDS Companion, TLAPS

-----------------------------------------------------------------------------
(* Sequences, and what is written to a log.                                *)

LEMMA Appended ==
  ASSUME NEW S, NEW s \in Seq(S), NEW e \in S
  PROVE  /\ Append(s, e) \in Seq(S)
         /\ DOMAIN Append(s, e) = 1 .. Len(s) + 1
         /\ \A i \in 1 .. Len(s) : Append(s, e)[i] = s[i]
         /\ Append(s, e)[Len(s) + 1] = e
         /\ Append(s, e) # <<>> /\ Last(Append(s, e)) = e
  BY DEF Last

LEMMA FrontOf ==
  ASSUME NEW S, NEW s \in Seq(S), s # <<>>
  PROVE  /\ Front(s) \in Seq(S)
         /\ DOMAIN Front(s) = 1 .. Len(s) - 1
         /\ \A i \in 1 .. Len(s) - 1 : Front(s)[i] = s[i]
  BY DEF Front

LEMMA AppendOne ==
  ASSUME NEW S, NEW s \in Seq(S), NEW e \in S PROVE s \o <<e>> = Append(s, e)
  OBVIOUS

LEMMA AppendNone == ASSUME NEW S, NEW s \in Seq(S) PROVE s \o <<>> = s
  OBVIOUS

(* A log is left as it is, or torn.                                        *)
LogRests == log' = log \/ (log.state = "open" /\ log' = [log EXCEPT !.state = "torn"])
LogGrows(m) ==
    log.state = "open" /\ log' = [log EXCEPT !.lines = Append(log.lines, m)]

LEMMA LogNothing == ASSUME log \in Logs, Log(<<>>) PROVE LogRests
<1>1. log.lines \in Seq(Messages)
  BY DEF Logs
<1>2. [log EXCEPT !.lines = log.lines \o <<>>] = log
  BY <1>1, AppendNone DEF Logs
<1> QED
  BY <1>2 DEF Log, LogRests

LEMMA LogOne ==
  ASSUME log \in Logs, NEW m \in Messages, Log(<<m>>) PROVE LogRests \/ LogGrows(m)
<1>1. log.lines \o <<m>> = Append(log.lines, m)
  BY AppendOne DEF Logs
<1> QED
  BY <1>1 DEF Log, LogRests, LogGrows

LEMMA LogTypes ==
  ASSUME log \in Logs, LogRests \/ \E m \in Messages : LogGrows(m)
  PROVE  log' \in Logs
  BY DEF Logs, LogRests, LogGrows

-----------------------------------------------------------------------------
(* Every step keeps the types.                                             *)

LEMMA Bounds ==
  /\ MaxDenials \in Nat /\ MaxDenials > 0 /\ MaxRetries \in Nat
  /\ MaxQuestions \in Nat /\ MaxCalls \in Nat /\ MaxSessions \in Nat
  BY DenialsAssumption, BoundsAssumption

LEMMA MessageTypes ==
  ASSUME NEW q \in Questions
  PROVE  /\ Question(q) \in Messages /\ Reply(q) \in Messages
         /\ \A kind : Logged(kind, q) \in Messages
                      /\ Logged(kind, q).role = "user" /\ Logged(kind, q).q = q
         /\ Question(q).role = "user" /\ Question(q).q = q
         /\ Reply(q).role = "assistant" /\ Reply(q).q = q
  BY DEF Messages, Question, Reply, Logged

LEMMA NewTurnTypes ==
  ASSUME NEW kind \in {"none", "ask", "pd", "diagnose"}, NEW q \in 0 .. MaxQuestions
  PROVE  NewTurn(kind, q) \in Turns /\ NoTurn \in Turns
  BY Bounds DEF NewTurn, NoTurn, Turns, Outcomes

(* The end of a session, and of a turn that returns to the prompt.         *)
GrantsOK == grants \in [known : SUBSET Calls, tracked : SUBSET Calls, warned : SUBSET Calls]
SessionOK ==
    session \in [kind : {"companion", "diagnose"}, n : 0 .. MaxSessions,
                 first : 0 .. MaxQuestions + 1, asked : 0 .. MaxQuestions,
                 ended : {"no", "well", "badly", "killed"}]

LEMMA EndTypes ==
  ASSUME TypeOK, NEW how \in {"well", "badly", "killed"}, End(how)
  PROVE  SessionOK' /\ GrantsOK' /\ at' = "end" /\ session'.ended = how
  BY DEF TypeOK, End, SessionOK, GrantsOK

(* What a step that returns from a turn leaves.                            *)
Returned ==
    /\ turn' = NoTurn /\ SessionOK' /\ GrantsOK'
    /\ \/ at' = "end" /\ session'.ended # "no"
       \/ at' = "prompt" /\ UNCHANGED <<session, grants>>

LEMMA ReplyTypes ==
  ASSUME TypeOK, at \in TurnPlaces, ReturnReply
  PROVE  Returned /\ history' \in Seq(Messages) /\ log' \in Logs
<1>1. SessionOK /\ GrantsOK /\ turn.q \in Questions /\ log \in Logs
      /\ history \in Seq(Messages)
  BY Bounds DEF TypeOK, SessionOK, GrantsOK, Turns, Questions
<1>2. Returned
  <2>1. CASE turn.kind = "diagnose"
    BY <2>1, EndTypes DEF ReturnReply, Returned
  <2>2. CASE turn.kind # "diagnose"
    BY <1>1, <2>2 DEF ReturnReply, Returned, SessionOK, GrantsOK
  <2> QED
    BY <2>1, <2>2
<1>3. CASE UNCHANGED <<history, log>>
  BY <1>1, <1>2, <1>3
<1>4. CASE history' = Append(history, Reply(turn.q)) /\ Log(<<Reply(turn.q)>>)
  BY <1>1, <1>2, <1>4, MessageTypes, LogOne, LogTypes
<1> QED
  BY <1>3, <1>4 DEF ReturnReply

(* In a turn of the companion its question is at the end of the history.   *)
QuestionStands == turn.kind # "diagnose" => history # <<>>

LEMMA ErrorTypes ==
  ASSUME TypeOK, at \in TurnPlaces, QuestionStands, NEW canceled, ReturnError(canceled)
  PROVE  Returned /\ history' \in Seq(Messages) /\ log' \in Logs
<1>1. SessionOK /\ GrantsOK /\ log \in Logs /\ history \in Seq(Messages)
  BY DEF TypeOK, SessionOK, GrantsOK
<1>2. Returned
  <2>1. CASE turn.kind = "diagnose"
    BY <2>1, EndTypes DEF ReturnError, Returned
  <2>2. CASE turn.kind # "diagnose"
    BY <1>1, <2>2 DEF ReturnError, Returned, SessionOK, GrantsOK
  <2> QED
    BY <2>1, <2>2
<1>3. history' \in Seq(Messages)
  BY <1>1, FrontOf DEF ReturnError, QuestionStands
<1>4. log' \in Logs
  BY <1>1, LogNothing, LogTypes DEF ReturnError
<1> QED
  BY <1>2, <1>3, <1>4

AgentOK ==
    agent \in [calls : 0 .. MaxCalls, heard : SUBSET [call : Calls, outcome : Outcomes],
               finished : SUBSET Questions, confirmed : SUBSET Calls, executed : SUBSET Calls]
FilesOK == \A f \in past : f \in Logs /\ f.state # "none"

LEMMA ReturnTypes ==
  ASSUME TypeOK, at \in TurnPlaces,
         \/ ReturnReply
         \/ QuestionStands /\ \E canceled \in BOOLEAN : ReturnError(canceled),
         UNCHANGED <<past, expired>>, AgentOK'
  PROVE  TypeOK'
<1>1. Returned /\ history' \in Seq(Messages) /\ log' \in Logs
  BY ReplyTypes, ErrorTypes
<1>2. NoTurn \in Turns /\ session.ended = "no"
  BY Bounds, NewTurnTypes DEF TypeOK, TurnPlaces
<1> QED
  BY <1>1, <1>2 DEF TypeOK, Returned, Places, TurnPlaces, SessionOK, GrantsOK, AgentOK

(* What an agent hears of a call.                                          *)
LEMMA HeardTypes ==
  ASSUME TypeOK,
         agent' = [agent EXCEPT !.heard = @ \cup
             {[call |-> c, outcome |-> turn.outcome] : c \in {turn.call} \ {0}}]
  PROVE  AgentOK'
<1>1. \A c \in {turn.call} \ {0} : [call |-> c, outcome |-> turn.outcome] \in
          [call : Calls, outcome : Outcomes]
  BY Bounds DEF TypeOK, Turns, Calls
<1> QED
  BY <1>1 DEF TypeOK, AgentOK

(* Records with one field changed.                                         *)
LEMMA TurnFields ==
  ASSUME turn \in Turns
  PROVE  /\ turn.attempt < MaxRetries => [turn EXCEPT !.attempt = @ + 1] \in Turns
         /\ [turn EXCEPT !.attempt = 0, !.call = 0, !.outcome = "none"] \in Turns
         /\ [turn EXCEPT !.text = TRUE] \in Turns
         /\ [turn EXCEPT !.cancelled = TRUE] \in Turns
         /\ [turn EXCEPT !.denials = 0] \in Turns
         /\ turn.denials + 1 < MaxDenials =>
               [turn EXCEPT !.denials = @ + 1, !.outcome = "denied"] \in Turns
         /\ \A o \in Outcomes : [turn EXCEPT !.outcome = o] \in Turns
         /\ \A c \in 0 .. MaxCalls : [turn EXCEPT !.call = c] \in Turns
<1>1. turn.attempt \in 0 .. MaxRetries /\ turn.denials \in 0 .. MaxDenials - 1
  BY DEF Turns
<1>2. turn.attempt < MaxRetries => turn.attempt + 1 \in 0 .. MaxRetries
  BY <1>1, Bounds
<1>3. turn.denials + 1 < MaxDenials => turn.denials + 1 \in 0 .. MaxDenials - 1
  BY <1>1, Bounds
<1>4. 0 \in 0 .. MaxRetries /\ 0 \in 0 .. MaxCalls /\ 0 \in 0 .. MaxDenials - 1
  BY Bounds
<1>5. {"none", "denied"} \subseteq Outcomes
  BY DEF Outcomes
<1>6. ASSUME turn.attempt < MaxRetries PROVE [turn EXCEPT !.attempt = @ + 1] \in Turns
  BY <1>2, <1>6 DEF Turns
<1>7. ASSUME turn.denials + 1 < MaxDenials
      PROVE  [turn EXCEPT !.denials = @ + 1, !.outcome = "denied"] \in Turns
  BY <1>3, <1>5, <1>7 DEF Turns
<1>8. [turn EXCEPT !.attempt = 0, !.call = 0, !.outcome = "none"] \in Turns
  BY <1>4, <1>5 DEF Turns
<1>9. [turn EXCEPT !.text = TRUE] \in Turns /\ [turn EXCEPT !.cancelled = TRUE] \in Turns
  BY DEF Turns
<1>10. [turn EXCEPT !.denials = 0] \in Turns
  BY <1>4 DEF Turns
<1>11. \A o \in Outcomes : [turn EXCEPT !.outcome = o] \in Turns
  BY DEF Turns
<1>12. \A c \in 0 .. MaxCalls : [turn EXCEPT !.call = c] \in Turns
  BY DEF Turns
<1> QED
  BY <1>6, <1>7, <1>8, <1>9, <1>10, <1>11, <1>12

LEMMA SessionFields ==
  ASSUME SessionOK, session.asked < MaxQuestions
  PROVE  [session EXCEPT !.asked = @ + 1]
             \in [kind : {"companion", "diagnose"}, n : 0 .. MaxSessions,
                  first : 0 .. MaxQuestions + 1, asked : 0 .. MaxQuestions,
                  ended : {"no", "well", "badly", "killed"}]
<1>1. session.asked + 1 \in 0 .. MaxQuestions
  BY Bounds DEF SessionOK
<1> QED
  BY <1>1 DEF SessionOK

LEMMA NewSessionFields ==
  ASSUME SessionOK, session.n < MaxSessions, NEW kind \in {"companion", "diagnose"}
  PROVE  [session EXCEPT !.kind = kind, !.n = @ + 1, !.first = session.asked + 1,
                         !.ended = "no"]
             \in [kind : {"companion", "diagnose"}, n : 0 .. MaxSessions,
                  first : 0 .. MaxQuestions + 1, asked : 0 .. MaxQuestions,
                  ended : {"no", "well", "badly", "killed"}]
<1>1. session.n + 1 \in 0 .. MaxSessions /\ session.asked + 1 \in 0 .. MaxQuestions + 1
  BY Bounds DEF SessionOK
<1> QED
  BY <1>1 DEF SessionOK

LEMMA SessionStepsTypes ==
  ASSUME TypeOK,
         NewSession \/ Discover \/ StartTurn("ask") \/ StartTurn("pd") \/ Resume \/ Quit
             \/ Killed \/ Expire
  PROVE  TypeOK'
<1> USE Bounds
<1>1. TypeOK /\ NoTurn \in Turns /\ <<>> \in Seq(Messages)
  BY NewTurnTypes
<1>2. CASE NewSession
  <2>1. log' \in Logs
    <3>1. NewLog \in Logs /\ [NewLog EXCEPT !.state = "none"] \in Logs
      BY <1>1 DEF NewLog, Logs
    <3> QED
      BY <1>2, <3>1 DEF NewSession
  <2>2. FilesOK'
    BY <1>2 DEF NewSession, FilesOK, Files, TypeOK
  <2>3. SessionOK' /\ session'.ended = "no"
    BY <1>2, NewSessionFields DEF NewSession, SessionOK, TypeOK
  <2>4. GrantsOK'
    BY <1>2 DEF NewSession, GrantsOK
  <2> QED
    BY <1>1, <1>2, <2>1, <2>2, <2>3, <2>4
       DEF TypeOK, NewSession, FilesOK, SessionOK, GrantsOK, Places, TurnPlaces
<1>3. CASE Discover
  <2>1. CASE End("badly") /\ UNCHANGED turn
    BY <1>3, <2>1, EndTypes DEF Discover, TypeOK, SessionOK, GrantsOK, Places, TurnPlaces
  <2>2. CASE at' = "prompt" /\ UNCHANGED <<session, grants, turn>>
    BY <1>3, <2>2 DEF Discover, TypeOK, Places, TurnPlaces
  <2>3. CASE /\ session.asked < MaxQuestions /\ at' = "send"
             /\ session' = [session EXCEPT !.asked = @ + 1]
             /\ turn' = NewTurn("diagnose", session.asked + 1) /\ UNCHANGED grants
    <3>1. session.asked + 1 \in 1 .. MaxQuestions
      BY <2>3 DEF TypeOK
    <3>2. turn' \in Turns /\ turn'.q > 0
      BY <2>3, <3>1, NewTurnTypes DEF NewTurn
    <3>3. SessionOK' /\ session'.ended = session.ended
      BY <2>3, SessionFields DEF TypeOK, SessionOK
    <3> QED
      BY <1>3, <2>3, <3>2, <3>3 DEF Discover, TypeOK, SessionOK, Places, TurnPlaces
  <2> QED
    BY <1>3, <2>1, <2>2, <2>3 DEF Discover
<1>4. ASSUME NEW kind \in {"ask", "pd"}, StartTurn(kind) PROVE TypeOK'
  <2> DEFINE q == session.asked + 1
  <2>1. q \in Questions /\ q \in 0 .. MaxQuestions /\ q > 0 /\ at = "prompt"
    BY <1>4 DEF TypeOK, StartTurn, Questions
  <2>2. Question(q) \in Messages /\ Logged(kind, q) \in Messages
    BY <2>1, MessageTypes
  <2>3. history' \in Seq(Messages)
    BY <1>4, <2>2 DEF StartTurn, TypeOK
  <2>4. log' \in Logs
    BY <1>4, <2>2, LogOne, LogTypes DEF StartTurn, TypeOK
  <2>5. turn' \in Turns /\ turn'.q > 0
    BY <1>4, <2>1, NewTurnTypes DEF StartTurn, NewTurn
  <2>6. at' = "send" /\ UNCHANGED <<past, expired, grants, agent>>
        /\ session' = [session EXCEPT !.asked = q]
    BY <1>4 DEF StartTurn
  <2> QED
    BY <2>1, <2>3, <2>4, <2>5, <2>6 DEF TypeOK, Places, TurnPlaces
<1>5. CASE Resume
  <2>1. \A f \in Files : LoadHistory(f) \in Seq(Messages)
    BY DEF Files, TypeOK, Logs, LoadHistory
  <2> QED
    BY <1>5, <2>1 DEF Resume, TypeOK, Places, TurnPlaces
<1>6. CASE Quit
  BY <1>1, <1>6, EndTypes DEF Quit, TypeOK, SessionOK, GrantsOK, Places, TurnPlaces
<1>7. CASE Killed
  BY <1>1, <1>7, EndTypes DEF Killed, TypeOK, SessionOK, GrantsOK, Places, TurnPlaces
<1>8. CASE Expire
  BY <1>8 DEF Expire, TypeOK
<1> QED
  BY <1>2, <1>3, <1>4, <1>5, <1>6, <1>7, <1>8

LEMMA StreamStepsTypes ==
  ASSUME TypeOK, at \in TurnPlaces => QuestionStands,
         Send \/ SendAnswered \/ Backoff \/ Abandon \/ Text \/ Done \/ Broken
  PROVE  TypeOK'
<1> USE Bounds
<1>1. AgentOK /\ (at \in {"send", "backoff", "stream"} => at \in TurnPlaces)
  BY DEF AgentOK, TypeOK, TurnPlaces
<1>2. StreamFails => \E canceled \in BOOLEAN : ReturnError(canceled)
  BY DEF StreamFails
<1>3. CASE Send
  <2>1. AgentOK'
    BY <1>1, <1>3, HeardTypes DEF Send, Hear, AgentOK
  <2>2. CASE /\ turn.attempt < MaxRetries /\ turn' = [turn EXCEPT !.attempt = @ + 1]
             /\ at' = "backoff" /\ UNCHANGED <<history, log, session, grants>>
    <3>1. turn' \in Turns /\ turn'.q = turn.q
      BY <2>2, TurnFields DEF TypeOK, Turns
    <3> QED
      BY <1>3, <2>1, <2>2, <3>1 DEF Send, TypeOK, AgentOK, Places, TurnPlaces
  <2>3. CASE StreamFails
    BY <1>1, <1>2, <1>3, <2>1, <2>3, ReturnTypes DEF Send
  <2> QED
    BY <1>3, <2>2, <2>3 DEF Send
<1>4. CASE SendAnswered
  <2>1. AgentOK'
    BY <1>4, HeardTypes DEF SendAnswered
  <2>2. turn' \in Turns /\ turn'.q = turn.q
    BY <1>4, TurnFields DEF SendAnswered, TypeOK, Turns
  <2> QED
    BY <1>4, <2>1, <2>2 DEF SendAnswered, TypeOK, AgentOK, Places, TurnPlaces
<1>5. CASE Backoff
  BY <1>5 DEF Backoff, TypeOK, Places, TurnPlaces
<1>6. CASE Abandon \/ Broken
  BY <1>1, <1>2, <1>6, ReturnTypes DEF Abandon, Broken, AgentOK
<1>7. CASE Text
  <2>1. turn' \in Turns /\ turn'.q = turn.q
    BY <1>7 DEF Text, TypeOK, Turns
  <2> QED
    BY <1>7, <2>1 DEF Text, TypeOK
<1>8. CASE Done
  <2>1. turn.q \in Questions
    BY <1>1, <1>8 DEF Done, TypeOK, Turns, Questions
  <2>2. AgentOK'
    BY <1>1, <1>8, <2>1 DEF Done, AgentOK
  <2> QED
    BY <1>1, <1>8, <2>2, ReturnTypes DEF Done
<1> QED
  BY <1>3, <1>4, <1>5, <1>6, <1>7, <1>8

LEMMA ToolStepsTypes ==
  ASSUME TypeOK, at \in TurnPlaces => QuestionStands,
         ToolCall \/ Approve \/ Deny \/ Execute \/ CreateGrant \/ StartWorkflow
             \/ Awaited \/ AwaitEnds \/ Interrupt
  PROVE  TypeOK'
<1> USE Bounds
<1>1. /\ AgentOK /\ GrantsOK /\ turn \in Turns /\ log \in Logs
      /\ at \in {"stream", "confirm", "execute", "await"} => at \in TurnPlaces
      /\ at \in TurnPlaces => turn.q > 0
      /\ at \in {"confirm", "execute", "await"} => turn.call \in Calls /\ turn.call > 0
  BY DEF AgentOK, GrantsOK, TypeOK, TurnPlaces, Turns, Calls
<1>2. TurnPlaces \subseteq Places /\ "end" \notin TurnPlaces
      /\ {"send", "confirm", "execute", "await"} \subseteq TurnPlaces
  BY DEF TurnPlaces, Places
<1>3. CASE ToolCall
  <2>1. agent.calls + 1 \in 0 .. MaxCalls /\ agent.calls + 1 > 0
    BY <1>1, <1>3 DEF ToolCall, AgentOK
  <2>2. turn' \in Turns /\ turn'.q = turn.q /\ turn'.call > 0
    BY <1>1, <1>3, <2>1, TurnFields DEF ToolCall, Turns
  <2>3. AgentOK'
    BY <1>1, <1>3, <2>1 DEF ToolCall, AgentOK
  <2>4. log' \in Logs
    BY <1>1, <1>3, LogNothing, LogTypes DEF ToolCall
  <2> QED
    BY <1>1, <1>2, <1>3, <2>2, <2>3, <2>4 DEF ToolCall, TypeOK, AgentOK
<1>4. CASE Approve
  <2>1. turn' \in Turns /\ turn'.q = turn.q /\ turn'.call = turn.call
    BY <1>1, <1>4, TurnFields DEF Approve, Turns
  <2>2. AgentOK'
    BY <1>1, <1>4 DEF Approve, AgentOK
  <2> QED
    BY <1>1, <1>2, <1>4, <2>1, <2>2 DEF Approve, TypeOK, AgentOK
<1>5. CASE Deny
  <2>1. CASE turn.denials + 1 < MaxDenials
    <3>1. turn' \in Turns /\ turn'.q = turn.q
      <4>1. turn' \in Turns
        BY <1>1, <1>5, <2>1, TurnFields DEF Deny
      <4>2. turn' = [turn EXCEPT !.denials = @ + 1, !.outcome = "denied"]
        BY <1>5, <2>1 DEF Deny
      <4> QED
        BY <1>1, <4>1, <4>2 DEF Turns
    <3>2. log' \in Logs
      BY <1>1, <1>5, <2>1, LogNothing, LogTypes DEF Deny
    <3> QED
      BY <1>1, <1>2, <1>5, <2>1, <3>1, <3>2 DEF Deny, TypeOK
  <2>2. CASE ~(turn.denials + 1 < MaxDenials)
    BY <1>1, <1>5, <2>2, ReturnTypes DEF Deny, AgentOK
  <2> QED
    BY <2>1, <2>2
<1>6. CASE Execute \/ Awaited \/ AwaitEnds
  <2>1. PICK outcome \in {"failed", "done"} : Result(outcome)
    BY <1>6 DEF Execute, Awaited, AwaitEnds
  <2>2. turn' \in Turns /\ turn'.q = turn.q
    <3>1. turn' \in Turns
      BY <1>1, <2>1, TurnFields DEF Result, Outcomes
    <3> QED
      BY <1>1, <2>1, <3>1 DEF Result, Turns
  <2>3. log' \in Logs
    BY <1>1, <2>1, LogNothing, LogTypes DEF Result
  <2>4. AgentOK' /\ at \in TurnPlaces
    BY <1>1, <1>6 DEF Execute, Awaited, AwaitEnds, AgentOK
  <2>5. at' = "send" /\ UNCHANGED <<history, past, expired, grants, session>>
    BY <1>6, <2>1 DEF Execute, Awaited, AwaitEnds, Result
  <2> QED
    BY <1>1, <1>2, <2>2, <2>3, <2>4, <2>5 DEF TypeOK, AgentOK
<1>7. CASE CreateGrant \/ StartWorkflow
  <2>1. AgentOK' /\ at \in TurnPlaces
    BY <1>1, <1>7 DEF CreateGrant, StartWorkflow, AgentOK
  <2>2. GrantsOK'
    <3>1. turn.call \in Calls
      BY <1>1, <1>7 DEF CreateGrant, StartWorkflow
    <3>2. grants' = [known |-> grants.known \cup {turn.call},
                     tracked |-> grants.tracked \cup {turn.call}, warned |-> grants.warned]
          \/ UNCHANGED grants
      BY <1>1, <1>7 DEF CreateGrant, StartWorkflow, GrantsOK
    <3> QED
      BY <1>1, <3>1, <3>2 DEF GrantsOK
  <2>3. at' = "await" /\ UNCHANGED <<history, log, past, turn, expired, session>>
        /\ turn.call > 0
    BY <1>1, <1>7 DEF CreateGrant, StartWorkflow
  <2> QED
    BY <1>1, <1>2, <2>1, <2>2, <2>3 DEF TypeOK, AgentOK, GrantsOK
<1>8. CASE Interrupt
  <2>1. turn' \in Turns /\ turn'.q = turn.q /\ turn'.call = turn.call
    BY <1>1, <1>8, TurnFields DEF Interrupt, Turns
  <2> QED
    BY <1>8, <2>1 DEF Interrupt, TypeOK
<1> QED
  BY <1>3, <1>4, <1>5, <1>6, <1>7, <1>8

LEMMA TypesStep ==
  ASSUME TypeOK, at \in TurnPlaces => QuestionStands, [Next]_vars
  PROVE  TypeOK'
<1>1. CASE UNCHANGED vars
  BY <1>1 DEF vars, TypeOK
<1> QED
  BY <1>1, SessionStepsTypes, StreamStepsTypes, ToolStepsTypes DEF Next, Proceeds

-----------------------------------------------------------------------------
(* The conversation.                                                       *)

(* Questions are numbered through all sessions, so what this one asked can *)
(* be told from what it resumed.                                           *)
Before(h, n) == \A i \in DOMAIN h : h[i].q < n
From(h, n) == \A i \in DOMAIN h : h[i].q >= n
Distinct(h) == \A k, l \in DOMAIN h : SameMessage(h[k], h[l]) => k = l
Answers(h, S) ==
    Paired(h) /\ \A i \in DOMAIN h : h[i].role = "assistant" => h[i].q \in S

(* What LogKeepsHistory says of a history h and the lines l.               *)
Keeps(h, l, first) ==
    LET own == {i \in DOMAIN h : h[i].q >= first} IN
    /\ \A i \in own : \E k \in DOMAIN l : SameMessage(h[i], l[k])
    /\ \A i, j \in own, k, m \in DOMAIN l :
          SameMessage(h[i], l[k]) /\ SameMessage(h[j], l[m]) => (i < j <=> k < m)

Told ==
    /\ session.first <= session.asked + 1
    /\ \A f \in past : Before(f.lines, session.first) /\ Answers(f.lines, agent.finished)
    /\ From(log.lines, session.first) /\ Before(log.lines, session.asked + 1)
    /\ Distinct(log.lines) /\ Answers(log.lines, agent.finished)
    /\ Before(history, session.asked + 1) /\ Answers(history, agent.finished)
    /\ log.state = "open" => Keeps(history, log.lines, session.first)

(* Where the program is in the conversation: a turn is about the last      *)
(* question asked, which ends the history and the log and has no reply.    *)
Unanswered(h, q) == \A i \in DOMAIN h : ~SameMessage(h[i], Reply(q))

Talks ==
    /\ session.kind = "diagnose" => log.state = "none" /\ history = <<>>
    /\ log.state = "none" => log.lines = <<>>
    /\ at = "prompt" => session.kind = "companion"
    /\ at = "start" => history = <<>>
    /\ session.ended = "well" /\ session.kind = "diagnose" =>
          session.asked \in agent.finished
    /\ at \in TurnPlaces =>
          /\ turn.q = session.asked /\ turn.q >= session.first
          /\ turn.kind = "diagnose" <=> session.kind = "diagnose"
          /\ turn.kind # "none"
          /\ session.kind = "companion" =>
                history # <<>> /\ Last(history) = Question(turn.q)
          /\ session.kind = "companion" /\ log.state = "open" =>
                log.lines # <<>> /\ SameMessage(Last(log.lines), Question(turn.q))
          /\ Unanswered(history, turn.q) /\ Unanswered(log.lines, turn.q)

Conversation == Told /\ Talks

LEMMA QuestionPaired ==
  ASSUME NEW h \in Seq(Messages), NEW S, Answers(h, S), NEW m \in Messages, m.role = "user"
  PROVE  Answers(Append(h, m), S)
<1> DEFINE u == Append(h, m)
<1>1. DOMAIN u = 1 .. Len(h) + 1 /\ u[Len(h) + 1] = m /\ DOMAIN h = 1 .. Len(h)
      /\ Len(h) \in Nat /\ \A i \in 1 .. Len(h) : u[i] = h[i]
  BY Appended
<1> HIDE DEF u
<1>2. ASSUME NEW i \in DOMAIN u, u[i].role = "assistant"
      PROVE  i > 1 /\ u[i - 1].role = "user" /\ u[i - 1].q = u[i].q /\ u[i].q \in S
  <2>1. i \in DOMAIN h /\ u[i] = h[i] /\ i \in Nat
    BY <1>1, <1>2
  <2>2. i > 1 /\ h[i - 1].role = "user" /\ h[i - 1].q = h[i].q /\ h[i].q \in S
    BY <1>2, <2>1 DEF Answers, Paired
  <2>3. i - 1 \in 1 .. Len(h)
    BY <1>1, <2>1, <2>2
  <2> QED
    BY <1>1, <2>1, <2>2, <2>3
<1>3. Answers(u, S)
  BY <1>2 DEF Answers, Paired
<1> QED
  BY <1>3 DEF u

LEMMA ReplyPaired ==
  ASSUME NEW h \in Seq(Messages), NEW S, Answers(h, S), NEW q \in Questions, h # <<>>,
         SameMessage(Last(h), Question(q)), q \in S
  PROVE  Answers(Append(h, Reply(q)), S)
<1> DEFINE u == Append(h, Reply(q))
<1>1. DOMAIN u = 1 .. Len(h) + 1 /\ u[Len(h) + 1] = Reply(q) /\ DOMAIN h = 1 .. Len(h)
      /\ Len(h) \in Nat /\ Len(h) > 0 /\ \A i \in 1 .. Len(h) : u[i] = h[i]
  BY Appended, MessageTypes
<1>2. h[Len(h)].role = "user" /\ h[Len(h)].q = q /\ Reply(q).q = q
  BY MessageTypes DEF Last, SameMessage
<1> HIDE DEF u
<1>3. ASSUME NEW i \in DOMAIN u, u[i].role = "assistant"
      PROVE  i > 1 /\ u[i - 1].role = "user" /\ u[i - 1].q = u[i].q /\ u[i].q \in S
  <2>1. CASE i = Len(h) + 1
    BY <1>1, <1>2, <2>1
  <2>2. CASE i # Len(h) + 1
    <3>1. i \in DOMAIN h /\ u[i] = h[i] /\ i \in Nat
      BY <1>1, <2>2
    <3>2. i > 1 /\ h[i - 1].role = "user" /\ h[i - 1].q = h[i].q /\ h[i].q \in S
      BY <1>3, <3>1 DEF Answers, Paired
    <3>3. i - 1 \in 1 .. Len(h)
      BY <1>1, <3>1, <3>2
    <3> QED
      BY <1>1, <3>1, <3>2, <3>3
  <2> QED
    BY <2>1, <2>2
<1>4. Answers(u, S)
  BY <1>3 DEF Answers, Paired
<1> QED
  BY <1>4 DEF u

LEMMA FrontPaired ==
  ASSUME NEW h \in Seq(Messages), NEW S, Answers(h, S), h # <<>>
  PROVE  Answers(Front(h), S)
<1>1. DOMAIN Front(h) = 1 .. Len(h) - 1 /\ DOMAIN h = 1 .. Len(h) /\ Len(h) \in Nat
      /\ \A i \in 1 .. Len(h) - 1 : Front(h)[i] = h[i]
  BY FrontOf
<1>2. ASSUME NEW i \in DOMAIN Front(h), Front(h)[i].role = "assistant"
      PROVE  /\ i > 1 /\ Front(h)[i - 1].role = "user"
             /\ Front(h)[i - 1].q = Front(h)[i].q /\ Front(h)[i].q \in S
  <2>1. i \in DOMAIN h /\ Front(h)[i] = h[i] /\ i \in Nat
    BY <1>1, <1>2
  <2>2. i > 1 /\ h[i - 1].role = "user" /\ h[i - 1].q = h[i].q /\ h[i].q \in S
    BY <1>2, <2>1 DEF Answers, Paired
  <2>3. i - 1 \in 1 .. Len(h) - 1
    BY <1>1, <2>1, <2>2
  <2> QED
    BY <1>1, <2>1, <2>2, <2>3
<1> QED
  BY <1>2 DEF Answers, Paired

LEMMA MoreFinished ==
  ASSUME NEW h, NEW S, NEW T, S \subseteq T, Answers(h, S) PROVE Answers(h, T)
  BY DEF Answers

(* A message that is new to both goes to the end of both.                  *)
LEMMA KeepsAppended ==
  ASSUME NEW h \in Seq(Messages), NEW l \in Seq(Messages), NEW m \in Messages,
         NEW n \in Messages, SameMessage(m, n), NEW first, Keeps(h, l, first), Distinct(l),
         \A i \in DOMAIN h : ~SameMessage(h[i], m), \A k \in DOMAIN l : ~SameMessage(l[k], m)
  PROVE  Keeps(Append(h, m), Append(l, n), first) /\ Distinct(Append(l, n))
<1> DEFINE u == Append(h, m)
           v == Append(l, n)
<1>1. DOMAIN u = 1 .. Len(h) + 1 /\ u[Len(h) + 1] = m /\ DOMAIN h = 1 .. Len(h)
      /\ Len(h) \in Nat /\ \A i \in 1 .. Len(h) : u[i] = h[i]
  BY Appended
<1>2. DOMAIN v = 1 .. Len(l) + 1 /\ v[Len(l) + 1] = n /\ DOMAIN l = 1 .. Len(l)
      /\ Len(l) \in Nat /\ \A i \in 1 .. Len(l) : v[i] = l[i]
  BY Appended
<1> HIDE DEF u, v
<1>3. \A i \in DOMAIN u : i = Len(h) + 1 \/ (i \in DOMAIN h /\ i < Len(h) + 1)
  BY <1>1
<1>4. \A k \in DOMAIN v : k = Len(l) + 1 \/ (k \in DOMAIN l /\ k < Len(l) + 1)
  BY <1>2
<1>5. \A i \in DOMAIN u, k \in DOMAIN v : SameMessage(u[i], v[k]) =>
          \/ i = Len(h) + 1 /\ k = Len(l) + 1
          \/ i \in DOMAIN h /\ k \in DOMAIN l /\ SameMessage(h[i], l[k])
  BY <1>1, <1>2, <1>3, <1>4 DEF SameMessage
<1>6. ASSUME NEW i \in DOMAIN u, u[i].q >= first
      PROVE  \E k \in DOMAIN v : SameMessage(u[i], v[k])
  <2>1. CASE i = Len(h) + 1
    <3>1. Len(l) + 1 \in DOMAIN v
      BY <1>2
    <3> QED
      BY <1>1, <1>2, <2>1, <3>1
  <2>2. CASE i \in DOMAIN h
    <3>1. PICK k \in DOMAIN l : SameMessage(h[i], l[k])
      BY <1>1, <1>6, <2>2 DEF Keeps
    <3>2. k \in DOMAIN v /\ v[k] = l[k] /\ u[i] = h[i]
      BY <1>1, <1>2, <2>2
    <3> QED
      BY <3>1, <3>2
  <2> QED
    BY <1>3, <2>1, <2>2
<1>7. ASSUME NEW i \in DOMAIN u, NEW j \in DOMAIN u, NEW k \in DOMAIN v, NEW o \in DOMAIN v,
             u[i].q >= first, u[j].q >= first,
             SameMessage(u[i], v[k]), SameMessage(u[j], v[o])
      PROVE  i < j <=> k < o
  <2>1. CASE i \in DOMAIN h /\ j \in DOMAIN h /\ k \in DOMAIN l /\ o \in DOMAIN l
    <3>1. u[i] = h[i] /\ u[j] = h[j] /\ v[k] = l[k] /\ v[o] = l[o]
      BY <1>1, <1>2, <2>1
    <3> QED
      BY <1>7, <2>1, <3>1 DEF Keeps
  <2>2. \/ i = Len(h) + 1 /\ k = Len(l) + 1
        \/ i \in DOMAIN h /\ k \in DOMAIN l
    BY <1>5, <1>7
  <2>3. \/ j = Len(h) + 1 /\ o = Len(l) + 1
        \/ j \in DOMAIN h /\ o \in DOMAIN l
    BY <1>5, <1>7
  <2> QED
    BY <1>1, <1>2, <2>1, <2>2, <2>3
<1>8. Distinct(v)
  BY <1>2, <1>4 DEF Distinct, SameMessage
<1>9. Keeps(u, v, first)
  BY <1>6, <1>7 DEF Keeps
<1> QED
  BY <1>8, <1>9 DEF u, v

LEMMA KeepsFront ==
  ASSUME NEW h \in Seq(Messages), h # <<>>, NEW l, NEW first, Keeps(h, l, first)
  PROVE  Keeps(Front(h), l, first)
<1>1. DOMAIN Front(h) \subseteq DOMAIN h /\ \A i \in DOMAIN Front(h) : Front(h)[i] = h[i]
  BY FrontOf
<1> QED
  BY <1>1 DEF Keeps

LEMMA KeepsNothing ==
  ASSUME NEW h \in Seq(Messages), NEW l, NEW first \in Nat, Before(h, first)
  PROVE  Keeps(h, l, first)
<1>1. \A i \in DOMAIN h : h[i].q \in Nat
  <2>1. \A i \in DOMAIN h : h[i] \in Messages
    OBVIOUS
  <2>2. \A m \in Messages : m.q \in Nat
    BY Bounds DEF Messages, Questions
  <2> QED
    BY <2>1, <2>2
<1> QED
  BY <1>1 DEF Keeps, Before

LEMMA KeepsItself ==
  ASSUME NEW l \in Seq(Messages), Distinct(l), NEW first PROVE Keeps(l, l, first)
<1>1. \A i, k \in DOMAIN l : SameMessage(l[i], l[k]) => i = k
  BY DEF Distinct
<1>2. \A i \in DOMAIN l : SameMessage(l[i], l[i])
  BY DEF SameMessage
<1> QED
  BY <1>1, <1>2 DEF Keeps

-----------------------------------------------------------------------------
(* The sorts of steps, and what they do to the conversation.               *)

(* A step that says nothing.                                               *)
Silent ==
    /\ UNCHANGED <<history, past, session>> /\ LogRests
    /\ agent.finished \subseteq agent'.finished
    /\ at' = at \/ {at, at'} \subseteq TurnPlaces
    /\ turn'.q = turn.q /\ turn'.kind = turn.kind

LEMMA SilentTells ==
  ASSUME TypeOK, Conversation, Silent PROVE Conversation'
<1>1. log'.lines = log.lines /\ (log'.state = "none" => log.state = "none")
      /\ (log'.state = "open" => log.state = "open") /\ (log.state = "none" => log' = log)
  BY DEF LogRests, Silent, TypeOK, Logs
<1>2. UNCHANGED <<history, past, session>> /\ agent.finished \subseteq agent'.finished
  BY DEF Silent
<1>3. Told'
  <2>1. \A f \in past' : Before(f.lines, session'.first) /\ Answers(f.lines, agent'.finished)
    BY <1>2, MoreFinished DEF Conversation, Told
  <2>2. Answers(log'.lines, agent'.finished) /\ Answers(history', agent'.finished)
    BY <1>1, <1>2, MoreFinished DEF Conversation, Told
  <2> QED
    BY <1>1, <1>2, <2>1, <2>2 DEF Conversation, Told
<1>4. Talks'
  <2>1. at' \in TurnPlaces => at \in TurnPlaces
    BY DEF Silent
  <2>2. at' = "prompt" => at = "prompt"
    BY DEF Silent, TurnPlaces
  <2>3. at' = "start" => at = "start"
    BY DEF Silent, TurnPlaces
  <2>4. turn'.q = turn.q /\ turn'.kind = turn.kind
    BY DEF Silent
  <2> QED
    BY <1>1, <1>2, <2>1, <2>2, <2>3, <2>4 DEF Conversation, Talks
<1> QED
  BY <1>3, <1>4 DEF Conversation

LEMMA ErrorTells ==
  ASSUME TypeOK, Conversation, at \in TurnPlaces, NEW canceled, ReturnError(canceled),
         UNCHANGED past, agent.finished \subseteq agent'.finished
  PROVE  Conversation'
<1>1. /\ turn.kind = "diagnose" <=> session.kind = "diagnose"
      /\ turn.kind # "diagnose" => history # <<>>
      /\ history \in Seq(Messages) /\ log \in Logs /\ session.kind \in {"companion", "diagnose"}
  BY DEF Conversation, Talks, TypeOK
<1>2. LogRests
  BY <1>1, LogNothing DEF ReturnError, LogRests
<1>3. log'.lines = log.lines /\ (log'.state = "open" => log.state = "open")
      /\ (log'.state = "none" => log.state = "none") /\ (log.state = "none" => log' = log)
  BY <1>1, <1>2 DEF LogRests, Logs
<1>4. \/ history' = history
      \/ history' = Front(history) /\ history # <<>> /\ session.kind # "diagnose"
  BY <1>1 DEF ReturnError
<1>5. \/ session' = session /\ at' = "prompt" /\ session.kind # "diagnose"
      \/ session' = [session EXCEPT !.ended = "badly"] /\ at' = "end"
  BY <1>1 DEF ReturnError, End
<1>6. session'.first = session.first /\ session'.asked = session.asked
      /\ session'.kind = session.kind
      /\ (session'.ended = "well" => session.ended = "well")
  BY <1>5 DEF TypeOK
<1>7. Told'
  <2>1. \A f \in past' : Before(f.lines, session'.first) /\ Answers(f.lines, agent'.finished)
    BY <1>6, MoreFinished DEF Conversation, Told
  <2>2. Answers(log'.lines, agent'.finished)
    BY <1>3, MoreFinished DEF Conversation, Told
  <2>3. Answers(history, agent.finished)
    BY DEF Conversation, Told
  <2>4. Answers(history', agent'.finished)
    <3>1. Answers(history', agent.finished)
      BY <1>1, <1>4, <2>3, FrontPaired
    <3> QED
      BY <3>1, MoreFinished
  <2>5. Before(history', session'.asked + 1)
    <3>1. Before(history, session.asked + 1)
      BY DEF Conversation, Told
    <3>2. DOMAIN history' \subseteq DOMAIN history
          /\ \A i \in DOMAIN history' : history'[i] = history[i]
      BY <1>1, <1>4, FrontOf
    <3> QED
      BY <1>6, <3>1, <3>2 DEF Before
  <2>6. log'.state = "open" => Keeps(history', log'.lines, session'.first)
    BY <1>1, <1>3, <1>4, <1>6, KeepsFront DEF Conversation, Told
  <2> QED
    BY <1>3, <1>6, <2>1, <2>2, <2>4, <2>5, <2>6 DEF Conversation, Told
<1>8. Talks'
  <2>1. at' \notin TurnPlaces \cup {"start"}
    BY <1>5 DEF TurnPlaces
  <2>2. session'.kind = "diagnose" => log'.state = "none" /\ history' = <<>>
    BY <1>3, <1>4, <1>6 DEF Conversation, Talks
  <2>3. log'.state = "none" => log'.lines = <<>>
    BY <1>3 DEF Conversation, Talks
  <2>4. at' = "prompt" => session'.kind = "companion"
    BY <1>1, <1>5, <1>6
  <2>5. session'.ended = "well" /\ session'.kind = "diagnose" =>
            session'.asked \in agent'.finished
    BY <1>6 DEF Conversation, Talks
  <2> QED
    BY <2>1, <2>2, <2>3, <2>4, <2>5 DEF Talks
<1> QED
  BY <1>7, <1>8 DEF Conversation

(* A message that is not written to the log leaves it closed.              *)
LEMMA LoggedOrClosed ==
  ASSUME log \in Logs, NEW m \in Messages, Log(<<m>>)
  PROVE  \/ /\ log.state = "open" /\ log'.state = "open"
            /\ log'.lines = Append(log.lines, m)
         \/ /\ log'.state # "open" /\ log'.lines = log.lines
            /\ log'.state = "none" <=> log.state = "none"
<1>1. CASE log.state = "open" /\ log' = [log EXCEPT !.lines = log.lines \o <<m>>]
  <2>1. log.lines \o <<m>> = Append(log.lines, m)
    BY AppendOne DEF Logs
  <2> QED
    BY <1>1, <2>1 DEF Logs
<1>2. CASE log.state = "open" /\ log' = [log EXCEPT !.state = "torn"]
  BY <1>2 DEF Logs
<1>3. CASE log.state # "open" /\ UNCHANGED log
  BY <1>3
<1> QED
  BY <1>1, <1>2, <1>3 DEF Log

(* A message that both history and log take over, with question q.         *)
LEMMA BeforeAppended ==
  ASSUME NEW h \in Seq(Messages), NEW m \in Messages, NEW n, Before(h, n), m.q < n
  PROVE  Before(Append(h, m), n)
  BY Appended DEF Before

LEMMA FromAppended ==
  ASSUME NEW h \in Seq(Messages), NEW m \in Messages, NEW n, From(h, n), m.q >= n
  PROVE  From(Append(h, m), n)
  BY Appended DEF From

LEMMA ReplyTells ==
  ASSUME TypeOK, Conversation, at \in TurnPlaces, ReturnReply, UNCHANGED past,
         agent' = [agent EXCEPT !.finished = @ \cup {turn.q}]
  PROVE  Conversation'
<1> DEFINE q == turn.q
<1>1. /\ turn.kind = "diagnose" <=> session.kind = "diagnose"
      /\ q = session.asked /\ q >= session.first
      /\ turn.kind # "diagnose" => history # <<>> /\ Last(history) = Question(q)
      /\ turn.kind # "diagnose" /\ log.state = "open" =>
            log.lines # <<>> /\ SameMessage(Last(log.lines), Question(q))
      /\ Unanswered(history, q) /\ Unanswered(log.lines, q)
  BY DEF Conversation, Talks, TypeOK
<1>2. /\ q \in Questions /\ q \in Nat /\ history \in Seq(Messages) /\ log \in Logs
      /\ log.lines \in Seq(Messages) /\ session.kind \in {"companion", "diagnose"}
      /\ session.asked \in Nat /\ session.first \in Nat
  BY Bounds DEF TypeOK, Turns, Questions, Logs
<1>3. Reply(q) \in Messages /\ Reply(q).q = q /\ Reply(q).role = "assistant"
  BY <1>2, MessageTypes
<1>4. agent'.finished = agent.finished \cup {q}
  BY DEF TypeOK
<1>5. /\ session'.first = session.first /\ session'.asked = session.asked
      /\ session'.kind = session.kind
      /\ \/ session' = session /\ at' = "prompt" /\ session.kind # "diagnose"
         \/ at' = "end" /\ session.kind = "diagnose"
  BY <1>1 DEF ReturnReply, End, TypeOK
<1>6. Before(history, session.asked + 1) /\ Before(log.lines, session.asked + 1)
      /\ From(log.lines, session.first) /\ Distinct(log.lines)
      /\ Answers(history, agent'.finished) /\ Answers(log.lines, agent'.finished)
      /\ (log.state = "open" => Keeps(history, log.lines, session.first))
  BY <1>4, MoreFinished DEF Conversation, Told
<1>7. \A f \in past' : Before(f.lines, session'.first) /\ Answers(f.lines, agent'.finished)
  BY <1>4, <1>5, MoreFinished DEF Conversation, Told
<1>8. at' \notin TurnPlaces \cup {"start"}
  BY <1>5 DEF TurnPlaces
<1>9. CASE UNCHANGED <<history, log>>
  <2>1. Told'
    BY <1>5, <1>6, <1>7, <1>9 DEF Conversation, Told
  <2>2. Talks'
    BY <1>1, <1>2, <1>4, <1>5, <1>8, <1>9 DEF Conversation, Talks
  <2> QED
    BY <2>1, <2>2 DEF Conversation
<1>10. CASE /\ turn.kind # "diagnose" /\ history' = Append(history, Reply(q))
            /\ Log(<<Reply(q)>>)
  <2>1. Answers(history', agent'.finished) /\ Before(history', session.asked + 1)
    <3>1. SameMessage(Last(history), Question(q))
      BY <1>1, <1>10 DEF SameMessage
    <3> QED
      BY <1>1, <1>2, <1>3, <1>4, <1>6, <1>10, <3>1, ReplyPaired, BeforeAppended
  <2>2. CASE /\ log.state = "open" /\ log'.state = "open"
             /\ log'.lines = Append(log.lines, Reply(q))
    <3>1. Answers(log'.lines, agent'.finished)
      BY <1>1, <1>2, <1>4, <1>6, <1>10, <2>2, ReplyPaired
    <3>2. Before(log'.lines, session.asked + 1) /\ From(log'.lines, session.first)
      BY <1>1, <1>2, <1>3, <1>6, <2>2, BeforeAppended, FromAppended
    <3>3. Keeps(history', log'.lines, session.first) /\ Distinct(log'.lines)
      <4>1. SameMessage(Reply(q), Reply(q))
        BY DEF SameMessage
      <4> QED
        BY <1>1, <1>2, <1>3, <1>6, <1>10, <2>2, <4>1, KeepsAppended DEF Unanswered
    <3>4. Told'
      BY <1>5, <1>7, <2>1, <3>1, <3>2, <3>3 DEF Conversation, Told
    <3>5. Talks'
      BY <1>1, <1>2, <1>5, <1>8, <1>10, <2>2 DEF Talks
    <3> QED
      BY <3>4, <3>5 DEF Conversation
  <2>3. CASE /\ log'.state # "open" /\ log'.lines = log.lines
             /\ log'.state = "none" <=> log.state = "none"
    <3>1. Told'
      BY <1>5, <1>6, <1>7, <2>1, <2>3 DEF Conversation, Told
    <3>2. Talks'
      BY <1>1, <1>2, <1>5, <1>8, <1>10, <2>3 DEF Conversation, Talks
    <3> QED
      BY <3>1, <3>2 DEF Conversation
  <2> QED
    BY <1>2, <1>3, <1>10, <2>2, <2>3, LoggedOrClosed
<1> QED
  BY <1>9, <1>10 DEF ReturnReply

LEMMA UnansweredAppended ==
  ASSUME NEW h \in Seq(Messages), NEW m \in Messages, m.role = "user", NEW q,
         Unanswered(h, q)
  PROVE  Unanswered(Append(h, m), q)
<1>1. Reply(q).role = "assistant"
  BY DEF Reply
<1> QED
  BY <1>1, Appended DEF Unanswered, SameMessage

LEMMA QuestionTells ==
  ASSUME TypeOK, Conversation, NEW kind \in {"ask", "pd"}, StartTurn(kind)
  PROVE  Conversation'
<1> DEFINE q == session.asked + 1
<1>1. /\ q \in Questions /\ q \in Nat /\ history \in Seq(Messages) /\ log \in Logs
      /\ log.lines \in Seq(Messages) /\ session.kind = "companion"
      /\ session.asked \in Nat /\ session.first \in Nat /\ q >= session.first
  BY Bounds DEF TypeOK, StartTurn, Questions, Logs, Conversation, Told, Talks
<1>2. /\ Question(q) \in Messages /\ Question(q).q = q /\ Question(q).role = "user"
      /\ Logged(kind, q) \in Messages /\ Logged(kind, q).q = q
      /\ Logged(kind, q).role = "user" /\ Reply(q).role = "assistant" /\ Reply(q).q = q
  BY <1>1, MessageTypes
<1>3. /\ at' = "send" /\ history' = Append(history, Question(q)) /\ Log(<<Logged(kind, q)>>)
      /\ turn' = NewTurn(kind, q) /\ UNCHANGED <<past, agent>>
      /\ session' = [session EXCEPT !.asked = q]
  BY DEF StartTurn
<1>4. /\ session'.asked = q /\ session'.first = session.first /\ session'.kind = "companion"
      /\ turn'.q = q /\ turn'.kind = kind
  BY <1>1, <1>3 DEF TypeOK, NewTurn
<1>5. /\ Before(history, q) /\ Before(log.lines, q) /\ From(log.lines, session.first)
      /\ Distinct(log.lines) /\ Answers(history, agent.finished)
      /\ Answers(log.lines, agent.finished)
      /\ (log.state = "open" => Keeps(history, log.lines, session.first))
      /\ \A f \in past : Before(f.lines, session.first) /\ Answers(f.lines, agent.finished)
  BY DEF Conversation, Told
(* Everything so far is about earlier questions.                           *)
<1>6. ASSUME NEW h \in Seq(Messages), Before(h, q)
      PROVE  /\ Before(h, q + 1) /\ Unanswered(h, q)
             /\ \A i \in DOMAIN h : ~SameMessage(h[i], Question(q))
  <2>1. \A i \in DOMAIN h : h[i] \in Messages
    OBVIOUS
  <2>2. \A m \in Messages : m.q \in Nat
    BY Bounds DEF Messages, Questions
  <2>3. \A i \in DOMAIN h : h[i].q \in Nat /\ h[i].q < q
    BY <1>6, <2>1, <2>2 DEF Before
  <2> QED
    BY <1>1, <1>2, <2>3 DEF Before, Unanswered, SameMessage
<1>7. /\ Answers(history', agent'.finished) /\ Before(history', q + 1)
      /\ Unanswered(history', q) /\ history' # <<>> /\ Last(history') = Question(q)
  <2>1. Unanswered(history', q)
    BY <1>1, <1>2, <1>3, <1>5, <1>6, UnansweredAppended
  <2> QED
    BY <1>1, <1>2, <1>3, <1>5, <1>6, <2>1, QuestionPaired, BeforeAppended, Appended
<1>8. CASE /\ log.state = "open" /\ log'.state = "open"
           /\ log'.lines = Append(log.lines, Logged(kind, q))
  <2>1. Answers(log'.lines, agent'.finished)
    BY <1>1, <1>2, <1>3, <1>5, <1>8, QuestionPaired
  <2>2. Before(log'.lines, q + 1) /\ From(log'.lines, session.first)
    BY <1>1, <1>2, <1>5, <1>6, <1>8, BeforeAppended, FromAppended
  <2>3. Keeps(history', log'.lines, session.first) /\ Distinct(log'.lines)
    <3>1. SameMessage(Question(q), Logged(kind, q))
      BY <1>2 DEF SameMessage
    <3> QED
      BY <1>1, <1>2, <1>3, <1>5, <1>6, <1>8, <3>1, KeepsAppended
  <2>4. Unanswered(log'.lines, q) /\ log'.lines # <<>>
        /\ SameMessage(Last(log'.lines), Question(q))
    <3>1. Unanswered(log.lines, q)
      BY <1>1, <1>5, <1>6
    <3>2. Unanswered(log'.lines, q)
      BY <1>1, <1>2, <1>8, <3>1, UnansweredAppended
    <3>3. log'.lines # <<>> /\ Last(log'.lines) = Logged(kind, q)
      BY <1>1, <1>2, <1>8, Appended
    <3> QED
      BY <1>2, <3>2, <3>3 DEF SameMessage
  <2>5. Told'
    BY <1>1, <1>3, <1>4, <1>5, <1>7, <2>1, <2>2, <2>3 DEF Told
  <2>6. Talks'
    BY <1>1, <1>3, <1>4, <1>7, <1>8, <2>4 DEF Talks
  <2> QED
    BY <2>5, <2>6 DEF Conversation
<1>9. CASE /\ log'.state # "open" /\ log'.lines = log.lines
           /\ log'.state = "none" <=> log.state = "none"
  <2>1. Told'
    BY <1>1, <1>3, <1>4, <1>5, <1>6, <1>7, <1>9 DEF Told
  <2>2. Talks'
    BY <1>1, <1>3, <1>4, <1>5, <1>6, <1>7, <1>9 DEF Conversation, Talks
  <2> QED
    BY <2>1, <2>2 DEF Conversation
<1> QED
  BY <1>1, <1>2, <1>3, <1>8, <1>9, LoggedOrClosed

(* What is resumed is what a log holds: of an earlier session, which is    *)
(* about earlier questions, or of this one.                                *)
LEMMA ResumeTells ==
  ASSUME TypeOK, Conversation, Resume PROVE Conversation'
<1>1. UNCHANGED <<log, past, turn, session, agent>> /\ at = "prompt" /\ at' \in {"prompt", "hung"}
  BY DEF Resume
<1>2. CASE history' = history
  BY <1>1, <1>2 DEF Conversation, Told, Talks, TurnPlaces
<1>3. ASSUME NEW f \in Files, history' = f.lines PROVE Conversation'
  <2>1. session.first \in Nat /\ session.asked \in Nat /\ session.first <= session.asked + 1
        /\ f.lines \in Seq(Messages)
    BY DEF TypeOK, Conversation, Told, Files, Logs
  <2>2. Answers(f.lines, agent.finished)
    BY DEF Conversation, Told, Files
  <2>3. Before(f.lines, session.asked + 1) /\ (log.state = "open" =>
                                                   Keeps(f.lines, log.lines, session.first))
    <3>1. CASE f = log
      BY <2>1, <3>1, KeepsItself DEF Conversation, Told
    <3>2. CASE f # log
      <4>1. Before(f.lines, session.first)
        BY <3>2 DEF Conversation, Told, Files
      <4>2. \A i \in DOMAIN f.lines : f.lines[i] \in Messages
        BY <2>1
      <4>3. \A m \in Messages : m.q \in Nat
        BY Bounds DEF Messages, Questions
      <4>4. Before(f.lines, session.asked + 1)
        BY <2>1, <4>1, <4>2, <4>3 DEF Before
      <4> QED
        BY <2>1, <4>1, <4>4, KeepsNothing
    <3> QED
      BY <3>1, <3>2
  <2>4. Told'
    BY <1>1, <1>3, <2>2, <2>3 DEF Conversation, Told
  <2>5. Talks'
    <3>1. session.kind # "diagnose"
      BY <1>1 DEF Conversation, Talks
    <3> QED
      BY <1>1, <3>1 DEF Conversation, Talks, TurnPlaces
  <2> QED
    BY <2>4, <2>5 DEF Conversation
<1> QED
  BY <1>2, <1>3 DEF Resume, LoadHistory

LEMMA EmptyTells ==
  ASSUME NEW S, NEW n, NEW l, NEW first
  PROVE  /\ Before(<<>>, n) /\ From(<<>>, n) /\ Distinct(<<>>) /\ Answers(<<>>, S)
         /\ Keeps(<<>>, l, first) /\ \A q : Unanswered(<<>>, q)
  BY DEF Before, From, Distinct, Answers, Paired, Keeps, Unanswered

LEMMA LaterBefore ==
  ASSUME NEW h \in Seq(Messages), NEW m \in Nat, NEW n \in Nat, m <= n, Before(h, m)
  PROVE  Before(h, n)
<1>1. \A i \in DOMAIN h : h[i] \in Messages
  OBVIOUS
<1>2. \A x \in Messages : x.q \in Nat
  BY Bounds DEF Messages, Questions
<1> QED
  BY <1>1, <1>2 DEF Before

(* The last session's log is one more of the earlier ones.                 *)
LEMMA SessionTells ==
  ASSUME TypeOK, Conversation, NewSession PROVE Conversation'
<1>1. session.asked \in Nat /\ session.first \in Nat /\ session.first <= session.asked + 1
  BY DEF TypeOK, Conversation, Told
<1>2. PICK kind \in {"companion", "diagnose"} :
         /\ session' = [session EXCEPT !.kind = kind, !.n = @ + 1,
                                       !.first = session.asked + 1, !.ended = "no"]
         /\ log' \in {f \in {NewLog, [NewLog EXCEPT !.state = "none"]} :
                         kind = "diagnose" => f.state = "none"}
  BY DEF NewSession
<1>3. /\ session'.kind = kind /\ session'.first = session.asked + 1
      /\ session'.asked = session.asked /\ session'.ended = "no"
  BY <1>2 DEF TypeOK
<1>4. log'.lines = <<>> /\ (kind = "diagnose" => log'.state = "none")
  BY <1>2 DEF NewLog
<1>5. at' = "start" /\ history' = <<>> /\ UNCHANGED agent /\ past' \subseteq Files
  BY DEF NewSession
<1>6. ASSUME NEW f \in Files
      PROVE  Before(f.lines, session.asked + 1) /\ Answers(f.lines, agent.finished)
  <2>1. f.lines \in Seq(Messages)
    BY DEF Files, TypeOK, Logs
  <2>2. CASE f = log
    BY <2>2 DEF Conversation, Told
  <2>3. CASE f \in past
    BY <1>1, <2>1, <2>3, LaterBefore DEF Conversation, Told
  <2> QED
    BY <2>2, <2>3 DEF Files
<1>7. Told'
  <2>1. session'.first <= session'.asked + 1
    BY <1>1, <1>3
  <2>2. \A f \in past' : Before(f.lines, session'.first) /\ Answers(f.lines, agent'.finished)
    BY <1>3, <1>5, <1>6
  <2> QED
    BY <1>3, <1>4, <1>5, <2>1, <2>2, EmptyTells DEF Told
<1>8. Talks'
  BY <1>3, <1>4, <1>5 DEF Talks, TurnPlaces
<1> QED
  BY <1>7, <1>8 DEF Conversation

LEMMA EndTells ==
  ASSUME TypeOK, Conversation, Quit \/ Killed PROVE Conversation'
<1>1. /\ at' = "end" /\ history' = <<>> /\ UNCHANGED <<log, past, agent>>
      /\ \E how \in {"well", "killed"} :
            /\ session' = [session EXCEPT !.ended = how]
            /\ how = "well" => session.kind = "companion"
  BY DEF Quit, Killed, End, Conversation, Talks
<1>2. /\ session'.first = session.first /\ session'.asked = session.asked
      /\ session'.kind = session.kind
      /\ session'.ended = "well" => session.kind = "companion"
  BY <1>1 DEF TypeOK
<1>3. Told'
  BY <1>1, <1>2, EmptyTells DEF Conversation, Told
<1>4. Talks'
  BY <1>1, <1>2 DEF Conversation, Talks, TurnPlaces
<1> QED
  BY <1>3, <1>4 DEF Conversation

LEMMA DiscoverTells ==
  ASSUME TypeOK, Conversation, Discover PROVE Conversation'
<1>1. at = "start" /\ history = <<>> /\ UNCHANGED <<history, log, past, agent>>
  BY DEF Discover, Conversation, Talks
<1>2. CASE End("badly") /\ UNCHANGED turn
  <2>1. /\ session'.first = session.first /\ session'.asked = session.asked
        /\ session'.kind = session.kind /\ session'.ended = "badly" /\ at' = "end"
    BY <1>2 DEF TypeOK, End
  <2> QED
    BY <1>1, <2>1 DEF Conversation, Told, Talks, TurnPlaces
<1>3. CASE /\ session.kind = "companion" /\ at' = "prompt"
           /\ UNCHANGED <<session, grants, turn>>
  BY <1>1, <1>3 DEF Conversation, Told, Talks, TurnPlaces
<1>4. CASE /\ session.kind = "diagnose" /\ at' = "send"
           /\ session' = [session EXCEPT !.asked = @ + 1]
           /\ turn' = NewTurn("diagnose", session.asked + 1)
  <2>1. /\ session'.first = session.first /\ session'.asked = session.asked + 1
        /\ session'.kind = "diagnose" /\ session'.ended = "no"
        /\ session.asked \in Nat /\ session.first \in Nat
        /\ turn'.q = session.asked + 1 /\ turn'.kind = "diagnose"
    BY <1>1, <1>4 DEF TypeOK, NewTurn
  <2>2. log'.lines = <<>> /\ log'.state = "none" /\ history' = <<>>
    BY <1>1, <1>4 DEF Conversation, Talks
  <2>3. session.first <= session.asked + 1
    BY DEF Conversation, Told
  <2>4. Told'
    <3>1. session'.first <= session'.asked + 1
      BY <2>1, <2>3
    <3>2. \A f \in past' : Before(f.lines, session'.first) /\ Answers(f.lines, agent'.finished)
      BY <1>1, <2>1 DEF Conversation, Told
    <3> QED
      BY <2>2, <3>1, <3>2, EmptyTells DEF Told
  <2>5. Talks'
    BY <1>4, <2>1, <2>2, <2>3, EmptyTells DEF Talks
  <2> QED
    BY <2>4, <2>5 DEF Conversation
<1> QED
  BY <1>2, <1>3, <1>4 DEF Discover

LEMMA ConversationStep ==
  ASSUME TypeOK, Conversation, [Next]_vars PROVE Conversation'
<1>1. /\ log \in Logs
      /\ {"send", "backoff", "stream", "confirm", "execute", "await"} \subseteq TurnPlaces
  BY DEF TypeOK, TurnPlaces
<1>2. ASSUME NEW o, turn' = [turn EXCEPT !.outcome = o] PROVE turn'.q = turn.q /\ turn'.kind = turn.kind
  BY <1>2 DEF TypeOK, Turns
<1>3. CASE Send \/ Abandon \/ Broken
  <2>1. CASE StreamFails
    <3>1. at \in TurnPlaces /\ UNCHANGED past
      BY <1>1, <1>3 DEF Send, Abandon, Broken
    <3>2. agent.finished \subseteq agent'.finished
      BY <1>3 DEF Send, Hear, Abandon, Broken, TypeOK
    <3> QED
      BY <2>1, <3>1, <3>2, ErrorTells DEF StreamFails
  <2>2. CASE Send /\ turn' = [turn EXCEPT !.attempt = @ + 1] /\ at' = "backoff"
             /\ UNCHANGED <<history, log, session, grants>>
    <3>1. turn'.q = turn.q /\ turn'.kind = turn.kind
      BY <2>2 DEF TypeOK, Turns
    <3>2. agent.finished \subseteq agent'.finished
      BY <2>2 DEF Send, Hear, TypeOK
    <3> QED
      BY <1>1, <2>2, <3>1, <3>2, SilentTells DEF Send, Silent, LogRests
  <2> QED
    BY <1>3, <2>1, <2>2 DEF Send, Abandon, Broken
<1>4. CASE SendAnswered \/ Backoff \/ Text
  <2>1. turn'.q = turn.q /\ turn'.kind = turn.kind
    BY <1>4 DEF SendAnswered, Backoff, Text, TypeOK, Turns
  <2>2. agent.finished \subseteq agent'.finished
    BY <1>4 DEF SendAnswered, Backoff, Text, TypeOK
  <2>3. UNCHANGED <<history, log, past, session>> /\ (at' = at \/ {at, at'} \subseteq TurnPlaces)
    BY <1>1, <1>4 DEF SendAnswered, Backoff, Text
  <2> QED
    BY <2>1, <2>2, <2>3, SilentTells DEF Silent, LogRests
<1>5. CASE Done
  <2>1. at \in TurnPlaces /\ UNCHANGED past
        /\ agent' = [agent EXCEPT !.finished = @ \cup {turn.q}]
    BY <1>1, <1>5 DEF Done
  <2>2. agent.finished \subseteq agent'.finished
    BY <2>1 DEF TypeOK
  <2> QED
    BY <1>5, <2>1, <2>2, ReplyTells, ErrorTells DEF Done
<1>6. CASE Deny /\ ~(turn.denials + 1 < MaxDenials)
  BY <1>1, <1>6, ErrorTells DEF Deny
<1>7. CASE ToolCall \/ Approve \/ (Deny /\ turn.denials + 1 < MaxDenials)
  <2>1. turn'.q = turn.q /\ turn'.kind = turn.kind
    BY <1>7 DEF ToolCall, Approve, Deny, TypeOK, Turns
  <2>2. agent.finished \subseteq agent'.finished
    BY <1>7 DEF ToolCall, Approve, Deny, TypeOK
  <2>3. UNCHANGED <<history, past, session>> /\ {at, at'} \subseteq TurnPlaces
    BY <1>1, <1>7 DEF ToolCall, Approve, Deny
  <2>4. LogRests
    BY <1>1, <1>7, LogNothing DEF ToolCall, Approve, Deny, LogRests
  <2> QED
    BY <2>1, <2>2, <2>3, <2>4, SilentTells DEF Silent
<1>8. CASE Execute \/ Awaited \/ AwaitEnds
  <2>1. PICK outcome : Result(outcome)
    BY <1>8 DEF Execute, Awaited, AwaitEnds
  <2>2. turn'.q = turn.q /\ turn'.kind = turn.kind
    BY <1>2, <2>1 DEF Result
  <2>3. agent.finished \subseteq agent'.finished
    BY <1>8 DEF Execute, Awaited, AwaitEnds, TypeOK
  <2>4. UNCHANGED <<history, past, session>> /\ {at, at'} \subseteq TurnPlaces /\ LogRests
    BY <1>1, <1>8, <2>1, LogNothing DEF Execute, Awaited, AwaitEnds, Result
  <2> QED
    BY <2>2, <2>3, <2>4, SilentTells DEF Silent
<1>9. CASE CreateGrant \/ StartWorkflow \/ Interrupt \/ Expire
  <2>1. turn'.q = turn.q /\ turn'.kind = turn.kind
    BY <1>9 DEF CreateGrant, StartWorkflow, Interrupt, Expire, TypeOK, Turns
  <2>2. agent.finished \subseteq agent'.finished
    BY <1>9 DEF CreateGrant, StartWorkflow, Interrupt, Expire, TypeOK
  <2>3. UNCHANGED <<history, log, past, session>> /\ (at' = at \/ {at, at'} \subseteq TurnPlaces)
    BY <1>1, <1>9 DEF CreateGrant, StartWorkflow, Interrupt, Expire
  <2> QED
    BY <2>1, <2>2, <2>3, SilentTells DEF Silent, LogRests
<1>10. CASE UNCHANGED vars
  BY <1>10, SilentTells DEF vars, Silent, LogRests
<1> QED
  BY <1>3, <1>4, <1>5, <1>6, <1>7, <1>8, <1>9, <1>10, SessionTells, DiscoverTells,
     QuestionTells, ResumeTells, EndTells DEF Next, Proceeds

-----------------------------------------------------------------------------
(* Calls of tools.  A call is heard of when it is over, and what is heard  *)
(* is what became of it: nothing happens to it afterwards.                 *)
Acts(outcome) == outcome \in {"failed", "done"}
HeardRight ==
    \A h \in agent.heard :
        h.call <= agent.calls /\ (Acts(h.outcome) <=> h.call \in agent.executed)

CallsClear ==
    /\ agent.executed \subseteq agent.confirmed
    /\ agent.executed \subseteq 1 .. agent.calls
    /\ HeardRight
    /\ turn.call <= agent.calls
    /\ turn.call = 0 => turn.outcome = "none"
    /\ at = "stream" => turn.call = 0
    /\ at \in {"send", "backoff"} /\ turn.call > 0 =>
          (Acts(turn.outcome) <=> turn.call \in agent.executed)
    /\ at \in {"confirm", "execute", "await"} => \A h \in agent.heard : h.call # turn.call
    /\ at \in {"confirm", "execute"} => turn.call \notin agent.executed
    /\ at \in {"execute", "await"} => turn.call \in agent.confirmed
    /\ at = "await" => turn.call \in agent.executed

(* The agent learns nothing of the calls, or what the turn has to tell.    *)
Learns ==
    /\ agent'.calls = agent.calls
    /\ agent'.confirmed = agent.confirmed
    /\ agent'.executed = agent.executed
    /\ agent'.heard \subseteq agent.heard \cup
          {[call |-> c, outcome |-> turn.outcome] : c \in {turn.call} \ {0}}

LEMMA LearnsRight ==
  ASSUME TypeOK, CallsClear, Learns,
         at \in {"send", "backoff"} \/ agent'.heard \subseteq agent.heard
  PROVE  HeardRight'
<1>1. CASE agent'.heard \subseteq agent.heard
  BY <1>1 DEF Learns, CallsClear, HeardRight
<1>2. CASE at \in {"send", "backoff"}
  <2>1. turn.call \in Nat
    BY Bounds DEF TypeOK, Turns
  <2>2. turn.call # 0 => turn.call <= agent.calls
                         /\ (Acts(turn.outcome) <=> turn.call \in agent.executed)
    BY <1>2, <2>1 DEF CallsClear
  <2>3. ASSUME NEW h \in agent'.heard
        PROVE  h.call <= agent.calls /\ (Acts(h.outcome) <=> h.call \in agent.executed)
    <3>1. CASE h \in agent.heard
      BY <3>1 DEF CallsClear, HeardRight
    <3>2. CASE h \notin agent.heard
      BY <2>2, <2>3, <3>2 DEF Learns
    <3> QED
      BY <3>1, <3>2
  <2> QED
    BY <2>3 DEF HeardRight, Learns
<1> QED
  BY <1>1, <1>2

(* A turn that has nothing to tell: none, a new one, one that is over.     *)
LEMMA CallsOver ==
  ASSUME TypeOK, CallsClear, Learns,
         at \in {"send", "backoff"} \/ agent'.heard \subseteq agent.heard,
         turn'.call = 0, turn'.outcome = "none", at' \notin {"confirm", "execute", "await"}
  PROVE  CallsClear'
<1>1. HeardRight'
  BY LearnsRight
<1>2. agent.calls \in Nat
  BY Bounds DEF TypeOK
<1> QED
  BY <1>1, <1>2 DEF CallsClear, Learns

LEMMA CallsReturn ==
  ASSUME TypeOK, CallsClear, Learns,
         at \in {"send", "backoff"} \/ agent'.heard \subseteq agent.heard,
         ReturnReply \/ \E canceled : ReturnError(canceled)
  PROVE  CallsClear'
<1>1. turn'.call = 0 /\ turn'.outcome = "none"
  BY DEF ReturnReply, ReturnError, NoTurn, NewTurn
<1>2. at' \in {"prompt", "end"}
  BY DEF ReturnReply, ReturnError, End
<1> QED
  BY <1>1, <1>2, CallsOver

LEMMA CallsOutside ==
  ASSUME TypeOK, CallsClear,
         NewSession \/ Discover \/ StartTurn("ask") \/ StartTurn("pd") \/ Resume \/ Quit
             \/ Killed \/ Expire \/ UNCHANGED vars
  PROVE  CallsClear'
<1>1. CASE NewSession \/ Killed \/ StartTurn("ask") \/ StartTurn("pd")
  <2>1. turn'.call = 0 /\ turn'.outcome = "none"
    BY <1>1 DEF NewSession, Killed, StartTurn, NoTurn, NewTurn
  <2>2. at' \in {"start", "end", "send"} /\ Learns /\ agent'.heard \subseteq agent.heard
    BY <1>1 DEF NewSession, Killed, StartTurn, End, Learns
  <2> QED
    BY <2>1, <2>2, CallsOver
<1>2. CASE Discover /\ turn' # turn
  <2>1. turn'.call = 0 /\ turn'.outcome = "none"
    BY <1>2 DEF Discover, NewTurn
  <2>2. at' = "send" /\ Learns /\ agent'.heard \subseteq agent.heard
    BY <1>2 DEF Discover, Learns
  <2> QED
    BY <2>1, <2>2, CallsOver
<1>3. CASE (Discover /\ turn' = turn) \/ Resume \/ Quit
  <2>1. UNCHANGED <<turn, agent>>
    BY <1>3 DEF Discover, Resume, Quit
  <2>2. at' \in {"prompt", "hung", "end"} \/ turn' = NewTurn("diagnose", session.asked + 1)
    BY <1>3 DEF Discover, Resume, Quit, End
  <2>3. CASE at' \in {"prompt", "hung", "end"}
    BY <2>1, <2>3 DEF CallsClear, HeardRight
  <2>4. CASE turn' = NewTurn("diagnose", session.asked + 1) /\ at' \notin {"prompt", "hung", "end"}
    <3>1. at' = "send"
      BY <1>3, <2>4 DEF Discover, Resume, Quit, End
    <3>2. turn'.call = 0 /\ turn'.outcome = "none" /\ Learns /\ agent'.heard \subseteq agent.heard
      BY <2>1, <2>4 DEF NewTurn, Learns
    <3> QED
      BY <3>1, <3>2, CallsOver
  <2> QED
    BY <2>2, <2>3, <2>4
<1>4. CASE Expire \/ UNCHANGED vars
  BY <1>4 DEF Expire, vars, CallsClear, HeardRight
<1> QED
  BY <1>1, <1>2, <1>3, <1>4

LEMMA CallsSent ==
  ASSUME TypeOK, CallsClear,
         Send \/ SendAnswered \/ Backoff \/ Abandon \/ Text \/ Done \/ Broken \/ Interrupt
  PROVE  CallsClear'
<1>1. turn \in Turns /\ turn.call \in Nat
  BY Bounds DEF TypeOK, Turns
<1>2. CASE Abandon \/ Done \/ Broken \/ (Send /\ StreamFails)
  <2>1. Learns /\ (at \in {"send", "backoff"} \/ agent'.heard \subseteq agent.heard)
    BY <1>2 DEF TypeOK, Abandon, Done, Broken, Send, Hear, Learns
  <2>2. ReturnReply \/ \E canceled : ReturnError(canceled)
    BY <1>2 DEF Abandon, Done, Broken, StreamFails
  <2> QED
    BY <2>1, <2>2, CallsReturn
<1>3. CASE Send /\ ~StreamFails
  <2>1. turn' = [turn EXCEPT !.attempt = @ + 1] /\ at' = "backoff" /\ at = "send"
    BY <1>3 DEF Send
  <2>2. turn'.call = turn.call /\ turn'.outcome = turn.outcome
    BY <1>1, <2>1 DEF Turns
  <2>3. Learns
    BY <1>3 DEF TypeOK, Send, Hear, Learns
  <2>4. HeardRight'
    BY <2>1, <2>3, LearnsRight
  <2> QED
    BY <2>1, <2>2, <2>3, <2>4 DEF CallsClear, Learns
<1>4. CASE SendAnswered
  <2>1. turn'.call = 0 /\ turn'.outcome = "none"
    BY <1>1, <1>4 DEF SendAnswered, Turns
  <2>2. Learns /\ at = "send" /\ at' = "stream"
    BY <1>4 DEF TypeOK, SendAnswered, Learns
  <2> QED
    BY <2>1, <2>2, CallsOver
<1>5. CASE Backoff \/ Text \/ Interrupt
  <2>1. turn'.call = turn.call /\ turn'.outcome = turn.outcome /\ UNCHANGED agent
    BY <1>1, <1>5 DEF Backoff, Text, Interrupt, Turns
  <2>2. at' = at \/ (at = "backoff" /\ at' = "send")
    BY <1>5 DEF Backoff, Text, Interrupt
  <2> QED
    BY <2>1, <2>2 DEF CallsClear, HeardRight
<1> QED
  BY <1>2, <1>3, <1>4, <1>5

(* The answer of the user, and the tool.                                   *)
LEMMA CallsDecided ==
  ASSUME TypeOK, CallsClear, ToolCall \/ Approve \/ Deny
  PROVE  CallsClear'
<1>1. turn \in Turns /\ turn.call \in Nat /\ agent.calls \in Nat
  BY Bounds DEF TypeOK, Turns
<1>2. CASE ToolCall
  <2>1. turn'.call = agent.calls + 1 /\ turn'.outcome = turn.outcome
    BY <1>1, <1>2 DEF ToolCall, Turns
  <2>2. /\ agent'.calls = agent.calls + 1 /\ agent'.heard = agent.heard
        /\ agent'.executed = agent.executed /\ agent'.confirmed = agent.confirmed
        /\ at' = "confirm"
    BY <1>2 DEF TypeOK, ToolCall
  <2>3. \A h \in agent.heard : h.call \in Nat /\ h.call <= agent.calls
    BY Bounds DEF TypeOK, Calls, CallsClear, HeardRight
  <2>4. \A h \in agent.heard : h.call # agent.calls + 1 /\ h.call <= agent.calls + 1
    BY <1>1, <2>3
  <2>5. agent.executed \subseteq 1 .. agent.calls + 1 /\ agent.calls + 1 \notin agent.executed
    BY <1>1 DEF CallsClear
  <2> QED
    BY <1>1, <2>1, <2>2, <2>4, <2>5 DEF CallsClear, HeardRight
<1>3. CASE Approve
  <2>1. turn'.call = turn.call /\ turn'.outcome = turn.outcome
    BY <1>1, <1>3 DEF Approve, Turns
  <2>2. /\ agent'.calls = agent.calls /\ agent'.heard = agent.heard
        /\ agent'.executed = agent.executed
        /\ agent'.confirmed = agent.confirmed \cup {turn.call}
        /\ at = "confirm" /\ at' = "execute"
    BY <1>3 DEF TypeOK, Approve
  <2> QED
    BY <2>1, <2>2 DEF CallsClear, HeardRight
<1>4. CASE Deny /\ turn.denials + 1 < MaxDenials
  <2>1. turn'.call = turn.call /\ turn'.outcome = "denied" /\ UNCHANGED agent
    BY <1>1, <1>4 DEF Deny, Turns
  <2>2. at = "confirm" /\ at' = "send" /\ turn.call > 0
    BY <1>4 DEF Deny, TypeOK
  <2> QED
    BY <2>1, <2>2 DEF CallsClear, HeardRight, Acts
<1>5. CASE Deny /\ ~(turn.denials + 1 < MaxDenials)
  <2>1. Learns /\ agent'.heard \subseteq agent.heard
    BY <1>5 DEF Deny, Learns
  <2> QED
    BY <1>5, <2>1, CallsReturn DEF Deny
<1> QED
  BY <1>2, <1>3, <1>4, <1>5

LEMMA CallsDone ==
  ASSUME TypeOK, CallsClear,
         Execute \/ CreateGrant \/ StartWorkflow \/ Awaited \/ AwaitEnds
  PROVE  CallsClear'
<1>1. turn \in Turns /\ turn.call \in Nat /\ agent.calls \in Nat
  BY Bounds DEF TypeOK, Turns
<1>2. at \in {"execute", "await"} /\ turn.call > 0
  BY DEF Execute, CreateGrant, StartWorkflow, Awaited, AwaitEnds, TypeOK
<1>3. \/ at' = "send" /\ \E o \in {"failed", "done"} : turn' = [turn EXCEPT !.outcome = o]
      \/ at' = "await" /\ turn' = turn
  BY DEF Execute, CreateGrant, StartWorkflow, Awaited, AwaitEnds, Result
<1>4. turn'.call = turn.call /\ (at' = "send" => Acts(turn'.outcome))
  BY <1>1, <1>3 DEF Turns, Acts
<1>5. /\ agent'.calls = agent.calls /\ agent'.heard = agent.heard
      /\ agent'.confirmed = agent.confirmed
      /\ agent'.executed = agent.executed \cup {turn.call}
  <2>1. CASE Awaited \/ AwaitEnds
    BY <2>1 DEF Awaited, AwaitEnds, CallsClear
  <2>2. CASE Execute \/ CreateGrant \/ StartWorkflow
    BY <2>2 DEF Execute, CreateGrant, StartWorkflow, TypeOK
  <2> QED
    BY <2>1, <2>2
<1>6. \A h \in agent.heard : h.call # turn.call
  BY <1>2 DEF CallsClear
<1>7. agent'.executed \subseteq agent'.confirmed /\ agent'.executed \subseteq 1 .. agent'.calls
  BY <1>1, <1>2, <1>5 DEF CallsClear
<1>8. HeardRight'
  BY <1>5, <1>6 DEF CallsClear, HeardRight
<1> QED
  BY <1>1, <1>2, <1>3, <1>4, <1>5, <1>6, <1>7, <1>8 DEF CallsClear

LEMMA CallsStep == ASSUME TypeOK, CallsClear, [Next]_vars PROVE CallsClear'
BY CallsOutside, CallsSent, CallsDecided, CallsDone DEF Next, Proceeds

-----------------------------------------------------------------------------
(* Grants.  One is tracked before anybody knows that it was made.          *)
GrantsClear == grants.known \subseteq grants.tracked /\ GrantsWarned

LEMMA GrantsStep ==
  ASSUME TypeOK, GrantsClear, [Next]_vars PROVE GrantsClear'
<1> DEFINE Ends == \E how \in {"well", "badly", "killed"} : End(how)
<1>1. CASE Ends
  <2>1. /\ grants'.known = grants.known /\ grants'.tracked = grants.tracked
        /\ session'.ended # "killed" => grants'.warned = grants.tracked
    BY <1>1 DEF TypeOK, End
  <2> QED
    BY <2>1 DEF GrantsClear, GrantsWarned
<1>2. CASE UNCHANGED grants /\ session'.ended \in {session.ended, "no"}
  BY <1>2 DEF GrantsClear, GrantsWarned
<1>3. CASE NewSession
  <2>1. grants'.known = {} /\ grants'.tracked = {}
    BY <1>3 DEF NewSession
  <2> QED
    BY <2>1 DEF GrantsClear, GrantsWarned
<1>4. CASE CreateGrant
  <2>1. /\ grants'.known = grants.known \cup {turn.call}
        /\ grants'.tracked = grants.tracked \cup {turn.call}
    BY <1>4 DEF CreateGrant, TypeOK
  <2>2. session'.ended = "no"
    BY <1>4 DEF CreateGrant, TypeOK
  <2> QED
    BY <2>1, <2>2 DEF GrantsClear, GrantsWarned
<1>5. (ReturnReply \/ \E canceled : ReturnError(canceled))
          => Ends \/ (UNCHANGED grants /\ UNCHANGED session)
  BY DEF ReturnReply, ReturnError
<1>6. \/ Ends \/ NewSession \/ CreateGrant
      \/ UNCHANGED grants /\ session'.ended \in {session.ended, "no"}
  <2>1. CASE Discover \/ StartTurn("ask") \/ StartTurn("pd") \/ Resume \/ Quit \/ Killed
             \/ Expire \/ UNCHANGED vars
    BY <2>1 DEF Discover, StartTurn, Resume, Quit, Killed, Expire, vars, TypeOK
  <2>2. CASE Send \/ SendAnswered \/ Backoff \/ Abandon \/ Text \/ Done \/ Broken
    BY <1>5, <2>2 DEF Send, SendAnswered, Backoff, Abandon, Text, Done, Broken, StreamFails
  <2>3. CASE ToolCall \/ Approve \/ Deny \/ Execute \/ StartWorkflow \/ Awaited \/ AwaitEnds
             \/ Interrupt
    BY <1>5, <2>3 DEF ToolCall, Approve, Deny, Execute, StartWorkflow, Awaited, AwaitEnds, Interrupt
  <2> QED
    BY <2>1, <2>2, <2>3 DEF Next, Proceeds
<1> QED
  BY <1>1, <1>2, <1>3, <1>4, <1>6

-----------------------------------------------------------------------------
Inv == TypeOK /\ Conversation /\ CallsClear /\ GrantsClear

LEMMA Initial == Init => Inv
<1> SUFFICES ASSUME Init PROVE Inv
  OBVIOUS
<1> USE Bounds DEF Init
<1>1. TypeOK
  <2>1. NoTurn \in Turns /\ <<>> \in Seq(Messages)
    BY NewTurnTypes
  <2>2. log \in Logs
    BY <2>1 DEF Logs
  <2>3. SessionOK /\ GrantsOK /\ AgentOK
    BY DEF SessionOK, GrantsOK, AgentOK
  <2>4. turn \in Turns /\ history \in Seq(Messages) /\ at \in Places /\ at \notin TurnPlaces
    BY <2>1 DEF Places, TurnPlaces
  <2> QED
    BY <2>2, <2>3, <2>4 DEF TypeOK, SessionOK, GrantsOK, AgentOK
<1>2. Conversation
  <2>1. Told
    BY DEF Told, Before, From, Distinct, Answers, Paired, Keeps
  <2>2. Talks
    BY DEF Talks, TurnPlaces
  <2> QED
    BY <2>1, <2>2 DEF Conversation
<1>3. CallsClear
  BY DEF CallsClear, HeardRight, NoTurn, NewTurn
<1>4. GrantsClear
  BY DEF GrantsClear, GrantsWarned
<1> QED
  BY <1>1, <1>2, <1>3, <1>4 DEF Inv

LEMMA Preserved == ASSUME Inv, [Next]_vars PROVE Inv'
<1>1. at \in TurnPlaces => QuestionStands
  BY DEF Inv, Conversation, Talks, QuestionStands, TypeOK
<1> QED
  BY <1>1, TypesStep, ConversationStep, CallsStep, GrantsStep DEF Inv

(* The inductive invariant: types, the conversation and where the program  *)
(* is in it, what became of every call, and what is tracked.               *)
THEOREM Invariance == Spec => []Inv
<1>1. Init => Inv
  BY Initial
<1>2. Inv /\ [Next]_vars => Inv'
  BY Preserved
<1> QED
  BY <1>1, <1>2, PTL DEF Spec

(* Types, and that a session is over exactly if the program is (the loop   *)
(* and the deferred calls of companion.go).                                *)
THEOREM TypeCorrect == Spec => []TypeOK
<1>1. Inv => TypeOK
  BY DEF Inv
<1> QED
  BY <1>1, Invariance, PTL

(* Every answer in the history, and in any log that can be resumed, stands *)
(* after its question and is one the agent finished (companion.go:249-266, *)
(* session.go:195-218), for any number of questions, calls and sessions.   *)
THEOREM AnswersFollowTheorem == Spec => []AnswersFollow
<1>1. Inv => AnswersFollow
  BY DEF Inv, Conversation, Told, Talks, Answers, AnswersFollow, Files, LoadHistory
<1> QED
  BY <1>1, Invariance, PTL

(* The log of a session has what its history has of it, once and in the    *)
(* same order (companion.go:249-266).                                      *)
THEOREM LogKeepsHistoryTheorem == Spec => []LogKeepsHistory
<1>1. Inv => LogKeepsHistory
  BY DEF Inv, Conversation, Told, Keeps, LogKeepsHistory
<1> QED
  BY <1>1, Invariance, PTL

(* No tool runs unconfirmed, and the agent hears of each call what became  *)
(* of it, however often a request is repeated (companion.go:190).          *)
THEOREM ToolsConfirmedTheorem == Spec => []ToolsConfirmed
<1>1. Inv => ToolsConfirmed
  BY DEF Inv, CallsClear, HeardRight, Acts, ToolsConfirmed
<1> QED
  BY <1>1, Invariance, PTL

(* Every grant a session knows to have been made is named at its end       *)
(* (tools.go:72-88).                                                       *)
THEOREM GrantsWarnedTheorem == Spec => []GrantsWarned
<1>1. Inv => GrantsWarned
  BY DEF Inv, GrantsClear
<1> QED
  BY <1>1, Invariance, PTL
=============================================================================
