------------------------------ MODULE Companion ------------------------------
(***************************************************************************)
(* ops sre-companion and ops diagnose: a conversation with an agent on     *)
(* Cloud Run.  Each turn posts the history, reads a stream of events, and, *)
(* when the agent asks for a local tool, lets the user confirm it, runs it *)
(* and posts its result, until the agent is done.  A turn may be           *)
(* interrupted at any time, and the session has a deadline that does not   *)
(* end it but every turn after it.                                         *)
(*                                                                         *)
(* The history lives in memory; a session log, one line for each event,    *)
(* stays and can be resumed in a later session.  The agent, the proxy in   *)
(* front of it and the services behind the tools are external: a request   *)
(* answered by 502, 503 or 504 may have reached the agent, which calls     *)
(* tools and ends its replies as it likes, or never.                       *)
(***************************************************************************)
EXTENDS Naturals, Sequences, SequencesExt

CONSTANTS
    MaxDenials,      \* maxToolDenials
    MaxRetries,      \* maxRetries of a POST
    MaxQuestions,    \* bound: questions asked in all sessions
    MaxCalls,        \* bound: tool calls of the agent
    MaxSessions      \* bound: sessions

ASSUME DenialsAssumption == MaxDenials \in Nat \ {0}
ASSUME BoundsAssumption == {MaxRetries, MaxQuestions, MaxCalls, MaxSessions} \subseteq Nat

VARIABLES
    at,          \* what the program does next
    history,     \* the conversation as the agent is told
    log,         \* the session's log file
    past,        \* the log files of earlier sessions
    turn,        \* the turn in progress
    expired,     \* the context of the session is over
    grants,      \* grants that were asked for and answered, tracked, warned of
    session,     \* sessions and questions so far
    agent        \* what the agent heard, finished, and what was done for it

vars == <<at, history, log, past, turn, expired, grants, session, agent>>

Questions == 1 .. MaxQuestions
Calls == 1 .. MaxCalls
Messages == [role : {"user", "assistant"}, q : Questions, full : BOOLEAN]
Question(q) == [role |-> "user", q |-> q, full |-> TRUE]
Reply(q) == [role |-> "assistant", q |-> q, full |-> TRUE]

(* The log only names an incident.                                         *)
Logged(kind, q) == [Question(q) EXCEPT !.full = kind # "pd"]

(* Lines that are no messages have no influence on a resume.  After a      *)
(* write that failed in the middle of a line the encoder writes no more.   *)
Logs == [lines : Seq(Messages), state : {"none", "open", "torn"}]
NewLog == [lines |-> <<>>, state |-> "open"]

TurnPlaces == {"send", "backoff", "stream", "confirm", "execute", "await"}
Places == TurnPlaces \cup {"start", "prompt", "hung", "end"}

Outcomes == {"none", "denied", "failed", "done"}
Turns == [kind : {"none", "ask", "pd", "diagnose"}, q : 0 .. MaxQuestions, cancelled : BOOLEAN,
          text : BOOLEAN, attempt : 0 .. MaxRetries, denials : 0 .. MaxDenials - 1,
          call : 0 .. MaxCalls, outcome : Outcomes]
(* What a turn keeps of its own is gone with it.                           *)
NewTurn(kind, q) ==
    [kind |-> kind, q |-> q, cancelled |-> FALSE, text |-> FALSE, attempt |-> 0,
     denials |-> 0, call |-> 0, outcome |-> "none"]
NoTurn == NewTurn("none", 0)

TypeOK ==
    /\ at \in Places
    /\ history \in Seq(Messages)
    /\ log \in Logs
    /\ \A f \in past : f \in Logs /\ f.state # "none"
    /\ turn \in Turns
    /\ expired \in BOOLEAN
    /\ grants \in [known : SUBSET Calls, tracked : SUBSET Calls, warned : SUBSET Calls]
    /\ session \in [kind : {"companion", "diagnose"}, n : 0 .. MaxSessions,
                    first : 0 .. MaxQuestions + 1, asked : 0 .. MaxQuestions,
                    ended : {"no", "well", "badly", "killed"}]
    /\ agent \in [calls : 0 .. MaxCalls, heard : SUBSET [call : Calls, outcome : Outcomes],
                  finished : SUBSET Questions, confirmed : SUBSET Calls,
                  executed : SUBSET Calls]
    /\ at \in TurnPlaces => turn.q > 0
    /\ at \in {"confirm", "execute", "await"} => turn.call > 0
    /\ at = "end" <=> session.ended # "no"

Ended == turn.cancelled \/ expired
IsLast(m) == history # <<>> /\ Last(history) = m

-----------------------------------------------------------------------------
(* Log: a nil logger, a torn file, or the line is written, or torn.        *)
Log(lines) ==
    IF log.state = "open"
    THEN \/ log' = [log EXCEPT !.lines = @ \o lines]
         \/ log' = [log EXCEPT !.state = "torn"]
    ELSE UNCHANGED log

(* LoadHistory, and lastUserInput of every file that ListSessions lists: a *)
(* torn line makes the decoder return its error for ever.                  *)
LoadHistory(f) == f.lines
lastUserInput(f) == \E i \in DOMAIN f.lines : f.lines[i].role = "user"
Files == past \cup {f \in {log} : f.state # "none"}

-----------------------------------------------------------------------------
Init ==
    /\ at = "end"
    /\ history = <<>>
    /\ log = [lines |-> <<>>, state |-> "none"]
    /\ past = {}
    /\ turn = NoTurn
    /\ expired = FALSE
    /\ grants = [known |-> {}, tracked |-> {}, warned |-> {}]
    /\ session = [kind |-> "companion", n |-> 0, first |-> 0, asked |-> 0, ended |-> "well"]
    /\ agent = [calls |-> 0, heard |-> {}, finished |-> {}, confirmed |-> {}, executed |-> {}]

(* A new process.  Old files are removed, and a directory with them, at    *)
(* the same time as the new file is created, which may fail.               *)
NewSession ==
    /\ at = "end" /\ session.n < MaxSessions
    /\ at' = "start"
    /\ \E kind \in {"companion", "diagnose"} :
        /\ session' = [session EXCEPT !.kind = kind, !.n = @ + 1, !.first = session.asked + 1,
                                      !.ended = "no"]
        /\ log' \in {f \in {NewLog, [NewLog EXCEPT !.state = "none"]} :
                        kind = "diagnose" => f.state = "none"}
    /\ past' \in SUBSET Files
    /\ history' = <<>> /\ turn' = NoTurn /\ expired' = FALSE
    /\ grants' = [known |-> {}, tracked |-> {}, warned |-> {}]
    /\ UNCHANGED agent

(* The end: executor.Cleanup is deferred.                                  *)
End(how) ==
    /\ at' = "end"
    /\ session' = [session EXCEPT !.ended = how]
    /\ grants' = [grants EXCEPT !.warned = IF how = "killed" THEN @ ELSE grants.tracked]

(* The service is looked up, tools are only missed if they are not found.  *)
Discover ==
    /\ at = "start"
    /\ \/ End("badly") /\ UNCHANGED <<turn>>
       \/ session.kind = "companion" /\ at' = "prompt" /\ UNCHANGED <<session, grants, turn>>
       \/ /\ session.kind = "diagnose" /\ session.asked < MaxQuestions
          /\ at' = "send"
          /\ session' = [session EXCEPT !.asked = @ + 1]
          /\ turn' = NewTurn("diagnose", session.asked + 1)
          /\ UNCHANGED grants
    /\ UNCHANGED <<history, log, past, expired, agent>>

-----------------------------------------------------------------------------
(* The prompt: a question, an incident (if PagerDuty answers), a past      *)
(* session, the end.                                                       *)
StartTurn(kind) ==
    /\ at = "prompt" /\ session.asked < MaxQuestions
    /\ LET q == session.asked + 1 IN
        /\ session' = [session EXCEPT !.asked = q]
        /\ history' = Append(history, Question(q))
        /\ Log(<<Logged(kind, q)>>)
        /\ turn' = NewTurn(kind, q)
    /\ at' = "send"
    /\ UNCHANGED <<past, expired, grants, agent>>

Resume ==
    /\ at = "prompt"
    /\ IF \E f \in Files : f.state = "torn"
       THEN at' = "hung" /\ UNCHANGED history
       ELSE \E f \in Files :
               /\ lastUserInput(f)
               /\ history' = LoadHistory(f)
               /\ UNCHANGED at
    /\ UNCHANGED <<log, past, turn, expired, grants, session, agent>>

Quit ==
    /\ at = "prompt"
    /\ End("well")
    /\ history' = <<>> /\ expired' = FALSE
    /\ UNCHANGED <<log, past, turn, agent>>

-----------------------------------------------------------------------------
(* How a turn returns to the prompt, or a diagnosis to the shell.          *)

(* Mutant: the reply to an incident is not logged.                         *)
ReturnReplyUnlogged ==
    /\ IF turn.text /\ turn.kind # "diagnose"
       THEN /\ history' = Append(history, Reply(turn.q))
            /\ IF turn.kind = "ask" THEN Log(<<Reply(turn.q)>>) ELSE UNCHANGED log
       ELSE UNCHANGED <<history, log>>
    /\ turn' = NoTurn
    /\ IF turn.kind = "diagnose" THEN End("well")
       ELSE at' = "prompt" /\ UNCHANGED <<session, grants>>

ReturnReply ==
    /\ IF turn.text /\ turn.kind # "diagnose"
       THEN history' = Append(history, Reply(turn.q)) /\ Log(<<Reply(turn.q)>>)
       ELSE UNCHANGED <<history, log>>
    /\ turn' = NoTurn
    /\ IF turn.kind = "diagnose" THEN End("well")
       ELSE at' = "prompt" /\ UNCHANGED <<session, grants>>

(* Mutant: a turn that failed after some text keeps the text.              *)
ReturnErrorKeepsText(canceled) ==
    /\ history' = IF turn.kind = "diagnose" THEN history
                  ELSE IF turn.text THEN Append(Front(history), Reply(turn.q))
                  ELSE Front(history)
    /\ IF turn.kind = "ask" /\ ~canceled THEN Log(<<>>) ELSE UNCHANGED log
    /\ turn' = NoTurn
    /\ IF turn.kind = "diagnose" THEN End("badly")
       ELSE at' = "prompt" /\ UNCHANGED <<session, grants>>

(* An error takes the question out of the history, but not out of the log. *)
(* An interrupted incident stays in both.                                  *)
ReturnError(canceled) ==
    /\ history' = IF turn.kind = "diagnose" \/ (turn.kind = "pd" /\ canceled) THEN history
                  ELSE Front(history)
    /\ IF turn.kind = "ask" /\ ~canceled THEN Log(<<>>) ELSE UNCHANGED log
    /\ turn' = NoTurn
    /\ IF turn.kind = "diagnose" THEN End("badly")
       ELSE at' = "prompt" /\ UNCHANGED <<session, grants>>

(* ChatStream failed: as an interrupt if the context of the turn is over.  *)
StreamFails == ReturnError(turn.kind # "diagnose" /\ Ended)

-----------------------------------------------------------------------------
(* doWithRetry: one POST.  The agent hears what it has not heard if the    *)
(* request gets through to it.                                             *)
Hear ==
    \/ UNCHANGED agent
    \/ agent' = [agent EXCEPT !.heard = @ \cup
            {[call |-> c, outcome |-> turn.outcome] : c \in {turn.call} \ {0}}]

Send ==
    /\ at = "send" /\ ~Ended
    /\ Hear
    /\ \/ /\ turn.attempt < MaxRetries
          /\ turn' = [turn EXCEPT !.attempt = @ + 1]
          /\ at' = "backoff"
          /\ UNCHANGED <<history, log, session, grants>>
       \/ StreamFails
    /\ UNCHANGED <<past, expired>>

SendAnswered ==
    /\ at = "send" /\ ~Ended
    /\ agent' = [agent EXCEPT !.heard = @ \cup
            {[call |-> c, outcome |-> turn.outcome] : c \in {turn.call} \ {0}}]
    /\ turn' = [turn EXCEPT !.attempt = 0, !.call = 0, !.outcome = "none"]
    /\ at' = "stream"
    /\ UNCHANGED <<history, log, past, expired, grants, session>>

Backoff ==
    /\ at = "backoff" /\ ~Ended
    /\ at' = "send"
    /\ UNCHANGED <<history, log, past, turn, expired, grants, session, agent>>

(* The context is over: of a request, the wait for the next one, or the    *)
(* stream, at the latest when it is read next.                             *)
Abandon ==
    /\ at \in {"send", "backoff", "stream"} /\ Ended
    /\ StreamFails
    /\ UNCHANGED <<past, expired, agent>>

-----------------------------------------------------------------------------
(* Events of the stream.                                                   *)
Text ==
    /\ at = "stream" /\ turn.kind # "diagnose"
    /\ turn' = [turn EXCEPT !.text = TRUE]
    /\ UNCHANGED <<at, history, log, past, expired, grants, session, agent>>

Done ==
    /\ at = "stream"
    /\ agent' = [agent EXCEPT !.finished = @ \cup {turn.q}]
    /\ \/ ReturnReply
       \/ turn.kind = "diagnose" /\ ReturnError(FALSE)    \* its result is an error
    /\ UNCHANGED <<past, expired>>

(* The agent reports an error, or the stream ends without its last event.  *)
Broken ==
    /\ at = "stream"
    /\ StreamFails
    /\ UNCHANGED <<past, expired, agent>>

(* A call of a local tool; a diagnosis only shows it.                      *)
ToolCall ==
    /\ at = "stream" /\ turn.kind # "diagnose" /\ agent.calls < MaxCalls
    /\ agent' = [agent EXCEPT !.calls = @ + 1]
    /\ turn' = [turn EXCEPT !.call = agent.calls + 1]
    /\ Log(<<>>)
    /\ at' = "confirm"
    /\ UNCHANGED <<history, past, expired, grants, session>>

-----------------------------------------------------------------------------
(* The user answers, or interrupts the prompt, which is a denial.          *)
Approve ==
    /\ at = "confirm"
    /\ agent' = [agent EXCEPT !.confirmed = @ \cup {turn.call}]
    /\ turn' = [turn EXCEPT !.denials = 0]
    /\ at' = "execute"
    /\ UNCHANGED <<history, log, past, expired, grants, session>>

(* Mutant: without an answer the tool is run.                              *)
DenyNotInterrupt ==
    /\ at = "confirm"
    /\ \/ /\ turn.denials + 1 < MaxDenials
          /\ turn' = [turn EXCEPT !.denials = @ + 1, !.outcome = "denied"]
          /\ Log(<<>>)
          /\ at' = "send"
       \/ at' = "execute" /\ turn' = [turn EXCEPT !.denials = 0] /\ UNCHANGED log
    /\ UNCHANGED <<history, past, expired, grants, session, agent>>

(* Mutant: the denials are compared before they are counted.               *)
DenyCountsLate ==
    /\ at = "confirm"
    /\ IF turn.denials < MaxDenials
       THEN /\ turn' = [turn EXCEPT !.denials = @ + 1, !.outcome = "denied"]
            /\ Log(<<>>)
            /\ at' = "send"
            /\ UNCHANGED <<history, session, grants>>
       ELSE ReturnError(FALSE)
    /\ UNCHANGED <<past, expired, agent>>

Deny ==
    /\ at = "confirm"
    /\ IF turn.denials + 1 < MaxDenials
       THEN /\ turn' = [turn EXCEPT !.denials = @ + 1, !.outcome = "denied"]
            /\ Log(<<>>)
            /\ at' = "send"
            /\ UNCHANGED <<history, session, grants>>
       ELSE ReturnError(FALSE)
    /\ UNCHANGED <<past, expired, agent>>

Result(outcome) ==
    /\ turn' = [turn EXCEPT !.outcome = outcome]
    /\ Log(<<>>)
    /\ at' = "send"

(* The call of the tool: refused or failed before anything was done, with  *)
(* an unknown effect, or done.  It runs under the context of the session,  *)
(* which an interrupt of the turn does not end.                            *)
Execute ==
    /\ at = "execute"
    /\ agent' = [agent EXCEPT !.executed = @ \cup {turn.call}]
    /\ \E outcome \in {"failed", "done"} : Result(outcome)
    /\ UNCHANGED <<history, past, expired, grants, session>>

(* Mutant: a grant is tracked when its wait is over.                       *)
CreateGrantUntracked ==
    /\ at = "execute"
    /\ agent' = [agent EXCEPT !.executed = @ \cup {turn.call}]
    /\ grants' = [grants EXCEPT !.known = @ \cup {turn.call}]
    /\ at' = "await"
    /\ UNCHANGED <<history, log, past, turn, expired, session>>

(* pamGrantAndWait and wfRun, when they come to wait: the grant is tracked *)
(* before.                                                                 *)
CreateGrant ==
    /\ at = "execute"
    /\ agent' = [agent EXCEPT !.executed = @ \cup {turn.call}]
    /\ grants' = [grants EXCEPT !.known = @ \cup {turn.call}, !.tracked = @ \cup {turn.call}]
    /\ at' = "await"
    /\ UNCHANGED <<history, log, past, turn, expired, session>>

StartWorkflow ==
    /\ at = "execute"
    /\ agent' = [agent EXCEPT !.executed = @ \cup {turn.call}]
    /\ at' = "await"
    /\ UNCHANGED <<history, log, past, turn, expired, grants, session>>

Awaited ==
    /\ at = "await"
    /\ \E outcome \in {"failed", "done"} : Result(outcome)
    /\ UNCHANGED <<history, past, expired, grants, session, agent>>

(* Mutant: the tool has a context of its own.                              *)
AwaitDetached == FALSE

AwaitEnds ==
    /\ at = "await" /\ expired
    /\ Result("failed")
    /\ UNCHANGED <<history, past, expired, grants, session, agent>>

-----------------------------------------------------------------------------
(* Ctrl-C while a turn neither prompts nor belongs to a diagnosis.         *)
Interrupt ==
    /\ at \in TurnPlaces \ {"confirm"} /\ turn.kind # "diagnose"
    /\ turn' = [turn EXCEPT !.cancelled = TRUE]
    /\ UNCHANGED <<at, history, log, past, expired, grants, session, agent>>

Expire ==
    /\ at # "end" /\ ~expired
    /\ expired' = TRUE
    /\ UNCHANGED <<at, history, log, past, turn, grants, session, agent>>

Killed ==
    /\ at # "end"
    /\ End("killed")
    /\ history' = <<>> /\ turn' = NoTurn /\ expired' = FALSE
    /\ UNCHANGED <<log, past, agent>>

-----------------------------------------------------------------------------
(* What the program does by itself, and the answers of the user.           *)
Proceeds ==
    Backoff \/ Abandon \/ Approve \/ Deny \/ Execute \/ CreateGrant \/ StartWorkflow \/ AwaitEnds

Next ==
    \/ NewSession \/ Discover \/ StartTurn("ask") \/ StartTurn("pd") \/ Resume \/ Quit
    \/ Send \/ SendAnswered \/ Text \/ Done \/ Broken \/ ToolCall \/ Awaited
    \/ Proceeds \/ Interrupt \/ Expire \/ Killed

Spec == Init /\ [][Next]_vars

(* The program runs, the user answers a prompt he gave rise to, and the    *)
(* deadline passes.  The agent and the services may stay silent for ever.  *)
FairSpec == Spec /\ WF_vars(Proceeds) /\ WF_vars(Expire)

-----------------------------------------------------------------------------
(* An answer stands right after the question it answers, in the history    *)
(* and in what any log would give back, whatever was interrupted, failed   *)
(* or resumed in between (companion.go:249-266, session.go:195-218); and   *)
(* it is one that the agent finished: a stream that was cut off never      *)
(* passes for an answer, nor for a diagnosis (client.go:432-445).          *)
Paired(h) == \A i \in DOMAIN h :
    h[i].role = "assistant" => i > 1 /\ h[i - 1].role = "user" /\ h[i - 1].q = h[i].q

AnswersFollow ==
    /\ Paired(history) /\ \A f \in Files : Paired(LoadHistory(f))
    /\ \A i \in DOMAIN history : history[i].role = "assistant" => history[i].q \in agent.finished
    /\ session.ended = "well" /\ session.kind = "diagnose" => session.asked \in agent.finished

(* What this session has in its history is in its log once, in the same    *)
(* order, so a resume gives it back, an incident by its name; the log may  *)
(* have more.                                                              *)
SameMessage(m, n) == m.role = n.role /\ m.q = n.q

LogKeepsHistory ==
    LET own == {i \in DOMAIN history : history[i].q >= session.first}
        lines == log.lines IN
    log.state = "open" =>
        /\ \A i \in own : \E k \in DOMAIN lines : SameMessage(history[i], lines[k])
        /\ \A i, j \in own, k, l \in DOMAIN lines :
              SameMessage(history[i], lines[k]) /\ SameMessage(history[j], lines[l])
                  => (i < j <=> k < l)

(* No tool runs that the user did not confirm, and what the agent hears of *)
(* a call is what became of it, also when a request is repeated or a turn  *)
(* interrupted in between (companion.go:190: "Local tool executions always *)
(* require your confirmation").                                            *)
ToolsConfirmed ==
    /\ agent.executed \subseteq agent.confirmed
    /\ \A h \in agent.heard : h.outcome \in {"failed", "done"} <=> h.call \in agent.executed

(* A session that ends, other than by a kill, has named every grant it     *)
(* knows to have been made (tools.go:72-88).                               *)
GrantsWarned == session.ended \in {"well", "badly"} => grants.known \subseteq grants.warned

(* Every turn ends, whatever the agent and the services do or fail to do.  *)
TurnsEnd == at \in TurnPlaces ~> at \notin TurnPlaces
=============================================================================
