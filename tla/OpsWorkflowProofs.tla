-------------------------- MODULE OpsWorkflowProofs --------------------------
(* Theorems about OpsWorkflow: a command is always at a step of its kind,  *)
(* and nothing gets past the gate.                                         *)
EXTENDS OpsWorkflow, TLAPS

(* Command c, whatever it is, may be at p: which kinds take which steps,   *)
(* and what they must have got before.                                     *)
Fits(c, p) ==
    /\ p \in {"idle"} \cup Places \cup Ends
    /\ p \in {"gate", "search", "prompt", "start"} => Kind(c) \in Gated
    /\ p \in {"ask", "awaitGrant"} => Kind(c) \in Gated \cup {"request"}
    /\ p = "discover" => Kind(c) \in Gated \cup AboutGrant \cup {"request"}
    /\ p = "await" => Kind(c) \in Gated \cup AboutExecution
    /\ p \in {"look", "list", "trigger"} => Kind(c) \in AboutExecution
    /\ p \in OnGrant => Kind(c) \in AboutGrant
    /\ p = "revoking" => Kind(c) = "revoke"
    /\ p = "awaitGrant" => via[c] \in Grants

(* What a command is about is of the sort that its kind needs.             *)
Sorted(c) ==
    /\ Kind(c) \in Gated \cup AboutExecution => subject[c] \in Commands
    /\ Kind(c) \in AboutGrant => subject[c] \in Grants

TypeInv == TypeOK /\ \A c \in Commands : Sorted(c) /\ Fits(c, at[c])

-----------------------------------------------------------------------------
(* Every step keeps the types.                                             *)

(* A command that only goes on to a step that fits it.                     *)
LEMMA Moves ==
  ASSUME TypeInv, NEW c \in Commands, NEW p, Fits(c, p), Goto(c, p),
         UNCHANGED <<services, given, noted, late>>
  PROVE  TypeInv'
  BY DEF TypeInv, TypeOK, Goto, Fits, Sorted, Kind, services, executions,
         given, noted, OnExecution, OnGrant, Gated, AboutExecution, AboutGrant,
         Readers, Mutators

(* Every command may end.                                                  *)
LEMMA EndsFit == ASSUME NEW c, NEW p \in Ends PROVE Fits(c, p)
  BY DEF Fits, Ends, OnGrant

LEMMA EndStaysFit == ASSUME NEW c, NEW p \in Ends PROVE Fits(c, p)'
  BY DEF Fits, Ends, OnGrant

(* Every handler's judgement is an end.                                    *)
LEMMA JudgeEnds == ASSUME NEW c, NEW x PROVE Judge(c, x) \in Ends
  BY DEF Judge, JudgeGet, JudgeDescribe, JudgeEtcd, JudgeRun, JudgeLogs, JudgeDelete,
         JudgeRolloutRestart, JudgeExpandVolume, ErrorIf, Ends

(* Parsing puts a command at a first step that fits it.                    *)
LEMMA StartKeepsTypes ==
  ASSUME TypeInv, NEW c \in Commands, Start(c) PROVE TypeInv'
<1> USE LinesAssumption
<1>1. PICK l \in CommandLines, x \in Commands \cup Grants \cup {"none"} :
          /\ Parsed(c, l, x)
          /\ l.kind \in Gated \cup AboutExecution => x \in Commands
          /\ l.kind \in AboutGrant => x \in Grants
          /\ l.kind \in Kinds
  BY NamesAssumption
     DEF Start, Lines, Gated, Readers, Mutators, AboutExecution, AboutGrant, Kinds
<1>2. l \in Lines
  OBVIOUS
<1>3. FirstPlace(l) \in {"gate", "look", "await", "discover", "unknown flag"}
      /\ (FirstPlace(l) = "gate" => l.kind \in Gated)
      /\ (FirstPlace(l) \in {"look", "await"} => l.kind \in AboutExecution)
      /\ (FirstPlace(l) = "discover" => l.kind \in Gated \cup AboutGrant \cup {"request"})
  BY <1>1, <1>2, FlagAssumption DEF FirstPlace, Lines, Kinds, AboutExecution
<1>4. UNCHANGED <<services, noted, late>>
  BY DEF Start
<1>5. TypeOK'
  BY <1>1, <1>3, <1>4
     DEF TypeInv, TypeOK, Parsed, Goto, services, executions, noted, Places, Ends,
         OnExecution, OnGrant, AboutExecution, Gated, Readers, Mutators
<1>6. Sorted(c)' /\ Fits(c, at[c])'
  <2>1. Kind(c)' = l.kind /\ subject'[c] = x /\ at'[c] = FirstPlace(l)
    BY <1>1 DEF TypeInv, TypeOK, Parsed, Goto, Kind
  <2>2. Sorted(c)'
    BY <1>1, <2>1 DEF Sorted
  <2>3. Fits(c, at[c])'
    BY <1>3, <2>1 DEF Fits, Places, Ends, OnGrant, OnExecution
  <2> QED
    BY <2>2, <2>3
<1>7. ASSUME NEW d \in Commands, d # c PROVE Sorted(d)' /\ Fits(d, at[d])'
  BY <1>1, <1>4, <1>7
     DEF TypeInv, TypeOK, Parsed, Goto, Sorted, Fits, Kind, noted
<1> QED
  BY <1>5, <1>6, <1>7 DEF TypeInv

(* A command that goes on to a step that fits what it now knows.           *)
ServicesOK ==
    /\ gated \in BOOLEAN
    /\ state \in [Commands -> {"none"} \cup Running \cup Terminal]
    /\ status \in [Commands -> Statuses]
    /\ made \in [Commands -> 0 .. MaxCallbacks]
    /\ pending \in [Commands -> SUBSET Callbacks]
    /\ grant \in [Grants -> GrantStates]

NotesOK ==
    /\ via \in [Commands -> Grants \cup {"none"}]
    /\ labels \in [Commands -> BOOLEAN]
    /\ callback \in [Commands -> 0 .. MaxCallbacks]
    /\ late \in [Commands -> BOOLEAN]

LEMMA GoesOn ==
  ASSUME TypeInv, NEW c \in Commands, NEW p, Goto(c, p), Fits(c, p)',
         UNCHANGED given, ServicesOK', NotesOK',
         \A d \in Commands \ {c} : via'[d] = via[d]
  PROVE  TypeInv'
<1>1. at' \in [Commands -> {"idle"} \cup Places \cup Ends] /\ at'[c] = p
      /\ \A d \in Commands \ {c} : at'[d] = at[d]
  BY DEF TypeInv, TypeOK, Goto, Fits
<1>2. \A d \in Commands : Sorted(d)' /\ Fits(d, at[d])'
  BY <1>1 DEF TypeInv, Sorted, Fits, Kind, given
<1>3. \A d \in Commands : /\ at'[d] \in OnExecution => subject'[d] \in Commands
                          /\ at'[d] \in OnGrant => subject'[d] \in Grants
                          /\ at'[d] = "awaitGrant" => via'[d] \in Grants
  BY <1>2 DEF Sorted, Fits, OnExecution
<1> QED
  BY <1>1, <1>2, <1>3 DEF TypeInv, TypeOK, ServicesOK, NotesOK, given

(* The steps that only read, or wait, or end the command.                  *)
LEMMA QuietStepsKeepTypes ==
  ASSUME TypeInv, NEW c \in Commands,
         \/ LabelsUnreadable(c) \/ Discover(c) \/ Answer(c) \/ AwaitGrant(c)
         \/ AwaitExecution(c) \/ Look(c) \/ Revoked(c) \/ GrantStatus(c)
         \/ CallFails(c) \/ ContextEnds(c) \/ Killed(c)
  PROVE  TypeInv'
<1> SUFFICES \E p : /\ Fits(c, p) /\ Goto(c, p)
                    /\ UNCHANGED <<services, given, noted, late>>
  BY Moves
<1>1. Fits(c, at[c]) /\ at[c] \in {"idle"} \cup Places \cup Ends
  BY DEF TypeInv, TypeOK
<1>2. CASE LabelsUnreadable(c)
  BY <1>1, <1>2 DEF LabelsUnreadable, Fits, Places, OnGrant
<1>3. CASE Discover(c)
  BY <1>1, <1>3 DEF Discover, Calls, Fits, Places, OnGrant
<1>4. CASE Answer(c)
  <2>1. Fits(c, "ask") /\ Fits(c, "error")
    BY <1>1, <1>4 DEF Answer, Fits, Places, Ends, OnGrant
  <2> QED
    BY <1>4, <2>1 DEF Answer
<1>5. CASE AwaitGrant(c)
  <2>1. AfterGrant(c, grant[via[c]]) \in {"ok", "error", "start"}
        /\ (AfterGrant(c, grant[via[c]]) = "start" => Kind(c) \in Gated)
    BY <1>1, <1>5 DEF AwaitGrant, Calls, AfterGrant, Fits
  <2>2. Fits(c, AfterGrant(c, grant[via[c]]))
    BY <2>1 DEF Fits, Places, Ends, OnGrant
  <2> QED
    BY <1>5, <2>2 DEF AwaitGrant
<1>6. CASE AwaitExecution(c)
  <2>1. Judge(c, subject[c]) \in Ends
    BY JudgeEnds
  <2> QED
    BY <1>6, <2>1, EndsFit DEF AwaitExecution
<1>7. CASE Look(c)
  <2> DEFINE p == IF Kind(c) = "status" THEN "ok"
                  ELSE IF state[subject[c]] = "ACTIVE" THEN "list" ELSE "error"
  <2>1. Fits(c, p)
    BY <1>1, <1>7 DEF Look, Calls, Fits, Places, Ends, OnGrant, OnExecution
  <2> QED
    BY <1>7, <2>1 DEF Look
<1>8. CASE Revoked(c) \/ GrantStatus(c)
  BY <1>8, EndsFit DEF Revoked, GrantStatus, Ends
<1>9. CASE CallFails(c) \/ ContextEnds(c) \/ Killed(c)
  BY <1>9, EndsFit DEF CallFails, ContextEnds, Killed, Ends
<1> QED
  BY <1>2, <1>3, <1>4, <1>5, <1>6, <1>7, <1>8, <1>9

(* The steps that note something down, and those that change a service.    *)
LEMMA CommandStepsKeepTypes ==
  ASSUME TypeInv, NEW c \in Commands,
         \/ ReadLabels(c) \/ SearchGrants(c) \/ Ask(c) \/ AskLost(c)
         \/ Execute(c) \/ ExecuteLost(c) \/ ListCallbacks(c)
         \/ TriggerCallback(c) \/ Decide(c) \/ Expire(c)
  PROVE  TypeInv'
<1>1. ServicesOK /\ NotesOK /\ Fits(c, at[c])
  BY DEF TypeInv, TypeOK, ServicesOK, NotesOK
<1> USE DEF services, executions, given, noted
<1>2. CASE ReadLabels(c)
  <2>1. Fits(c, "discover")' /\ Fits(c, "start")'
    BY <1>1, <1>2 DEF ReadLabels, Calls, Fits, Places, OnGrant, Kind
  <2>2. ServicesOK' /\ NotesOK'
    BY <1>1, <1>2 DEF ReadLabels, ServicesOK, NotesOK
  <2> QED
    BY <1>2, <2>1, <2>2, GoesOn DEF ReadLabels
<1>3. CASE SearchGrants(c)
  <2>1. Fits(c, "start")' /\ Fits(c, "prompt")' /\ Fits(c, "no reason")'
    BY <1>1, <1>3 DEF SearchGrants, Calls, Fits, Places, Ends, OnGrant, Kind
  <2>2. ServicesOK' /\ NotesOK' /\ \A d \in Commands \ {c} : via'[d] = via[d]
    BY <1>1, <1>3 DEF SearchGrants, ServicesOK, NotesOK
  <2> QED
    BY <1>3, <2>1, <2>2, GoesOn DEF SearchGrants
<1>4. CASE Ask(c)
  <2>1. PICK g \in Grants, s \in GrantStates :
           /\ CreatedAs(g, s)
           /\ via' = [via EXCEPT ![c] = g]
           /\ Goto(c, IF s = "APPROVAL_AWAITED" /\ (Kind(c) = "request" => line[c].wait)
                      THEN "awaitGrant" ELSE AfterGrant(c, s))
    BY <1>4 DEF Ask
  <2>2. UNCHANGED <<gated, executions, given, labels, callback, late>>
        /\ Kind(c) \in Gated \cup {"request"}
    BY <1>1, <1>4 DEF Ask, Calls, Fits
  <2>3. ServicesOK' /\ NotesOK' /\ via'[c] \in Grants
        /\ \A d \in Commands \ {c} : via'[d] = via[d]
    BY <1>1, <2>1, <2>2 DEF CreatedAs, ServicesOK, NotesOK
  <2>4. PICK p \in {"awaitGrant", "ok", "error", "start"} :
           Goto(c, p) /\ (p = "start" => Kind(c) \in Gated)
    BY <2>1, <2>2 DEF AfterGrant
  <2>5. Fits(c, p)'
    BY <2>2, <2>3, <2>4 DEF Fits, Places, Ends, OnGrant, OnExecution, Kind
  <2> QED
    BY <2>2, <2>3, <2>4, <2>5, GoesOn
<1>5. CASE AskLost(c)
  <2>1. ServicesOK' /\ NotesOK'
    BY <1>1, <1>5 DEF AskLost, CreatedAs, ServicesOK, NotesOK
  <2> QED
    BY <1>5, <2>1, EndStaysFit, GoesOn DEF AskLost, Ends
<1>6. CASE Execute(c) \/ ExecuteLost(c)
  <2>1. ServicesOK' /\ NotesOK'
    BY <1>1, <1>6 DEF Execute, ExecuteLost, Created, ServicesOK, NotesOK
  <2>2. Fits(c, "ok")' /\ Fits(c, "await")' /\ Fits(c, "error")'
    BY <1>1, <1>6
       DEF Execute, ExecuteLost, Calls, Fits, Places, OnExecution, OnGrant, Ends, Kind
  <2> QED
    BY <1>6, <2>1, <2>2, GoesOn DEF Execute, ExecuteLost
<1>7. CASE ListCallbacks(c)
  <2>1. Fits(c, "trigger")' /\ Fits(c, "error")'
    BY <1>1, <1>7 DEF ListCallbacks, Calls, Fits, Places, OnExecution, OnGrant, Ends, Kind
  <2>2. Calls(c, "list") /\ subject[c] \in Commands
    BY <1>7 DEF ListCallbacks, Calls, TypeInv, TypeOK, OnExecution
  <2>3. ServicesOK' /\ NotesOK'
    BY <1>1, <1>7, <2>2, CallbacksAssumption
       DEF ListCallbacks, ServicesOK, NotesOK, Callbacks
  <2> QED
    BY <1>7, <2>1, <2>3, GoesOn DEF ListCallbacks
<1>8. CASE TriggerCallback(c)
  <2>1. Fits(c, "await")' /\ Fits(c, "ok")' /\ Fits(c, "error")'
    BY <1>1, <1>8
       DEF TriggerCallback, Calls, Fits, Places, OnExecution, OnGrant, Ends, Kind
  <2>2. ServicesOK' /\ NotesOK'
    BY <1>1, <1>8 DEF TriggerCallback, Consumed, ServicesOK, NotesOK
  <2> QED
    BY <1>8, <2>1, <2>2, GoesOn DEF TriggerCallback, Resumed
<1>9. CASE Decide(c)
  <2>1. PICK k \in {"approve", "deny", "revoke"} :
           /\ Kind(c) = k
           /\ IF grant[subject[c]] = Decision[k].from
              THEN /\ grant' = [grant EXCEPT ![subject[c]] = Decision[k].to]
                   /\ Goto(c, Decision[k].then) \/ Goto(c, "error")
              ELSE Goto(c, "error") /\ UNCHANGED grant
    BY <1>9 DEF Decide
  <2>2. Decision[k].to \in GrantStates /\ Decision[k].then \in {"ok", "revoking"}
        /\ (Decision[k].then = "revoking" => k = "revoke")
    BY DEF Decision, GrantStates
  <2>3. ServicesOK' /\ NotesOK'
    BY <1>1, <1>9, <2>1, <2>2 DEF Decide, ServicesOK, NotesOK
  <2>4. UNCHANGED given /\ \A d \in Commands \ {c} : via'[d] = via[d]
    BY <1>9 DEF Decide
  <2>5. PICK p \in {"ok", "revoking", "error"} :
           Goto(c, p) /\ (p = "revoking" => Kind(c) = "revoke")
    BY <2>1, <2>2
  <2>6. Fits(c, p)'
    BY <2>1, <2>4, <2>5 DEF Fits, Places, OnGrant, Ends, Kind, AboutGrant
  <2> QED
    BY <2>3, <2>4, <2>5, <2>6, GoesOn
<1>10. CASE Expire(c)
  BY <1>10 DEF Expire, TypeInv, TypeOK, Sorted, Fits, Kind
<1> QED
  BY <1>2, <1>3, <1>4, <1>5, <1>6, <1>7, <1>8, <1>9, <1>10

(* The services' own steps.                                                *)
LEMMA ServiceStepsKeepTypes ==
  ASSUME TypeInv,
         \/ \E g \in Grants : GrantMoves(g)
         \/ \E x \in Commands : ExecutionStep(x)
  PROVE  TypeInv'
<1> USE DEF TypeInv, TypeOK, Fits, Sorted, Kind, services, executions,
            given, noted, commandVars
<1>1. ASSUME NEW g \in Grants, GrantMoves(g) PROVE TypeInv'
  BY <1>1 DEF GrantMoves
<1>2. ASSUME NEW x \in Commands, ExecutionRuns(x) PROVE TypeInv'
  BY <1>2 DEF ExecutionRuns, Running
<1>3. ASSUME NEW x \in Commands, ExecutionWaits(x) PROVE TypeInv'
  BY <1>3, CallbacksAssumption DEF ExecutionWaits, Callbacks
<1>4. ASSUME NEW x \in Commands, ExecutionEnds(x) PROVE TypeInv'
  BY <1>4 DEF ExecutionEnds, Terminal
<1> QED
  BY <1>1, <1>2, <1>3, <1>4 DEF ExecutionStep

-----------------------------------------------------------------------------
(* In every reachable state types, and a command at a step of its kind,    *)
(* about what commands of its kind are about.                              *)
THEOREM TypeInvariant == Spec => []TypeInv
<1>1. Init => TypeInv
  <2> SUFFICES ASSUME Init PROVE TypeInv
    OBVIOUS
  <2>1. TypeOK
    BY CallbacksAssumption
       DEF Init, TypeOK, Statuses, GrantStates, OnExecution, OnGrant
  <2>2. ASSUME NEW c \in Commands PROVE Sorted(c) /\ Fits(c, at[c])
    BY DEF Init, NoLine, Sorted, Fits, Kind, OnGrant, Gated, Readers, Mutators,
           AboutExecution, AboutGrant
  <2> QED
    BY <2>1, <2>2 DEF TypeInv
<1>2. TypeInv /\ [Next]_vars => TypeInv'
  <2> SUFFICES ASSUME TypeInv, [Next]_vars PROVE TypeInv'
    OBVIOUS
  <2>1. ASSUME NEW c \in Commands, CommandStep(c) PROVE TypeInv'
    BY <2>1, StartKeepsTypes, QuietStepsKeepTypes, CommandStepsKeepTypes
       DEF CommandStep, Proceeds
  <2>2. CASE UNCHANGED vars
    BY <2>2 DEF vars, services, executions, given, noted, TypeInv, TypeOK,
                Sorted, Fits, Kind
  <2> QED
    BY <2>1, <2>2, ServiceStepsKeepTypes DEF Next
<1> QED
  BY <1>1, <1>2, PTL DEF Spec

(* In every state of every run: each variable has its type, and a command  *)
(* is at a step of its kind.  It never polls an execution, or decides on a *)
(* grant, that it has not got.                                             *)
THEOREM TypeCorrect == Spec => []TypeOK
<1>1. TypeInv => TypeOK
  BY DEF TypeInv
<1> QED
  BY <1>1, TypeInvariant, PTL

(* A step of one command is no step of another.                            *)
LEMMA OthersStay ==
  ASSUME TypeInv, NEW c \in Commands, CommandStep(c), NEW d \in Commands, d # c
  PROVE  /\ at'[d] = at[d] /\ via'[d] = via[d] /\ labels'[d] = labels[d]
         /\ state'[d] = state[d] /\ UNCHANGED gated
         /\ Kind(d)' = Kind(d) /\ subject'[d] = subject[d]
         /\ callback'[d] = callback[d] /\ line'[d] = line[d]
<1> USE DEF TypeInv, TypeOK, services, executions, given, noted, Goto, Kind
<1>1. CASE Start(c) \/ ReadLabels(c) \/ LabelsUnreadable(c) \/ Discover(c)
  BY <1>1 DEF Start, Parsed, ReadLabels, LabelsUnreadable, Discover
<1>2. CASE SearchGrants(c) \/ Answer(c) \/ Ask(c) \/ AskLost(c) \/ AwaitGrant(c)
  BY <1>2 DEF SearchGrants, Answer, Ask, AskLost, AwaitGrant
<1>3. CASE Execute(c) \/ ExecuteLost(c) \/ AwaitExecution(c) \/ Look(c)
  BY <1>3 DEF Execute, ExecuteLost, Created, AwaitExecution, Look
<1>4. CASE ListCallbacks(c) \/ TriggerCallback(c)
  BY <1>4 DEF ListCallbacks, TriggerCallback, Resumed
<1>5. CASE Decide(c) \/ Revoked(c) \/ GrantStatus(c)
  BY <1>5 DEF Decide, Revoked, GrantStatus
<1>6. CASE CallFails(c) \/ Expire(c) \/ ContextEnds(c) \/ Killed(c)
  BY <1>6 DEF CallFails, Expire, ContextEnds, Killed
<1> QED
  BY <1>1, <1>2, <1>3, <1>4, <1>5, <1>6 DEF CommandStep, Proceeds

-----------------------------------------------------------------------------
(* The life of a grant.                                                    *)

(* Whoever moves a grant, once it is created it takes only the steps that  *)
(* the service knows.                                                      *)
GrantFollows ==
    \A g \in Grants : \/ grant'[g] = grant[g] \/ grant[g] = "none"
                      \/ <<grant[g], grant'[g]>> \in GrantSteps

LEMMA GrantLife == ASSUME TypeInv, [Next]_vars PROVE GrantFollows
<1> USE DEF GrantFollows, TypeInv, TypeOK, services
<1>1. ASSUME NEW c \in Commands, Ask(c) \/ AskLost(c) PROVE GrantFollows
  BY <1>1 DEF Ask, AskLost, CreatedAs
<1>2. ASSUME NEW c \in Commands, Decide(c) PROVE GrantFollows
  <2>1. PICK k \in {"approve", "deny", "revoke"} :
           \/ /\ grant[subject[c]] = Decision[k].from
              /\ grant' = [grant EXCEPT ![subject[c]] = Decision[k].to]
           \/ UNCHANGED grant
    BY <1>2 DEF Decide
  <2>2. <<Decision[k].from, Decision[k].to>> \in GrantSteps
    BY DEF Decision, GrantSteps
  <2> QED
    BY <2>1, <2>2
<1>3. ASSUME NEW g \in Grants, GrantMoves(g) PROVE GrantFollows
  BY <1>3 DEF GrantMoves
<1>4. CASE UNCHANGED grant
  BY <1>4
<1>5. ASSUME NEW c \in Commands, CommandStep(c) PROVE GrantFollows
  BY <1>1, <1>2, <1>4, <1>5
     DEF CommandStep, Proceeds, Start, ReadLabels, LabelsUnreadable, Discover,
         SearchGrants, Answer, AwaitGrant, Execute, ExecuteLost, Created,
         AwaitExecution, Look, ListCallbacks, TriggerCallback, Revoked,
         GrantStatus, CallFails, Expire, ContextEnds, Killed
<1>6. ASSUME NEW c \in Commands, ExecutionStep(c) PROVE GrantFollows
  BY <1>4, <1>6 DEF ExecutionStep, ExecutionRuns, ExecutionWaits, ExecutionEnds
<1>7. CASE UNCHANGED vars
  BY <1>4, <1>7 DEF vars
<1> QED
  BY <1>3, <1>5, <1>6, <1>7 DEF Next

(* A grant that was active is never again one that was not.                *)
StaysActivated ==
    \A g \in Grants : grant[g] \in Activated => grant'[g] \in Activated

LEMMA ActivatedForEver == ASSUME TypeInv, [Next]_vars PROVE StaysActivated
  BY GrantLife DEF GrantFollows, StaysActivated, GrantSteps, Activated

-----------------------------------------------------------------------------
(* Nothing gets past the gate.                                             *)

Held(c) == via[c] \in Grants /\ grant[via[c]] \in Activated

(* Labels and grant are settled before the execution is started, and a     *)
(* command starts no second one.                                           *)
Ordered(c) ==
    /\ state[c] # "none" => at[c] \in {"await"} \cup Ends
    /\ at[c] \in {"idle", "gate"} => ~labels[c]
    /\ gated /\ labels[c] /\ (at[c] = "start" \/ state[c] # "none") => Held(c)

GateInv == TypeInv /\ \A c \in Commands : Ordered(c)

(* A command that a step leaves where it is.                               *)
LEMMA Untouched ==
  ASSUME NEW d, Ordered(d), StaysActivated, UNCHANGED gated,
         at'[d] = at[d], via'[d] = via[d], labels'[d] = labels[d],
         state'[d] # "none" => state[d] # "none"
  PROVE  Ordered(d)'
  BY DEF Ordered, Held, StaysActivated

(* A command that ends.                                                    *)
LEMMA Ended ==
  ASSUME NEW c, Ordered(c), StaysActivated, UNCHANGED gated,
         at'[c] \in Ends, via'[c] = via[c], labels'[c] = labels[c],
         state'[c] # "none" => at[c] = "start" \/ state[c] # "none"
  PROVE  Ordered(c)'
  BY DEF Ordered, Held, StaysActivated, Ends

(* Its own steps: a command gets to the start of the workflow through a    *)
(* grant that is active, without having read the labels, or because they   *)
(* do not ask for one.                                                     *)
LEMMA OwnStepsKeepOrder ==
  ASSUME GateInv, StaysActivated, NEW c \in Commands, CommandStep(c)
  PROVE  Ordered(c)'
<1> USE DEF services, executions, noted, Goto
<1>1. TypeInv /\ Ordered(c)
      /\ at \in [Commands -> {"idle"} \cup Places \cup Ends]
      /\ state \in [Commands -> {"none"} \cup Running \cup Terminal]
      /\ via \in [Commands -> Grants \cup {"none"}]
      /\ labels \in [Commands -> BOOLEAN] /\ grant \in [Grants -> GrantStates]
  BY DEF GateInv, TypeInv, TypeOK
<1>2. CASE Start(c)
  <2>1. PICK l \in CommandLines : at'[c] = FirstPlace(l)
    BY <1>1, <1>2 DEF Start, Parsed
  <2>2. FirstPlace(l) \in {"unknown flag", "gate", "await", "look", "discover"}
    BY DEF FirstPlace
  <2>3. state'[c] = "none" /\ ~labels'[c]
    BY <1>1, <1>2 DEF Start, Ordered, Ends
  <2> QED
    BY <2>1, <2>2, <2>3 DEF Ordered
<1>3. CASE ReadLabels(c) \/ LabelsUnreadable(c) \/ Discover(c)
  <2>1. state'[c] = "none"
    BY <1>1, <1>3 DEF ReadLabels, LabelsUnreadable, Discover, Calls, Ordered, Ends
  <2>2. CASE ReadLabels(c)
    BY <1>1, <2>1, <2>2 DEF ReadLabels, Ordered
  <2>3. CASE LabelsUnreadable(c)
    BY <1>1, <2>1, <2>3 DEF LabelsUnreadable, Ordered
  <2>4. CASE Discover(c)
    BY <1>1, <2>1, <2>4 DEF Discover, Ordered
  <2> QED
    BY <1>3, <2>2, <2>3, <2>4
<1>4. CASE SearchGrants(c) \/ Answer(c)
  <2>1. state'[c] = "none"
    BY <1>1, <1>4 DEF SearchGrants, Answer, Calls, Ordered, Ends
  <2>2. CASE SearchGrants(c)
    BY <1>1, <2>1, <2>2 DEF SearchGrants, Ordered, Held, GrantUsable, Activated
  <2>3. CASE Answer(c)
    BY <1>1, <2>1, <2>3 DEF Answer, Ordered
  <2> QED
    BY <1>4, <2>2, <2>3
<1>5. CASE Ask(c) \/ AskLost(c) \/ AwaitGrant(c)
  <2>1. state'[c] = "none"
    BY <1>1, <1>5 DEF Ask, AskLost, AwaitGrant, Calls, Ordered, Ends
  <2>2. CASE Ask(c)
    <3>1. at'[c] \in {"awaitGrant", "ok", "error"}
      BY <1>1, <2>2 DEF Ask, CreatedAs, AfterGrant, GrantUsable
    <3> QED
      BY <2>1, <3>1 DEF Ordered
  <2>3. CASE AskLost(c)
    BY <1>1, <2>1, <2>3 DEF AskLost, Ordered
  <2>4. CASE AwaitGrant(c)
    <3>1. via[c] \in Grants
      BY <2>4 DEF AwaitGrant, Calls, GateInv, TypeInv, Fits
    <3>2. at'[c] \in {"ok", "error"} \/ (at'[c] = "start" /\ grant[via[c]] = "ACTIVE")
      BY <1>1, <2>4 DEF AwaitGrant, AfterGrant, GrantUsable
    <3>3. UNCHANGED <<grant, via>>
      BY <2>4 DEF AwaitGrant
    <3> QED
      BY <2>1, <3>1, <3>2, <3>3 DEF Ordered, Held, Activated
  <2> QED
    BY <1>5, <2>2, <2>3, <2>4
<1>6. CASE Execute(c) \/ ExecuteLost(c)
  <2>1. at[c] = "start" /\ UNCHANGED <<gated, via, labels>>
    BY <1>6 DEF Execute, ExecuteLost, Created, Calls
  <2>2. at'[c] = "await" \/ at'[c] \in Ends
    BY <1>1, <1>6 DEF Execute, ExecuteLost, Ends
  <2>3. gated /\ labels[c] => Held(c)'
    BY <1>1, <2>1 DEF Ordered, Held, StaysActivated
  <2> QED
    BY <2>1, <2>2, <2>3 DEF Ordered, Ends
<1>7. CASE Decide(c)
  <2>1. state'[c] = "none"
    BY <1>1, <1>7 DEF Decide, Calls, Ordered, Ends
  <2>2. at'[c] \in {"ok", "revoking", "error"}
    <3>1. \A k \in {"approve", "deny", "revoke"} : Decision[k].then \in {"ok", "revoking"}
      BY DEF Decision
    <3> QED
      BY <1>1, <1>7, <3>1 DEF Decide
  <2> QED
    BY <2>1, <2>2 DEF Ordered
<1>8. CASE \/ AwaitExecution(c) \/ Revoked(c) \/ GrantStatus(c)
           \/ CallFails(c) \/ ContextEnds(c) \/ Killed(c)
  <2>1. at'[c] \in Ends
    <3>1. CASE AwaitExecution(c)
      BY <1>1, <3>1, JudgeEnds DEF AwaitExecution
    <3>2. CASE Revoked(c) \/ GrantStatus(c)
      BY <1>1, <3>2 DEF Revoked, GrantStatus, Ends
    <3>3. CASE CallFails(c) \/ ContextEnds(c) \/ Killed(c)
      BY <1>1, <3>3 DEF CallFails, ContextEnds, Killed, Ends
    <3> QED
      BY <1>8, <3>1, <3>2, <3>3
  <2>2. UNCHANGED <<gated, state, via, labels>>
    BY <1>8 DEF AwaitExecution, Revoked, GrantStatus, CallFails, ContextEnds, Killed
  <2> QED
    BY <1>1, <2>1, <2>2, Ended
<1>9. CASE Look(c) \/ ListCallbacks(c) \/ TriggerCallback(c)
  <2>1. state'[c] = "none"
    BY <1>1, <1>9 DEF Look, ListCallbacks, TriggerCallback, Calls, Ordered, Ends
  <2>2. at'[c] \in {"list", "trigger", "await"} \cup Ends
    BY <1>1, <1>9 DEF Look, ListCallbacks, TriggerCallback, Resumed, Ends
  <2> QED
    BY <2>1, <2>2 DEF Ordered, Ends
<1>10. CASE Expire(c)
  BY <1>1, <1>10, Untouched DEF Expire
<1> QED
  BY <1>2, <1>3, <1>4, <1>5, <1>6, <1>7, <1>8, <1>9, <1>10
     DEF CommandStep, Proceeds

LEMMA ServicesKeepOrder ==
  ASSUME GateInv, StaysActivated, NEW d \in Commands,
         \/ \E g \in Grants : GrantMoves(g)
         \/ \E x \in Commands : ExecutionStep(x)
         \/ UNCHANGED vars
  PROVE  Ordered(d)'
<1>1. UNCHANGED <<gated, at, via, labels>>
  BY DEF GrantMoves, ExecutionStep, ExecutionRuns, ExecutionWaits, ExecutionEnds,
         vars, services, commandVars, noted
<1>2. state'[d] # "none" => state[d] # "none"
  BY DEF GateInv, TypeInv, TypeOK, Running, GrantMoves, executions, ExecutionStep,
         ExecutionRuns, ExecutionWaits, ExecutionEnds, vars, services
<1> QED
  BY <1>1, <1>2, Untouched DEF GateInv

(* In every reachable state labels and grant are settled before the        *)
(* execution is started, and no command starts a second one.               *)
THEOREM GateInvariant == Spec => []GateInv
<1>1. Init => \A c \in Commands : Ordered(c)
  BY DEF Init, Ordered
<1>2. TypeInv /\ (\A c \in Commands : Ordered(c)) /\ [Next]_vars
        => (\A c \in Commands : Ordered(c))'
  <2> SUFFICES ASSUME GateInv, [Next]_vars, NEW d \in Commands PROVE Ordered(d)'
    BY DEF GateInv
  <2>1. StaysActivated
    BY ActivatedForEver DEF GateInv
  <2>2. ASSUME NEW c \in Commands, CommandStep(c) PROVE Ordered(d)'
    BY <2>1, <2>2, OthersStay, Untouched, OwnStepsKeepOrder DEF GateInv
  <2> QED
    BY <2>1, <2>2, ServicesKeepOrder DEF Next
<1>3. TypeInv /\ (\A c \in Commands : Ordered(c)) => GateInv
  BY DEF GateInv
<1> QED
  BY <1>1, <1>2, <1>3, TypeInvariant, PTL DEF Spec

(* For any number of commands and grants, whatever the command lines: an   *)
(* execution of a gated workflow whose labels the command could read was   *)
(* started after a grant it found, or asked for, had become active, though *)
(* that grant may be over by the time the execution is created.            *)
THEOREM NothingPassesTheGate == Spec => []GateHeld
<1>1. GateInv => GateHeld
  BY DEF GateInv, Ordered, Held, GateHeld
<1> QED
  BY <1>1, GateInvariant, PTL

-----------------------------------------------------------------------------
(* Verdicts stand.                                                         *)

Approved == Activated \cup {"ACTIVATING", "ACTIVATION_FAILED"}

Stands(c) ==
    at[c] = "ok" =>
        /\ Kind(c) = "approve" => grant[subject[c]] \in Approved
        /\ Kind(c) = "deny" => grant[subject[c]] = "DENIED"
        /\ Kind(c) = "revoke" => grant[subject[c]] = "REVOKED"

(* Nothing leaves what the three verdicts stand for.                       *)
LEMMA VerdictsAreFinal ==
  ASSUME TypeInv, GrantFollows, NEW d \in Commands, Stands(d), at'[d] = at[d],
         Kind(d)' = Kind(d), subject'[d] = subject[d]
  PROVE  Stands(d)'
<1>1. Sorted(d)
  BY DEF TypeInv
<1> QED
  BY <1>1 DEF Stands, GrantFollows, GrantSteps, Approved, Activated, Sorted, AboutGrant

(* A command that decides on a grant ends well by deciding only.           *)
LEMMA OnlyDecisions ==
  ASSUME TypeInv, NEW c \in Commands, CommandStep(c), at'[c] = "ok", at[c] # "ok",
         Kind(c)' \in {"approve", "deny", "revoke"}
  PROVE  Decide(c) \/ Revoked(c)
<1>1. Fits(c, at[c]) /\ at \in [Commands -> {"idle"} \cup Places \cup Ends]
  BY DEF TypeInv, TypeOK
<1>2. ~Start(c)
  BY <1>1 DEF Start, Parsed, Goto, FirstPlace
<1>3. Kind(c) \in {"approve", "deny", "revoke"}
  BY <1>2 DEF CommandStep, Proceeds, ReadLabels, LabelsUnreadable, Discover,
         SearchGrants, Answer, Ask, AskLost, AwaitGrant, Execute, ExecuteLost,
         AwaitExecution, Look, ListCallbacks, TriggerCallback, Decide, Revoked,
         GrantStatus, CallFails, Expire, ContextEnds, Killed, Kind, given
<1>4. at[c] \in {"idle", "discover"} \cup OnGrant \cup Ends
  BY <1>1, <1>3 DEF Fits, Places, OnExecution, OnGrant, Gated, Readers, Mutators,
                    AboutExecution, AboutGrant
<1>5. ~Discover(c) /\ ~CallFails(c) /\ ~Expire(c) /\ ~ContextEnds(c) /\ ~Killed(c)
  BY <1>1, <1>3 DEF Discover, CallFails, Expire, ContextEnds, Killed, Goto
<1>6. ~GrantStatus(c)
  BY <1>3 DEF GrantStatus
<1> QED
  BY <1>2, <1>4, <1>5, <1>6
     DEF CommandStep, Proceeds, ReadLabels, LabelsUnreadable,
         SearchGrants, Answer, Ask, AskLost, AwaitGrant, Execute, ExecuteLost,
         AwaitExecution, Look, ListCallbacks, TriggerCallback, Calls, OnGrant, Ends

LEMMA OwnVerdict ==
  ASSUME TypeInv, GrantFollows, NEW c \in Commands, CommandStep(c), Stands(c)
  PROVE  Stands(c)'
<1> SUFFICES ASSUME at'[c] = "ok", Kind(c)' \in {"approve", "deny", "revoke"}
             PROVE  Stands(c)'
  BY DEF Stands
<1>1. CASE at[c] = "ok"
  <2>1. UNCHANGED vars
    BY <1>1 DEF CommandStep, Proceeds, Start, ReadLabels, LabelsUnreadable, Discover,
         SearchGrants, Answer, Ask, AskLost, AwaitGrant, Execute, ExecuteLost,
         AwaitExecution, Look, ListCallbacks, TriggerCallback, Decide, Revoked,
         GrantStatus, CallFails, Expire, ContextEnds, Killed, Calls, Failing,
         Active, Places, OnExecution, OnGrant
  <2> QED
    BY <2>1 DEF Stands, Kind, vars, services, given
<1>2. CASE at[c] # "ok" /\ Decide(c)
  <2>1. PICK k \in {"approve", "deny", "revoke"} :
           /\ Kind(c) = k
           /\ grant[subject[c]] = Decision[k].from
           /\ grant' = [grant EXCEPT ![subject[c]] = Decision[k].to]
           /\ Goto(c, Decision[k].then)
    BY <1>2 DEF Decide, Goto, TypeInv, TypeOK
  <2>2. at'[c] = Decision[k].then /\ Kind(c)' = k /\ UNCHANGED subject
    BY <1>2, <2>1 DEF Decide, given, Goto, Kind, TypeInv, TypeOK
  <2>3. k \in {"approve", "deny"}
    BY <2>2 DEF Decision
  <2>4. subject[c] \in Grants
    BY <1>2 DEF Decide, Calls, TypeInv, TypeOK, OnGrant
  <2>5. grant'[subject'[c]] = Decision[k].to
    BY <2>1, <2>2, <2>4 DEF TypeInv, TypeOK
  <2> QED
    BY <2>2, <2>3, <2>5 DEF Stands, Decision, Approved
<1>3. CASE at[c] # "ok" /\ Revoked(c)
  <2>1. Kind(c) = "revoke"
    BY <1>3 DEF Revoked, Calls, TypeInv, Fits
  <2> QED
    BY <1>3, <2>1 DEF Revoked, Stands, Kind, given, services
<1> QED
  BY <1>1, <1>2, <1>3, OnlyDecisions

(* For any number of operators and approvers: what `pam approve`, `deny`   *)
(* or `revoke` reported is what happened to the grant, and stays so.       *)
THEOREM ReportedVerdictsStand == Spec => []VerdictsStand
<1>1. Init => \A c \in Commands : Stands(c)
  BY DEF Init, Stands
<1>2. TypeInv /\ (\A c \in Commands : Stands(c)) /\ [Next]_vars
        => (\A c \in Commands : Stands(c))'
  <2> SUFFICES ASSUME TypeInv, \A c \in Commands : Stands(c), [Next]_vars,
                      NEW d \in Commands
               PROVE  Stands(d)'
    OBVIOUS
  <2>1. GrantFollows
    BY GrantLife
  <2>2. ASSUME NEW c \in Commands, CommandStep(c) PROVE Stands(d)'
    <3>1. CASE d = c
      BY <2>1, <2>2, <3>1, OwnVerdict
    <3>2. CASE d # c
      BY <2>1, <2>2, <3>2, OthersStay, VerdictsAreFinal
    <3> QED
      BY <3>1, <3>2
  <2>3. ASSUME UNCHANGED <<at, given>> PROVE Stands(d)'
    BY <2>1, <2>3, VerdictsAreFinal DEF Kind, given
  <2> QED
    BY <2>2, <2>3 DEF Next, GrantMoves, ExecutionStep, ExecutionRuns,
                      ExecutionWaits, ExecutionEnds, vars, commandVars
<1>3. (\A c \in Commands : Stands(c)) => VerdictsStand
  BY DEF Stands, VerdictsStand, Approved
<1> QED
  BY <1>1, <1>2, <1>3, TypeInvariant, PTL DEF Spec

-----------------------------------------------------------------------------
(* Callbacks are used up once.                                             *)

Resuming(c) == Kind(c) = "resume" /\ at[c] \in {"ok", "await"}
Seen(x) == 1 .. made[x]

CallbackInv ==
    /\ \A x \in Commands : pending[x] \subseteq Seen(x)
    /\ \A c \in Commands :
          /\ at[c] = "trigger" => callback[c] \in Seen(subject[c])
          /\ Resuming(c) => callback[c] \in Seen(subject[c]) \ pending[subject[c]]
    /\ \A c, d \in Commands :
          Resuming(c) /\ Resuming(d) /\ c # d /\ subject[c] = subject[d]
              => callback[c] # callback[d]

(* A callback that is gone does not come back, and new ones are numbered   *)
(* on.                                                                     *)
CallbacksGrow ==
    \A x \in Commands : /\ Seen(x) \subseteq Seen(x)'
                        /\ pending'[x] \subseteq Seen(x)'
                        /\ pending'[x] \cap Seen(x) \subseteq pending[x]

LEMMA CallbackLife ==
  ASSUME TypeInv, CallbackInv, [Next]_vars PROVE CallbacksGrow
<1> USE DEF CallbacksGrow, CallbackInv, Seen, TypeInv, TypeOK
<1>1. ASSUME NEW c \in Commands, TriggerCallback(c) PROVE CallbacksGrow
  BY <1>1 DEF TriggerCallback, Consumed
<1>2. ASSUME NEW x \in Commands, ExecutionWaits(x) PROVE CallbacksGrow
  BY <1>2, CallbacksAssumption DEF ExecutionWaits
<1>3. ASSUME NEW x \in Commands, ExecutionEnds(x) PROVE CallbacksGrow
  BY <1>3 DEF ExecutionEnds
<1>4. CASE UNCHANGED <<made, pending>>
  BY <1>4
<1>5. ASSUME NEW c \in Commands, CommandStep(c) PROVE CallbacksGrow
  BY <1>1, <1>4, <1>5
     DEF CommandStep, Proceeds, Start, ReadLabels, LabelsUnreadable, Discover,
         SearchGrants, Answer, Ask, AskLost, AwaitGrant, Execute, ExecuteLost, Created,
         AwaitExecution, Look, ListCallbacks, Decide, Revoked,
         GrantStatus, CallFails, Expire, ContextEnds, Killed, services, executions
<1>6. ASSUME NEW x \in Commands, ExecutionRuns(x) PROVE CallbacksGrow
  BY <1>4, <1>6 DEF ExecutionRuns
<1>7. ASSUME NEW g \in Grants, GrantMoves(g) PROVE CallbacksGrow
  BY <1>4, <1>7 DEF GrantMoves, executions
<1>8. CASE UNCHANGED vars
  BY <1>4, <1>8 DEF vars, services, executions
<1> QED
  BY <1>2, <1>3, <1>5, <1>6, <1>7, <1>8 DEF Next, ExecutionStep

(* `wf resume` says that it resumed only after its own trigger; before and *)
(* after it, it keeps the callback it found.                               *)
LEMMA ResumedByTrigger ==
  ASSUME TypeInv, NEW c \in Commands, CommandStep(c), Resuming(c)'
  PROVE  /\ UNCHANGED <<callback, subject>> /\ Kind(c) = "resume"
         /\ \/ Resuming(c)
            \/ /\ at[c] = "trigger" /\ callback[c] \in pending[subject[c]]
               /\ Consumed(c)
<1>1. Fits(c, at[c]) /\ at \in [Commands -> {"idle"} \cup Places \cup Ends]
      /\ line \in [Commands -> CommandLines \cup {NoLine}]
  BY DEF TypeInv, TypeOK
<1>2. ~Start(c)
  <2> SUFFICES ASSUME NEW l \in CommandLines, NEW x, Parsed(c, l, x) PROVE FALSE
    BY DEF Start
  <2>1. l.kind = "resume" /\ FirstPlace(l) \in {"ok", "await"}
    BY <1>1 DEF Parsed, Goto, Resuming, Kind
  <2>2. FirstPlace(l) = "look"
    BY <2>1 DEF FirstPlace, Gated, Readers, Mutators
  <2> QED
    BY <2>1, <2>2
<1>3. Kind(c) = "resume"
  BY <1>2 DEF Resuming, CommandStep, Proceeds, ReadLabels, LabelsUnreadable, Discover,
         SearchGrants, Answer, Ask, AskLost, AwaitGrant, Execute, ExecuteLost,
         AwaitExecution, Look, ListCallbacks, TriggerCallback, Decide, Revoked,
         GrantStatus, CallFails, Expire, ContextEnds, Killed, Kind, given
<1>4. at[c] \in {"idle", "look", "list", "trigger", "await"} \cup Ends
  BY <1>1, <1>3 DEF Fits, Places, OnExecution, OnGrant, Gated, Readers, Mutators,
                    AboutGrant
<1>5. ~Look(c) /\ ~ListCallbacks(c)
  BY <1>1, <1>3 DEF Look, ListCallbacks, Goto, Resuming
<1>6. \/ TriggerCallback(c) \/ AwaitExecution(c) \/ Expire(c)
      \/ CallFails(c) \/ ContextEnds(c) \/ Killed(c)
  BY <1>2, <1>4, <1>5
     DEF CommandStep, Proceeds, ReadLabels, LabelsUnreadable, Discover,
         SearchGrants, Answer, Ask, AskLost, AwaitGrant, Execute, ExecuteLost,
         Decide, Revoked, GrantStatus, Calls, Ends
<1>7. CASE TriggerCallback(c)
  BY <1>1, <1>3, <1>7 DEF TriggerCallback, Calls, Goto, Resuming, noted, given
<1>8. CASE AwaitExecution(c) \/ Expire(c)
  BY <1>1, <1>3, <1>8 DEF AwaitExecution, Expire, Calls, Resuming, noted, given
<1>9. CASE CallFails(c) \/ ContextEnds(c) \/ Killed(c)
  BY <1>1, <1>9 DEF CallFails, ContextEnds, Killed, Goto, Resuming
<1> QED
  BY <1>3, <1>6, <1>7, <1>8, <1>9

(* One that is resumed, and was not before the step, took its callback out *)
(* of the pending ones.                                                    *)
Takes(c) == callback[c] \in pending[subject[c]] /\ callback[c] \notin pending'[subject[c]]

LEMMA Resumers ==
  ASSUME TypeInv, [Next]_vars, NEW c \in Commands, Resuming(c)'
  PROVE  /\ callback'[c] = callback[c] /\ subject'[c] = subject[c]
         /\ Kind(c) = "resume"
         /\ Resuming(c) \/ (CommandStep(c) /\ Takes(c))
<1>1. ASSUME NEW d \in Commands, CommandStep(d), d # c
      PROVE  /\ Resuming(c) /\ Kind(c) = "resume"
             /\ callback'[c] = callback[c] /\ subject'[c] = subject[c]
  BY <1>1, OthersStay DEF Resuming
<1>2. CASE CommandStep(c)
  <2>1. Sorted(c) /\ Fits(c, at[c]) /\ pending \in [Commands -> SUBSET Callbacks]
    BY DEF TypeInv, TypeOK
  <2>2. at[c] = "trigger" => subject[c] \in Commands
    BY <2>1 DEF Fits, Sorted
  <2> QED
    BY <1>2, <2>1, <2>2, ResumedByTrigger DEF Takes, Consumed
<1>3. CASE UNCHANGED <<at, given, callback>>
  BY <1>3 DEF Resuming, Kind, given
<1> QED
  BY <1>1, <1>2, <1>3
     DEF Next, GrantMoves, ExecutionStep, ExecutionRuns, ExecutionWaits,
         ExecutionEnds, vars, commandVars, noted

LEMMA FoundCallback ==
  ASSUME TypeInv, CallbackInv, CallbacksGrow, [Next]_vars, NEW c \in Commands,
         at'[c] = "trigger"
  PROVE  callback'[c] \in Seen(subject[c])'
<1>1. Sorted(c) /\ Fits(c, at[c]) /\ at \in [Commands -> {"idle"} \cup Places \cup Ends]
      /\ callback \in [Commands -> 0 .. MaxCallbacks]
  BY DEF TypeInv, TypeOK
<1>2. \A x \in Commands : 1 .. made[x] \subseteq 1 .. made'[x]
  BY DEF CallbacksGrow, Seen
<1>3. CASE at[c] = "trigger" /\ callback'[c] = callback[c] /\ subject'[c] = subject[c]
  <2>1. subject[c] \in Commands /\ callback[c] \in 1 .. made[subject[c]]
    BY <1>1, <1>3 DEF CallbackInv, Seen, Fits, Sorted
  <2> QED
    BY <1>2, <1>3, <2>1 DEF Seen
<1>4. CASE ListCallbacks(c)
  <2>1. subject[c] \in Commands /\ UNCHANGED <<subject, made>>
    BY <1>4 DEF ListCallbacks, Calls, TypeInv, TypeOK, OnExecution, given, services,
                executions
  <2>2. callback'[c] \in pending[subject[c]]
    BY <1>1, <1>4 DEF ListCallbacks, Goto
  <2>3. pending[subject[c]] \subseteq 1 .. made[subject[c]]
    BY <2>1 DEF CallbackInv, Seen
  <2> QED
    BY <2>1, <2>2, <2>3 DEF Seen
<1>5. ASSUME NEW d \in Commands, CommandStep(d), d # c
      PROVE  at[c] = "trigger" /\ callback'[c] = callback[c] /\ subject'[c] = subject[c]
  BY <1>5, OthersStay
<1>6. CASE Expire(c)
  BY <1>3, <1>6 DEF Expire, given, noted
<1>7. CASE CommandStep(c) /\ ~ListCallbacks(c) /\ ~Expire(c)
  <2> USE <1>1, <1>7 DEF Goto
  <2>1. ~Start(c)
    BY DEF Start, Parsed, FirstPlace
  <2>2. ~ReadLabels(c) /\ ~LabelsUnreadable(c) /\ ~Discover(c) /\ ~SearchGrants(c)
        /\ ~Answer(c) /\ ~Look(c) /\ ~TriggerCallback(c)
    BY DEF ReadLabels, LabelsUnreadable, Discover, SearchGrants, Answer, Look,
           TriggerCallback, Resumed
  <2>3. ~Ask(c) /\ ~AskLost(c) /\ ~AwaitGrant(c) /\ ~Execute(c) /\ ~ExecuteLost(c)
    BY DEF Ask, AskLost, AwaitGrant, AfterGrant, Execute, ExecuteLost
  <2>4. ~AwaitExecution(c)
    <3>1. Judge(c, subject[c]) # "trigger"
      BY JudgeEnds DEF Ends
    <3> QED
      BY <3>1 DEF AwaitExecution
  <2>5. ~Decide(c)
    <3>1. \A k \in {"approve", "deny", "revoke"} : Decision[k].then # "trigger"
      BY DEF Decision
    <3> QED
      BY <3>1 DEF Decide
  <2>6. ~Revoked(c) /\ ~GrantStatus(c) /\ ~CallFails(c) /\ ~ContextEnds(c) /\ ~Killed(c)
    BY DEF Revoked, GrantStatus, CallFails, ContextEnds, Killed
  <2> QED
    BY <2>1, <2>2, <2>3, <2>4, <2>5, <2>6 DEF CommandStep, Proceeds
<1>8. CASE UNCHANGED <<at, given, callback>>
  BY <1>3, <1>8 DEF given
<1> QED
  BY <1>3, <1>4, <1>5, <1>6, <1>7, <1>8
     DEF Next, GrantMoves, ExecutionStep, ExecutionRuns, ExecutionWaits,
         ExecutionEnds, vars, commandVars, noted

(* For any number of operators, executions and callbacks: however many saw *)
(* the same callback in the list, one of them resumes the execution by it, *)
(* and the others are told that they did not.                              *)
THEOREM ResumedOnce == Spec => []ResumesTakeEffectOnce
<1>1. Init => CallbackInv
  BY DEF Init, CallbackInv, Resuming
<1>2. TypeInv /\ CallbackInv /\ [Next]_vars => CallbackInv'
  <2> SUFFICES ASSUME TypeInv, CallbackInv, [Next]_vars PROVE CallbackInv'
    OBVIOUS
  <2>1. CallbacksGrow
    BY CallbackLife
  <2>2. \A x \in Commands : pending'[x] \subseteq Seen(x)'
    BY <2>1 DEF CallbacksGrow
  <2>3. ASSUME NEW c \in Commands, at'[c] = "trigger"
        PROVE  callback'[c] \in Seen(subject[c])'
    BY <2>1, <2>3, FoundCallback
  <2>4. ASSUME NEW c \in Commands, Resuming(c)'
        PROVE  /\ subject'[c] \in Commands
               /\ callback'[c] \in Seen(subject[c])' \ pending'[subject'[c]]
    <3>1. Resuming(c) \/ Takes(c)
      BY <2>4, Resumers
    <3>2. UNCHANGED <<callback[c], subject[c]>> /\ subject[c] \in Commands
      <4>1. callback'[c] = callback[c] /\ subject'[c] = subject[c]
        BY <2>4, Resumers
      <4>2. Kind(c) = "resume"
        BY <2>4, Resumers
      <4> QED
        BY <4>1, <4>2 DEF TypeInv, Sorted, AboutExecution
    <3>3. callback[c] \in Seen(subject[c]) /\ callback[c] \notin pending'[subject[c]]
      BY <2>1, <3>1, <3>2 DEF CallbackInv, CallbacksGrow, Takes
    <3>4. callback[c] \in 1 .. made'[subject[c]]
      BY <2>1, <3>2, <3>3 DEF CallbacksGrow, Seen
    <3> QED
      BY <3>2, <3>3, <3>4 DEF Seen
  <2>5. ASSUME NEW c \in Commands, NEW d \in Commands, Resuming(c)', Resuming(d)',
               c # d, subject'[c] = subject'[d]
        PROVE  callback'[c] # callback'[d]
    <3>1. subject[c] = subject[d]
      BY <2>5, Resumers
    <3>2. CASE Resuming(c) /\ Resuming(d)
      BY <2>5, <3>1, <3>2, Resumers DEF CallbackInv
    <3>3. ASSUME NEW a \in {c, d}, NEW b \in {c, d}, a # b, ~Resuming(a)
          PROVE  callback[a] \in pending[subject[a]] /\ callback[b] \notin pending[subject[b]]
      <4>1. CommandStep(a) /\ Takes(a)
        BY <2>5, <3>3, Resumers
      <4>2. Resuming(b)
        BY <2>5, <3>3, <4>1, OthersStay DEF Resuming
      <4> QED
        BY <4>1, <4>2 DEF CallbackInv, Takes
    <3> QED
      BY <2>5, <3>1, <3>2, <3>3, Resumers
  <2> QED
    BY <2>2, <2>3, <2>4, <2>5 DEF CallbackInv
<1>3. CallbackInv => ResumesTakeEffectOnce
  BY DEF CallbackInv, ResumesTakeEffectOnce, Resuming, Seen
<1> QED
  BY <1>1, <1>2, <1>3, TypeInvariant, PTL DEF Spec

-----------------------------------------------------------------------------
(* Waits settle.                                                           *)

(* A command polls, looks at or resumes an execution that was created; one *)
(* that runs a workflow is about its own; only without --wait does         *)
(* `wf status` merely look; and what ended well after a wait left nothing  *)
(* undecided.                                                              *)
Settled(c) ==
    /\ at[c] \in OnExecution => state[subject[c]] # "none"
    /\ Kind(c) \in Gated => subject[c] = c
    /\ at[c] = "look" /\ Kind(c) = "status" => ~line[c].wait
    /\ at[c] = "awaitGrant" => grant[via[c]] # "none"
    /\ at[c] = "ok" /\ WaitsForExecution(c) =>
          /\ state[subject[c]] \in Terminal
          /\ Kind(c) \in Readers \cup {"run"} => state[c] # "FAILED"
    /\ at[c] = "ok" /\ Kind(c) = "request" /\ line[c].wait =>
          via[c] \in Grants /\ grant[via[c]] \notin {"none", "APPROVAL_AWAITED"}

(* An execution that was created stays so, one that is over stays as it    *)
(* is, and a grant that was created stays so and is never again undecided. *)
Progresses ==
    /\ \A x \in Commands : /\ state[x] # "none" => state'[x] # "none"
                           /\ state[x] \in Terminal => state'[x] = state[x]
    /\ \A g \in Grants :
          /\ grant[g] # "none" => grant'[g] # "none"
          /\ grant[g] \notin {"none", "APPROVAL_AWAITED"}
                => grant'[g] \notin {"none", "APPROVAL_AWAITED"}

LEMMA ExecutionsProgress ==
  ASSUME GateInv, [Next]_vars, NEW x \in Commands
  PROVE  /\ state[x] # "none" => state'[x] # "none"
         /\ state[x] \in Terminal => state'[x] = state[x]
<1>1. state \in [Commands -> {"none"} \cup Running \cup Terminal]
  BY DEF GateInv, TypeInv, TypeOK
<1>2. CASE UNCHANGED state
  BY <1>2
<1>3. ASSUME NEW c \in Commands, Execute(c) \/ ExecuteLost(c) PROVE state[c] = "none"
      /\ \A d \in Commands : d # c => state'[d] = state[d]
  <2>1. at[c] = "start" /\ Created(c)
    BY <1>3 DEF Execute, ExecuteLost, Calls
  <2>2. Ordered(c)
    BY DEF GateInv
  <2> QED
    BY <1>1, <2>1, <2>2 DEF Ordered, Ends, Created
<1>4. ASSUME NEW c \in Commands, CommandStep(c), ~Execute(c), ~ExecuteLost(c)
      PROVE  UNCHANGED state
  BY <1>4
     DEF CommandStep, Proceeds, Start, ReadLabels, LabelsUnreadable, Discover,
         SearchGrants, Answer, Ask, AskLost, AwaitGrant, AwaitExecution, Look,
         ListCallbacks, TriggerCallback, Decide, Revoked, GrantStatus, CallFails,
         Expire, ContextEnds, Killed, services, executions
<1>5. ASSUME NEW y \in Commands, ExecutionStep(y)
      PROVE  /\ state[x] # "none" => state'[x] # "none"
             /\ state[x] \in Terminal => state'[x] = state[x]
  BY <1>1, <1>5
     DEF ExecutionStep, ExecutionRuns, ExecutionWaits, ExecutionEnds, Running, Terminal
<1>6. ASSUME NEW g \in Grants, GrantMoves(g) PROVE UNCHANGED state
  BY <1>6 DEF GrantMoves, executions
<1>7. CASE UNCHANGED vars
  BY <1>2, <1>7 DEF vars, services, executions
<1>8. ASSUME NEW c \in Commands, CommandStep(c)
      PROVE  /\ state[x] # "none" => state'[x] # "none"
             /\ state[x] \in Terminal => state'[x] = state[x]
  BY <1>2, <1>3, <1>4, <1>8 DEF Terminal
<1> QED
  BY <1>2, <1>5, <1>6, <1>7, <1>8 DEF Next

LEMMA EverythingProgresses == ASSUME GateInv, [Next]_vars PROVE Progresses
<1>1. \A g \in Grants :
          /\ grant[g] # "none" => grant'[g] # "none"
          /\ grant[g] \notin {"none", "APPROVAL_AWAITED"}
                => grant'[g] \notin {"none", "APPROVAL_AWAITED"}
  BY GrantLife DEF GateInv, GrantFollows, GrantSteps
<1> QED
  BY <1>1, ExecutionsProgress DEF Progresses

(* A command that a step leaves where it is.                               *)
LEMMA StaysSettled ==
  ASSUME TypeInv, Progresses, NEW d \in Commands, Settled(d), at'[d] = at[d],
         via'[d] = via[d], subject'[d] = subject[d], line'[d] = line[d]
  PROVE  Settled(d)'
<1>1. Sorted(d) /\ Fits(d, at[d])
  BY DEF TypeInv
<1>2. at[d] \in OnExecution \/ WaitsForExecution(d) => subject[d] \in Commands
  BY <1>1 DEF Sorted, Fits, WaitsForExecution, OnExecution, Gated
<1>3. Kind(d)' = Kind(d) /\ WaitsForExecution(d)' = WaitsForExecution(d)
  BY DEF Kind, WaitsForExecution
<1>4. at[d] = "ok" /\ WaitsForExecution(d) => state'[subject[d]] = state[subject[d]]
  BY <1>2 DEF Settled, Progresses
<1>5. Kind(d) \in Readers \cup {"run"} => subject[d] = d
  BY DEF Settled, Gated
<1> QED
  BY <1>1, <1>2, <1>3, <1>4, <1>5 DEF Settled, Progresses, Fits

(* One that goes on to a step that promises nothing of itself.             *)
LEMMA GoesOnSettled ==
  ASSUME TypeInv, NEW c \in Commands, Settled(c), UNCHANGED given, NEW p, at'[c] = p,
         p \notin OnExecution \cup {"awaitGrant", "ok"}
  PROVE  Settled(c)'
  BY DEF Settled, Kind, given, OnExecution

(* A command starts to wait only for an execution that was created.        *)
LEMMA StartSettles ==
  ASSUME TypeInv, NEW c \in Commands, Start(c) PROVE Settled(c)'
<1>1. PICK l \in CommandLines, x \in Commands \cup Grants \cup {"none"} :
          /\ Parsed(c, l, x)
          /\ l.kind \in Gated => x = c
          /\ l.kind \in AboutExecution => state[x] # "none"
  BY DEF Start, AboutExecution, AboutGrant, Gated, Readers, Mutators
<1>2. at'[c] = FirstPlace(l) /\ line'[c] = l /\ subject'[c] = x /\ UNCHANGED state
  BY <1>1 DEF Start, Parsed, Goto, TypeInv, TypeOK, services, executions
<1>3. FirstPlace(l) \in {"unknown flag", "gate", "await", "look", "discover"}
      /\ (FirstPlace(l) \in {"await", "look"} => l.kind \in AboutExecution)
      /\ (FirstPlace(l) = "look" /\ l.kind = "status" => ~l.wait)
  BY DEF FirstPlace, AboutExecution
<1> QED
  BY <1>1, <1>2, <1>3 DEF Settled, Kind, OnExecution

(* What the handlers of the commands that only read make of a failure.     *)
LEMMA FailuresReported ==
  ASSUME NEW c, NEW x, Judge(c, x) = "ok", Kind(c) \in Readers \cup {"run"}
  PROVE  state[x] # "FAILED"
  BY DEF Judge, JudgeGet, JudgeDescribe, JudgeEtcd, JudgeRun, JudgeLogs, ErrorIf,
         Readers

(* A grant that a command finds decided, or is told it need not wait for.  *)
LEMMA GrantSettles ==
  ASSUME TypeInv, NEW c \in Commands, Settled(c), Ask(c) \/ AwaitGrant(c)
  PROVE  Settled(c)'
<1> USE DEF Goto
<1>1. at \in [Commands -> {"idle"} \cup Places \cup Ends] /\ Fits(c, at[c])
      /\ via \in [Commands -> Grants \cup {"none"}] /\ grant \in [Grants -> GrantStates]
  BY DEF TypeInv, TypeOK
<1>2. UNCHANGED given /\ Kind(c)' = Kind(c)
  BY DEF Ask, AwaitGrant, given, Kind
<1>3. Kind(c) \in Gated \cup {"request"}
  BY <1>1 DEF Ask, AwaitGrant, Calls, Fits
<1>4. CASE Ask(c)
  <2>1. PICK g \in Grants, s \in {"APPROVAL_AWAITED", "ACTIVATING"} :
           /\ grant' = [grant EXCEPT ![g] = s] /\ via' = [via EXCEPT ![c] = g]
           /\ Goto(c, IF s = "APPROVAL_AWAITED" /\ (Kind(c) = "request" => line[c].wait)
                      THEN "awaitGrant" ELSE AfterGrant(c, s))
    BY <1>4 DEF Ask, CreatedAs
  <2>2. via'[c] = g /\ grant'[g] = s
    BY <1>1, <2>1
  <2>3. \/ at'[c] = "awaitGrant" \/ at'[c] \in {"start", "error"}
        \/ at'[c] = "ok" /\ Kind(c) = "request" /\ (line[c].wait => s = "ACTIVATING")
    BY <1>1, <2>1 DEF AfterGrant
  <2> QED
    BY <1>2, <2>2, <2>3
       DEF Settled, OnExecution, given, Kind, WaitsForExecution, Readers, Mutators,
           AboutExecution
<1>5. CASE AwaitGrant(c)
  <2>1. at[c] = "awaitGrant" /\ via[c] \in Grants /\ grant[via[c]] # "APPROVAL_AWAITED"
        /\ UNCHANGED <<grant, via>> /\ at'[c] = AfterGrant(c, grant[via[c]])
    BY <1>1, <1>5 DEF AwaitGrant, Calls, GrantPolled, Fits, services, noted
  <2>2. at'[c] \in {"start", "error"} \/ (at'[c] = "ok" /\ Kind(c) = "request")
    BY <2>1 DEF AfterGrant
  <2> QED
    BY <1>2, <2>1, <2>2
       DEF Settled, OnExecution, given, Kind, WaitsForExecution, Readers, Mutators,
           AboutExecution
<1> QED
  BY <1>4, <1>5

(* The steps of a command that has, or creates, an execution.              *)
LEMMA ExecutionSettles ==
  ASSUME TypeInv, Progresses, NEW c \in Commands, Settled(c),
         \/ Execute(c) \/ AwaitExecution(c) \/ Look(c)
         \/ ListCallbacks(c) \/ TriggerCallback(c)
  PROVE  Settled(c)'
<1> USE DEF Goto
<1>1. at \in [Commands -> {"idle"} \cup Places \cup Ends] /\ Fits(c, at[c]) /\ Sorted(c)
      /\ state \in [Commands -> {"none"} \cup Running \cup Terminal]
  BY DEF TypeInv, TypeOK
<1>2. UNCHANGED given /\ Kind(c)' = Kind(c)
      /\ WaitsForExecution(c)' = WaitsForExecution(c)
  BY DEF Execute, AwaitExecution, Look, ListCallbacks, TriggerCallback, given, Kind,
         WaitsForExecution
<1>3. Kind(c) # "request" /\ subject[c] \in Commands
  <2>1. Kind(c) \in Gated \cup AboutExecution
    BY <1>1 DEF Execute, AwaitExecution, Look, ListCallbacks, TriggerCallback, Calls, Fits
  <2> QED
    BY <1>1, <2>1 DEF Sorted, Gated, Readers, Mutators, AboutExecution
<1>4. CASE Execute(c)
  <2>1. Kind(c) \in Gated /\ subject[c] = c
    BY <1>1, <1>4 DEF Execute, Calls, Fits, Settled
  <2>2. state'[c] # "none"
    BY <1>1, <1>4 DEF Execute, Created, Running
  <2>3. \/ at'[c] = "await"
        \/ at'[c] = "ok" /\ ~WaitsForExecution(c)
    BY <1>1, <1>4 DEF Execute, Kind, WaitsForExecution, Readers, Mutators, AboutExecution
  <2> QED
    BY <1>2, <1>3, <2>1, <2>2, <2>3 DEF Settled, given
<1>5. CASE AwaitExecution(c)
  <2>1. at[c] = "await" /\ state[subject[c]] \in Terminal /\ UNCHANGED state
        /\ at'[c] = Judge(c, subject[c])
    BY <1>1, <1>3, <1>5
       DEF AwaitExecution, Calls, ExecutionPolled, Settled, OnExecution, Running,
           services, executions
  <2>2. Judge(c, subject[c]) \in Ends
    BY JudgeEnds
  <2>3. Kind(c) \in Readers \cup {"run"} => subject[c] = c
    BY DEF Settled, Gated
  <2>4. at'[c] = "ok" /\ Kind(c) \in Readers \cup {"run"} => state[c] # "FAILED"
    BY <2>1, <2>3, FailuresReported
  <2> QED
    BY <1>2, <1>3, <2>1, <2>2, <2>4 DEF Settled, given, OnExecution, Ends
<1>6. CASE Look(c)
  <2>1. at[c] = "look" /\ UNCHANGED state
        /\ \/ at'[c] = "ok" /\ Kind(c) = "status"
           \/ at'[c] = "list" /\ state[subject[c]] = "ACTIVE"
           \/ at'[c] = "error"
    BY <1>1, <1>6 DEF Look, Calls, services, executions
  <2>2. at'[c] = "ok" => ~WaitsForExecution(c)
    BY <2>1 DEF Settled, WaitsForExecution, Readers, Mutators
  <2> QED
    BY <1>2, <1>3, <2>1, <2>2 DEF Settled, given, OnExecution
<1>7. CASE ListCallbacks(c) \/ TriggerCallback(c)
  <2>1. at[c] \in OnExecution /\ UNCHANGED state /\ Kind(c) \in AboutExecution
    BY <1>1, <1>7
       DEF ListCallbacks, TriggerCallback, Calls, OnExecution, services, executions, Fits
  <2>2. \/ at'[c] \in {"trigger", "await", "error"}
        \/ at'[c] = "ok" /\ ~line[c].wait
    BY <1>1, <1>7 DEF ListCallbacks, TriggerCallback, Resumed
  <2>3. at'[c] = "ok" => ~WaitsForExecution(c)
    BY <2>1, <2>2 DEF WaitsForExecution, Readers, Mutators, AboutExecution
  <2> QED
    BY <1>2, <1>3, <2>1, <2>2, <2>3 DEF Settled, given, OnExecution
<1> QED
  BY <1>4, <1>5, <1>6, <1>7

(* A command that decides on a grant waits for no execution.               *)
LEMMA DecisionSettles ==
  ASSUME TypeInv, NEW c \in Commands, Settled(c), Decide(c) \/ Revoked(c) \/ GrantStatus(c)
  PROVE  Settled(c)'
<1>1. at \in [Commands -> {"idle"} \cup Places \cup Ends] /\ Fits(c, at[c])
  BY DEF TypeInv, TypeOK
<1>2. UNCHANGED given /\ Kind(c) \in AboutGrant
  BY <1>1 DEF Decide, Revoked, GrantStatus, Calls, Fits, OnGrant
<1>3. at'[c] \in {"ok", "error", "revoking"}
  <2>1. \A k \in {"approve", "deny", "revoke"} : Decision[k].then \in {"ok", "revoking"}
    BY DEF Decision
  <2> QED
    BY <1>1, <2>1 DEF Decide, Revoked, GrantStatus, Goto
<1> QED
  BY <1>2, <1>3 DEF Settled, Kind, given, OnExecution, WaitsForExecution, AboutGrant,
                    AboutExecution, Readers, Mutators, Gated

LEMMA OwnStepsSettle ==
  ASSUME TypeInv, Progresses, NEW c \in Commands, Settled(c), CommandStep(c)
  PROVE  Settled(c)'
<1>1. at \in [Commands -> {"idle"} \cup Places \cup Ends]
  BY DEF TypeInv, TypeOK
<1>2. CASE \/ ReadLabels(c) \/ LabelsUnreadable(c) \/ Discover(c) \/ SearchGrants(c)
           \/ Answer(c) \/ AskLost(c) \/ ExecuteLost(c)
           \/ CallFails(c) \/ ContextEnds(c) \/ Killed(c)
  <2>1. UNCHANGED given
    BY <1>2 DEF ReadLabels, LabelsUnreadable, Discover, SearchGrants, Answer, AskLost,
                ExecuteLost, CallFails, ContextEnds, Killed
  <2>2. at'[c] \in {"discover", "start", "search", "ask", "decide", "prompt",
                    "no reason", "error", "killed"}
    BY <1>1, <1>2 DEF ReadLabels, LabelsUnreadable, Discover, SearchGrants, Answer,
         AskLost, ExecuteLost, CallFails, ContextEnds, Killed, Goto
  <2>3. at'[c] \notin OnExecution \cup {"awaitGrant", "ok"}
    BY <2>2 DEF OnExecution
  <2> QED
    BY <2>1, <2>3, GoesOnSettled
<1>3. CASE Expire(c)
  BY <1>3, StaysSettled DEF Expire, given, noted
<1> QED
  BY <1>2, <1>3, StartSettles, GrantSettles, ExecutionSettles, DecisionSettles
     DEF CommandStep, Proceeds

(* In every reachable state every command is settled.                      *)
THEOREM SettledInvariant == Spec => []\A c \in Commands : Settled(c)
<1>1. Init => \A c \in Commands : Settled(c)
  BY DEF Init, Settled, Kind, NoLine, OnExecution, Gated, Readers, Mutators
<1>2. GateInv /\ (\A c \in Commands : Settled(c)) /\ [Next]_vars
        => (\A c \in Commands : Settled(c))'
  <2> SUFFICES ASSUME GateInv, \A c \in Commands : Settled(c), [Next]_vars,
                      NEW d \in Commands
               PROVE  Settled(d)'
    OBVIOUS
  <2>1. TypeInv /\ Progresses
    BY EverythingProgresses DEF GateInv
  <2>2. ASSUME NEW c \in Commands, CommandStep(c) PROVE Settled(d)'
    BY <2>1, <2>2, OthersStay, StaysSettled, OwnStepsSettle
  <2>3. ASSUME UNCHANGED <<at, given, noted>> PROVE Settled(d)'
    BY <2>1, <2>3, StaysSettled DEF given, noted
  <2> QED
    BY <2>2, <2>3 DEF Next, GrantMoves, ExecutionStep, ExecutionRuns,
                      ExecutionWaits, ExecutionEnds, vars, commandVars
<1> QED
  BY <1>1, <1>2, GateInvariant, PTL DEF Spec

(* For any number of commands, executions and grants: a command that was   *)
(* to wait and ended well left nothing behind that was still running or    *)
(* still undecided, and get, describe, logs, etcd and `wf run` none that   *)
(* failed.                                                                 *)
THEOREM WaitsSettled == Spec => []WaitsSettle
<1>1. (\A c \in Commands : Settled(c)) => WaitsSettle
  BY DEF Settled, WaitsSettle
<1> QED
  BY <1>1, SettledInvariant, PTL
=============================================================================
