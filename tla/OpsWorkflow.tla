----------------------------- MODULE OpsWorkflow -----------------------------
(***************************************************************************)
(* The `ops` commands that go through Cloud Workflows (pkg/ops, pkg/ops/wf *)
(* over pkg/gcp/workflows) and the privileged access grants that gate them *)
(* (pkg/ops/pam over pkg/gcp/pam).  Operators and approvers run commands   *)
(* side by side; each is a process that calls one remote API after the     *)
(* other under one deadline, and reports at the end.                       *)
(*                                                                         *)
(* "run", "status" and "resume" are subcommands of `ops wf`, "request",    *)
(* "approve", "deny", "revoke" and "grantStatus" of `ops pam`.             *)
(*                                                                         *)
(* The Workflows and PAM services are external, and do what the code       *)
(* relies on: an execution and a grant move through their states by        *)
(* themselves; a gated workflow is started only while a grant of the       *)
(* caller is active; a callback resumes its execution once; a grant is     *)
(* decided once.  Any call may fail, and any that changes something may    *)
(* take effect and lose its answer.                                        *)
(***************************************************************************)
EXTENDS Naturals, FiniteSets

CONSTANTS
    Commands,      \* command invocations
    Grants,        \* grants that can be created, all by one requester
    CommandLines,  \* the command lines given
    ReasonFlag,    \* the gated commands know --reason
    MaxCallbacks   \* bound: callbacks an execution waits for in its life

Readers == {"get", "describe", "logs", "etcd"}
Mutators == {"delete", "rollout-restart", "expand-volume"}
Gated == Readers \cup Mutators \cup {"run"}
AboutExecution == {"status", "resume"}
AboutGrant == {"approve", "deny", "revoke", "grantStatus"}
Kinds == Gated \cup AboutExecution \cup AboutGrant \cup {"request"}

(* wait: --wait, or not --async; reason: --reason was given; json: -o json *)
Lines == [kind : Kinds, wait : BOOLEAN, reason : BOOLEAN, json : BOOLEAN]

ASSUME NamesAssumption ==
    Commands \cap Grants = {} /\ "none" \notin Commands \cup Grants
ASSUME LinesAssumption == CommandLines \subseteq Lines
ASSUME FlagAssumption == ReasonFlag \in BOOLEAN
ASSUME CallbacksAssumption == MaxCallbacks \in Nat

VARIABLES
    gated,                         \* the workflow carries the label pam_gated
    state, status, made, pending,  \* of the execution that command c started:
                                   \* its state, the status in its result, the
                                   \* callbacks it made and waits for
    grant,                         \* grant[g]: state of grant g
    line, subject,                 \* line[c]: what command c was given, and the
                                   \* execution (named after the command that
                                   \* started it) or grant it is about
    at,                            \* at[c]: what c does next, or how it ended
    via, labels, callback,         \* the grant c asked for or was let through
                                   \* with; it read the workflow's labels; the
                                   \* callback it found
    late                           \* its deadline has passed

executions == <<state, status, made, pending>>
services == <<gated, executions, grant>>
given == <<line, subject>>
noted == <<via, labels, callback>>
vars == <<services, given, at, noted, late>>

Running == {"QUEUED", "ACTIVE"}
Terminal == {"SUCCEEDED", "FAILED", "CANCELLED"}
GrantStates == {"none", "APPROVAL_AWAITED", "ACTIVATING", "ACTIVE", "DENIED",
                "EXPIRED", "ACTIVATION_FAILED", "ENDED", "REVOKING", "REVOKED"}
(* What a grant that was active once can be.                               *)
Activated == {"ACTIVE", "ENDED", "REVOKING", "REVOKED"}

(* result["status"] of an execution that succeeded.                        *)
Statuses == {"success", "error", "container_required"}
Callbacks == 1 .. MaxCallbacks

NoLine == [kind |-> "none", wait |-> FALSE, reason |-> FALSE, json |-> FALSE]

OnExecution == {"await", "look", "list", "trigger"}
OnGrant == {"decide", "revoking"}
Places == {"gate", "discover", "search", "prompt", "ask", "awaitGrant", "start"}
              \cup OnExecution \cup OnGrant
Ends == {"ok", "error", "unknown flag", "no reason", "killed"}

(* Every state is well formed, and a command is at a step of its kind: it  *)
(* never polls an execution, or decides on a grant, that it has not got.   *)
TypeOK ==
    /\ gated \in BOOLEAN
    /\ state \in [Commands -> {"none"} \cup Running \cup Terminal]
    /\ status \in [Commands -> Statuses]
    /\ made \in [Commands -> 0 .. MaxCallbacks]
    /\ pending \in [Commands -> SUBSET Callbacks]
    /\ grant \in [Grants -> GrantStates]
    /\ line \in [Commands -> CommandLines \cup {NoLine}]
    /\ subject \in [Commands -> Commands \cup Grants \cup {"none"}]
    /\ at \in [Commands -> {"idle"} \cup Places \cup Ends]
    /\ via \in [Commands -> Grants \cup {"none"}]
    /\ labels \in [Commands -> BOOLEAN]
    /\ callback \in [Commands -> 0 .. MaxCallbacks]
    /\ late \in [Commands -> BOOLEAN]
    /\ \A c \in Commands :
          /\ at[c] \in OnExecution => subject[c] \in Commands
          /\ at[c] \in OnGrant => subject[c] \in Grants
          /\ at[c] = "awaitGrant" => via[c] \in Grants

Init ==
    /\ gated \in BOOLEAN
    /\ state = [c \in Commands |-> "none"]
    /\ status = [c \in Commands |-> "success"]
    /\ made = [c \in Commands |-> 0]
    /\ pending = [c \in Commands |-> {}]
    /\ grant = [g \in Grants |-> "none"]
    /\ line = [c \in Commands |-> NoLine]
    /\ subject = [c \in Commands |-> "none"]
    /\ at = [c \in Commands |-> "idle"]
    /\ via = [c \in Commands |-> "none"]
    /\ labels = [c \in Commands |-> FALSE]
    /\ callback = [c \in Commands |-> 0]
    /\ late = [c \in Commands |-> FALSE]

-----------------------------------------------------------------------------
(* Steps of a command.                                                     *)

Kind(c) == line[c].kind
Active(c) == at[c] \in Places
(* c is about to make a call and its context has not expired.              *)
Calls(c, p) == at[c] = p /\ ~late[c]

(* What comes next, or how the command ends.                               *)
Goto(c, p) == at' = [at EXCEPT ![c] = p]

FirstPlace(l) ==
    CASE l.kind \in Gated /\ l.reason /\ ~ReasonFlag -> "unknown flag"
      [] l.kind \in Gated /\ (l.reason => ReasonFlag) -> "gate"
      [] l.kind = "status" -> IF l.wait THEN "await" ELSE "look"
      [] l.kind = "resume" -> "look"
      [] OTHER -> "discover"

(* The command line is parsed: a flag the command lacks is refused.        *)
Parsed(c, l, x) ==
    /\ line' = [line EXCEPT ![c] = l]
    /\ subject' = [subject EXCEPT ![c] = x]
    /\ Goto(c, FirstPlace(l))

Start(c) ==
    /\ at[c] = "idle"
    /\ \E l \in CommandLines :
          \/ l.kind \in Gated /\ Parsed(c, l, c)
          \/ l.kind = "request" /\ Parsed(c, l, "none")
          \/ /\ l.kind \in AboutExecution
             /\ \E d \in Commands : state[d] # "none" /\ Parsed(c, l, d)
          \/ /\ l.kind \in AboutGrant
             /\ \E g \in Grants : grant[g] # "none" /\ Parsed(c, l, g)
    /\ UNCHANGED <<services, noted, late>>

(* The labels of the workflow are read.  If they cannot be, the gate is    *)
(* skipped.                                                                *)
ReadLabels(c) ==
    /\ Calls(c, "gate")
    /\ labels' = [labels EXCEPT ![c] = TRUE]
    /\ Goto(c, IF gated THEN "discover" ELSE "start")
    /\ UNCHANGED <<services, given, via, callback, late>>

LabelsUnreadable(c) ==
    /\ at[c] = "gate"
    /\ Goto(c, "start")
    /\ UNCHANGED <<services, given, noted, late>>

(* Discover with the branch of `pam request` forgotten.                    *)
DiscoverToDecide(c) ==
    /\ Calls(c, "discover")
    /\ Goto(c, IF Kind(c) \in Gated THEN "search" ELSE "decide")
    /\ UNCHANGED <<services, given, noted, late>>

(* The entitlement is found, or was given.                                 *)
Discover(c) ==
    /\ Calls(c, "discover")
    /\ Goto(c, IF Kind(c) \in Gated THEN "search"
               ELSE IF Kind(c) = "request" THEN "ask" ELSE "decide")
    /\ UNCHANGED <<services, given, noted, late>>

GrantUsable(s) == s = "ACTIVE"

(* EnsurePAMGrant: an active grant, or one to be asked for.                *)
SearchGrants(c) ==
    /\ Calls(c, "search")
    /\ \/ \E g \in Grants :
             /\ GrantUsable(grant[g])
             /\ via' = [via EXCEPT ![c] = g]
             /\ Goto(c, "start")
       \/ /\ \A g \in Grants : ~GrantUsable(grant[g])
          /\ Goto(c, IF line[c].reason THEN "prompt" ELSE "no reason")
          /\ UNCHANGED via
    /\ UNCHANGED <<services, given, labels, callback, late>>

(* Request a PAM grant? [Y/n], where the end of input counts as yes.       *)
Answer(c) ==
    /\ at[c] = "prompt"
    /\ Goto(c, "ask") \/ Goto(c, "error")
    /\ UNCHANGED <<services, given, noted, late>>

(* AfterGrant that refuses a denied grant only.                            *)
AfterGrantNotDenied(c, s) ==
    IF Kind(c) = "request" THEN "ok" ELSE IF s = "DENIED" THEN "error" ELSE "start"

(* What a command makes of the state s of the grant it asked for: the gate *)
(* lets an active one pass, `pam request` prints whatever there is.        *)
AfterGrant(c, s) ==
    IF Kind(c) = "request" THEN "ok" ELSE IF GrantUsable(s) THEN "start" ELSE "error"

(* A grant that needs no approval starts to be activated at once.          *)
CreatedAs(g, s) ==
    /\ grant[g] = "none" /\ s \in {"APPROVAL_AWAITED", "ACTIVATING"}
    /\ grant' = [grant EXCEPT ![g] = s]

Ask(c) ==
    /\ Calls(c, "ask")
    /\ \E g \in Grants, s \in GrantStates :
          /\ CreatedAs(g, s)
          /\ via' = [via EXCEPT ![c] = g]
          /\ Goto(c, IF s = "APPROVAL_AWAITED" /\ (Kind(c) = "request" => line[c].wait)
                     THEN "awaitGrant" ELSE AfterGrant(c, s))
    /\ UNCHANGED <<gated, executions, given, labels, callback, late>>

(* The grant is created and the answer is lost.                            *)
AskLost(c) ==
    /\ Calls(c, "ask")
    /\ \E g \in Grants, s \in GrantStates : CreatedAs(g, s)
    /\ Goto(c, "error")
    /\ UNCHANGED <<gated, executions, given, noted, late>>

(* GrantPolled after a single poll.                                        *)
PolledOnce(s) == TRUE

(* WaitForGrant: polls that find the grant undecided change nothing.       *)
GrantPolled(s) == s # "APPROVAL_AWAITED"

AwaitGrant(c) ==
    /\ Calls(c, "awaitGrant")
    /\ GrantPolled(grant[via[c]])
    /\ Goto(c, AfterGrant(c, grant[via[c]]))
    /\ UNCHANGED <<services, given, noted, late>>

(* IAM lets the caller start a gated workflow under a grant.               *)
Created(c) ==
    /\ gated => \E g \in Grants : grant[g] = "ACTIVE"
    /\ \E s \in Running : state' = [state EXCEPT ![c] = s]
    /\ UNCHANGED <<gated, status, made, pending, grant>>

Execute(c) ==
    /\ Calls(c, "start")
    /\ Created(c)
    /\ Goto(c, IF Kind(c) = "run" /\ ~line[c].wait THEN "ok" ELSE "await")
    /\ UNCHANGED <<given, noted, late>>

(* The execution is created and the answer is lost.                        *)
ExecuteLost(c) ==
    /\ Calls(c, "start")
    /\ Created(c)
    /\ Goto(c, "error")
    /\ UNCHANGED <<given, noted, late>>

(* The handlers of the commands that run a workflow put the arguments      *)
(* together, pass the gate, run the workflow, and judge the execution x    *)
(* that is over; json: the result is printed as it is.                     *)
ErrorIf(failed) == IF failed THEN "error" ELSE "ok"

JudgeGet(x) == ErrorIf(state[x] = "FAILED")
JudgeDescribe(x) == ErrorIf(state[x] = "FAILED")
JudgeEtcd(x) == ErrorIf(state[x] = "FAILED")
JudgeRun(x) == ErrorIf(state[x] = "FAILED")
JudgeLogs(x, json) ==
    ErrorIf(state[x] = "FAILED" \/ (~json /\ status[x] = "container_required"))
JudgeDelete(x, json) == ErrorIf(~json /\ status[x] = "error")
JudgeRolloutRestart(x, json) == ErrorIf(~json /\ status[x] = "error")
JudgeExpandVolume(x, json) == ErrorIf(~json /\ status[x] = "error")

Judge(c, x) ==
    CASE Kind(c) = "get" -> JudgeGet(x)
      [] Kind(c) = "describe" -> JudgeDescribe(x)
      [] Kind(c) = "etcd" -> JudgeEtcd(x)
      [] Kind(c) = "run" -> JudgeRun(x)
      [] Kind(c) = "logs" -> JudgeLogs(x, line[c].json)
      [] Kind(c) = "delete" -> JudgeDelete(x, line[c].json)
      [] Kind(c) = "rollout-restart" -> JudgeRolloutRestart(x, line[c].json)
      [] Kind(c) = "expand-volume" -> JudgeExpandVolume(x, line[c].json)
      [] OTHER -> "ok"                 \* `wf status` and `wf resume` print it

(* ExecutionPolled where only ACTIVE counts as running.                    *)
QueuedIsOver(s) == s # "ACTIVE"

(* WaitForCompletion: polls that find the execution running change nothing *)
ExecutionPolled(s) == s \notin {"ACTIVE", "QUEUED"}

AwaitExecution(c) ==
    /\ Calls(c, "await")
    /\ ExecutionPolled(state[subject[c]])
    /\ Goto(c, Judge(c, subject[c]))
    /\ UNCHANGED <<services, given, noted, late>>

(* `wf status` without --wait, and the first step of `wf resume`.          *)
Look(c) ==
    /\ Calls(c, "look")
    /\ Goto(c, IF Kind(c) = "status" THEN "ok"
               ELSE IF state[subject[c]] = "ACTIVE" THEN "list" ELSE "error")
    /\ UNCHANGED <<services, given, noted, late>>

(* The first of the pending callbacks, in the order of the service.        *)
ListCallbacks(c) ==
    /\ Calls(c, "list")
    /\ \/ \E k \in pending[subject[c]] :
             callback' = [callback EXCEPT ![c] = k] /\ Goto(c, "trigger")
       \/ pending[subject[c]] = {} /\ Goto(c, "error") /\ UNCHANGED callback
    /\ UNCHANGED <<services, given, via, labels, late>>

Resumed(c) == Goto(c, IF line[c].wait THEN "await" ELSE "ok")
Consumed(c) == pending' = [pending EXCEPT ![subject[c]] = @ \ {callback[c]}]

(* TriggerCallback that does not check the status of the response.         *)
TriggerUnchecked(c) ==
    /\ Calls(c, "trigger")
    /\ Consumed(c) /\ Resumed(c)
    /\ UNCHANGED <<gated, state, status, made, grant, given, noted, late>>

(* The answer may be lost; a callback that is gone answers an error.       *)
TriggerCallback(c) ==
    /\ Calls(c, "trigger")
    /\ IF callback[c] \in pending[subject[c]]
       THEN Consumed(c) /\ (Resumed(c) \/ Goto(c, "error"))
       ELSE Goto(c, "error") /\ UNCHANGED pending
    /\ UNCHANGED <<gated, state, status, made, grant, given, noted, late>>

(* `pam approve`, `deny` and `revoke` on the grant they were given: what   *)
(* they call moves a grant from one state to another, or fails.  The       *)
(* answer may be lost; a revocation is an operation to wait for.           *)
Decision ==
    [approve |-> [from |-> "APPROVAL_AWAITED", to |-> "ACTIVATING", then |-> "ok"],
     deny    |-> [from |-> "APPROVAL_AWAITED", to |-> "DENIED", then |-> "ok"],
     revoke  |-> [from |-> "ACTIVE", to |-> "REVOKING", then |-> "revoking"]]

Decide(c) ==
    /\ Calls(c, "decide")
    /\ \E k \in {"approve", "deny", "revoke"} :
          /\ Kind(c) = k
          /\ IF grant[subject[c]] = Decision[k].from
             THEN /\ grant' = [grant EXCEPT ![subject[c]] = Decision[k].to]
                  /\ Goto(c, Decision[k].then) \/ Goto(c, "error")
             ELSE Goto(c, "error") /\ UNCHANGED grant
    /\ UNCHANGED <<gated, executions, given, noted, late>>

(* Revoked without waiting for the operation.                              *)
RevocationStarted(c) ==
    /\ Calls(c, "revoking")
    /\ Goto(c, "ok")
    /\ UNCHANGED <<services, given, noted, late>>

Revoked(c) ==
    /\ Calls(c, "revoking") /\ grant[subject[c]] = "REVOKED"
    /\ Goto(c, "ok")
    /\ UNCHANGED <<services, given, noted, late>>

GrantStatus(c) ==
    /\ Calls(c, "decide") /\ Kind(c) = "grantStatus"
    /\ Goto(c, "ok")
    /\ UNCHANGED <<services, given, noted, late>>

(* Steps where a failing call, or the context, ends the command with an    *)
(* error.  At the gate that is the call that makes the client: labels that *)
(* cannot be read end nothing.                                             *)
Failing(c) == Active(c) /\ at[c] # "prompt"

CallFails(c) ==
    /\ Failing(c) /\ ~late[c]
    /\ Goto(c, "error")
    /\ UNCHANGED <<services, given, noted, late>>

(* Expire when the calls are given the context without the deadline.       *)
NoDeadline(c) == FALSE

(* The deadline passes; every later call, and every wait, ends with it.    *)
Expire(c) ==
    /\ Active(c) /\ ~late[c]
    /\ late' = [late EXCEPT ![c] = TRUE]
    /\ UNCHANGED <<services, given, at, noted>>

ContextEnds(c) ==
    /\ Failing(c) /\ late[c]
    /\ Goto(c, "error")
    /\ UNCHANGED <<services, given, noted, late>>

(* Ctrl+C, a closed terminal.                                              *)
Killed(c) ==
    /\ Active(c)
    /\ Goto(c, "killed")
    /\ UNCHANGED <<services, given, noted, late>>

Proceeds(c) ==
    \/ ReadLabels(c) \/ LabelsUnreadable(c) \/ Discover(c) \/ SearchGrants(c)
    \/ Answer(c) \/ Ask(c) \/ AskLost(c) \/ AwaitGrant(c)
    \/ Execute(c) \/ ExecuteLost(c) \/ AwaitExecution(c)
    \/ Look(c) \/ ListCallbacks(c) \/ TriggerCallback(c)
    \/ Decide(c) \/ Revoked(c) \/ GrantStatus(c)

-----------------------------------------------------------------------------
(* The services.                                                           *)

commandVars == <<given, at, noted, late>>

(* Activation, expiry, and approvers who use the console.                  *)
GrantSteps ==
    {<<"APPROVAL_AWAITED", "ACTIVATING">>, <<"APPROVAL_AWAITED", "DENIED">>,
     <<"APPROVAL_AWAITED", "EXPIRED">>, <<"ACTIVATING", "ACTIVE">>,
     <<"ACTIVATING", "ACTIVATION_FAILED">>, <<"ACTIVE", "ENDED">>,
     <<"ACTIVE", "REVOKING">>, <<"REVOKING", "REVOKED">>}

GrantMoves(g) ==
    /\ \E s \in GrantStates :
          <<grant[g], s>> \in GrantSteps /\ grant' = [grant EXCEPT ![g] = s]
    /\ UNCHANGED <<gated, executions, commandVars>>

ExecutionRuns(x) ==
    /\ state[x] = "QUEUED"
    /\ state' = [state EXCEPT ![x] = "ACTIVE"]
    /\ UNCHANGED <<gated, status, made, pending, grant, commandVars>>

ExecutionWaits(x) ==
    /\ state[x] = "ACTIVE" /\ made[x] < MaxCallbacks
    /\ made' = [made EXCEPT ![x] = @ + 1]
    /\ pending' = [pending EXCEPT ![x] = @ \cup {made[x] + 1}]
    /\ UNCHANGED <<gated, state, status, grant, commandVars>>

ExecutionEnds(x) ==
    /\ state[x] \in Running
    /\ \/ /\ state[x] = "ACTIVE" /\ pending[x] = {}
          /\ state' = [state EXCEPT ![x] = "SUCCEEDED"]
          /\ \E r \in Statuses : status' = [status EXCEPT ![x] = r]
          /\ UNCHANGED pending
       \/ /\ \E s \in {"FAILED", "CANCELLED"} : state' = [state EXCEPT ![x] = s]
          /\ pending' = [pending EXCEPT ![x] = {}]
          /\ UNCHANGED status
    /\ UNCHANGED <<gated, made, grant, commandVars>>

CommandStep(c) ==
    \/ Start(c) \/ Proceeds(c)
    \/ CallFails(c) \/ Expire(c) \/ ContextEnds(c) \/ Killed(c)

ExecutionStep(x) == ExecutionRuns(x) \/ ExecutionWaits(x) \/ ExecutionEnds(x)

Next ==
    \/ \E c \in Commands : CommandStep(c) \/ ExecutionStep(c)
    \/ \E g \in Grants : GrantMoves(g)

Spec == Init /\ [][Next]_vars

(* A command that can go on does, its operator answers, and time passes.   *)
(* Nothing obliges a grant to be decided or an execution to end.           *)
Fairness ==
    \A c \in Commands :
        WF_vars(Proceeds(c)) /\ WF_vars(Expire(c)) /\ WF_vars(ContextEnds(c))

FairSpec == Spec /\ Fairness

-----------------------------------------------------------------------------
(* Properties.                                                             *)

(* checkPAMGate and EnsurePAMGrant: an execution of a gated workflow whose *)
(* labels the command could read was started after a grant it found, or    *)
(* asked for, had become active; not on one that was refused, is still     *)
(* undecided or failed to be activated.                                    *)
GateHeld ==
    \A c \in Commands :
        state[c] # "none" /\ gated /\ labels[c] =>
            via[c] \in Grants /\ grant[via[c]] \in Activated

WaitsForExecution(c) ==
    Kind(c) \in Readers \cup Mutators
        \/ (Kind(c) \in AboutExecution \cup {"run"} /\ line[c].wait)

(* WaitForCompletion, WaitForGrant: a command that was to wait and ended   *)
(* well left nothing behind that was still running or still undecided, and *)
(* get, describe, logs, etcd and `wf run` no execution that failed.        *)
WaitsSettle ==
    \A c \in Commands : at[c] = "ok" =>
        /\ WaitsForExecution(c) =>
              /\ state[subject[c]] \in Terminal
              /\ Kind(c) \in Readers \cup {"run"} => state[c] # "FAILED"
        /\ Kind(c) = "request" /\ line[c].wait => grant[via[c]] # "APPROVAL_AWAITED"

(* `wf resume`: one that says the workflow resumes, or waits for its end,  *)
(* has used up the callback it saw in the list, and it alone has, however  *)
(* many operators saw the same list.                                       *)
ResumesTakeEffectOnce ==
    LET resumed == {c \in Commands : Kind(c) = "resume" /\ at[c] \in {"ok", "await"}}
    IN  /\ \A c \in resumed :
               callback[c] \in (1 .. made[subject[c]]) \ pending[subject[c]]
        /\ \A c, d \in resumed :
               c # d /\ subject[c] = subject[d] => callback[c] # callback[d]

(* `pam approve`, `deny` and `revoke`: what one of them reported is what   *)
(* happened to the grant and stays so, whoever else decides on it.         *)
VerdictsStand ==
    \A c \in Commands : at[c] = "ok" =>
        /\ Kind(c) = "approve" =>
              grant[subject[c]] \in Activated \cup {"ACTIVATING", "ACTIVATION_FAILED"}
        /\ Kind(c) = "deny" => grant[subject[c]] = "DENIED"
        /\ Kind(c) = "revoke" => grant[subject[c]] = "REVOKED"

(* Every command that was started ends, although grants may never be       *)
(* decided and executions may wait for a callback for ever: context and    *)
(* deadline reach every wait.  Each runs once, so all end together.        *)
CommandsEnd == (\E c \in Commands : Active(c)) ~> \A c \in Commands : ~Active(c)

(* delete, rollout-restart, expand-volume: the command prints that the     *)
(* resource was deleted, restarted or expanded (without -o json) only if   *)
(* the execution succeeded and its result does not say otherwise.          *)
MutationsReported ==
    \A c \in Commands :
        at[c] = "ok" /\ Kind(c) \in Mutators /\ ~line[c].json =>
            state[c] = "SUCCEEDED" /\ status[c] # "error"
=============================================================================
