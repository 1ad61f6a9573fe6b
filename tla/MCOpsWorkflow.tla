---------------------------- MODULE MCOpsWorkflow ----------------------------
(* Instances of OpsWorkflow for TLC: who runs what.                        *)
EXTENDS OpsWorkflow, FiniteSetsExt, Sequences, TLC

Line(kind) == [kind |-> kind, wait |-> TRUE, reason |-> kind = "request", json |-> FALSE]

(* Requesters and approvers, and commands that meet the gate: one with a   *)
(* reason, as EnsurePAMGrant takes one, the others without.                *)
GrantLines == {Line(k) : k \in AboutGrant \cup Readers \cup {"delete", "request"}}
                 \cup {[Line("run") EXCEPT !.reason = TRUE],
                       [Line("logs") EXCEPT !.json = TRUE],
                       [Line("request") EXCEPT !.wait = FALSE]}

(* One command of every sort, as they are now: none that meets the gate    *)
(* knows --reason.                                                         *)
EveryLine == {Line(k) : k \in {"get", "delete"} \cup (Kinds \ Gated)}

Detached == [Line("run") EXCEPT !.wait = FALSE]

AllLines == EveryLine \cup {Detached} \cup
                {Line("resume"), [Line("resume") EXCEPT !.wait = FALSE], Line("status")}

MutatorLines == {Line(k) : k \in Mutators}

(* Which of two commands is which makes no difference.                     *)
LinesInOrder == FoldSet(LAMBDA x, others : Append(others, x), <<>>, EveryLine)
InOrder(x, y) == \E i \in DOMAIN LinesInOrder : \E j \in i .. Len(LinesInOrder) :
    x \in {LinesInOrder[i], NoLine} /\ y \in {LinesInOrder[j], NoLine}

(* Two commands of any sort, or two operators who resume what a third      *)
(* started: all the commands that can meet at one execution.  A second     *)
(* callback matters to the operators only.                                 *)
Meeting ==
    \/ /\ line["c1"] = Detached /\ {line["c2"].kind, line["c3"].kind} \subseteq {"none", "resume"}
       /\ line["c2"] = NoLine => line["c3"] = NoLine
    \/ /\ \/ line["c1"] = Detached
          \/ InOrder(line["c1"], line["c2"])
       /\ line["c3"] = NoLine
       /\ \A c \in Commands : made[c] <= 1

StaysMeeting == Meeting'

(* Commands, and grants, are interchangeable.                              *)
Alike == Permutations(Commands) \cup Permutations(Grants)
==============================================================================
