---------------------------- MODULE AtomicPolicy ----------------------------
(***************************************************************************)
(* What the compound policy operations of pkg/gcp/iam/client.go promise:   *)
(* AddProjectIAMRoles and RemoveProjectIAMRoles "perform get-modify-set    *)
(* atomically".  A client asks for grants to be added or removed; the      *)
(* request either takes effect in one step, on the policy as it is in that *)
(* step, or has no effect.  Grants outside the program's reach are edited  *)
(* by other administrators, one at a time.                                 *)
(***************************************************************************)
CONSTANTS
    Clients,      \* processes that call the compound operations
    Grants,       \* <<role, member>> pairs a project policy can hold
    Foreign       \* grants that only other administrators touch

VARIABLES
    policy,       \* the project's grants
    asked         \* asked[c]: the request client c has in flight

vars == <<policy, asked>>

Requests == [op : {"none", "add", "remove"}, grants : SUBSET Grants]

NoRequest == [op |-> "none", grants |-> {}]

(* The policy p after the request.                                         *)
Applied(req, p) == IF req.op = "add" THEN p \cup req.grants ELSE p \ req.grants

Init ==
    /\ policy \subseteq Grants
    /\ asked = [c \in Clients |-> NoRequest]

Ask(c) ==
    /\ asked[c] = NoRequest
    /\ \E req \in Requests :
        /\ req.op # "none"
        /\ asked' = [asked EXCEPT ![c] = req]
    /\ UNCHANGED policy

TakeEffect(c) ==
    /\ asked[c] # NoRequest
    /\ policy' = Applied(asked[c], policy)
    /\ asked' = [asked EXCEPT ![c] = NoRequest]

Drop(c) ==
    /\ asked[c] # NoRequest
    /\ asked' = [asked EXCEPT ![c] = NoRequest]
    /\ UNCHANGED policy

AdminEdit ==
    /\ policy' \subseteq Grants
    /\ policy' \ Foreign = policy \ Foreign
    /\ UNCHANGED asked

Next ==
    \/ \E c \in Clients : Ask(c) \/ TakeEffect(c) \/ Drop(c)
    \/ AdminEdit

Spec == Init /\ [][Next]_vars
=============================================================================
