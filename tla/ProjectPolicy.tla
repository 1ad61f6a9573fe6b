---------------------------- MODULE ProjectPolicy ----------------------------
(***************************************************************************)
(* The get-modify-set protocol of the project IAM policy: the compound     *)
(* operations AddProjectIAMRoles and RemoveProjectIAMRoles of              *)
(* pkg/gcp/iam/client.go, run by several processes (two command            *)
(* invocations, two operators) against one policy that other               *)
(* administrators edit too.                                                *)
(*                                                                         *)
(* The client reads the policy, changes the bindings of the object it got  *)
(* and writes the same object back, so the etag it read travels with the   *)
(* write.  The server (external) refuses a write whose etag is not the     *)
(* current one with a 409; the code does not read again.                   *)
(***************************************************************************)
EXTENDS Naturals

CONSTANTS
    Clients,      \* processes that call the compound operations
    Grants,       \* <<role, member>> pairs a project policy can hold
    Foreign,      \* grants that only other administrators touch
    MaxWrites,    \* bound: no new request once etag has reached it
    MaxEdits      \* bound: no other administrator once etag has reached it

ASSUME ForeignAssumption == Foreign \subseteq Grants
ASSUME BoundsAssumption == MaxWrites \in Nat /\ MaxEdits \in Nat

VARIABLES
    policy,       \* the project's grants, as the server holds them
    etag,         \* version of policy
    call          \* call[c]: what client c carries between its get and its set

policyVars == <<policy, etag, call>>

NoCall == [op |-> "none", grants |-> {}, base |-> {}, etag |-> 0]

Calls == [op : {"none", "add", "remove"}, grants : SUBSET Grants,
          base : SUBSET Grants, etag : Nat]

PolicyTypeOK ==
    /\ policy \subseteq Grants
    /\ etag \in Nat
    /\ call \in [Clients -> Calls]

-----------------------------------------------------------------------------
(* AddProjectPolicyMember and RemoveProjectPolicyMember, over all the      *)
(* roles of the request: the bindings after the loop, and the grants the   *)
(* loop reports as added or removed.                                       *)
Modified(op, p, G) == IF op = "add" THEN p \cup G ELSE p \ G

Changed(op, p, G) == IF op = "add" THEN G \ p ELSE G \cap p

PolicyInit ==
    /\ policy \in SUBSET Grants
    /\ etag = 0
    /\ call = [c \in Clients |-> NoCall]

(* The get of a request that has something to change.                      *)
GetPolicy(c, op, G) ==
    /\ call[c] = NoCall
    /\ Changed(op, policy, G) # {}
    /\ call' = [call EXCEPT ![c] =
                   [op |-> op, grants |-> G, base |-> policy, etag |-> etag]]
    /\ UNCHANGED <<policy, etag>>

(* The get of a request that has nothing to change: no set is sent.        *)
GetPolicyUnchanged(c, op, G) ==
    /\ call[c] = NoCall
    /\ Changed(op, policy, G) = {}
    /\ UNCHANGED policyVars

(* Mutant: the set is sent without the etag that was read.                 *)
SetPolicyWithoutEtag(c) ==
    /\ call[c] # NoCall
    /\ policy' = Modified(call[c].op, call[c].base, call[c].grants)
    /\ etag' = etag + 1
    /\ call' = [call EXCEPT ![c] = NoCall]

(* The set, accepted by the server.                                        *)
SetPolicy(c) ==
    /\ call[c] # NoCall
    /\ call[c].etag = etag
    /\ policy' = Modified(call[c].op, call[c].base, call[c].grants)
    /\ etag' = etag + 1
    /\ call' = [call EXCEPT ![c] = NoCall]

(* The set, refused with a 409: the policy has been written since the get. *)
SetConflict(c) ==
    /\ call[c] # NoCall
    /\ call[c].etag # etag
    /\ call' = [call EXCEPT ![c] = NoCall]
    /\ UNCHANGED <<policy, etag>>

(* The request ends without effect: either call failed, or the client      *)
(* stopped between them.                                                   *)
AbandonCall(c) ==
    /\ call' = [call EXCEPT ![c] = NoCall]
    /\ UNCHANGED <<policy, etag>>

(* Another administrator adds or removes one grant.                        *)
AdminEdit(g) ==
    /\ policy' = IF g \in policy THEN policy \ {g} ELSE policy \cup {g}
    /\ etag' = etag + 1
    /\ UNCHANGED call

PolicyNext ==
    \/ \E c \in Clients :
        \/ /\ etag < MaxWrites
           /\ \E op \in {"add", "remove"}, G \in SUBSET (Grants \ Foreign) :
                GetPolicy(c, op, G)
        \/ SetPolicy(c)
        \/ SetConflict(c)
        \/ call[c] # NoCall /\ AbandonCall(c)
    \/ \E g \in Foreign : etag < MaxEdits /\ AdminEdit(g)

PolicySpec == PolicyInit /\ [][PolicyNext]_policyVars

-----------------------------------------------------------------------------
(* No client holds an older policy with a current etag: what the modified  *)
(* bindings were computed from is the policy they would replace.           *)
FreshBase ==
    \A c \in Clients :
        call[c].op # "none" /\ call[c].etag = etag => call[c].base = policy

(* An etag that was read is never ahead of the server's, and a request     *)
(* names the program's own grants.                                         *)
PastEtags ==
    \A c \in Clients :
        /\ call[c].etag <= etag
        /\ call[c].grants \cap Foreign = {}
        /\ call[c].op = "none" => call[c] = NoCall

PolicyInv == PolicyTypeOK /\ FreshBase /\ PastEtags

(* The concrete request as the abstract specification sees it.             *)
Asked == [c \in Clients |-> [op |-> call[c].op, grants |-> call[c].grants]]

Atomic == INSTANCE AtomicPolicy WITH asked <- Asked

(* The compound operations are atomic: whatever the interleaving of gets,  *)
(* sets, lost clients and other administrators, the policy changes only as *)
(* if each request had read and written it in a single step                *)
(* (client.go:240 and client.go:264, "It performs get-modify-set           *)
(* atomically").                                                           *)
GetModifySetIsAtomic == Atomic!Spec
=============================================================================
