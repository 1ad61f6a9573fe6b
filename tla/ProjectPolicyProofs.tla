------------------------- MODULE ProjectPolicyProofs -------------------------
(***************************************************************************)
(* Proofs about the get-modify-set protocol of the project policy, for any *)
(* sets of clients and grants and any bound on the writes.                 *)
(***************************************************************************)
EXTENDS ProjectPolicy, TLAPS

(* The initial state satisfies the inductive invariant.                    *)
LEMMA PolicyInitInv == PolicyInit => PolicyInv
  BY DEF PolicyInit, PolicyInv, PolicyTypeOK, FreshBase, PastEtags, Calls, NoCall

(* Every step of the protocol preserves the inductive invariant.  The      *)
(* clients' and the server's steps are stated one by one, because a        *)
(* specification that composes the protocol needs them one by one.         *)
LEMMA GetPolicyInv ==
  ASSUME PolicyInv, NEW c \in Clients, NEW op \in {"add", "remove"},
         NEW G \in SUBSET (Grants \ Foreign), GetPolicy(c, op, G)
  PROVE  PolicyInv'
  <1> USE DEF PolicyInv
  <1>1. PolicyTypeOK'
    BY DEF PolicyTypeOK, Calls, GetPolicy
  <1>2. FreshBase'
    BY DEF FreshBase, PolicyTypeOK, Calls, GetPolicy
  <1>3. PastEtags'
    BY DEF PastEtags, PolicyTypeOK, Calls, GetPolicy
  <1>4. QED
    BY <1>1, <1>2, <1>3

LEMMA SetPolicyInv ==
  ASSUME PolicyInv, NEW c \in Clients, SetPolicy(c)
  PROVE  PolicyInv'
  <1> USE DEF PolicyInv
  <1>1. Modified(call[c].op, call[c].base, call[c].grants) \subseteq Grants
    BY DEF Modified, PolicyTypeOK, Calls
  <1>2. PolicyTypeOK'
    BY <1>1 DEF PolicyTypeOK, Calls, NoCall, SetPolicy
  <1>3. FreshBase'
    BY DEF FreshBase, PastEtags, PolicyTypeOK, Calls, NoCall, SetPolicy
  <1>4. PastEtags'
    BY DEF PastEtags, PolicyTypeOK, Calls, NoCall, SetPolicy
  <1>5. QED
    BY <1>2, <1>3, <1>4

LEMMA AbandonCallInv ==
  ASSUME PolicyInv, NEW c \in Clients, AbandonCall(c)
  PROVE  PolicyInv'
  <1> USE DEF PolicyInv
  <1>1. PolicyTypeOK'
    BY DEF PolicyTypeOK, Calls, NoCall, AbandonCall
  <1>2. FreshBase'
    BY DEF FreshBase, PolicyTypeOK, Calls, NoCall, AbandonCall
  <1>3. PastEtags'
    BY DEF PastEtags, PolicyTypeOK, Calls, NoCall, AbandonCall
  <1>4. QED
    BY <1>1, <1>2, <1>3

LEMMA SetConflictInv ==
  ASSUME PolicyInv, NEW c \in Clients, SetConflict(c)
  PROVE  PolicyInv'
  BY AbandonCallInv DEF SetConflict, AbandonCall

LEMMA AdminEditInv ==
  ASSUME PolicyInv, NEW g \in Foreign, AdminEdit(g)
  PROVE  PolicyInv'
  <1> USE DEF PolicyInv
  <1>1. PolicyTypeOK'
    BY ForeignAssumption DEF PolicyTypeOK, AdminEdit
  <1>2. FreshBase'
    BY DEF FreshBase, PastEtags, PolicyTypeOK, Calls, AdminEdit
  <1>3. PastEtags'
    BY DEF PastEtags, PolicyTypeOK, Calls, AdminEdit
  <1>4. QED
    BY <1>1, <1>2, <1>3

(* The invariant survives steps that leave the policy and the calls alone. *)
LEMMA PolicyStutterInv == PolicyInv /\ UNCHANGED policyVars => PolicyInv'
  BY DEF PolicyInv, PolicyTypeOK, FreshBase, PastEtags, policyVars

LEMMA PolicyNextInv == PolicyInv /\ [PolicyNext]_policyVars => PolicyInv'
  <1> SUFFICES ASSUME PolicyInv, [PolicyNext]_policyVars
               PROVE  PolicyInv'
    OBVIOUS
  <1>1. ASSUME NEW c \in Clients, NEW op \in {"add", "remove"},
               NEW G \in SUBSET (Grants \ Foreign), GetPolicy(c, op, G)
        PROVE  PolicyInv'
    BY <1>1, GetPolicyInv
  <1>2. ASSUME NEW c \in Clients, SetPolicy(c)
        PROVE  PolicyInv'
    BY <1>2, SetPolicyInv
  <1>3. ASSUME NEW c \in Clients, SetConflict(c)
        PROVE  PolicyInv'
    BY <1>3, SetConflictInv
  <1>4. ASSUME NEW c \in Clients, AbandonCall(c)
        PROVE  PolicyInv'
    BY <1>4, AbandonCallInv
  <1>5. ASSUME NEW g \in Foreign, AdminEdit(g)
        PROVE  PolicyInv'
    BY <1>5, AdminEditInv
  <1>6. CASE UNCHANGED policyVars
    BY <1>6, PolicyStutterInv
  <1>7. QED
    BY <1>1, <1>2, <1>3, <1>4, <1>5, <1>6 DEF PolicyNext

(* No client ever holds a stale policy under a current etag, for any       *)
(* number of commands and grants: the code's read object plus its etag is  *)
(* all the state atomicity needs.                                          *)
THEOREM PolicySafe == PolicySpec => []PolicyInv
  <1>1. QED
    BY PolicyInitInv, PolicyNextInv, PTL DEF PolicySpec

-----------------------------------------------------------------------------
(* Each step of the protocol is a step of the abstract policy, or leaves   *)
(* what the abstract policy sees unchanged.                                *)
LEMMA GetPolicyAsks ==
  ASSUME PolicyInv, NEW c \in Clients, NEW op \in {"add", "remove"},
         NEW G \in SUBSET (Grants \ Foreign), GetPolicy(c, op, G)
  PROVE  Atomic!Ask(c)
  <1> DEFINE req == [op |-> op, grants |-> G]
  <1>1. req \in Atomic!Requests /\ req.op # "none"
    BY DEF Atomic!Requests
  <1>2. Asked[c] = Atomic!NoRequest
    BY DEF GetPolicy, Asked, NoCall, Atomic!NoRequest
  <1>3. Asked' = [Asked EXCEPT ![c] = req]
    BY DEF GetPolicy, Asked, PolicyInv, PolicyTypeOK
  <1>4. UNCHANGED policy
    BY DEF GetPolicy
  <1>5. QED
    BY <1>1, <1>2, <1>3, <1>4 DEF Atomic!Ask

LEMMA EndOfCall ==
  ASSUME PolicyInv, NEW c \in Clients, call' = [call EXCEPT ![c] = NoCall]
  PROVE  Asked' = [Asked EXCEPT ![c] = Atomic!NoRequest]
  BY DEF Asked, NoCall, PolicyInv, PolicyTypeOK, Atomic!NoRequest

LEMMA PendingIsAsked ==
  ASSUME PolicyInv, NEW c \in Clients, call[c] # NoCall
  PROVE  Asked[c] # Atomic!NoRequest
  BY DEF Asked, PolicyInv, PastEtags, Atomic!NoRequest

LEMMA SetPolicyTakesEffect ==
  ASSUME PolicyInv, NEW c \in Clients, SetPolicy(c)
  PROVE  Atomic!TakeEffect(c)
  <1>1. Asked[c] # Atomic!NoRequest
    BY PendingIsAsked DEF SetPolicy
  <1>2. call[c].base = policy
    BY DEF SetPolicy, PolicyInv, FreshBase, PastEtags
  <1>3. policy' = Atomic!Applied(Asked[c], policy)
    BY <1>2 DEF SetPolicy, Modified, Asked, Atomic!Applied
  <1>4. Asked' = [Asked EXCEPT ![c] = Atomic!NoRequest]
    BY EndOfCall DEF SetPolicy
  <1>5. QED
    BY <1>1, <1>3, <1>4 DEF Atomic!TakeEffect

LEMMA AbandonCallDrops ==
  ASSUME PolicyInv, NEW c \in Clients, call[c] # NoCall, AbandonCall(c)
  PROVE  Atomic!Drop(c)
  BY PendingIsAsked, EndOfCall DEF AbandonCall, Atomic!Drop

LEMMA AdminEditIsForeign ==
  ASSUME PolicyInv, NEW g \in Foreign, AdminEdit(g)
  PROVE  Atomic!AdminEdit
  <1>1. policy' \subseteq Grants
    BY ForeignAssumption DEF AdminEdit, PolicyInv, PolicyTypeOK
  <1>2. policy' \ Foreign = policy \ Foreign
    BY DEF AdminEdit
  <1>3. UNCHANGED Asked
    BY DEF AdminEdit, Asked
  <1>4. QED
    BY <1>1, <1>2, <1>3 DEF Atomic!AdminEdit

LEMMA PolicyStepRefines ==
  PolicyInv /\ [PolicyNext]_policyVars => [Atomic!Next]_(Atomic!vars)
  <1> SUFFICES ASSUME PolicyInv, [PolicyNext]_policyVars
               PROVE  [Atomic!Next]_(Atomic!vars)
    OBVIOUS
  <1>1. ASSUME NEW c \in Clients, NEW op \in {"add", "remove"},
               NEW G \in SUBSET (Grants \ Foreign), GetPolicy(c, op, G)
        PROVE  Atomic!Next
    BY <1>1, GetPolicyAsks DEF Atomic!Next
  <1>2. ASSUME NEW c \in Clients, SetPolicy(c)
        PROVE  Atomic!Next
    BY <1>2, SetPolicyTakesEffect DEF Atomic!Next
  <1>3. ASSUME NEW c \in Clients, SetConflict(c)
        PROVE  Atomic!Next
    BY <1>3, AbandonCallDrops DEF SetConflict, AbandonCall, Atomic!Next
  <1>4. ASSUME NEW c \in Clients, call[c] # NoCall, AbandonCall(c)
        PROVE  Atomic!Next
    BY <1>4, AbandonCallDrops DEF Atomic!Next
  <1>5. ASSUME NEW g \in Foreign, AdminEdit(g)
        PROVE  Atomic!Next
    BY <1>5, AdminEditIsForeign DEF Atomic!Next
  <1>6. CASE UNCHANGED policyVars
    BY <1>6 DEF policyVars, Asked, Atomic!vars
  <1>7. QED
    BY <1>1, <1>2, <1>3, <1>4, <1>5, <1>6 DEF PolicyNext

LEMMA PolicyInitRefines == PolicyInit => Atomic!Init
  BY DEF PolicyInit, NoCall, Asked, Atomic!Init, Atomic!NoRequest

(* The compound policy operations implement the atomic ones.               *)
THEOREM AtomicTheorem == PolicySpec => GetModifySetIsAtomic
  <1>1. QED
    BY PolicyInitRefines, PolicyStepRefines, PolicySafe, PTL
    DEF PolicySpec, GetModifySetIsAtomic, Atomic!Spec
=============================================================================
