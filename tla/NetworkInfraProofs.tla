-------------------------- MODULE NetworkInfraProofs --------------------------
(***************************************************************************)
(* Proofs about the network commands, for any sets of runs, any versions,  *)
(* any states the resources start in and any number of failures.           *)
(***************************************************************************)
EXTENDS NetworkInfra, TLAPS

(* The four creations share Insert.                                        *)
LEMMA InsertSteps ==
  ASSUME TypeOK, NEW r \in Runs,
         CreateNetwork(r) \/ CreateFirewallRule(r) \/ CreateSubnet(r) \/ CreateRouter(r)
  PROVE  /\ \E x \in Resources \ {"legacy"} : Insert(r, x)
         /\ marked' \in BOOLEAN
  <1>1. /\ "network" \in Resources \ {"legacy"} /\ "firewall" \in Resources \ {"legacy"}
        /\ "subnet" \in Resources \ {"legacy"} /\ "router" \in Resources \ {"legacy"}
    BY DEF Resources
  <1>2. \E x \in Resources \ {"legacy"} : Insert(r, x)
    BY <1>1, Zenon DEF CreateNetwork, CreateFirewallRule, CreateSubnet, CreateRouter
  <1>3. marked' \in BOOLEAN
    BY DEF CreateNetwork, CreateFirewallRule, CreateSubnet, CreateRouter, TypeOK
  <1>4. QED
    BY <1>2, <1>3

(* A step of a run leaves its position in the command it is in.            *)
LEMMA AfterGetPlaces ==
  ASSUME NEW x \in Resources \ {"legacy"}
  PROVE  AfterGet(x) \in CreatePlaces
  BY DEF AfterGet, CreatePlaces, Resources

LEMMA AfterDeletePlaces ==
  ASSUME NEW x \in Resources \cup {"nat"}
  PROVE  AfterDelete(x) \in DestroyPlaces \cup Resting
  BY DEF AfterDelete, DestroyPlaces, Resting, Resources

Errors == {"none", "failed", "inUse", "notReady", "notFound"}

(* Where run r may be.                                                     *)
PlacesOf(r) ==
    Resting \cup {p \in CreatePlaces : r \in Creates}
            \cup {p \in DestroyPlaces : r \in Destroys}

RunsTypeOK ==
    /\ pos \in [Runs -> CreatePlaces \cup DestroyPlaces \cup Resting]
    /\ \A r \in Runs : pos[r] \in PlacesOf(r)
    /\ err \in [Runs -> Errors]
    /\ faults \in 0..MaxFaults

CloudTypeOK ==
    /\ state \in [Resources -> {"none", "live", "deleting"}]
    /\ nat \in BOOLEAN
    /\ marked \in BOOLEAN
    /\ cluster \in {"none", "up", "gone"}
    /\ target \in [version : Versions, noFirewallRule : BOOLEAN, hasCPO : BOOLEAN]
    /\ disturbed \subseteq Runs

LEMMA TypeParts == TypeOK <=> CloudTypeOK /\ RunsTypeOK
  BY RunsAssumption DEF TypeOK, CloudTypeOK, RunsTypeOK, PlacesOf, Runs, Errors

LEMMA TypePartsNext == CloudTypeOK' /\ RunsTypeOK' => TypeOK'
  BY RunsAssumption DEF TypeOK, CloudTypeOK, RunsTypeOK, PlacesOf, Runs, Errors

LEMMA KeepCloudType ==
  ASSUME CloudTypeOK, KeepCloud
  PROVE  CloudTypeOK'
  BY DEF CloudTypeOK, KeepCloud, KeepWorld, cloud

LEMMA ReplyType ==
  ASSUME RunsTypeOK, NEW r \in Runs, NEW p \in PlacesOf(r), Reply(r, p)
  PROVE  RunsTypeOK'
  BY FaultsAssumption DEF RunsTypeOK, PlacesOf, Reply, Answer, ReturnError, UseFault, Errors, Resting

LEMMA RefuseType ==
  ASSUME RunsTypeOK, NEW r \in Runs, NEW e \in Errors, Refuse(r, e)
  PROVE  RunsTypeOK'
  BY DEF RunsTypeOK, PlacesOf, Refuse, ReturnError, Errors, Resting


(* Every state of the model is well formed.                                *)
LEMMA InitType == Init => TypeOK
  <1> SUFFICES ASSUME Init PROVE TypeOK
    OBVIOUS
  <1>1. CloudTypeOK
    BY InitialAssumption DEF Init, Targets, CloudTypeOK
  <1>2. RunsTypeOK
    BY FaultsAssumption DEF Init, RunsTypeOK, PlacesOf, Errors, Resting
  <1>3. QED
    BY <1>1, <1>2, TypeParts

LEMMA CreateStepType ==
  ASSUME TypeOK, NEW r \in Runs, CreateStep(r)
  PROVE  TypeOK'
  <1> USE TypeParts, TypePartsNext
  <1>1. ASSUME NEW x \in Resources \ {"legacy"}, Insert(r, x), marked' \in BOOLEAN
        PROVE  TypeOK'
    <2>1. <<"get", x>> \in PlacesOf(r)
      BY <1>1 DEF Insert, RunsTypeOK, PlacesOf, CreatePlaces, DestroyPlaces, Resting
    <2>2. RunsTypeOK'
      BY <1>1, <2>1, ReplyType, RefuseType DEF Insert, Errors, Reply
    <2>3. CloudTypeOK'
      BY <1>1 DEF Insert, KeepWorld, CloudTypeOK
    <2>4. QED
      BY <2>2, <2>3
  <1>2. ASSUME NEW x \in Resources, Get(r, x)
        PROVE  TypeOK'
    <2>1. r \in Creates /\ x # "legacy"
      BY <1>2 DEF Get, RunsTypeOK, PlacesOf, CreatePlaces, DestroyPlaces, Resting, Resources
    <2>2. AfterGet(x) \in PlacesOf(r)
      BY <2>1, AfterGetPlaces DEF PlacesOf
    <2>3. RunsTypeOK'
      BY <1>2, <2>2, ReplyType, RefuseType DEF Get, Errors, Reply
    <2>4. QED
      BY <1>2, <2>3, KeepCloudType DEF Get
  <1>3. CASE CreateNATGet(r)
    <2>1. <<"write", "output">> \in PlacesOf(r) /\ <<"patch", "nat">> \in PlacesOf(r)
      BY <1>3 DEF CreateNATGet, PlacesOf, CreatePlaces
    <2>2. RunsTypeOK'
      BY <1>3, <2>1, ReplyType, RefuseType DEF CreateNATGet, Errors, Reply
    <2>3. QED
      BY <1>3, <2>2, KeepCloudType DEF CreateNATGet
  <1>4. CASE CreateNATPatch(r)
    <2>1. <<"write", "output">> \in PlacesOf(r)
      BY <1>4 DEF CreateNATPatch, PlacesOf, CreatePlaces
    <2>2. RunsTypeOK'
      BY <1>4, <2>1, ReplyType, RefuseType DEF CreateNATPatch, Errors
    <2>3. CloudTypeOK'
      BY <1>4 DEF CreateNATPatch, KeepWorld, CloudTypeOK
    <2>4. QED
      BY <2>2, <2>3
  <1>5. CASE WriteOutput(r)
    <2>1. <<"done", "output">> \in PlacesOf(r)
      BY DEF PlacesOf, Resting
    <2>2. RunsTypeOK'
      BY <1>5, <2>1, ReplyType DEF WriteOutput, Reply
    <2>3. QED
      BY <1>5, <2>2, KeepCloudType DEF WriteOutput
  <1>6. QED
    BY <1>1, <1>2, <1>3, <1>4, <1>5, InsertSteps DEF CreateStep

LEMMA DestroyStepType ==
  ASSUME TypeOK, NEW r \in Runs, DestroyStep(r)
  PROVE  TypeOK'
  <1> USE TypeParts, TypePartsNext
  <1>1. CASE DeleteNATGet(r)
    <2>1. <<"patch", "nat">> \in PlacesOf(r) /\ AfterDelete("nat") \in PlacesOf(r)
      BY <1>1, AfterDeletePlaces DEF DeleteNATGet, PlacesOf, DestroyPlaces
    <2>2. RunsTypeOK'
      BY <1>1, <2>1, ReplyType DEF DeleteNATGet, Reply
    <2>3. QED
      BY <1>1, <2>2, KeepCloudType DEF DeleteNATGet
  <1>2. CASE DeleteNATPatch(r)
    <2>1. AfterDelete("nat") \in PlacesOf(r)
      BY <1>2, AfterDeletePlaces DEF DeleteNATPatch, PlacesOf
    <2>2. RunsTypeOK'
      BY <1>2, <2>1, ReplyType, RefuseType DEF DeleteNATPatch, Errors, Reply
    <2>3. CloudTypeOK'
      BY <1>2 DEF DeleteNATPatch, KeepWorld, CloudTypeOK
    <2>4. QED
      BY <2>2, <2>3
  <1>3. ASSUME NEW x \in Resources, Delete(r, x)
        PROVE  TypeOK'
    <2>1. r \in Destroys
      BY <1>3 DEF Delete, RunsTypeOK, PlacesOf, CreatePlaces, DestroyPlaces, Resting
    <2>2. <<"wait", x>> \in PlacesOf(r) /\ AfterDelete(x) \in PlacesOf(r)
      BY <2>1, AfterDeletePlaces DEF PlacesOf, DestroyPlaces
    <2>3. RunsTypeOK'
      BY <1>3, <2>2, ReplyType, RefuseType DEF Delete, Errors, Reply
    <2>4. CloudTypeOK'
      BY <1>3 DEF Delete, KeepWorld, CloudTypeOK
    <2>5. QED
      BY <2>3, <2>4
  <1>4. ASSUME NEW x \in Resources, WaitOperation(r, x)
        PROVE  TypeOK'
    <2>1. r \in Destroys
      BY <1>4 DEF WaitOperation, RunsTypeOK, PlacesOf, CreatePlaces, DestroyPlaces, Resting
    <2>2. AfterDelete(x) \in PlacesOf(r)
      BY <2>1, AfterDeletePlaces DEF PlacesOf
    <2>3. RunsTypeOK'
      BY <1>4, <2>2, ReplyType DEF WaitOperation, Reply
    <2>4. QED
      BY <1>4, <2>3, KeepCloudType DEF WaitOperation
  <1>5. QED
    BY <1>1, <1>2, <1>3, <1>4 DEF DestroyStep

LEMMA OtherStepsType ==
  ASSUME TypeOK, [Others \/ \E r \in Runs : Start(r) \/ Fail(r)]_vars
  PROVE  TypeOK'
  <1> USE TypeParts, TypePartsNext
  <1>1. ASSUME NEW r \in Runs, Start(r) PROVE TypeOK'
    <2>1. CloudTypeOK'
      BY <1>1 DEF Start, CloudTypeOK, Rivals, Runs, cloud
    <2>2. RunsTypeOK'
      BY <1>1 DEF Start, RunsTypeOK, PlacesOf, CreatePlaces, DestroyPlaces, Errors, Resources, Runs
    <2>3. QED
      BY <2>1, <2>2
  <1>2. ASSUME NEW r \in Runs, Fail(r) PROVE TypeOK'
    <2>1. RunsTypeOK'
      BY <1>2, FaultsAssumption DEF Fail, RunsTypeOK, PlacesOf, ReturnError, UseFault, Errors, Resting
    <2>2. QED
      BY <1>2, <2>1, KeepCloudType DEF Fail
  <1>3. CASE Others
    <2>1. RunsTypeOK'
      BY <1>3 DEF Others, OperationDone, HostCluster, CPOReconcile, DeleteCluster, RunsTypeOK, PlacesOf
    <2>2. CloudTypeOK'
      BY <1>3 DEF Others, OperationDone, HostCluster, CPOReconcile, DeleteCluster, KeepWorld, CloudTypeOK, cloud
    <2>3. QED
      BY <2>1, <2>2
  <1>4. CASE UNCHANGED vars
    BY <1>4 DEF vars, cloud, TypeOK
  <1>5. QED
    BY <1>1, <1>2, <1>3, <1>4

(* Every variable has its type, and a run is at a position of its own      *)
(* command (create.go, destroy.go).                                        *)
THEOREM TypeCorrect == Spec => []TypeOK
  <1>1. TypeOK /\ [Next]_vars => TypeOK'
    BY CreateStepType, DestroyStepType, OtherStepsType DEF Next, Progress
  <1>2. QED
    BY InitType, <1>1, PTL DEF Spec

-----------------------------------------------------------------------------
(* What a resource refers to is there (the Compute API sees to it).        *)
References ==
    /\ \A x \in Resources \ {"network"} :
            state[x] # "none" => state["network"] = "live"
    /\ nat => state["router"] # "none" /\ state["subnet"] = "live"

(* No create works beside a destroy that counts as undisturbed.            *)
CreatesAway ==
    \A r \in Destroys \ disturbed :
        Active(r) \/ Done(r) => \A c \in Creates : ~Active(c)

(* Such a destroy is past the network only when the network goes.          *)
NetworkAway ==
    \A r \in Destroys \ disturbed :
        /\ pos[r] = <<"wait", "network">> => state["network"] # "live"
        /\ Done(r) => state["network"] = "none"

GoneInv == TypeOK /\ References /\ CreatesAway /\ NetworkAway

(* A run that takes a step was active, and moves nothing but itself and    *)
(* the cloud.                                                              *)
RunMoves(r) ==
    /\ Active(r)
    /\ \A q \in Runs \ {r} : pos'[q] = pos[q]
    /\ UNCHANGED <<disturbed, cluster, target>>

LEMMA RunMovesOnly ==
  ASSUME TypeOK, NEW r \in Runs, Progress(r) \/ Fail(r)
  PROVE  RunMoves(r)
  <1> USE DEF RunMoves, Active, Reply, Refuse, Answer, ReturnError, KeepCloud, KeepWorld, TypeOK
  <1>1. ASSUME NEW x \in Resources, Insert(r, x) PROVE RunMoves(r)
    BY <1>1 DEF Insert
  <1>2. CASE \E x \in Resources : Get(r, x)
    BY <1>2 DEF Get
  <1>3. CASE CreateNATGet(r) \/ CreateNATPatch(r) \/ WriteOutput(r)
    BY <1>3 DEF CreateNATGet, CreateNATPatch, WriteOutput
  <1>4. CASE DeleteNATGet(r) \/ DeleteNATPatch(r)
    BY <1>4 DEF DeleteNATGet, DeleteNATPatch
  <1>5. CASE \E x \in Resources : Delete(r, x) \/ WaitOperation(r, x)
    BY <1>5 DEF Delete, WaitOperation
  <1>6. CASE Fail(r)
    BY <1>6 DEF Fail
  <1>7. QED
    BY <1>1, <1>2, <1>3, <1>4, <1>5, <1>6, InsertSteps, Zenon
       DEF Progress, CreateStep, DestroyStep

(* References survive every step.                                          *)
LEMMA ReferencesKept ==
  ASSUME TypeOK, References, [Next]_vars
  PROVE  References'
  <1> USE DEF References, TypeOK, Resources
  <1>1. ASSUME UNCHANGED <<state, nat>> PROVE References'
    BY <1>1
  <1>2. ASSUME NEW r \in Runs, CreateStep(r) PROVE References'
    <2>1. CASE \E x \in Resources : Insert(r, x)
      BY <2>1 DEF Insert
    <2>2. CASE (\E x \in Resources : Get(r, x)) \/ CreateNATGet(r) \/ WriteOutput(r)
      BY <1>1, <2>2 DEF Get, CreateNATGet, WriteOutput, KeepCloud, cloud
    <2>3. CASE CreateNATPatch(r)
      BY <2>3 DEF CreateNATPatch
    <2>4. QED
      BY <1>2, <2>1, <2>2, <2>3, InsertSteps DEF CreateStep
  <1>3. ASSUME NEW r \in Runs, DestroyStep(r) PROVE References'
    <2>1. CASE DeleteNATGet(r) \/ \E x \in Resources : WaitOperation(r, x)
      BY <1>1, <2>1 DEF DeleteNATGet, WaitOperation, KeepCloud, cloud
    <2>2. CASE DeleteNATPatch(r)
      BY <2>2 DEF DeleteNATPatch
    <2>3. ASSUME NEW x \in Resources, Delete(r, x) PROVE References'
      BY <2>3 DEF Delete, InUse
    <2>4. QED
      BY <1>3, <2>1, <2>2, <2>3 DEF DestroyStep
  <1>4. ASSUME NEW r \in Runs, Start(r) \/ Fail(r) PROVE References'
    BY <1>1, <1>4 DEF Start, Fail, KeepCloud, cloud
  <1>5. CASE Others
    <2>1. ASSUME NEW x \in Resources, OperationDone(x) PROVE References'
      BY <2>1 DEF OperationDone
    <2>2. CASE HostCluster
      BY <1>1, <2>2 DEF HostCluster, cloud
    <2>3. CASE CPOReconcile
      BY <2>3 DEF CPOReconcile
    <2>4. CASE DeleteCluster
      BY <2>4 DEF DeleteCluster
    <2>5. QED
      BY <1>5, <2>1, <2>2, <2>3, <2>4 DEF Others
  <1>6. CASE UNCHANGED vars
    BY <1>1, <1>6 DEF vars, cloud
  <1>7. QED
    BY <1>2, <1>3, <1>4, <1>5, <1>6 DEF Next, Progress

LEMMA CreatesAwayKept ==
  ASSUME TypeOK, CreatesAway, [Next]_vars
  PROVE  CreatesAway'
  <1> USE RunsAssumption DEF CreatesAway, Active, Done, Runs
  <1>1. ASSUME NEW r \in Runs, Progress(r) \/ Fail(r) PROVE CreatesAway'
    BY <1>1, RunMovesOnly DEF RunMoves
  <1>2. ASSUME NEW r \in Runs, Start(r) PROVE CreatesAway'
    BY <1>2 DEF Start, Rivals, TypeOK
  <1>3. CASE Others \/ UNCHANGED vars
    BY <1>3 DEF Others, OperationDone, HostCluster, CPOReconcile, DeleteCluster, KeepWorld, vars
  <1>4. QED
    BY <1>1, <1>2, <1>3 DEF Next

(* Creates and destroys take their own steps.                              *)
LEMMA OwnSteps ==
  ASSUME TypeOK, NEW r \in Runs, Progress(r)
  PROVE  (r \in Creates /\ CreateStep(r)) \/ (r \in Destroys /\ DestroyStep(r))
  <1>1. CASE CreateStep(r)
    <2>1. ASSUME NEW x \in Resources, Insert(r, x) \/ Get(r, x) PROVE r \in Creates
      BY <2>1 DEF Insert, Get, TypeOK, DestroyPlaces, Resting, Runs, Resources
    <2>2. ASSUME WriteOutput(r) PROVE r \in Creates
      BY <2>2 DEF WriteOutput, TypeOK, DestroyPlaces, Resting, Runs, Resources
    <2>3. ASSUME \E x \in Resources \ {"legacy"} : Insert(r, x) PROVE r \in Creates
      BY <2>1, <2>3
    <2>4. r \in Creates
      BY <1>1, <2>1, <2>2, <2>3, InsertSteps, Zenon DEF CreateStep, CreateNATGet, CreateNATPatch
    <2>5. QED
      BY <1>1, <2>4
  <1>2. CASE DestroyStep(r)
    <2>1. ASSUME NEW x \in Resources, Delete(r, x) \/ WaitOperation(r, x) PROVE r \in Destroys
      BY <2>1 DEF Delete, WaitOperation, TypeOK, CreatePlaces, Resting, Runs, Resources
    <2>2. QED
      BY <1>2, <2>1, Zenon DEF DestroyStep, DeleteNATGet, DeleteNATPatch
  <1>3. QED
    BY <1>1, <1>2 DEF Progress

(* A create that works leaves no destroy to speak of.                      *)
LEMMA NetworkAwayKept ==
  ASSUME GoneInv, [Next]_vars, CreatesAway'
  PROVE  NetworkAway'
  <1> USE RunsAssumption DEF GoneInv, NetworkAway, TypeOK, Active, Done, Runs
  <1>1. ASSUME NEW r \in Runs, Active(r), Progress(r) \/ Fail(r), UNCHANGED state,
               Done(r)' => state["network"] = "none",
               pos'[r] # <<"wait", "network">>
        PROVE  NetworkAway'
    BY <1>1, RunMovesOnly DEF RunMoves
  <1>2. ASSUME NEW r \in Creates, Active(r), disturbed' = disturbed,
               \A q \in Destroys : pos'[q] = pos[q]
        PROVE  NetworkAway'
    BY <1>2 DEF CreatesAway
  <1>3. ASSUME NEW r \in Creates, CreateStep(r) \/ Fail(r) PROVE NetworkAway'
    BY <1>2, <1>3, RunMovesOnly DEF RunMoves, Progress
  <1>4. ASSUME NEW r \in Destroys, DestroyStep(r) PROVE NetworkAway'
    <2>1. Active(r)
      BY <1>4, RunMovesOnly DEF RunMoves, Progress
    <2>2. CASE DeleteNATGet(r) \/ DeleteNATPatch(r)
      <3>1. UNCHANGED state /\ (Done(r)' => FALSE) /\ pos'[r] # <<"wait", "network">>
        BY <2>2 DEF DeleteNATGet, DeleteNATPatch, AfterDelete, Answer, Reply, Refuse,
                    ReturnError, KeepCloud, cloud
      <3>2. QED
        BY <1>1, <1>4, <2>1, <3>1 DEF Progress
    <2>3. ASSUME NEW x \in Resources, Delete(r, x) PROVE NetworkAway'
      <3>1. CASE x = "network"
        BY <1>4, <2>3, <3>1, RunMovesOnly
           DEF Delete, RunMoves, Progress, AfterDelete, Answer, Reply, Refuse, ReturnError, Resources
      <3>2. CASE x # "network"
        <4>1. /\ state'["network"] = state["network"]
              /\ (Done(r)' => FALSE) /\ pos'[r] # <<"wait", "network">>
          BY <2>3, <3>2 DEF Delete, AfterDelete, Answer, Reply, Refuse, ReturnError, Resources
        <4>2. QED
          BY <1>4, <4>1, RunMovesOnly DEF RunMoves, Progress
      <3>3. QED
        BY <3>1, <3>2
    <2>4. ASSUME NEW x \in Resources, WaitOperation(r, x) PROVE NetworkAway'
      BY <1>4, <2>4, RunMovesOnly
         DEF WaitOperation, RunMoves, Progress, AfterDelete, Answer, KeepCloud, cloud, Resources
    <2>5. QED
      BY <1>4, <2>2, <2>3, <2>4 DEF DestroyStep
  <1>5. ASSUME NEW r \in Runs, Fail(r) PROVE NetworkAway'
    BY <1>1, <1>5 DEF Fail, ReturnError, KeepCloud, cloud
  <1>6. ASSUME NEW r \in Runs, Start(r) PROVE NetworkAway'
    BY <1>6 DEF Start, Rivals, cloud
  <1>7. CASE Others \/ UNCHANGED vars
    BY <1>7 DEF Others, OperationDone, HostCluster, CPOReconcile, DeleteCluster, KeepWorld,
                cloud, vars, Resources
  <1>8. QED
    BY <1>3, <1>4, <1>5, <1>6, <1>7, OwnSteps DEF Next

(* A destroy that succeeds leaves nothing (NetworkGone), whatever failed   *)
(* before, beside other destroys and with a CPO that puts its rule back:   *)
(* when the network is gone, nothing can refer to it.                      *)
THEOREM NothingLeft == Spec => []NetworkGone
  <1>1. Init => GoneInv
    <2> SUFFICES ASSUME Init PROVE GoneInv
      OBVIOUS
    <2>1. \A r \in Runs : ~Active(r) /\ ~Done(r) /\ pos[r] # <<"wait", "network">>
      BY DEF Init, Active, Done
    <2>2. References
      BY InitialAssumption DEF Init, References
    <2>3. QED
      BY <2>1, <2>2, InitType DEF GoneInv, CreatesAway, NetworkAway, Runs
  <1>2. GoneInv /\ [Next]_vars => GoneInv'
    <2> SUFFICES ASSUME GoneInv, [Next]_vars PROVE GoneInv'
      OBVIOUS
    <2>1. TypeOK'
      BY CreateStepType, DestroyStepType, OtherStepsType DEF GoneInv, Next, Progress
    <2>2. References' /\ CreatesAway'
      BY ReferencesKept, CreatesAwayKept DEF GoneInv
    <2>3. NetworkAway'
      BY <2>2, NetworkAwayKept
    <2>4. QED
      BY <2>1, <2>2, <2>3 DEF GoneInv
  <1>3. GoneInv => NetworkGone
    BY DEF GoneInv, TypeOK, References, NetworkAway, NetworkGone, Resources
  <1>4. QED
    BY <1>1, <1>2, <1>3, PTL DEF Spec

-----------------------------------------------------------------------------
(* What lies behind a create at its place.                                 *)
PastNAT == {<<"write", "output">>, <<"done", "output">>}
PastRouter == {<<"get", "router">>, <<"get", "nat">>, <<"patch", "nat">>} \cup PastNAT
PastSubnet == {<<"get", "subnet">>, <<"insert", "router">>} \cup PastRouter
PastFirewall == {<<"get", "firewall">>, <<"insert", "subnet">>} \cup PastSubnet
PastNetwork == {<<"get", "network">>, <<"insert", "firewall">>} \cup PastFirewall

Made(r) ==
    /\ pos[r] \in PastNetwork => state["network"] = "live"
    /\ pos[r] \in PastFirewall /\ CreatesRule => state["firewall"] = "live"
    /\ pos[r] \in PastSubnet => state["subnet"] = "live"
    /\ pos[r] \in PastRouter => state["router"] = "live"
    /\ pos[r] \in PastNAT => nat

(* No destroy works beside a create that counts as undisturbed ...         *)
DestroysAway ==
    \A r \in Creates \ disturbed :
        Active(r) \/ Done(r) => \A d \in Destroys : ~Active(d)

(* ... so, while the cluster is not deleted, nothing goes away that it     *)
(* found or made.                                                          *)
MadeStays ==
    cluster # "gone" =>
        \A r \in Creates \ disturbed : Active(r) \/ Done(r) => ~Deleting /\ Made(r)

MadeInv == TypeOK /\ DestroysAway /\ MadeStays

(* Nothing goes away in a step.                                            *)
Lasts ==
    /\ \A x \in Resources : state[x] = "live" => state'[x] = "live"
    /\ nat => nat'
    /\ ~Deleting => ~Deleting'
    /\ UNCHANGED target

LEMMA KeepCloudLasts == KeepCloud => Lasts
  BY DEF KeepCloud, KeepWorld, cloud, Lasts, Deleting

LEMMA CreateLasts ==
  ASSUME TypeOK, NEW r \in Runs, CreateStep(r)
  PROVE  Lasts
  <1>1. ASSUME NEW x \in Resources, Insert(r, x) PROVE Lasts
    BY <1>1 DEF Insert, Lasts, Deleting, KeepWorld, TypeOK
  <1>2. ASSUME NEW x \in Resources, Get(r, x) PROVE Lasts
    BY <1>2, KeepCloudLasts DEF Get
  <1>3. CASE CreateNATGet(r) \/ WriteOutput(r)
    BY <1>3, KeepCloudLasts DEF CreateNATGet, WriteOutput
  <1>4. CASE CreateNATPatch(r)
    BY <1>4 DEF CreateNATPatch, Lasts, Deleting, KeepWorld
  <1>5. QED
    BY <1>1, <1>2, <1>3, <1>4, InsertSteps DEF CreateStep

(* Only a destroy, an unfinished deletion or the end of the cluster takes  *)
(* anything away.                                                          *)
LEMMA NothingGoes ==
  ASSUME TypeOK, [Next]_vars, \A d \in Destroys : ~Active(d), ~Deleting, cluster' # "gone"
  PROVE  Lasts /\ cluster # "gone"
  <1>1. ASSUME NEW r \in Runs, Progress(r) PROVE Lasts
    <2>1. Active(r)
      BY <1>1, RunMovesOnly DEF RunMoves
    <2>2. QED
      BY <1>1, <2>1, OwnSteps, CreateLasts
  <1>2. ASSUME NEW r \in Runs, Start(r) \/ Fail(r) PROVE Lasts
    BY <1>2, KeepCloudLasts DEF Start, Fail, cloud, Lasts, Deleting
  <1>3. CASE Others
    <2>1. \A x \in Resources : ~OperationDone(x)
      BY DEF OperationDone, Deleting
    <2>2. CASE HostCluster
      BY <2>2 DEF HostCluster, cloud, Lasts, Deleting
    <2>3. CASE CPOReconcile
      BY <2>3 DEF CPOReconcile, KeepWorld, Lasts, Deleting, TypeOK
    <2>4. ~DeleteCluster
      BY DEF DeleteCluster
    <2>5. QED
      BY <1>3, <2>1, <2>2, <2>3, <2>4 DEF Others
  <1>4. CASE UNCHANGED vars
    BY <1>4 DEF vars, cloud, Lasts, Deleting
  <1>5. cluster # "gone"
    <2>1. ASSUME NEW r \in Runs, Progress(r) \/ Fail(r) PROVE cluster' = cluster
      BY <2>1, RunMovesOnly DEF RunMoves
    <2>2. QED
      BY <2>1 DEF Next, Start, Others, OperationDone, HostCluster, CPOReconcile,
                  DeleteCluster, KeepWorld, vars
  <1>6. QED
    BY <1>1, <1>2, <1>3, <1>4, <1>5 DEF Next

LEMMA MadeLasts ==
  ASSUME NEW r \in Runs, Made(r), Lasts, pos'[r] = pos[r]
  PROVE  Made(r)'
  <1>1. CreatesRule' = CreatesRule
    BY DEF Lasts, CreatesRule, shouldCreateFirewallRule
  <1>2. QED
    BY <1>1 DEF Made, Lasts, Resources

(* A create that goes on has made what it was to make.                     *)
LEMMA CreateMakes ==
  ASSUME TypeOK, NEW r \in Creates, CreateStep(r), Made(r), ~Deleting,
         (Active(r) \/ Done(r))'
  PROVE  Made(r)'
  <1> USE DEF TypeOK
  <1>1. r \in Runs /\ Lasts
    BY CreateLasts DEF Runs
  <1>2. CreatesRule' = CreatesRule
    BY <1>1 DEF Lasts, CreatesRule, shouldCreateFirewallRule
  <1>3. /\ \A e : ~Refuse(r, e)
        /\ \A p : Reply(r, p) \/ Answer(r, p) => pos'[r] = p
    BY <1>1 DEF Refuse, ReturnError, Reply, Answer, Active, Done
  <1>4. ASSUME NEW x \in Resources, Insert(r, x)
        PROVE  /\ pos[r] = <<"insert", x>> /\ pos'[r] = <<"get", x>>
               /\ state'[x] = "live"
    BY <1>3, <1>4 DEF Insert, Deleting
  <1>5. CASE CreateNetwork(r)
    <2>1. pos'[r] = <<"get", "network">> /\ state'["network"] = "live"
      BY <1>4, <1>5 DEF CreateNetwork, Resources
    <2>2. QED
      BY <2>1 DEF Made, PastNetwork, PastFirewall, PastSubnet, PastRouter, PastNAT
  <1>6. CASE CreateFirewallRule(r)
    <2>1. /\ pos[r] = <<"insert", "firewall">> /\ pos'[r] = <<"get", "firewall">>
          /\ state'["firewall"] = "live"
      BY <1>4, <1>6 DEF CreateFirewallRule, Resources
    <2>2. QED
      BY <1>1, <2>1
         DEF Made, Lasts, Resources, PastNetwork, PastFirewall, PastSubnet, PastRouter, PastNAT
  <1>7. CASE CreateSubnet(r)
    <2>1. /\ pos[r] = <<"insert", "subnet">> /\ pos'[r] = <<"get", "subnet">>
          /\ state'["subnet"] = "live"
      BY <1>4, <1>7 DEF CreateSubnet, Resources
    <2>2. QED
      BY <1>1, <1>2, <2>1
         DEF Made, Lasts, Resources, PastNetwork, PastFirewall, PastSubnet, PastRouter, PastNAT
  <1>8. CASE CreateRouter(r)
    <2>1. /\ pos[r] = <<"insert", "router">> /\ pos'[r] = <<"get", "router">>
          /\ state'["router"] = "live"
      BY <1>4, <1>8 DEF CreateRouter, Resources
    <2>2. QED
      BY <1>1, <1>2, <2>1
         DEF Made, Lasts, Resources, PastNetwork, PastFirewall, PastSubnet, PastRouter, PastNAT
  <1>9. ASSUME NEW x \in Resources, Get(r, x) PROVE Made(r)'
    <2>1. pos[r] = <<"get", x>> /\ pos'[r] = AfterGet(x)
      BY <1>3, <1>9 DEF Get
    <2>2. x # "legacy"
      BY <2>1, RunsAssumption DEF CreatePlaces, Resting, Resources
    <2>3. QED
      BY <1>1, <1>2, <2>1, <2>2
         DEF AfterGet, Made, Lasts, Resources, PastNetwork, PastFirewall, PastSubnet,
             PastRouter, PastNAT
  <1>10. CASE CreateNATGet(r)
    <2>1. /\ pos[r] = <<"get", "nat">>
          /\ \/ pos'[r] = <<"patch", "nat">>
             \/ pos'[r] = <<"write", "output">> /\ nat
      BY <1>3, <1>10 DEF CreateNATGet
    <2>2. QED
      BY <1>1, <1>2, <2>1
         DEF Made, Lasts, Resources, PastNetwork, PastFirewall, PastSubnet, PastRouter, PastNAT
  <1>11. CASE CreateNATPatch(r)
    <2>1. pos[r] = <<"patch", "nat">> /\ pos'[r] = <<"write", "output">> /\ nat'
      BY <1>3, <1>11 DEF CreateNATPatch
    <2>2. QED
      BY <1>1, <1>2, <2>1
         DEF Made, Lasts, Resources, PastNetwork, PastFirewall, PastSubnet, PastRouter, PastNAT
  <1>12. CASE WriteOutput(r)
    <2>1. pos[r] = <<"write", "output">> /\ pos'[r] = <<"done", "output">>
      BY <1>3, <1>12 DEF WriteOutput
    <2>2. QED
      BY <1>1, <1>2, <2>1
         DEF Made, Lasts, Resources, PastNetwork, PastFirewall, PastSubnet, PastRouter, PastNAT
  <1>13. QED
    BY <1>5, <1>6, <1>7, <1>8, <1>9, <1>10, <1>11, <1>12 DEF CreateStep

LEMMA DestroysAwayKept ==
  ASSUME TypeOK, DestroysAway, [Next]_vars
  PROVE  DestroysAway'
  <1> USE RunsAssumption DEF DestroysAway, Active, Done, Runs
  <1>1. ASSUME NEW r \in Runs, Progress(r) \/ Fail(r) PROVE DestroysAway'
    BY <1>1, RunMovesOnly DEF RunMoves
  <1>2. ASSUME NEW r \in Runs, Start(r) PROVE DestroysAway'
    BY <1>2 DEF Start, Rivals, TypeOK
  <1>3. CASE Others \/ UNCHANGED vars
    BY <1>3 DEF Others, OperationDone, HostCluster, CPOReconcile, DeleteCluster, KeepWorld, vars
  <1>4. QED
    BY <1>1, <1>2, <1>3 DEF Next

LEMMA MadeStaysKept ==
  ASSUME MadeInv, [Next]_vars
  PROVE  MadeStays'
  <1> SUFFICES ASSUME cluster' # "gone", NEW r \in Creates, r \notin disturbed',
                      (Active(r) \/ Done(r))'
               PROVE  ~Deleting' /\ Made(r)'
    BY DEF MadeStays
  <1> USE RunsAssumption DEF MadeInv, Runs
  (* The run was at work, or has finished, before the step too.            *)
  <1>1. ASSUME Active(r) \/ Done(r), r \notin disturbed,
               pos'[r] = pos[r] \/ CreateStep(r)
        PROVE  ~Deleting' /\ Made(r)'
    <2>1. Lasts /\ cluster # "gone" /\ ~Deleting
      <3>1. \A d \in Destroys : ~Active(d)
        BY <1>1 DEF DestroysAway
      <3>2. cluster # "gone"
        BY RunMovesOnly DEF RunMoves, Next, Start, Others, OperationDone, HostCluster,
                            CPOReconcile, DeleteCluster, KeepWorld, vars
      <3>3. ~Deleting
        BY <1>1, <3>2 DEF MadeStays
      <3>4. QED
        BY <3>1, <3>2, <3>3, NothingGoes
    <2>2. Made(r)
      BY <1>1, <2>1 DEF MadeStays
    <2>3. QED
      BY <1>1, <2>1, <2>2, MadeLasts, CreateMakes DEF Lasts
  <1>2. ASSUME NEW q \in Runs, Progress(q) \/ Fail(q) PROVE ~Deleting' /\ Made(r)'
    <2>1. /\ Active(q) /\ disturbed' = disturbed
          /\ \A p \in Runs \ {q} : pos'[p] = pos[p]
      BY <1>2, RunMovesOnly DEF RunMoves
    <2>2. CASE q # r
      BY <1>1, <2>1, <2>2 DEF Active, Done
    <2>3. CASE q = r
      <3>1. ~Fail(r)
        BY DEF Fail, ReturnError, Active, Done, TypeOK
      <3>2. CreateStep(r)
        BY <1>2, <2>3, <3>1, OwnSteps
      <3>3. QED
        BY <1>1, <2>1, <2>3, <3>2
    <2>4. QED
      BY <2>2, <2>3
  <1>3. ASSUME NEW q \in Runs, Start(q) PROVE ~Deleting' /\ Made(r)'
    <2>1. CASE q # r
      <3>1. pos'[r] = pos[r] /\ r \notin disturbed
        BY <1>3, <2>1 DEF Start, TypeOK
      <3>2. QED
        BY <1>1, <3>1 DEF Active, Done
    <2>2. CASE q = r
      <3>1. pos'[r] = <<"insert", "network">>
        BY <1>3, <2>2 DEF Start, TypeOK
      <3>2. ~Deleting /\ UNCHANGED cloud
        BY <1>3, <2>2 DEF Start
      <3>3. QED
        BY <3>1, <3>2 DEF cloud, Deleting, Made, PastNetwork, PastFirewall, PastSubnet,
                          PastRouter, PastNAT
    <2>3. QED
      BY <2>1, <2>2
  <1>4. CASE Others \/ UNCHANGED vars
    <2>1. UNCHANGED <<pos, disturbed>>
      BY <1>4 DEF Others, OperationDone, HostCluster, CPOReconcile, DeleteCluster, KeepWorld, vars
    <2>2. QED
      BY <1>1, <2>1 DEF Active, Done
  <1>5. QED
    BY <1>2, <1>3, <1>4 DEF Next

(* A create that succeeds leaves the network complete (NetworkDelivers),   *)
(* from any state of the resources, beside any number of other creates,    *)
(* and whatever failed before.                                             *)
THEOREM NetworkComplete == Spec => []NetworkDelivers
  <1>1. Init => MadeInv
    <2> SUFFICES ASSUME Init PROVE MadeInv
      OBVIOUS
    <2>1. \A r \in Runs : ~Active(r) /\ ~Done(r)
      BY DEF Init, Active, Done
    <2>2. QED
      BY <2>1, InitType DEF MadeInv, DestroysAway, MadeStays, Runs
  <1>2. MadeInv /\ [Next]_vars => MadeInv'
    <2> SUFFICES ASSUME MadeInv, [Next]_vars PROVE MadeInv'
      OBVIOUS
    <2>1. TypeOK'
      BY CreateStepType, DestroyStepType, OtherStepsType DEF MadeInv, Next, Progress
    <2>2. QED
      BY <2>1, DestroysAwayKept, MadeStaysKept DEF MadeInv
  <1>3. MadeInv => NetworkDelivers
    <2> SUFFICES ASSUME MadeInv, NEW r \in Creates \ disturbed, Done(r), cluster # "gone"
                 PROVE  Complete
      BY DEF NetworkDelivers
    <2>1. Made(r)
      BY DEF MadeInv, MadeStays
    <2>2. pos[r] = <<"done", "output">>
      BY RunsAssumption DEF MadeInv, TypeOK, Done, CreatePlaces, Resting, Runs
    <2>3. QED
      BY <2>1, <2>2 DEF Made, Complete, PastNetwork, PastFirewall, PastSubnet, PastRouter,
                        PastNAT
  <1>4. QED
    BY <1>1, <1>2, <1>3, PTL DEF Spec
=============================================================================
