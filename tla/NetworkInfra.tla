----------------------------- MODULE NetworkInfra -----------------------------
(***************************************************************************)
(* `network create` and `network destroy` (pkg/infra/network over          *)
(* pkg/gcp/networking) for one infra ID: runs of the two commands, the     *)
(* Compute API they call, and the control-plane-operator (CPO) of the      *)
(* hosted cluster, which looks after the same worker firewall rule.  Infra *)
(* IDs share nothing here, so one is enough.                               *)
(*                                                                         *)
(* Every remote call is a step.  A call may fail, may take effect while    *)
(* its answer is lost, and a run may be interrupted between any two; no    *)
(* error is retried.  A deletion takes time: the command waits for the     *)
(* operation, and may give up (five minutes) while it goes on.             *)
(*                                                                         *)
(* The Compute API is external and modelled by what the code relies on: a  *)
(* name is taken until its deletion is complete, and an insert of a name   *)
(* that is taken answers 409; a resource is created in, and a NAT refers   *)
(* to, live resources only; a resource that others refer to cannot be      *)
(* deleted; one that is being deleted can be read, not changed; the NAT is *)
(* a part of the router object and goes with it.                           *)
(***************************************************************************)
EXTENDS Naturals

CONSTANTS
    Creates, Destroys,   \* runs of the two commands
    Versions,            \* cluster versions to consider
    InitialResources,    \* states the resources may be in at the start
    InitialMarks,        \* whether a rule found at the start carries a marker
    MaxFaults            \* bound: failed calls, lost answers, interruptions

Runs == Creates \cup Destroys

(* firewall is the rule <infra-id>-internal-cluster, legacy the rule       *)
(* <infra-id>-allow-kubelet of older versions.                             *)
Resources == {"network", "firewall", "legacy", "subnet", "router"}

(* Kind "unset": the flag was not given.                                   *)
VersionRecords == [kind : {"unset", "ga", "prerelease"}, major : Nat]

ASSUME RunsAssumption == Creates \cap Destroys = {}
ASSUME VersionsAssumption == Versions \subseteq VersionRecords
ASSUME InitialAssumption ==
    /\ InitialResources \subseteq [Resources -> {"none", "live"}]
    /\ InitialMarks \subseteq BOOLEAN
ASSUME FaultsAssumption == MaxFaults \in Nat

VARIABLES
    state,       \* state[x]: resource x in the cloud
    nat,         \* the router holds the NAT <infra-id>-nat
    marked,      \* the firewall rule carries the ownership marker
    cluster,     \* the hosted cluster, hence its CPO
    target,      \* what the cluster runs, and what the command line says
    pos,         \* pos[r]: <<what run r does next, to which resource>>
    err,         \* err[r]: the error run r ended with
    faults,      \* failed calls, lost answers and interruptions so far
    disturbed    \* runs that overlap, or are followed by, the opposite command
                 \* or its unfinished operations (for the properties)

cloud == <<state, nat, marked>>
vars == <<cloud, cluster, target, pos, err, faults, disturbed>>

(* Positions in CreateNetwork, in DestroyNetwork, and outside them.        *)
CreatePlaces ==
    {"insert", "get"} \X (Resources \ {"legacy"})
    \cup {<<"get", "nat">>, <<"patch", "nat">>, <<"write", "output">>}

DestroyPlaces ==
    {"delete", "wait"} \X Resources \cup {"get", "patch"} \X {"nat"}

Resting == {"idle", "failed", "done"} \X {"output"}

TypeOK ==
    /\ state \in [Resources -> {"none", "live", "deleting"}]
    /\ nat \in BOOLEAN
    /\ marked \in BOOLEAN
    /\ cluster \in {"none", "up", "gone"}
    /\ target \in [version : Versions, noFirewallRule : BOOLEAN, hasCPO : BOOLEAN]
    /\ pos \in [Runs -> CreatePlaces \cup DestroyPlaces \cup Resting]
    /\ \A r \in Creates : pos[r] \in CreatePlaces \cup Resting
    /\ \A r \in Destroys : pos[r] \in DestroyPlaces \cup Resting
    /\ err \in [Runs -> {"none", "failed", "inUse", "notReady", "notFound"}]
    /\ faults \in 0..MaxFaults
    /\ disturbed \subseteq Runs

-----------------------------------------------------------------------------
(* Mutant: a prerelease counts as the release it precedes.                 *)
shouldCreateOrderingPrereleases(version, noFirewallRule) ==
    ~noFirewallRule /\ (version.kind = "unset" \/ version.major < 5)

(* Versions are compared with 5.0.0: among releases the major decides.     *)
shouldCreateFirewallRule(version, noFirewallRule) ==
    ~noFirewallRule /\ (version.kind # "ga" \/ version.major < 5)

CreatesRule == shouldCreateFirewallRule(target.version, target.noFirewallRule)

(* Mutant: the output file is forgotten.                                   *)
AfterGetNoOutput(x) ==
    CASE x = "network" -> IF CreatesRule THEN <<"insert", "firewall">>
                                         ELSE <<"insert", "subnet">>
      [] x = "firewall" -> <<"insert", "subnet">>
      [] x = "subnet" -> <<"insert", "router">>
      [] x = "router" -> <<"done", "nat">>

(* CreateNetwork goes on, after the get that follows each insert.          *)
AfterGet(x) ==
    CASE x = "network" -> IF CreatesRule THEN <<"insert", "firewall">>
                                         ELSE <<"insert", "subnet">>
      [] x = "firewall" -> <<"insert", "subnet">>
      [] x = "subnet" -> <<"insert", "router">>
      [] x = "router" -> <<"get", "nat">>

(* Mutant: the legacy rule is forgotten.                                   *)
AfterDeleteNoLegacy(x) ==
    CASE x = "nat" -> <<"delete", "router">>
      [] x = "router" -> <<"delete", "subnet">>
      [] x = "subnet" -> <<"delete", "firewall">>
      [] x \in {"firewall", "legacy"} -> <<"delete", "network">>
      [] x = "network" -> <<"done", "output">>

(* DestroyNetwork goes on, in reverse dependency order.                    *)
AfterDelete(x) ==
    CASE x = "nat" -> <<"delete", "router">>
      [] x = "router" -> <<"delete", "subnet">>
      [] x = "subnet" -> <<"delete", "firewall">>
      [] x = "firewall" -> <<"delete", "legacy">>
      [] x = "legacy" -> <<"delete", "network">>
      [] x = "network" -> <<"done", "output">>

Active(r) == pos[r][1] \notin {"idle", "failed", "done"}
Done(r) == pos[r][1] = "done"
Rivals(r) == IF r \in Creates THEN Destroys ELSE Creates
Deleting == \E x \in Resources : state[x] = "deleting"

UseFault == faults < MaxFaults /\ faults' = faults + 1

ReturnError(r, e) ==
    /\ pos' = [pos EXCEPT ![r] = <<"failed", "output">>]
    /\ err' = [err EXCEPT ![r] = e]

Answer(r, place) ==
    /\ pos' = [pos EXCEPT ![r] = place]
    /\ UNCHANGED <<err, faults>>

Refuse(r, e) == ReturnError(r, e) /\ UNCHANGED faults

(* A call took effect: its answer arrives, or is lost and the run fails.   *)
Reply(r, place) == Answer(r, place) \/ (UseFault /\ ReturnError(r, "failed"))

(* A live resource others refer to.                                        *)
InUse(x) ==
    \/ x = "network" /\ \E y \in Resources \ {"network"} : state[y] # "none"
    \/ x = "subnet" /\ nat

KeepWorld == UNCHANGED <<cluster, target, disturbed>>
KeepCloud == UNCHANGED cloud /\ KeepWorld

-----------------------------------------------------------------------------
(* A command line names the version the cluster will run.  Payloads from   *)
(* 5.0.0 on carry a CPO that owns the rule, 4.x payloads do not, of other  *)
(* candidates the version does not tell; --no-firewall-rule is for those   *)
(* who know that the CPO is there.                                         *)
Targets ==
    {t \in [version : Versions, noFirewallRule : BOOLEAN, hasCPO : BOOLEAN] :
        /\ t.version.kind = "ga" => (t.hasCPO <=> t.version.major >= 5)
        /\ t.noFirewallRule => t.hasCPO}

(* What `network create` promises: everything is there, and the firewall   *)
(* rule too if it is this command's to create.                             *)
Complete ==
    /\ \A x \in {"network", "subnet", "router"} : state[x] = "live"
    /\ nat
    /\ CreatesRule => state["firewall"] = "live"

Init ==
    /\ state \in InitialResources
    /\ \A x \in Resources : state[x] = "live" => state["network"] = "live"
    /\ nat \in {n \in BOOLEAN :
                    n => state["router"] = "live" /\ state["subnet"] = "live"}
    /\ marked \in InitialMarks
    /\ target \in Targets
    /\ cluster \in {c \in {"none", "up"} : c = "up" => Complete}
    /\ pos = [r \in Runs |-> <<"idle", "output">>]
    /\ err = [r \in Runs |-> "none"]
    /\ faults = 0
    /\ disturbed = {}

(* The command is run, for the first time or again after it failed.        *)
Start(r) ==
    /\ pos[r][1] \in {"idle", "failed"}
    /\ pos' = [pos EXCEPT ![r] = IF r \in Creates THEN <<"insert", "network">>
                                                  ELSE <<"get", "nat">>]
    /\ err' = [err EXCEPT ![r] = "none"]
    /\ disturbed' = (disturbed \ {r}) \cup Rivals(r) \cup
                    {q \in {r} : (\E d \in Rivals(r) : Active(d))
                                 \/ (r \in Creates /\ Deleting)}
    /\ UNCHANGED <<cloud, cluster, target, faults>>

-----------------------------------------------------------------------------
(* Insert resource x, then get it, whether it was created or existed.      *)
Insert(r, x) ==
    /\ pos[r] = <<"insert", x>>
    /\ \/ /\ state[x] = "none"
          /\ x # "network" => state["network"] = "live"
          /\ state' = [state EXCEPT ![x] = "live"]
          /\ Reply(r, <<"get", x>>)
       \/ /\ state[x] = "none"
          /\ x # "network" /\ state["network"] # "live"
          /\ Refuse(r, "notFound")
          /\ UNCHANGED state
       \/ /\ state[x] # "none"
          /\ Answer(r, <<"get", x>>)
          /\ UNCHANGED state
    /\ UNCHANGED nat
    /\ KeepWorld

CreateNetwork(r) == Insert(r, "network") /\ UNCHANGED marked
CreateSubnet(r) == Insert(r, "subnet") /\ UNCHANGED marked
CreateRouter(r) == Insert(r, "router") /\ UNCHANGED marked

(* The rule is created in the state the CPO wants, marker included; a rule *)
(* that exists without it is only warned about.                            *)
CreateFirewallRule(r) ==
    /\ Insert(r, "firewall")
    /\ marked' = IF state["firewall"] = state'["firewall"] THEN marked ELSE TRUE

Get(r, x) ==
    /\ pos[r] = <<"get", x>>
    /\ \/ state[x] # "none" /\ Answer(r, AfterGet(x))
       \/ state[x] = "none" /\ Refuse(r, "notFound")
    /\ KeepCloud

(* Mutant: a router that exists is taken to hold the NAT.                  *)
CreateNATGetTrustsRouter(r) ==
    /\ r \in Creates
    /\ pos[r] = <<"get", "nat">>
    /\ state["router"] # "none" /\ Answer(r, <<"write", "output">>)
    /\ KeepCloud

(* CreateNAT: the router is read ...                                       *)
CreateNATGet(r) ==
    /\ r \in Creates
    /\ pos[r] = <<"get", "nat">>
    /\ \/ state["router"] = "none" /\ Refuse(r, "notFound")
       \/ state["router"] # "none" /\ nat /\ Answer(r, <<"write", "output">>)
       \/ state["router"] # "none" /\ ~nat /\ Answer(r, <<"patch", "nat">>)
    /\ KeepCloud

(* ... and written back with the NAT added.                                *)
CreateNATPatch(r) ==
    /\ r \in Creates
    /\ pos[r] = <<"patch", "nat">>
    /\ \/ /\ state["router"] = "live" /\ state["subnet"] = "live"
          /\ nat' = TRUE
          /\ Reply(r, <<"write", "output">>)
       \/ /\ state["router"] # "live" \/ state["subnet"] # "live"
          /\ Refuse(r, "notReady")
          /\ UNCHANGED nat
    /\ UNCHANGED <<state, marked>>
    /\ KeepWorld

WriteOutput(r) ==
    /\ pos[r] = <<"write", "output">>
    /\ Answer(r, <<"done", "output">>)
    /\ KeepCloud

CreateStep(r) ==
    \/ CreateNetwork(r) \/ CreateFirewallRule(r) \/ CreateSubnet(r)
    \/ CreateRouter(r) \/ \E x \in Resources : Get(r, x)
    \/ CreateNATGet(r) \/ CreateNATPatch(r) \/ WriteOutput(r)

-----------------------------------------------------------------------------
(* DeleteNAT: the router is read and, if it is there and holds the NAT,    *)
(* written back without it.                                                *)
DeleteNATGet(r) ==
    /\ r \in Destroys
    /\ pos[r] = <<"get", "nat">>
    /\ \/ nat /\ Answer(r, <<"patch", "nat">>)
       \/ ~nat /\ Answer(r, AfterDelete("nat"))
    /\ KeepCloud

DeleteNATPatch(r) ==
    /\ r \in Destroys
    /\ pos[r] = <<"patch", "nat">>
    /\ \/ /\ state["router"] = "live"
          /\ nat' = FALSE
          /\ Reply(r, AfterDelete("nat"))
       \/ /\ state["router"] = "none"
          /\ Answer(r, AfterDelete("nat"))
          /\ UNCHANGED nat
       \/ /\ state["router"] = "deleting"
          /\ Refuse(r, "notReady")
          /\ UNCHANGED nat
    /\ UNCHANGED <<state, marked>>
    /\ KeepWorld

(* Mutant: the error of a delete is taken for not-found, whatever it is.   *)
DeleteTolerant(r, x) ==
    /\ pos[r] = <<"delete", x>>
    /\ \/ /\ state[x] = "live" /\ ~InUse(x)
          /\ state' = [state EXCEPT ![x] = "deleting"]
          /\ Reply(r, <<"wait", x>>)
       \/ /\ state[x] # "live" \/ InUse(x)
          /\ Answer(r, AfterDelete(x))
          /\ UNCHANGED state
    /\ UNCHANGED <<nat, marked>>
    /\ KeepWorld

(* DeleteRouter, DeleteSubnet, deleteFirewallRuleTolerant, DeleteNetwork.  *)
Delete(r, x) ==
    /\ pos[r] = <<"delete", x>>
    /\ \/ /\ state[x] = "none"
          /\ Answer(r, AfterDelete(x))
          /\ UNCHANGED state
       \/ /\ state[x] = "live" /\ ~InUse(x)
          /\ state' = [state EXCEPT ![x] = "deleting"]
          /\ Reply(r, <<"wait", x>>)
       \/ /\ state[x] = "live" /\ InUse(x)
          /\ Refuse(r, "inUse")
          /\ UNCHANGED state
       \/ /\ state[x] = "deleting"
          /\ Refuse(r, "notReady")
          /\ UNCHANGED state
    /\ UNCHANGED <<nat, marked>>
    /\ KeepWorld

(* waitGlobalOperation, waitRegionOperation.                               *)
WaitOperation(r, x) ==
    /\ pos[r] = <<"wait", x>>
    /\ state[x] # "deleting"
    /\ Answer(r, AfterDelete(x))
    /\ KeepCloud

DestroyStep(r) ==
    \/ DeleteNATGet(r) \/ DeleteNATPatch(r)
    \/ \E x \in Resources : Delete(r, x) \/ WaitOperation(r, x)

-----------------------------------------------------------------------------
(* A call fails without effect, a wait gives up, or the process dies.      *)
Fail(r) ==
    /\ Active(r)
    /\ UseFault
    /\ ReturnError(r, "failed")
    /\ KeepCloud

(* The cloud completes a deletion.                                         *)
OperationDone(x) ==
    /\ state[x] = "deleting"
    /\ state' = [state EXCEPT ![x] = "none"]
    /\ nat' = (nat /\ x # "router")
    /\ UNCHANGED <<marked, pos, err, faults>>
    /\ KeepWorld

(* A hosted cluster is created on a network whose create succeeded.        *)
HostCluster ==
    /\ cluster = "none"
    /\ \E r \in Creates : Done(r)
    /\ cluster' = "up"
    /\ UNCHANGED <<cloud, target, pos, err, faults, disturbed>>

(* The CPO, where the payload has it, creates the rule it misses; a rule   *)
(* that carries no marker it neither adopts nor deletes.                   *)
CPOReconcile ==
    /\ cluster = "up" /\ target.hasCPO
    /\ state["firewall"] = "none" /\ state["network"] = "live"
    /\ state' = [state EXCEPT !["firewall"] = "live"]
    /\ marked' = TRUE
    /\ UNCHANGED <<nat, pos, err, faults>>
    /\ KeepWorld

(* The hosted cluster is deleted; its CPO deletes the rule it owns first.  *)
DeleteCluster ==
    /\ cluster = "up"
    /\ cluster' = "gone"
    /\ state' = IF target.hasCPO /\ marked /\ state["firewall"] = "live"
                THEN [state EXCEPT !["firewall"] = "deleting"] ELSE state
    /\ UNCHANGED <<nat, marked, target, pos, err, faults, disturbed>>

Others ==
    \/ HostCluster \/ CPOReconcile \/ DeleteCluster
    \/ \E x \in Resources : OperationDone(x)

Progress(r) == CreateStep(r) \/ DestroyStep(r)

Next ==
    \/ \E r \in Runs : Start(r) \/ Progress(r) \/ Fail(r)
    \/ Others

Spec == Init /\ [][Next]_vars

(* Runs go on, deletions complete and the CPO reconciles.                  *)
Fairness ==
    /\ \A r \in Runs : WF_vars(Progress(r))
    /\ \A x \in Resources : WF_vars(OperationDone(x))
    /\ WF_vars(CPOReconcile)

(* The cluster is deleted, and somebody repeats a destroy that failed.     *)
Perseverance ==
    WF_vars(DeleteCluster) /\ \A r \in Destroys : WF_vars(Start(r))

FairSpec == Spec /\ Fairness
PerseveringSpec == FairSpec /\ Perseverance

-----------------------------------------------------------------------------
(* A create that succeeds leaves the network complete, from any partial    *)
(* state, beside other creates and after any failures, unless a destroy    *)
(* was under way, had left operations unfinished, or came later, or the    *)
(* cluster was deleted, whose CPO takes the firewall rule along.           *)
NetworkDelivers ==
    \A r \in Creates \ disturbed : Done(r) /\ cluster # "gone" => Complete

(* A destroy that succeeds leaves nothing, not even the legacy rule or one *)
(* the CPO had put back meanwhile, unless a create was under way or came   *)
(* later.                                                                  *)
NetworkGone ==
    \A r \in Destroys \ disturbed :
        Done(r) => ~nat /\ \A x \in Resources : state[x] = "none"

(* Every cluster gets its worker firewall rule, from the command or from   *)
(* the CPO, whatever the version said (firewall.go:66-75).                 *)
WorkersConnected ==
    cluster = "up" ~> (state["firewall"] = "live" \/ cluster = "gone")

(* Repeating the destroy removes everything in the end, from any partial   *)
(* state, when the cluster's CPO is gone and no create keeps disturbing    *)
(* it.                                                                     *)
DestroyConverges ==
    \A r \in Destroys :
        <>[](r \notin disturbed)
            => <>[](~nat /\ \A x \in Resources : state[x] = "none")
=============================================================================
