------------------------------- MODULE IamInfra -------------------------------
(***************************************************************************)
(* `iam create` and `iam destroy` (pkg/infra/iam over pkg/gcp/iam): runs   *)
(* of the two commands, for one or several infra IDs, against the IAM      *)
(* service of one project.                                                 *)
(*                                                                         *)
(* A run is a sequential program; each of its remote calls is a step, so   *)
(* calls of different runs interleave freely.  A remote call may be        *)
(* refused, may take effect while its answer is lost (an operation that    *)
(* outlives the five-minute wait, a dropped connection), and a run may be  *)
(* interrupted between any two calls; a run that failed may be started     *)
(* again.  Project policy accesses are the steps of ProjectPolicy.         *)
(*                                                                         *)
(* The IAM service is external.  It is modelled by what the code relies    *)
(* on: a create of a name in use (soft-deleted names included) answers     *)
(* 409; a delete of what is absent or already soft-deleted answers 404;    *)
(* an undelete needs a soft-deleted resource and a patch an active one; a  *)
(* policy may not be given a member that does not exist; deleting a        *)
(* service account deletes the policy on it but not its project grants.    *)
(* The purge of what was soft-deleted 30 days ago is left out.             *)
(***************************************************************************)
EXTENDS ProjectPolicy, IamErrors, Sequences

CONSTANTS
    Infras,            \* infra IDs
    Definitions,       \* account names of iam-bindings.json, in order
    RolesOf,           \* RolesOf[a]: project roles of account a
    SubjectsOf,        \* SubjectsOf[a]: Kubernetes accounts of a, in order
    Creates, Destroys, \* runs of the two commands
    InfraOf,           \* InfraOf[r]: the infra ID run r is given
    InitialPools,      \* pools a behaviour may start with
    InitialProviders,  \* providers a behaviour may start with
    Faults,            \* errors the service may answer without reason
    MaxFaults          \* bound: refusals, lost answers and interruptions

Names == {Definitions[n] : n \in DOMAIN Definitions}
Subjects == UNION {{SubjectsOf[a][n] : n \in DOMAIN SubjectsOf[a]} : a \in Names}

(* The grants `iam create` wants for account a of infra ID i.              *)
RoleGrants(i, a) == {<<i, a, role>> : role \in RolesOf[a]}

Pools == [state : {"none", "active", "deleted"}, disabled : BOOLEAN]

(* issuer and jwks: whether the OIDC configuration is the one this command *)
(* line asks for.                                                          *)
Providers == [state : {"none", "active", "deleted"}, disabled : BOOLEAN,
              issuer : {"wanted", "other"}, jwks : {"wanted", "other"}]

ASSUME DefinitionsAssumption ==
    /\ Definitions \in Seq(Names) /\ Definitions # <<>>
    /\ \A a \in Names :
        /\ RolesOf[a] # {}
        /\ SubjectsOf[a] \in Seq(Subjects) /\ SubjectsOf[a] # <<>>
ASSUME RunsAssumption ==
    /\ Clients = Creates \cup Destroys
    /\ Creates \cap Destroys = {}
    /\ InfraOf \in [Clients -> Infras]
ASSUME GrantsAssumption ==
    \A i \in Infras, a \in Names : RoleGrants(i, a) \subseteq Grants \ Foreign
ASSUME CloudAssumption ==
    InitialPools \subseteq Pools /\ InitialProviders \subseteq Providers
ASSUME FaultsAssumption ==
    /\ Faults \subseteq ErrorKinds \ {"conflict", "notFound"}
    /\ MaxFaults \in Nat

VARIABLES
    pool,         \* pool[i]: the workload identity pool of infra ID i
    provider,     \* provider[i]: its OIDC provider
    accounts,     \* <<i, a>>: service accounts that exist
    bound,        \* <<i, a, s>>: s may impersonate account a of i
    pos,          \* pos[r]: where run r is, in which definition and binding
    held,         \* held[r]: bindings run r read before its bindSet
    kept,         \* kept[r]: what a destroy could not remove so far
    err,          \* err[r]: the error run r ended with
    faults,       \* refusals, lost answers and interruptions so far
    disturbed     \* runs overlapped or followed by the opposite command on
                  \* their infra ID since they started (for the properties)

cloud == <<pool, provider, accounts, bound>>
runs == <<pos, held, kept, err>>
vars == <<policyVars, cloud, runs, faults, disturbed>>

CreateSteps == {"project", "pool", "poolGet", "poolUndelete", "poolReget",
                "poolEnable", "prov", "provGet", "provUndelete", "provReget",
                "provUpdate", "account", "rolesGet", "rolesSet", "bindGet",
                "bindSet", "output"}
DestroySteps == {"rmRolesGet", "rmRolesSet", "rmAccount", "rmProv", "rmPool"}
Resting == {"idle", "failed", "done"}

Positions == [step : CreateSteps \cup DestroySteps \cup Resting,
              def : DOMAIN Definitions, sub : Nat]

TypeOK ==
    /\ PolicyTypeOK
    /\ pool \in [Infras -> Pools]
    /\ provider \in [Infras -> Providers]
    /\ accounts \subseteq Infras \X Names
    /\ bound \subseteq Infras \X Names \X Subjects
    /\ pos \in [Clients -> Positions]
    /\ \A r \in Clients :
        pos[r].sub \in DOMAIN SubjectsOf[Definitions[pos[r].def]]
    /\ held \in [Clients -> SUBSET (Infras \X Names \X Subjects)]
    /\ kept \in [Clients -> SUBSET {"roles", "account"}]
    /\ err \in [Clients -> ErrorKinds \cup {"none", "deadline"}]
    /\ faults \in 0..MaxFaults
    /\ disturbed \subseteq Clients

-----------------------------------------------------------------------------
(* Where a run is.                                                         *)
Active(r) == pos[r].step \notin Resting
Infra(r) == InfraOf[r]
Account(r) == Definitions[pos[r].def]
Subject(r) == SubjectsOf[Account(r)][pos[r].sub]
At(r, l) == [pos[r] EXCEPT !.step = l]

Rivals(r) == {q \in Clients : Infra(q) = Infra(r) /\ (q \in Creates <=> r \in Destroys)}

Bindings(r) == {b \in bound : b[1] = Infra(r) /\ b[2] = Account(r)}

Move(r, place) == pos' = [pos EXCEPT ![r] = place]

UseFault == faults < MaxFaults /\ faults' = faults + 1

(* The run ends and reports e.                                             *)
ReturnError(r, e) ==
    /\ Move(r, At(r, "failed"))
    /\ err' = [err EXCEPT ![r] = e]

(* A call took effect: its answer arrives, or is lost and the run fails.   *)
Reply(r, place) ==
    \/ Move(r, place) /\ UNCHANGED <<err, faults>>
    \/ UseFault /\ ReturnError(r, "untyped")

Answer(r, l) == Move(r, At(r, l)) /\ UNCHANGED <<err, faults>>

Refuse(r, e) == ReturnError(r, e) /\ UNCHANGED faults

(* Where the operation that retryWithBackoff runs again begins.            *)
OperationStart(l) ==
    CASE l = "account" -> "account"
      [] l \in {"rolesGet", "rolesSet"} -> "rolesGet"
      [] l \in {"bindGet", "bindSet"} -> "bindGet"

RetrySteps == {"account", "rolesGet", "rolesSet", "bindGet", "bindSet"}

(* Project policy errors have gone through wrapAuthError.                  *)
Returned(r, e) ==
    IF pos[r].step \in {"rolesGet", "rolesSet"} THEN wrapAuthError(e) ELSE e

(* Mutant: transient errors are retried without a deadline.                *)
retryWithoutDeadline(r, e) ==
    \/ /\ isTransientIAMError(Returned(r, e))
       /\ Move(r, At(r, OperationStart(pos[r].step)))
       /\ UNCHANGED err
    \/ /\ ~isTransientIAMError(Returned(r, e))
       /\ ReturnError(r, e)

(* For the calls of CreateServiceAccounts: on a transient error the whole  *)
(* operation is run again until the deadline, any other error is final.    *)
retryWithBackoff(r, e) ==
    \/ /\ isTransientIAMError(Returned(r, e))
       /\ Move(r, At(r, OperationStart(pos[r].step)))
       /\ UNCHANGED err
    \/ /\ isTransientIAMError(Returned(r, e))
       /\ ReturnError(r, "deadline")
    \/ /\ ~isTransientIAMError(Returned(r, e))
       /\ ReturnError(r, e)

Starting(r) ==
    disturbed' = (disturbed \ {r}) \cup Rivals(r)
                 \cup {q \in {r} : \E d \in Rivals(r) : Active(d)}

-----------------------------------------------------------------------------
Init ==
    /\ PolicyInit
    /\ pool \in [Infras -> InitialPools]
    /\ provider \in [Infras -> InitialProviders]
    /\ \A i \in Infras : pool[i].state = "none" => provider[i].state = "none"
    /\ accounts = {}
    /\ bound = {}
    /\ pos = [r \in Clients |-> [step |-> "idle", def |-> 1, sub |-> 1]]
    /\ held = [r \in Clients |-> {}]
    /\ kept = [r \in Clients |-> {}]
    /\ err = [r \in Clients |-> "none"]
    /\ faults = 0
    /\ disturbed = {}

(* The command is run, for the first time or again after it failed.        *)
Start(r) ==
    /\ pos[r].step \in {"idle", "failed"}
    /\ etag < MaxWrites
    /\ Move(r, [step |-> IF r \in Creates THEN "project" ELSE "rmRolesGet",
                def |-> 1, sub |-> 1])
    /\ kept' = [kept EXCEPT ![r] = {}]
    /\ err' = [err EXCEPT ![r] = "none"]
    /\ Starting(r)
    /\ UNCHANGED <<policyVars, cloud, held, faults>>

GetProjectNumber(r) ==
    /\ pos[r].step = "project"
    /\ Answer(r, "pool")
    /\ UNCHANGED <<policyVars, cloud, held, kept, disturbed>>

-----------------------------------------------------------------------------
(* CreateWorkloadIdentityPool and ensurePoolUsable                         *)

SetPool(r, p) ==
    /\ pool' = [pool EXCEPT ![Infra(r)] = p]
    /\ UNCHANGED <<policyVars, provider, accounts, bound, held, kept, disturbed>>

KeepCloud == UNCHANGED <<policyVars, cloud, held, kept, disturbed>>

(* Mutant: a pool that exists is an error.                                 *)
CreatePoolOnce(r) ==
    /\ pos[r].step = "pool"
    /\ \/ /\ pool[Infra(r)].state = "none"
          /\ SetPool(r, [state |-> "active", disabled |-> FALSE])
          /\ Reply(r, At(r, "prov"))
       \/ /\ pool[Infra(r)].state # "none"
          /\ Refuse(r, "conflict")
          /\ KeepCloud

CreatePool(r) ==
    /\ pos[r].step = "pool"
    /\ \/ /\ pool[Infra(r)].state = "none"
          /\ SetPool(r, [state |-> "active", disabled |-> FALSE])
          /\ Reply(r, At(r, "prov"))
       \/ /\ pool[Infra(r)].state # "none"
          /\ Answer(r, "poolGet")
          /\ KeepCloud

GetPool(r) ==
    /\ pos[r].step = "poolGet"
    /\ LET p == pool[Infra(r)] IN
       \/ p.state = "deleted" /\ Answer(r, "poolUndelete")
       \/ p.state = "active" /\ p.disabled /\ Answer(r, "poolEnable")
       \/ p.state = "active" /\ ~p.disabled /\ Answer(r, "prov")
    /\ KeepCloud

UndeletePool(r) ==
    /\ pos[r].step = "poolUndelete"
    /\ \/ /\ pool[Infra(r)].state = "deleted"
          /\ SetPool(r, [pool[Infra(r)] EXCEPT !.state = "active"])
          /\ Reply(r, At(r, "poolReget"))
       \/ /\ pool[Infra(r)].state # "deleted"
          /\ Refuse(r, "unavailable")
          /\ KeepCloud

(* Only Disabled is looked at again, not State.                            *)
RecheckPool(r) ==
    /\ pos[r].step = "poolReget"
    /\ LET p == pool[Infra(r)] IN
       \/ p.disabled /\ Answer(r, "poolEnable")
       \/ ~p.disabled /\ Answer(r, "prov")
    /\ KeepCloud

EnablePool(r) ==
    /\ pos[r].step = "poolEnable"
    /\ \/ /\ pool[Infra(r)].state = "active"
          /\ SetPool(r, [pool[Infra(r)] EXCEPT !.disabled = FALSE])
          /\ Reply(r, At(r, "prov"))
       \/ /\ pool[Infra(r)].state # "active"
          /\ Refuse(r, "unavailable")
          /\ KeepCloud

-----------------------------------------------------------------------------
(* CreateOIDCProvider and ensureProviderUsable                             *)

SetProvider(r, p) ==
    /\ provider' = [provider EXCEPT ![Infra(r)] = p]
    /\ UNCHANGED <<policyVars, pool, accounts, bound, held, kept, disturbed>>

Wanted == [state |-> "active", disabled |-> FALSE,
           issuer |-> "wanted", jwks |-> "wanted"]

Mismatch(p) == p.disabled \/ p.issuer # "wanted" \/ p.jwks # "wanted"

(* The service refuses to create a provider in a pool that is not there.   *)
CreateProvider(r) ==
    /\ pos[r].step = "prov"
    /\ \/ /\ provider[Infra(r)].state = "none"
          /\ pool[Infra(r)].state = "active"
          /\ SetProvider(r, Wanted)
          /\ Reply(r, At(r, "account"))
       \/ /\ provider[Infra(r)].state = "none"
          /\ pool[Infra(r)].state # "active"
          /\ Refuse(r, "unavailable")
          /\ KeepCloud
       \/ /\ provider[Infra(r)].state # "none"
          /\ Answer(r, "provGet")
          /\ KeepCloud

(* What follows a look at a provider p that exists.                        *)
UpdateIfMismatch(r, p) ==
    \/ Mismatch(p) /\ Answer(r, "provUpdate")
    \/ ~Mismatch(p) /\ Answer(r, "account")

GetProvider(r) ==
    /\ pos[r].step = "provGet"
    /\ LET p == provider[Infra(r)] IN
       \/ p.state = "deleted" /\ Answer(r, "provUndelete")
       \/ p.state = "active" /\ UpdateIfMismatch(r, p)
    /\ KeepCloud

UndeleteProvider(r) ==
    /\ pos[r].step = "provUndelete"
    /\ \/ /\ provider[Infra(r)].state = "deleted"
          /\ SetProvider(r, [provider[Infra(r)] EXCEPT !.state = "active"])
          /\ Reply(r, At(r, "provReget"))
       \/ /\ provider[Infra(r)].state # "deleted"
          /\ Refuse(r, "unavailable")
          /\ KeepCloud

RecheckProvider(r) ==
    /\ pos[r].step = "provReget"
    /\ UpdateIfMismatch(r, provider[Infra(r)])
    /\ KeepCloud

(* Patch with the mask disabled, oidc.jwks_json, oidc.issuer_uri.          *)
UpdateProvider(r) ==
    /\ pos[r].step = "provUpdate"
    /\ \/ /\ provider[Infra(r)].state = "active"
          /\ SetProvider(r, [provider[Infra(r)] EXCEPT
                                !.disabled = FALSE,
                                !.issuer = "wanted",
                                !.jwks = "wanted"])
          /\ Reply(r, At(r, "account"))
       \/ /\ provider[Infra(r)].state # "active"
          /\ Refuse(r, "unavailable")
          /\ KeepCloud

-----------------------------------------------------------------------------
(* CreateServiceAccounts: account, project roles and bindings, definition  *)
(* by definition                                                           *)

CreateServiceAccount(r) ==
    /\ pos[r].step = "account"
    /\ \/ /\ <<Infra(r), Account(r)>> \notin accounts
          /\ accounts' = accounts \cup {<<Infra(r), Account(r)>>}
          /\ Reply(r, At(r, "rolesGet"))
       \/ /\ <<Infra(r), Account(r)>> \in accounts
          /\ Answer(r, "rolesGet")
          /\ UNCHANGED accounts
    /\ UNCHANGED <<policyVars, pool, provider, bound, held, kept, disturbed>>

AssignRolesGet(r) ==
    /\ pos[r].step = "rolesGet"
    /\ LET G == RoleGrants(Infra(r), Account(r)) IN
       \/ GetPolicy(r, "add", G) /\ Answer(r, "rolesSet")
       \/ GetPolicyUnchanged(r, "add", G) /\ Answer(r, "bindGet")
    /\ UNCHANGED <<cloud, held, kept, disturbed>>

(* The service refuses a policy that adds a member that does not exist.    *)
AssignRolesSet(r) ==
    /\ pos[r].step = "rolesSet"
    /\ \/ /\ <<Infra(r), Account(r)>> \in accounts
          /\ SetPolicy(r)
          /\ Reply(r, At(r, "bindGet"))
       \/ /\ SetConflict(r)
          /\ retryWithBackoff(r, "conflict")
          /\ UNCHANGED faults
       \/ /\ <<Infra(r), Account(r)>> \notin accounts
          /\ AbandonCall(r)
          /\ retryWithBackoff(r, "iamNotReady")
          /\ UNCHANGED faults
    /\ UNCHANGED <<cloud, held, kept, disturbed>>

(* Mutants: the loop over the bindings runs once too often, or stops after *)
(* the first.                                                              *)
NextBindingOffByOne(r) ==
    IF pos[r].sub <= Len(SubjectsOf[Account(r)])
    THEN [pos[r] EXCEPT !.step = "bindGet", !.sub = @ + 1]
    ELSE At(r, "output")

NextBindingFirstOnly(r) ==
    IF pos[r].def < Len(Definitions)
    THEN [step |-> "account", def |-> pos[r].def + 1, sub |-> 1]
    ELSE At(r, "output")

NextBinding(r) ==
    IF pos[r].sub < Len(SubjectsOf[Account(r)])
    THEN [pos[r] EXCEPT !.step = "bindGet", !.sub = @ + 1]
    ELSE IF pos[r].def < Len(Definitions)
    THEN [step |-> "account", def |-> pos[r].def + 1, sub |-> 1]
    ELSE At(r, "output")

BindingGet(r) ==
    /\ pos[r].step = "bindGet"
    /\ LET b == <<Infra(r), Account(r), Subject(r)>> IN
       \/ /\ <<Infra(r), Account(r)>> \notin accounts
          /\ retryWithBackoff(r, "notFound")
          /\ UNCHANGED <<held, faults>>
       \/ /\ <<Infra(r), Account(r)>> \in accounts
          /\ b \in bound
          /\ Move(r, NextBinding(r))
          /\ UNCHANGED <<held, err, faults>>
       \/ /\ <<Infra(r), Account(r)>> \in accounts
          /\ b \notin bound
          /\ held' = [held EXCEPT ![r] = Bindings(r)]
          /\ Answer(r, "bindSet")
    /\ UNCHANGED <<policyVars, cloud, kept, disturbed>>

(* The policy on an account only grows while the account lives, so its     *)
(* bindings serve as its etag.                                             *)
BindingSet(r) ==
    /\ pos[r].step = "bindSet"
    /\ held' = [held EXCEPT ![r] = {}]
    /\ \/ /\ <<Infra(r), Account(r)>> \notin accounts
          /\ retryWithBackoff(r, "notFound")
          /\ UNCHANGED <<bound, faults>>
       \/ /\ <<Infra(r), Account(r)>> \in accounts
          /\ Bindings(r) # held[r]
          /\ retryWithBackoff(r, "conflict")
          /\ UNCHANGED <<bound, faults>>
       \/ /\ <<Infra(r), Account(r)>> \in accounts
          /\ Bindings(r) = held[r]
          /\ bound' = bound \cup {<<Infra(r), Account(r), Subject(r)>>}
          /\ Reply(r, NextBinding(r))
    /\ UNCHANGED <<policyVars, pool, provider, accounts, kept, disturbed>>

WriteOutput(r) ==
    /\ pos[r].step = "output"
    /\ Reply(r, At(r, "done"))
    /\ KeepCloud

-----------------------------------------------------------------------------
(* DeleteServiceAccounts, DeleteOIDCProvider, DeleteWorkloadIdentityPool   *)

RemoveRolesGet(r) ==
    /\ pos[r].step = "rmRolesGet"
    /\ LET G == RoleGrants(Infra(r), Account(r)) IN
       \/ GetPolicy(r, "remove", G) /\ Answer(r, "rmRolesSet")
       \/ GetPolicyUnchanged(r, "remove", G) /\ Answer(r, "rmAccount")
    /\ UNCHANGED <<cloud, held, kept, disturbed>>

(* A failed removal is logged; the deletion goes on.                       *)
LogAndGoOn(r) ==
    /\ kept' = [kept EXCEPT ![r] = @ \cup {"roles"}]
    /\ Move(r, At(r, "rmAccount"))
    /\ UNCHANGED err

RemoveRolesSet(r) ==
    /\ pos[r].step = "rmRolesSet"
    /\ \/ SetPolicy(r) /\ Answer(r, "rmAccount") /\ UNCHANGED kept
       \/ SetPolicy(r) /\ UseFault /\ LogAndGoOn(r)
       \/ SetConflict(r) /\ LogAndGoOn(r) /\ UNCHANGED faults
    /\ UNCHANGED <<cloud, held, disturbed>>

(* Mutants: the collected errors are dropped after the loop, or the loop   *)
(* ends after the first definition.                                        *)
NextDeletionDropsErrors(r, K) ==
    /\ kept' = [kept EXCEPT ![r] = K]
    /\ UNCHANGED err
    /\ \/ /\ pos[r].def < Len(Definitions)
          /\ Move(r, [step |-> "rmRolesGet", def |-> pos[r].def + 1, sub |-> 1])
       \/ /\ pos[r].def = Len(Definitions)
          /\ Move(r, At(r, "rmProv"))

NextDeletionStopsEarly(r, K) ==
    /\ kept' = [kept EXCEPT ![r] = K]
    /\ UNCHANGED err
    /\ Move(r, At(r, "rmProv"))

(* The loop goes on to the next definition, or past its end: K says what   *)
(* could not be removed.                                                   *)
NextDeletion(r, K) ==
    /\ kept' = [kept EXCEPT ![r] = K]
    /\ \/ /\ pos[r].def < Len(Definitions)
          /\ Move(r, [step |-> "rmRolesGet", def |-> pos[r].def + 1, sub |-> 1])
          /\ UNCHANGED err
       \/ /\ pos[r].def = Len(Definitions)
          /\ "account" \in K
          /\ ReturnError(r, "unavailable")
       \/ /\ pos[r].def = Len(Definitions)
          /\ "account" \notin K
          /\ Move(r, At(r, "rmProv"))
          /\ UNCHANGED err

DeleteServiceAccount(r) ==
    /\ pos[r].step = "rmAccount"
    /\ accounts' = accounts \ {<<Infra(r), Account(r)>>}
    /\ bound' = bound \ Bindings(r)
    /\ \/ NextDeletion(r, kept[r]) /\ UNCHANGED faults
       \/ /\ <<Infra(r), Account(r)>> \in accounts
          /\ UseFault
          /\ NextDeletion(r, kept[r] \cup {"account"})
    /\ UNCHANGED <<policyVars, pool, provider, held, disturbed>>

DeleteProvider(r) ==
    /\ pos[r].step = "rmProv"
    /\ \/ /\ provider[Infra(r)].state = "active"
          /\ SetProvider(r, [provider[Infra(r)] EXCEPT !.state = "deleted"])
          /\ Reply(r, At(r, "rmPool"))
       \/ /\ provider[Infra(r)].state # "active"
          /\ Answer(r, "rmPool")
          /\ KeepCloud

DeletePool(r) ==
    /\ pos[r].step = "rmPool"
    /\ \/ /\ pool[Infra(r)].state = "active"
          /\ SetPool(r, [pool[Infra(r)] EXCEPT !.state = "deleted"])
          /\ Reply(r, At(r, "done"))
       \/ /\ pool[Infra(r)].state # "active"
          /\ Answer(r, "done")
          /\ KeepCloud

-----------------------------------------------------------------------------
(* A remote call is refused and has no effect.                             *)
CallRefused(r) ==
    /\ Active(r)
    /\ pos[r].step # "output"
    /\ UseFault
    /\ AbandonCall(r)
    /\ \E e \in Faults :
        \/ /\ pos[r].step \in RetrySteps
           /\ retryWithBackoff(r, e)
           /\ UNCHANGED kept
        \/ /\ pos[r].step \in {"rmRolesGet", "rmRolesSet"}
           /\ LogAndGoOn(r)
        \/ /\ pos[r].step = "rmAccount"
           /\ NextDeletion(r, kept[r] \cup {"account"})
        \/ /\ pos[r].step \notin RetrySteps \cup {"rmRolesGet", "rmRolesSet", "rmAccount"}
           /\ ReturnError(r, e)
           /\ UNCHANGED kept
    /\ UNCHANGED <<cloud, held, disturbed>>

(* The process is interrupted or dies between two calls.                   *)
Interrupt(r) ==
    /\ Active(r)
    /\ UseFault
    /\ AbandonCall(r)
    /\ ReturnError(r, "untyped")
    /\ UNCHANGED <<cloud, held, kept, disturbed>>

CreateStep(r) ==
    \/ GetProjectNumber(r)
    \/ CreatePool(r) \/ GetPool(r) \/ UndeletePool(r) \/ RecheckPool(r)
    \/ EnablePool(r)
    \/ CreateProvider(r) \/ GetProvider(r) \/ UndeleteProvider(r)
    \/ RecheckProvider(r) \/ UpdateProvider(r)
    \/ CreateServiceAccount(r) \/ AssignRolesGet(r) \/ AssignRolesSet(r)
    \/ BindingGet(r) \/ BindingSet(r) \/ WriteOutput(r)

DestroyStep(r) ==
    \/ RemoveRolesGet(r) \/ RemoveRolesSet(r) \/ DeleteServiceAccount(r)
    \/ DeleteProvider(r) \/ DeletePool(r)

Progress(r) == CreateStep(r) \/ DestroyStep(r)

(* Another administrator edits the project policy.                         *)
OtherEdit(g) ==
    /\ etag < MaxEdits
    /\ AdminEdit(g)
    /\ UNCHANGED <<cloud, runs, faults, disturbed>>

Next ==
    \/ \E r \in Clients :
        \/ Start(r) \/ Progress(r) \/ CallRefused(r) \/ Interrupt(r)
    \/ \E g \in Foreign : OtherEdit(g)

Spec == Init /\ [][Next]_vars

(* A run that is under way takes its next step, and a transient error that *)
(* keeps coming back meets the deadline of retryWithBackoff.               *)
Fairness ==
    \A r \in Clients :
        /\ WF_vars(Progress(r))
        /\ SF_vars(Progress(r) /\ err'[r] = "deadline")

(* Somebody runs a command again until it succeeds.                        *)
Perseverance == \A r \in Clients : WF_vars(Start(r))

FairSpec == Spec /\ Fairness

PerseveringSpec == Spec /\ Fairness /\ Perseverance

-----------------------------------------------------------------------------
(* Everything `iam create` reports as created is there and works.          *)
Usable(i) ==
    /\ pool[i] = [state |-> "active", disabled |-> FALSE]
    /\ provider[i] = Wanted
    /\ \A a \in Names :
        /\ <<i, a>> \in accounts
        /\ RoleGrants(i, a) \subseteq policy
        /\ \A n \in DOMAIN SubjectsOf[a] : <<i, a, SubjectsOf[a][n]>> \in bound

(* A create that succeeds leaves the infrastructure complete and usable,   *)
(* whatever it found, however often it and other creates were interrupted  *)
(* and repeated, and whoever else edits the project policy, unless a       *)
(* destroy of the same infra ID was under way or came later.               *)
CreateDelivers ==
    \A r \in Creates \ disturbed :
        pos[r].step = "done" => Usable(Infra(r))

(* A destroy that succeeds leaves no account, no binding, no live provider *)
(* or pool, and no role grant unless it logged that it could not remove    *)
(* one, whatever failed runs came before it.                               *)
DestroyDelivers ==
    \A r \in Destroys \ disturbed :
        pos[r].step = "done" =>
            /\ pool[Infra(r)].state # "active"
            /\ provider[Infra(r)].state # "active"
            /\ \A a \in Names :
                /\ <<Infra(r), a>> \notin accounts
                /\ "roles" \notin kept[r] =>
                       RoleGrants(Infra(r), a) \cap policy = {}
            /\ \A b \in bound : b[1] # Infra(r)

(* A destroy that succeeds leaves no role grant of the infra ID behind     *)
(* (destroy.go:27-28, "Service Accounts (with role binding cleanup)").     *)
DestroyRemovesGrants ==
    \A r \in Destroys \ disturbed :
        pos[r].step = "done" =>
            \A a \in Names : RoleGrants(Infra(r), a) \cap policy = {}

(* Reverse order: while only destroys work on an infra ID, none of which   *)
(* a create has come across, the provider goes only when no account is     *)
(* left and the pool only when the provider is gone too.                   *)
ReverseOrder ==
    [][\A i \in Infras :
        (\A r \in Clients : Active(r) /\ Infra(r) = i => r \in Destroys \ disturbed) =>
            /\ provider'[i].state # provider[i].state =>
                   \A a \in Names : <<i, a>> \notin accounts
            /\ pool'[i].state # pool[i].state => provider[i].state # "active"
      ]_vars

(* No create fails on an error that isTransientIAMError classifies as IAM  *)
(* propagation before its retries meet the deadline (retry.go:74-75,       *)
(* "These errors should be retried").                                      *)
TransientErrorsAreRetried ==
    [][\A r \in Creates :
        pos[r].step \in RetrySteps /\ pos'[r].step = "failed"
            => ~isTransientIAMError(err'[r])
      ]_vars

(* A run that is under way ends.                                           *)
RunsEnd == \A r \in Clients : Active(r) ~> ~Active(r)

(* The infrastructure is complete in the end and stays so, if failed       *)
(* commands are repeated and no destroy is run: every partial state an     *)
(* earlier run can leave is one a later run completes.                     *)
CreateConverges == <>[](\A i \in Infras : Usable(i))
=============================================================================
