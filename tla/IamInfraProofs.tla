--------------------------- MODULE IamInfraProofs ---------------------------
(***************************************************************************)
(* Proofs about `iam create` and `iam destroy`, for any sets of runs,      *)
(* infra IDs, account definitions and failures: what a run that succeeds   *)
(* has promised is so, although every call is a step of its own and other  *)
(* runs and administrators step in between.                                *)
(*                                                                         *)
(* The argument: as long as no run of the opposite command is at work on   *)
(* an infra ID (Away), what is there only grows under creates, and only    *)
(* shrinks under destroys (Grows, Shrinks); so what a run found or made    *)
(* for what lies behind it (CreateReady, DestroyReady) stays so.  For the  *)
(* grants in the project policy this needs that no write loses another's   *)
(* (PolicyInv, from ProjectPolicyProofs) and that a run writes the request *)
(* it stands at (CallsFit).                                                *)
(***************************************************************************)
EXTENDS IamInfra, ProjectPolicyProofs

Live(r) == Active(r) \/ pos[r].step = "done"

(* Creates take the steps of a create, destroys those of a destroy.        *)
Side(r, l) ==
    /\ r \in Creates => l \in CreateSteps \cup Resting
    /\ r \in Destroys => l \in DestroySteps \cup Resting

Sides == \A r \in Clients : Side(r, pos[r].step)

(* A run holds a policy between the get and the set of its request only.   *)
CallFits(r) ==
    /\ pos[r].step = "rolesSet" =>
           call[r].op = "add" /\ call[r].grants = RoleGrants(Infra(r), Account(r))
    /\ pos[r].step = "rmRolesSet" =>
           call[r].op = "remove" /\ call[r].grants = RoleGrants(Infra(r), Account(r))
    /\ pos[r].step \notin {"rolesSet", "rmRolesSet"} => call[r] = NoCall

CallsFit == \A r \in Clients : CallFits(r)

(* While an undisturbed run is at work, or has succeeded, no run of the    *)
(* opposite command is at work on its infra ID.                            *)
Away ==
    \A r \in Clients \ disturbed : Live(r) => \A q \in Rivals(r) : ~Active(q)

-----------------------------------------------------------------------------
(* What lies behind a create at its step: the pool, the provider, and of   *)
(* the definitions the accounts, the grants and the bindings.              *)
Final == {"output", "done"}
PastRoles == {"bindGet", "bindSet"} \cup Final
PastAccount == {"rolesGet", "rolesSet"} \cup PastRoles
PastProvider == {"account"} \cup PastAccount
PastPool == {"prov", "provGet", "provUndelete", "provReget", "provUpdate"} \cup PastProvider

Enabled == [state |-> "active", disabled |-> FALSE]

PoolReady(r) ==
    /\ pos[r].step \in {"poolReget", "poolEnable"} => pool[Infra(r)].state = "active"
    /\ pos[r].step \in PastPool => pool[Infra(r)] = Enabled

ProviderReady(r) ==
    /\ pos[r].step \in {"provReget", "provUpdate"} => provider[Infra(r)].state = "active"
    /\ pos[r].step \in PastProvider => provider[Infra(r)] = Wanted

(* Definition d lies behind r, which is beyond the steps before S.         *)
Behind(r, d, S) == d < pos[r].def \/ (d = pos[r].def /\ pos[r].step \in S)

AccountsReady(r) ==
    \A d \in DOMAIN Definitions :
        Behind(r, d, PastAccount) => <<Infra(r), Definitions[d]>> \in accounts

GrantsReady(r) ==
    \A d \in DOMAIN Definitions :
        Behind(r, d, PastRoles) => RoleGrants(Infra(r), Definitions[d]) \subseteq policy

BindingsReady(r) ==
    \A d \in DOMAIN Definitions : \A n \in DOMAIN SubjectsOf[Definitions[d]] :
        Behind(r, d, Final) \/ (d = pos[r].def /\ n < pos[r].sub) =>
            <<Infra(r), Definitions[d], SubjectsOf[Definitions[d]][n]>> \in bound

CreateReady(r) ==
    /\ PoolReady(r) /\ ProviderReady(r)
    /\ AccountsReady(r) /\ GrantsReady(r) /\ BindingsReady(r)
    /\ pos[r].step \in Final => pos[r].def = Len(Definitions)

(* What lies behind a destroy: of the definitions the grants and, with     *)
(* their bindings, the accounts, but for what it kept; the provider, the   *)
(* pool.                                                                   *)
PastAccounts == {"rmProv", "rmPool", "done"}

RevokedReady(r) ==
    "roles" \notin kept[r] => \A d \in DOMAIN Definitions :
        Behind(r, d, {"rmAccount"} \cup PastAccounts) =>
            RoleGrants(Infra(r), Definitions[d]) \cap policy = {}

DeletedReady(r) ==
    "account" \notin kept[r] => \A d \in DOMAIN Definitions :
        Behind(r, d, PastAccounts) =>
            /\ <<Infra(r), Definitions[d]>> \notin accounts
            /\ \A b \in bound : ~(b[1] = Infra(r) /\ b[2] = Definitions[d])

DestroyReady(r) ==
    /\ RevokedReady(r) /\ DeletedReady(r)
    /\ pos[r].step \in PastAccounts =>
           "account" \notin kept[r] /\ pos[r].def = Len(Definitions)
    /\ pos[r].step \in {"rmPool", "done"} => provider[Infra(r)].state # "active"
    /\ pos[r].step = "done" => pool[Infra(r)].state # "active"

(* The inductive invariant.                                                *)
Ready ==
    /\ \A r \in Creates \ disturbed : Live(r) => CreateReady(r)
    /\ \A r \in Destroys \ disturbed : Live(r) => DestroyReady(r)

IInv == TypeOK /\ PolicyInv /\ Sides /\ CallsFit /\ Away /\ Ready

-----------------------------------------------------------------------------
(* Types: every step leaves a run at a place of its command.               *)

Errors == ErrorKinds \cup {"none", "deadline"}

PlaceOK(r, p) ==
    /\ p \in Positions
    /\ p.sub \in DOMAIN SubjectsOf[Definitions[p.def]]
    /\ Side(r, p.step)

CloudTypeOK ==
    /\ pool \in [Infras -> Pools]
    /\ provider \in [Infras -> Providers]
    /\ accounts \subseteq Infras \X Names
    /\ bound \subseteq Infras \X Names \X Subjects

NotesTypeOK ==
    /\ held \in [Clients -> SUBSET (Infras \X Names \X Subjects)]
    /\ kept \in [Clients -> SUBSET {"roles", "account"}]
    /\ disturbed \subseteq Clients

ReportsTypeOK == err \in [Clients -> Errors] /\ faults \in 0..MaxFaults

PlacesTypeOK ==
    /\ pos \in [Clients -> Positions]
    /\ \A r \in Clients : pos[r].sub \in DOMAIN SubjectsOf[Definitions[pos[r].def]]

LEMMA TypeParts ==
    TypeOK <=> PolicyTypeOK /\ CloudTypeOK /\ NotesTypeOK /\ ReportsTypeOK /\ PlacesTypeOK
BY DEF TypeOK, CloudTypeOK, NotesTypeOK, ReportsTypeOK, PlacesTypeOK, Errors

LEMMA TypePartsNext ==
    PolicyTypeOK' /\ CloudTypeOK' /\ NotesTypeOK' /\ ReportsTypeOK' /\ PlacesTypeOK' => TypeOK'
BY DEF TypeOK, CloudTypeOK, NotesTypeOK, ReportsTypeOK, PlacesTypeOK, Errors

(* The definitions and their bindings are numbered from one on.            *)
LEMMA Numbered ==
    /\ DOMAIN Definitions = 1 .. Len(Definitions) /\ Len(Definitions) \in Nat \ {0}
    /\ \A d \in DOMAIN Definitions : Definitions[d] \in Names
    /\ \A a \in Names : /\ DOMAIN SubjectsOf[a] = 1 .. Len(SubjectsOf[a])
                        /\ Len(SubjectsOf[a]) \in Nat \ {0}
                        /\ \A n \in DOMAIN SubjectsOf[a] : SubjectsOf[a][n] \in Subjects
<1>1. Definitions \in Seq(Names) /\ Definitions # <<>>
  BY DefinitionsAssumption
<1>2. ASSUME NEW a \in Names
      PROVE  SubjectsOf[a] \in Seq(Subjects) /\ SubjectsOf[a] # <<>>
  BY DefinitionsAssumption
<1> QED
  BY <1>1, <1>2

LEMMA WhereItIs ==
    ASSUME TypeOK, NEW r \in Clients
    PROVE  /\ pos[r] \in Positions /\ Infra(r) \in Infras /\ Account(r) \in Names
           /\ pos[r].def \in DOMAIN Definitions
           /\ pos[r].sub \in DOMAIN SubjectsOf[Account(r)] /\ Subject(r) \in Subjects
BY Numbered, RunsAssumption DEF TypeOK, Positions, Infra, Account, Subject

(* The same definition and binding, at another step.                       *)
LEMMA AtPlace ==
    ASSUME TypeOK, NEW r \in Clients, NEW l \in CreateSteps \cup DestroySteps \cup Resting,
           Side(r, l)
    PROVE  /\ PlaceOK(r, At(r, l))
           /\ At(r, l).step = l /\ At(r, l).def = pos[r].def /\ At(r, l).sub = pos[r].sub
BY WhereItIs DEF PlaceOK, At, Positions, Account

LEMMA FailedPlace ==
    ASSUME TypeOK, NEW r \in Clients
    PROVE  PlaceOK(r, At(r, "failed")) /\ At(r, "failed").step = "failed"
BY AtPlace DEF Resting, Side

(* A run goes to p, or fails.                                              *)
Goes(r, p) == (Move(r, p) \/ Move(r, At(r, "failed"))) /\ ReportsTypeOK'

LEMMA ReplyGoes ==
    ASSUME TypeOK, NEW r \in Clients, NEW p, Reply(r, p)
    PROVE  Goes(r, p)
BY FaultsAssumption
   DEF Reply, Goes, ReturnError, UseFault, TypeOK, ReportsTypeOK, Errors, ErrorKinds

LEMMA AnswerGoes ==
    ASSUME TypeOK, NEW r \in Clients, NEW l, Answer(r, l)
    PROVE  Goes(r, At(r, l))
BY DEF Answer, Goes, TypeOK, ReportsTypeOK, Errors

LEMMA RefuseGoes ==
    ASSUME TypeOK, NEW r \in Clients, NEW e \in ErrorKinds, Refuse(r, e), NEW p
    PROVE  Goes(r, p)
BY DEF Refuse, ReturnError, Goes, TypeOK, ReportsTypeOK, Errors

LEMMA RetryGoes ==
    ASSUME TypeOK, NEW r \in Clients, NEW e \in ErrorKinds, retryWithBackoff(r, e),
           faults' \in 0..MaxFaults
    PROVE  Goes(r, At(r, OperationStart(pos[r].step)))
BY DEF retryWithBackoff, ReturnError, Goes, TypeOK, ReportsTypeOK, Errors

LEMMA Placed ==
    ASSUME TypeOK, Sides, NEW r \in Clients, NEW p, PlaceOK(r, p), Goes(r, p)
    PROVE  PlacesTypeOK' /\ ReportsTypeOK' /\ Sides'
<1>1. PICK q : PlaceOK(r, q) /\ Move(r, q)
  BY FailedPlace DEF Goes
<1>2. PlacesTypeOK' /\ Sides'
  BY <1>1 DEF PlaceOK, Move, TypeOK, PlacesTypeOK, Sides
<1> QED
  BY <1>2 DEF Goes

LEMMA NextBindingPlace ==
    ASSUME TypeOK, NEW r \in Clients, r \in Creates
    PROVE  PlaceOK(r, NextBinding(r))
<1>1. r \notin Destroys
  BY RunsAssumption
<1>2. CASE pos[r].sub < Len(SubjectsOf[Account(r)])
  <2>1. pos[r].sub + 1 \in DOMAIN SubjectsOf[Account(r)] /\ pos[r].sub + 1 \in Nat
    BY <1>2, WhereItIs, Numbered
  <2>2. pos[r] \in [step : CreateSteps \cup DestroySteps \cup Resting,
                    def : DOMAIN Definitions, sub : Nat]
    BY WhereItIs DEF Positions
  <2> QED
    BY <1>1, <1>2, <2>1, <2>2 DEF NextBinding, PlaceOK, Positions, Side, CreateSteps, Account
<1>3. CASE ~(pos[r].sub < Len(SubjectsOf[Account(r)])) /\ pos[r].def < Len(Definitions)
  <2>1. pos[r].def + 1 \in DOMAIN Definitions
    BY <1>3, WhereItIs, Numbered
  <2>2. 1 \in DOMAIN SubjectsOf[Definitions[pos[r].def + 1]]
    BY <2>1, Numbered
  <2> QED
    BY <1>1, <1>3, <2>1, <2>2 DEF NextBinding, PlaceOK, Positions, Side, CreateSteps
<1>4. CASE ~(pos[r].sub < Len(SubjectsOf[Account(r)])) /\ ~(pos[r].def < Len(Definitions))
  BY <1>1, <1>4, AtPlace DEF NextBinding, Side, CreateSteps
<1> QED
  BY <1>2, <1>3, <1>4

-----------------------------------------------------------------------------
(* Where a step of a run leaves it: at a place whose step is in S.         *)
Lands(r, S) == \E p : PlaceOK(r, p) /\ p.step \in S /\ Goes(r, p)

LEMMA CreatesStep ==
    ASSUME Sides, NEW r \in Clients, pos[r].step \in CreateSteps
    PROVE  r \in Creates /\ \A l \in CreateSteps \cup Resting : Side(r, l)
<1>1. pos[r].step \notin DestroySteps \cup Resting
  BY DEF CreateSteps, DestroySteps, Resting
<1> QED
  BY <1>1, RunsAssumption DEF Sides, Side

LEMMA DestroysStep ==
    ASSUME Sides, NEW r \in Clients, pos[r].step \in DestroySteps
    PROVE  r \in Destroys /\ \A l \in DestroySteps \cup Resting : Side(r, l)
<1>1. pos[r].step \notin CreateSteps \cup Resting
  BY DEF CreateSteps, DestroySteps, Resting
<1> QED
  BY <1>1, RunsAssumption DEF Sides, Side

LEMMA LandsAt ==
    ASSUME TypeOK, NEW r \in Clients, NEW l \in CreateSteps \cup DestroySteps \cup Resting,
           Side(r, l), Reply(r, At(r, l)) \/ Answer(r, l), NEW S, l \in S
    PROVE  Lands(r, S)
BY AtPlace, ReplyGoes, AnswerGoes DEF Lands

LEMMA LandsRefused ==
    ASSUME TypeOK, NEW r \in Clients, NEW e \in ErrorKinds, Refuse(r, e), NEW S, "failed" \in S
    PROVE  Lands(r, S)
BY FailedPlace, RefuseGoes DEF Lands

LEMMA LandsRetrying ==
    ASSUME TypeOK, NEW r \in Clients, pos[r].step \in RetrySteps, r \in Creates,
           NEW e \in ErrorKinds, retryWithBackoff(r, e), faults' \in 0..MaxFaults,
           NEW S, {"account", "rolesGet", "bindGet"} \subseteq S
    PROVE  Lands(r, S)
<1> DEFINE l == OperationStart(pos[r].step)
<1>1. l \in {"account", "rolesGet", "bindGet"}
  BY DEF RetrySteps, OperationStart
<1>2. l \in CreateSteps /\ Side(r, l)
  BY <1>1, RunsAssumption DEF CreateSteps, Side
<1>3. PlaceOK(r, At(r, l)) /\ At(r, l).step = l
  BY <1>2, AtPlace
<1>4. Goes(r, At(r, l))
  BY RetryGoes
<1> QED
  BY <1>1, <1>3, <1>4 DEF Lands

(* The steps of a create but for those to "rolesSet".                      *)
CreateLandings == (CreateSteps \cup Resting) \ {"rolesSet"}

LEMMA PoolStepsLand ==
    ASSUME TypeOK, Sides, NEW r \in Clients,
           \/ GetProjectNumber(r) \/ CreatePool(r) \/ GetPool(r) \/ UndeletePool(r)
           \/ RecheckPool(r) \/ EnablePool(r)
    PROVE  Lands(r, CreateLandings)
<1>1. pos[r].step \in CreateSteps
  BY DEF GetProjectNumber, CreatePool, GetPool, UndeletePool, RecheckPool, EnablePool, CreateSteps
<1>2. \A l \in CreateSteps \cup Resting : Side(r, l)
  BY <1>1, CreatesStep
<1>3. "unavailable" \in ErrorKinds /\ "failed" \in CreateLandings
  BY DEF ErrorKinds, CreateLandings, Resting
<1>4. ASSUME NEW l \in {"pool", "poolGet", "poolUndelete", "poolReget", "poolEnable", "prov"},
             Reply(r, At(r, l)) \/ Answer(r, l)
      PROVE  Lands(r, CreateLandings)
  BY <1>2, <1>4, LandsAt DEF CreateLandings, CreateSteps
<1>5. ASSUME Refuse(r, "unavailable") PROVE Lands(r, CreateLandings)
  BY <1>3, <1>5, LandsRefused
<1> QED
  BY <1>4, <1>5
     DEF GetProjectNumber, CreatePool, GetPool, UndeletePool, RecheckPool, EnablePool

LEMMA ProviderStepsLand ==
    ASSUME TypeOK, Sides, NEW r \in Clients,
           \/ CreateProvider(r) \/ GetProvider(r) \/ UndeleteProvider(r)
           \/ RecheckProvider(r) \/ UpdateProvider(r)
    PROVE  Lands(r, CreateLandings)
<1>1. pos[r].step \in CreateSteps
  BY DEF CreateProvider, GetProvider, UndeleteProvider, RecheckProvider, UpdateProvider,
         CreateSteps
<1>2. \A l \in CreateSteps \cup Resting : Side(r, l)
  BY <1>1, CreatesStep
<1>3. "unavailable" \in ErrorKinds /\ "failed" \in CreateLandings
  BY DEF ErrorKinds, CreateLandings, Resting
<1>4. ASSUME NEW l \in {"provGet", "provUndelete", "provReget", "provUpdate", "account"},
             Reply(r, At(r, l)) \/ Answer(r, l)
      PROVE  Lands(r, CreateLandings)
  BY <1>2, <1>4, LandsAt DEF CreateLandings, CreateSteps
<1>5. ASSUME Refuse(r, "unavailable") PROVE Lands(r, CreateLandings)
  BY <1>3, <1>5, LandsRefused
<1> QED
  BY <1>4, <1>5
     DEF CreateProvider, GetProvider, UndeleteProvider, RecheckProvider, UpdateProvider,
         UpdateIfMismatch

LEMMA AccountStepsLand ==
    ASSUME TypeOK, Sides, NEW r \in Clients,
           \/ CreateServiceAccount(r) \/ AssignRolesGet(r) \/ AssignRolesSet(r)
           \/ BindingGet(r) \/ BindingSet(r) \/ WriteOutput(r)
    PROVE  /\ Lands(r, CreateLandings \cup {"rolesSet"})
           /\ ~AssignRolesGet(r) => Lands(r, CreateLandings)
<1> DEFINE S == CreateLandings \cup {"rolesSet"}
<1>1. pos[r].step \in CreateSteps
  BY DEF CreateServiceAccount, AssignRolesGet, AssignRolesSet, BindingGet, BindingSet,
         WriteOutput, CreateSteps
<1>2. r \in Creates /\ \A l \in CreateSteps \cup Resting : Side(r, l)
  BY <1>1, CreatesStep
<1>3. /\ {"conflict", "iamNotReady", "notFound"} \subseteq ErrorKinds
      /\ {"account", "rolesGet", "bindGet"} \subseteq CreateLandings
  BY DEF ErrorKinds, CreateLandings, CreateSteps, Resting
<1>4. ASSUME NEW l \in {"rolesGet", "bindGet", "bindSet", "done"},
             Reply(r, At(r, l)) \/ Answer(r, l)
      PROVE  Lands(r, CreateLandings)
  BY <1>2, <1>4, LandsAt DEF CreateLandings, CreateSteps, Resting
<1>5. ASSUME NEW e \in {"conflict", "iamNotReady", "notFound"}, retryWithBackoff(r, e),
             UNCHANGED faults, pos[r].step \in RetrySteps
      PROVE  Lands(r, CreateLandings)
  <2>1. faults' \in 0..MaxFaults
    BY <1>5 DEF TypeOK
  <2> QED
    BY <1>2, <1>3, <1>5, <2>1, LandsRetrying
<1>6. ASSUME Goes(r, NextBinding(r)) PROVE Lands(r, CreateLandings)
  <2>1. NextBinding(r).step \in {"bindGet", "account", "output"}
    BY WhereItIs DEF NextBinding, At, Positions
  <2>2. NextBinding(r).step \in CreateLandings
    BY <2>1 DEF CreateLandings, CreateSteps, Resting
  <2> QED
    BY <1>2, <1>6, <2>2, NextBindingPlace DEF Lands
<1>7. CASE CreateServiceAccount(r) \/ WriteOutput(r)
  BY <1>4, <1>7 DEF CreateServiceAccount, WriteOutput, Lands
<1>8. CASE AssignRolesGet(r)
  <2>1. ASSUME Answer(r, "rolesSet") PROVE Lands(r, S)
    BY <1>2, <2>1, LandsAt DEF CreateSteps
  <2> QED
    BY <1>4, <1>8, <2>1 DEF AssignRolesGet, Lands
<1>9. CASE AssignRolesSet(r)
  BY <1>4, <1>5, <1>9 DEF AssignRolesSet, RetrySteps, Lands
<1>10. CASE BindingGet(r)
  <2>1. ASSUME Move(r, NextBinding(r)), UNCHANGED <<err, faults>> PROVE Goes(r, NextBinding(r))
    BY <2>1 DEF Goes, ReportsTypeOK, TypeOK, Errors
  <2> QED
    BY <1>4, <1>5, <1>6, <1>10, <2>1 DEF BindingGet, RetrySteps, Lands
<1>11. CASE BindingSet(r)
  BY <1>5, <1>6, <1>11, ReplyGoes DEF BindingSet, RetrySteps, Lands
<1> QED
  BY <1>7, <1>8, <1>9, <1>10, <1>11

(* The steps of a destroy but for those to "rmRolesSet".                   *)
DestroyLandings == (DestroySteps \cup Resting) \ {"rmRolesSet"}

LEMMA LandsNextDeletion ==
    ASSUME TypeOK, Sides, NEW r \in Clients, pos[r].step \in DestroySteps,
           NEW K, NextDeletion(r, K), faults' \in 0..MaxFaults
    PROVE  Lands(r, DestroyLandings)
<1>1. r \in Destroys /\ r \notin Creates /\ \A l \in DestroySteps \cup Resting : Side(r, l)
  BY DestroysStep, RunsAssumption
<1>2. err' \in [Clients -> Errors]
  BY DEF NextDeletion, ReturnError, TypeOK, Errors, ErrorKinds
<1>3. ReportsTypeOK'
  BY <1>2 DEF ReportsTypeOK
<1>4. CASE Move(r, At(r, "failed")) \/ Move(r, At(r, "rmProv"))
  <2>1. PICK l \in {"failed", "rmProv"} : Move(r, At(r, l))
    BY <1>4
  <2>2. l \in DestroySteps \cup Resting /\ l \in DestroyLandings
    BY DEF DestroySteps, Resting, DestroyLandings
  <2>3. PlaceOK(r, At(r, l)) /\ At(r, l).step = l
    BY <1>1, <2>2, AtPlace
  <2> QED
    BY <1>3, <2>1, <2>2, <2>3 DEF Goes, Lands
<1>5. CASE /\ pos[r].def < Len(Definitions)
           /\ Move(r, [step |-> "rmRolesGet", def |-> pos[r].def + 1, sub |-> 1])
  <2> DEFINE p == [step |-> "rmRolesGet", def |-> pos[r].def + 1, sub |-> 1]
  <2>1. pos[r].def + 1 \in DOMAIN Definitions
    BY <1>5, WhereItIs, Numbered
  <2>2. 1 \in DOMAIN SubjectsOf[Definitions[pos[r].def + 1]]
    BY <2>1, Numbered
  <2>3. p.step \in DestroySteps \cap DestroyLandings
    BY DEF DestroySteps, DestroyLandings
  <2>4. PlaceOK(r, p)
    BY <1>1, <2>1, <2>2, <2>3 DEF PlaceOK, Positions, Side
  <2> QED
    BY <1>3, <1>5, <2>3, <2>4 DEF Goes, Lands
<1> QED
  BY <1>4, <1>5 DEF NextDeletion, ReturnError

LEMMA DestroyStepsLand ==
    ASSUME TypeOK, Sides, NEW r \in Clients, DestroyStep(r)
    PROVE  /\ Lands(r, DestroyLandings \cup {"rmRolesSet"})
           /\ ~RemoveRolesGet(r) => Lands(r, DestroyLandings)
<1>1. pos[r].step \in DestroySteps
  BY DEF DestroyStep, RemoveRolesGet, RemoveRolesSet, DeleteServiceAccount, DeleteProvider,
         DeletePool, DestroySteps
<1>2. r \in Destroys /\ \A l \in DestroySteps \cup Resting : Side(r, l)
  BY <1>1, DestroysStep
<1>3. ASSUME NEW l \in {"rmAccount", "rmPool", "done"}, Reply(r, At(r, l)) \/ Answer(r, l)
      PROVE  Lands(r, DestroyLandings)
  BY <1>2, <1>3, LandsAt DEF DestroyLandings, DestroySteps, Resting
<1>4. CASE RemoveRolesGet(r)
  <2>1. ASSUME Answer(r, "rmRolesSet") PROVE Lands(r, DestroyLandings \cup {"rmRolesSet"})
    BY <1>2, <2>1, LandsAt DEF DestroySteps
  <2> QED
    BY <1>3, <1>4, <2>1 DEF RemoveRolesGet, Lands
<1>5. CASE RemoveRolesSet(r)
  <2>1. ASSUME LogAndGoOn(r), faults' \in 0..MaxFaults PROVE Goes(r, At(r, "rmAccount"))
    BY <2>1 DEF LogAndGoOn, Goes, ReportsTypeOK, TypeOK, Errors
  <2>2. PlaceOK(r, At(r, "rmAccount")) /\ At(r, "rmAccount").step = "rmAccount"
    BY <1>2, AtPlace DEF DestroySteps
  <2>3. ASSUME LogAndGoOn(r), faults' \in 0..MaxFaults PROVE Lands(r, DestroyLandings)
    BY <2>1, <2>2, <2>3 DEF Lands, DestroyLandings, DestroySteps
  <2>4. ASSUME UseFault \/ UNCHANGED faults PROVE faults' \in 0..MaxFaults
    BY <2>4, FaultsAssumption DEF UseFault, TypeOK
  <2> QED
    BY <1>3, <1>5, <2>3, <2>4 DEF RemoveRolesSet, Lands
<1>6. CASE DeleteServiceAccount(r)
  <2>1. faults' \in 0..MaxFaults
    BY <1>6, FaultsAssumption DEF DeleteServiceAccount, UseFault, TypeOK
  <2> QED
    BY <1>1, <1>6, <2>1, LandsNextDeletion DEF DeleteServiceAccount, Lands
<1>7. CASE DeleteProvider(r) \/ DeletePool(r)
  BY <1>3, <1>7 DEF DeleteProvider, DeletePool, Lands
<1> QED
  BY <1>4, <1>5, <1>6, <1>7 DEF DestroyStep

(* Any step of a run but those that take it to the set of a request.       *)
Landings == (CreateSteps \cup DestroySteps \cup Resting) \ {"rolesSet", "rmRolesSet"}

LEMMA LandsWider ==
    ASSUME NEW r \in Clients, NEW S, NEW T, Lands(r, S), S \subseteq T
    PROVE  Lands(r, T)
BY DEF Lands

LEMMA LandingsWider ==
    CreateLandings \subseteq Landings /\ DestroyLandings \subseteq Landings
<1>1. "rmRolesSet" \notin CreateSteps \cup Resting
  BY DEF CreateSteps, Resting
<1>2. "rolesSet" \notin DestroySteps \cup Resting
  BY DEF DestroySteps, Resting
<1> QED
  BY <1>1, <1>2 DEF CreateLandings, DestroyLandings, Landings

LEMMA EndingsLand ==
    ASSUME TypeOK, Sides, NEW r \in Clients, NEW e \in ErrorKinds, ReturnError(r, e),
           faults' \in 0..MaxFaults
    PROVE  Lands(r, Landings)
<1>1. Goes(r, At(r, "failed"))
  BY DEF ReturnError, Goes, ReportsTypeOK, TypeOK, Errors
<1> QED
  BY <1>1, FailedPlace DEF Lands, Landings, Resting

LEMMA FaultsBounded ==
    ASSUME TypeOK, UseFault
    PROVE  faults' \in 0..MaxFaults
BY FaultsAssumption DEF UseFault, TypeOK

LEMMA CallRefusedLands ==
    ASSUME TypeOK, Sides, NEW r \in Clients, CallRefused(r)
    PROVE  Lands(r, Landings)
<1>1. faults' \in 0..MaxFaults
  BY FaultsBounded DEF CallRefused
<1>2. PICK e \in Faults :
        \/ /\ pos[r].step \in RetrySteps
           /\ retryWithBackoff(r, e)
        \/ /\ pos[r].step \in {"rmRolesGet", "rmRolesSet"}
           /\ LogAndGoOn(r)
        \/ /\ pos[r].step = "rmAccount"
           /\ NextDeletion(r, kept[r] \cup {"account"})
        \/ ReturnError(r, e)
  BY DEF CallRefused
<1>3. e \in ErrorKinds
  BY FaultsAssumption
<1>4. CASE pos[r].step \in RetrySteps /\ retryWithBackoff(r, e)
  <2>1. pos[r].step \in CreateSteps
    BY <1>4 DEF RetrySteps, CreateSteps
  <2>2. {"account", "rolesGet", "bindGet"} \subseteq Landings
    BY DEF Landings, CreateSteps
  <2> QED
    BY <1>1, <1>3, <1>4, <2>1, <2>2, CreatesStep, LandsRetrying
<1>5. CASE pos[r].step \in {"rmRolesGet", "rmRolesSet"} /\ LogAndGoOn(r)
  <2>1. pos[r].step \in DestroySteps /\ "rmAccount" \in DestroySteps
    BY <1>5 DEF DestroySteps
  <2>2. Goes(r, At(r, "rmAccount"))
    BY <1>1, <1>5 DEF LogAndGoOn, Goes, ReportsTypeOK, TypeOK, Errors
  <2>3. PlaceOK(r, At(r, "rmAccount")) /\ At(r, "rmAccount").step = "rmAccount"
    BY <2>1, DestroysStep, AtPlace
  <2> QED
    BY <2>1, <2>2, <2>3 DEF Lands, Landings
<1>6. CASE pos[r].step = "rmAccount" /\ NextDeletion(r, kept[r] \cup {"account"})
  BY <1>1, <1>6, LandsNextDeletion, LandsWider, LandingsWider DEF DestroySteps
<1>7. CASE ReturnError(r, e)
  BY <1>1, <1>3, <1>7, EndingsLand
<1> QED
  BY <1>2, <1>4, <1>5, <1>6, <1>7

LEMMA InterruptLands ==
    ASSUME TypeOK, Sides, NEW r \in Clients, Interrupt(r)
    PROVE  Lands(r, Landings)
<1>1. "untyped" \in ErrorKinds
  BY DEF ErrorKinds
<1> QED
  BY <1>1, FaultsBounded, EndingsLand DEF Interrupt

LEMMA StartLands ==
    ASSUME TypeOK, Sides, NEW r \in Clients, Start(r)
    PROVE  Lands(r, Landings)
<1> DEFINE l == IF r \in Creates THEN "project" ELSE "rmRolesGet"
           p == [step |-> l, def |-> 1, sub |-> 1]
<1>1. 1 \in DOMAIN Definitions /\ 1 \in DOMAIN SubjectsOf[Definitions[1]]
  BY Numbered
<1>2. l \in CreateSteps \cup DestroySteps \cup Resting /\ l \in Landings /\ Side(r, l)
  BY RunsAssumption DEF CreateSteps, DestroySteps, Landings, Side
<1>3. PlaceOK(r, p)
  BY <1>1, <1>2 DEF PlaceOK, Positions
<1>4. Goes(r, p)
  BY DEF Start, Goes, ReportsTypeOK, TypeOK, Errors
<1> QED
  BY <1>2, <1>3, <1>4 DEF Lands

Step(r) == Start(r) \/ Progress(r) \/ CallRefused(r) \/ Interrupt(r)

(* Every step of a run leaves it at a place of its command; only a get of  *)
(* the policy takes it to the set of a request.                            *)
LEMMA StepLands ==
    ASSUME TypeOK, Sides, NEW r \in Clients, Step(r)
    PROVE  /\ Lands(r, CreateSteps \cup DestroySteps \cup Resting)
           /\ ~AssignRolesGet(r) /\ ~RemoveRolesGet(r) => Lands(r, Landings)
<1> DEFINE All == CreateSteps \cup DestroySteps \cup Resting
<1>1. Landings \subseteq All /\ CreateLandings \cup {"rolesSet"} \subseteq All
      /\ DestroyLandings \cup {"rmRolesSet"} \subseteq All
  <2>1. "rolesSet" \in CreateSteps /\ "rmRolesSet" \in DestroySteps
    BY DEF CreateSteps, DestroySteps
  <2> QED
    BY <2>1 DEF Landings, CreateLandings, DestroyLandings
<1>2. CASE Start(r) \/ CallRefused(r) \/ Interrupt(r)
  BY <1>1, <1>2, StartLands, CallRefusedLands, InterruptLands, LandsWider
<1>3. CASE DestroyStep(r)
  BY <1>1, <1>3, DestroyStepsLand, LandsWider, LandingsWider
<1>4. CASE CreateStep(r)
  BY <1>1, <1>4, PoolStepsLand, ProviderStepsLand, AccountStepsLand, LandsWider, LandingsWider
     DEF CreateStep
<1> QED
  BY <1>2, <1>3, <1>4 DEF Step, Progress

-----------------------------------------------------------------------------
(* What a step of a run does to the project policy.                        *)
PolicyMove(r) ==
    \/ \E op \in {"add", "remove"} : GetPolicy(r, op, RoleGrants(Infra(r), Account(r)))
    \/ SetPolicy(r) \/ SetConflict(r) \/ AbandonCall(r) \/ UNCHANGED policyVars

LEMMA QuietSteps ==
    ASSUME NEW r \in Clients, CreateStep(r), ~AssignRolesGet(r), ~AssignRolesSet(r)
    PROVE  UNCHANGED policyVars
<1>1. CASE GetProjectNumber(r) \/ CreatePool(r) \/ GetPool(r) \/ UndeletePool(r)
           \/ RecheckPool(r) \/ EnablePool(r)
  BY <1>1 DEF GetProjectNumber, CreatePool, GetPool, UndeletePool, RecheckPool, EnablePool,
              SetPool, KeepCloud, policyVars
<1>2. CASE CreateProvider(r) \/ GetProvider(r) \/ UndeleteProvider(r)
           \/ RecheckProvider(r) \/ UpdateProvider(r)
  BY <1>2 DEF CreateProvider, GetProvider, UndeleteProvider, RecheckProvider, UpdateProvider,
              SetProvider, KeepCloud, policyVars
<1>3. CASE CreateServiceAccount(r) \/ BindingGet(r) \/ BindingSet(r) \/ WriteOutput(r)
  BY <1>3 DEF CreateServiceAccount, BindingGet, BindingSet, WriteOutput, KeepCloud, policyVars
<1> QED
  BY <1>1, <1>2, <1>3 DEF CreateStep

LEMMA StepMovesPolicy ==
    ASSUME NEW r \in Clients, Step(r)
    PROVE  PolicyMove(r)
<1>1. CASE Start(r) \/ CallRefused(r) \/ Interrupt(r)
  BY <1>1 DEF Start, CallRefused, Interrupt, PolicyMove
<1>2. CASE CreateStep(r)
  BY <1>2, QuietSteps DEF AssignRolesGet, AssignRolesSet, GetPolicyUnchanged, PolicyMove
<1>3. CASE RemoveRolesGet(r) \/ RemoveRolesSet(r)
  BY <1>3 DEF RemoveRolesGet, RemoveRolesSet, GetPolicyUnchanged, PolicyMove
<1>4. CASE DeleteServiceAccount(r) \/ DeleteProvider(r) \/ DeletePool(r)
  BY <1>4 DEF DeleteServiceAccount, DeleteProvider, DeletePool, SetProvider, SetPool,
              KeepCloud, PolicyMove, policyVars
<1> QED
  BY <1>1, <1>2, <1>3, <1>4 DEF Step, Progress, DestroyStep

LEMMA OwnGrantsAsked ==
    ASSUME TypeOK, NEW r \in Clients
    PROVE  RoleGrants(Infra(r), Account(r)) \in SUBSET (Grants \ Foreign)
BY WhereItIs, GrantsAssumption

LEMMA PolicyMoveInv ==
    ASSUME TypeOK, PolicyInv, NEW r \in Clients, PolicyMove(r)
    PROVE  PolicyInv'
BY OwnGrantsAsked, GetPolicyInv, SetPolicyInv, SetConflictInv, AbandonCallInv, PolicyStutterInv
   DEF PolicyMove

(* A step of a run is a step of the atomic policy, or one it does not see. *)
LEMMA PolicyMoveRefines ==
    ASSUME TypeOK, PolicyInv, NEW r \in Clients, PolicyMove(r)
    PROVE  [Atomic!Next]_(Atomic!vars)
<1>1. ASSUME NEW op \in {"add", "remove"},
             GetPolicy(r, op, RoleGrants(Infra(r), Account(r)))
      PROVE  Atomic!Next
  BY <1>1, OwnGrantsAsked, GetPolicyAsks DEF Atomic!Next
<1>2. ASSUME SetPolicy(r) PROVE Atomic!Next
  BY <1>2, SetPolicyTakesEffect DEF Atomic!Next
<1>3. ASSUME SetConflict(r) PROVE Atomic!Next
  BY <1>3, AbandonCallDrops DEF SetConflict, AbandonCall, Atomic!Next
<1>4. ASSUME AbandonCall(r), call[r] # NoCall PROVE Atomic!Next
  BY <1>4, AbandonCallDrops DEF Atomic!Next
<1>5. ASSUME AbandonCall(r), call[r] = NoCall PROVE UNCHANGED policyVars
  BY <1>5 DEF AbandonCall, PolicyInv, PolicyTypeOK, policyVars
<1>6. ASSUME UNCHANGED policyVars PROVE UNCHANGED Atomic!vars
  BY <1>6 DEF policyVars, Asked, Atomic!vars
<1> QED
  BY <1>1, <1>2, <1>3, <1>4, <1>5, <1>6 DEF PolicyMove

-----------------------------------------------------------------------------
(* The cloud's and the runs' own state keep their types.                   *)
LEMMA PoolStepsType ==
    ASSUME TypeOK, NEW r \in Clients,
           \/ GetProjectNumber(r) \/ CreatePool(r) \/ GetPool(r) \/ UndeletePool(r)
           \/ RecheckPool(r) \/ EnablePool(r) \/ DeletePool(r)
    PROVE  CloudTypeOK' /\ NotesTypeOK'
<1>1. ASSUME NEW p \in Pools, SetPool(r, p) PROVE CloudTypeOK' /\ NotesTypeOK'
  BY <1>1 DEF SetPool, CloudTypeOK, NotesTypeOK, TypeOK
<1>2. ASSUME KeepCloud PROVE CloudTypeOK' /\ NotesTypeOK'
  BY <1>2 DEF KeepCloud, cloud, CloudTypeOK, NotesTypeOK, TypeOK
<1>3. pool[Infra(r)] \in Pools
  BY WhereItIs DEF TypeOK
<1>4. /\ [state |-> "active", disabled |-> FALSE] \in Pools
      /\ \A s \in {"active", "deleted"} : [pool[Infra(r)] EXCEPT !.state = s] \in Pools
      /\ [pool[Infra(r)] EXCEPT !.disabled = FALSE] \in Pools
  BY <1>3 DEF Pools
<1> QED
  BY <1>1, <1>2, <1>4
     DEF GetProjectNumber, CreatePool, GetPool, UndeletePool, RecheckPool, EnablePool,
         DeletePool, KeepCloud

LEMMA ProviderStepsType ==
    ASSUME TypeOK, NEW r \in Clients,
           \/ CreateProvider(r) \/ GetProvider(r) \/ UndeleteProvider(r)
           \/ RecheckProvider(r) \/ UpdateProvider(r) \/ DeleteProvider(r)
    PROVE  CloudTypeOK' /\ NotesTypeOK'
<1>1. ASSUME NEW p \in Providers, SetProvider(r, p) PROVE CloudTypeOK' /\ NotesTypeOK'
  BY <1>1 DEF SetProvider, CloudTypeOK, NotesTypeOK, TypeOK
<1>2. ASSUME KeepCloud PROVE CloudTypeOK' /\ NotesTypeOK'
  BY <1>2 DEF KeepCloud, cloud, CloudTypeOK, NotesTypeOK, TypeOK
<1>3. provider[Infra(r)] \in Providers
  BY WhereItIs DEF TypeOK
<1>4. /\ Wanted \in Providers
      /\ \A s \in {"active", "deleted"} : [provider[Infra(r)] EXCEPT !.state = s] \in Providers
      /\ [provider[Infra(r)] EXCEPT !.disabled = FALSE, !.issuer = "wanted",
                                    !.jwks = "wanted"] \in Providers
  BY <1>3 DEF Providers, Wanted
<1> QED
  BY <1>1, <1>2, <1>4
     DEF CreateProvider, GetProvider, UndeleteProvider, RecheckProvider, UpdateProvider,
         DeleteProvider

LEMMA AccountStepsType ==
    ASSUME TypeOK, NEW r \in Clients,
           \/ CreateServiceAccount(r) \/ AssignRolesGet(r) \/ AssignRolesSet(r)
           \/ BindingGet(r) \/ BindingSet(r) \/ WriteOutput(r)
    PROVE  CloudTypeOK' /\ NotesTypeOK'
<1>1. /\ <<Infra(r), Account(r)>> \in Infras \X Names
      /\ <<Infra(r), Account(r), Subject(r)>> \in Infras \X Names \X Subjects
  BY WhereItIs
<1>2. CASE CreateServiceAccount(r)
  BY <1>1, <1>2 DEF CreateServiceAccount, CloudTypeOK, NotesTypeOK, TypeOK
<1>3. CASE AssignRolesGet(r) \/ AssignRolesSet(r) \/ WriteOutput(r)
  BY <1>3 DEF AssignRolesGet, AssignRolesSet, WriteOutput, KeepCloud, cloud,
              CloudTypeOK, NotesTypeOK, TypeOK
<1>4. CASE BindingGet(r)
  <2>1. Bindings(r) \subseteq Infras \X Names \X Subjects
    BY DEF Bindings, TypeOK
  <2> QED
    BY <1>4, <2>1 DEF BindingGet, cloud, CloudTypeOK, NotesTypeOK, TypeOK
<1>5. CASE BindingSet(r)
  BY <1>1, <1>5 DEF BindingSet, CloudTypeOK, NotesTypeOK, TypeOK
<1> QED
  BY <1>2, <1>3, <1>4, <1>5

LEMMA OtherStepsType ==
    ASSUME TypeOK, NEW r \in Clients,
           \/ Start(r) \/ CallRefused(r) \/ Interrupt(r)
           \/ RemoveRolesGet(r) \/ RemoveRolesSet(r) \/ DeleteServiceAccount(r)
    PROVE  CloudTypeOK' /\ NotesTypeOK'
<1>1. CASE Start(r)
  BY <1>1 DEF Start, Starting, Rivals, cloud, CloudTypeOK, NotesTypeOK, TypeOK
<1>2. CASE Interrupt(r) \/ RemoveRolesGet(r)
  BY <1>2 DEF Interrupt, RemoveRolesGet, cloud, CloudTypeOK, NotesTypeOK, TypeOK
<1>3. CASE RemoveRolesSet(r)
  BY <1>3 DEF RemoveRolesSet, LogAndGoOn, cloud, CloudTypeOK, NotesTypeOK, TypeOK
<1>4. ASSUME NEW K, K \in SUBSET {"roles", "account"}, NextDeletion(r, K)
      PROVE  kept' \in [Clients -> SUBSET {"roles", "account"}]
  BY <1>4 DEF NextDeletion, TypeOK
<1>5. kept[r] \in SUBSET {"roles", "account"}
  BY DEF TypeOK
<1>6. CASE CallRefused(r)
  <2>1. kept' \in [Clients -> SUBSET {"roles", "account"}]
    BY <1>4, <1>5, <1>6 DEF CallRefused, LogAndGoOn, TypeOK
  <2> QED
    BY <1>6, <2>1 DEF CallRefused, cloud, CloudTypeOK, NotesTypeOK, TypeOK
<1>7. CASE DeleteServiceAccount(r)
  <2>1. kept' \in [Clients -> SUBSET {"roles", "account"}]
    BY <1>4, <1>5, <1>7 DEF DeleteServiceAccount
  <2> QED
    BY <1>7, <2>1 DEF DeleteServiceAccount, CloudTypeOK, NotesTypeOK, TypeOK
<1> QED
  BY <1>1, <1>2, <1>3, <1>6, <1>7

LEMMA StepType ==
    ASSUME TypeOK, PolicyInv, Sides, NEW r \in Clients, Step(r)
    PROVE  TypeOK' /\ PolicyInv' /\ Sides'
<1>1. PolicyInv'
  BY StepMovesPolicy, PolicyMoveInv
<1>2. CloudTypeOK' /\ NotesTypeOK'
  BY PoolStepsType, ProviderStepsType, AccountStepsType, OtherStepsType
     DEF Step, Progress, CreateStep, DestroyStep
<1>3. PlacesTypeOK' /\ ReportsTypeOK' /\ Sides'
  BY StepLands, Placed DEF Lands
<1>4. PolicyTypeOK'
  BY <1>1 DEF PolicyInv
<1> QED
  BY <1>1, <1>2, <1>3, <1>4, TypePartsNext

LEMMA OtherEditType ==
    ASSUME TypeOK, PolicyInv, Sides, NEW g \in Foreign, OtherEdit(g)
    PROVE  TypeOK' /\ PolicyInv' /\ Sides'
<1>1. PolicyInv'
  BY AdminEditInv DEF OtherEdit
<1>2. TypeOK'
  BY <1>1 DEF OtherEdit, PolicyInv, TypeOK, cloud, runs
<1>3. Sides'
  BY DEF OtherEdit, Sides, runs
<1> QED
  BY <1>1, <1>2, <1>3

LEMMA StutterType ==
    ASSUME TypeOK, PolicyInv, Sides, UNCHANGED vars
    PROVE  TypeOK' /\ PolicyInv' /\ Sides'
<1>1. PolicyInv'
  BY PolicyStutterInv DEF vars
<1>2. TypeOK'
  BY DEF vars, policyVars, cloud, runs, TypeOK, PolicyTypeOK
<1>3. Sides'
  BY DEF vars, runs, Sides
<1> QED
  BY <1>1, <1>2, <1>3

LEMMA InitType == Init => TypeOK /\ PolicyInv /\ Sides
<1> SUFFICES ASSUME Init PROVE TypeOK /\ PolicyInv /\ Sides
  OBVIOUS
<1>1. PolicyInv
  BY PolicyInitInv DEF Init
<1>2. 1 \in DOMAIN Definitions /\ 1 \in DOMAIN SubjectsOf[Definitions[1]]
  BY Numbered
<1>3. PlacesTypeOK /\ Sides
  BY <1>2 DEF Init, PlacesTypeOK, Positions, Resting, Sides, Side
<1>4. CloudTypeOK /\ NotesTypeOK /\ ReportsTypeOK
  BY CloudAssumption, FaultsAssumption
     DEF Init, CloudTypeOK, NotesTypeOK, ReportsTypeOK, Errors
<1> QED
  BY <1>1, <1>3, <1>4, TypeParts DEF PolicyInv

LEMMA NextType ==
    TypeOK /\ PolicyInv /\ Sides /\ [Next]_vars => TypeOK' /\ PolicyInv' /\ Sides'
BY StepType, OtherEditType, StutterType DEF Next, Step

(* No run, failed, interrupted or repeated, ever leaves the state without  *)
(* its type or is in a step of the other command, whatever the definitions.*)
THEOREM TypeCorrect == Spec => [](TypeOK /\ Sides)
BY InitType, NextType, PTL DEF Spec

(* The steps of the two commands are steps of the atomic project policy:   *)
(* the compound operations stay atomic in the programs that use them.      *)
THEOREM PolicyRefinement == Spec => GetModifySetIsAtomic
<1>1. Init => Atomic!Init
  BY PolicyInitRefines DEF Init
<1>2. TypeOK /\ PolicyInv /\ [Next]_vars => [Atomic!Next]_(Atomic!vars)
  <2> SUFFICES ASSUME TypeOK, PolicyInv, [Next]_vars PROVE [Atomic!Next]_(Atomic!vars)
    OBVIOUS
  <2>1. ASSUME NEW r \in Clients, Step(r) PROVE [Atomic!Next]_(Atomic!vars)
    BY <2>1, StepMovesPolicy, PolicyMoveRefines
  <2>2. ASSUME NEW g \in Foreign, OtherEdit(g) PROVE Atomic!Next
    BY <2>2, AdminEditIsForeign DEF OtherEdit, Atomic!Next
  <2>3. CASE UNCHANGED vars
    BY <2>3 DEF vars, policyVars, Asked, Atomic!vars
  <2> QED
    BY <2>1, <2>2, <2>3 DEF Next, Step
<1> QED
  BY <1>1, <1>2, InitType, NextType, PTL DEF Spec, GetModifySetIsAtomic, Atomic!Spec

-----------------------------------------------------------------------------
(* A step of a run leaves the other runs alone.                            *)
LEMMA StepKeepsKept ==
    ASSUME TypeOK, NEW r \in Clients, Step(r), NEW q \in Clients, q # r
    PROVE  kept'[q] = kept[q]
<1>1. CASE GetProjectNumber(r) \/ CreatePool(r) \/ GetPool(r) \/ UndeletePool(r)
           \/ RecheckPool(r) \/ EnablePool(r) \/ DeletePool(r)
  BY <1>1 DEF GetProjectNumber, CreatePool, GetPool, UndeletePool, RecheckPool, EnablePool,
              DeletePool, SetPool, KeepCloud
<1>2. CASE CreateProvider(r) \/ GetProvider(r) \/ UndeleteProvider(r)
           \/ RecheckProvider(r) \/ UpdateProvider(r) \/ DeleteProvider(r)
  BY <1>2 DEF CreateProvider, GetProvider, UndeleteProvider, RecheckProvider, UpdateProvider,
              DeleteProvider, SetProvider, KeepCloud
<1>3. CASE CreateServiceAccount(r) \/ AssignRolesGet(r) \/ AssignRolesSet(r)
           \/ BindingGet(r) \/ BindingSet(r) \/ WriteOutput(r)
  BY <1>3 DEF CreateServiceAccount, AssignRolesGet, AssignRolesSet, BindingGet, BindingSet,
              WriteOutput, KeepCloud
<1>4. CASE Start(r) \/ CallRefused(r) \/ Interrupt(r) \/ RemoveRolesGet(r)
           \/ RemoveRolesSet(r) \/ DeleteServiceAccount(r)
  BY <1>4 DEF Start, CallRefused, Interrupt, RemoveRolesGet, RemoveRolesSet,
              DeleteServiceAccount, NextDeletion, LogAndGoOn, TypeOK
<1> QED
  BY <1>1, <1>2, <1>3, <1>4 DEF Step, Progress, CreateStep, DestroyStep

LEMMA StepKeepsPlaces ==
    ASSUME TypeOK, Sides, NEW r \in Clients, Step(r), NEW q \in Clients, q # r
    PROVE  pos'[q] = pos[q]
BY StepLands DEF Lands, Goes, Move, TypeOK

LEMMA MoveKeepsCalls ==
    ASSUME PolicyInv, NEW r \in Clients, PolicyMove(r), NEW q \in Clients, q # r
    PROVE  call'[q] = call[q]
BY DEF PolicyMove, GetPolicy, SetPolicy, SetConflict, AbandonCall, policyVars,
       PolicyInv, PolicyTypeOK

LEMMA OthersKeep ==
    ASSUME TypeOK, PolicyInv, Sides, NEW r \in Clients, Step(r), NEW q \in Clients, q # r
    PROVE  pos'[q] = pos[q] /\ kept'[q] = kept[q] /\ call'[q] = call[q]
BY StepKeepsKept, StepKeepsPlaces, StepMovesPolicy, MoveKeepsCalls

LEMMA LandingStep ==
    ASSUME TypeOK, NEW r \in Clients, NEW S, Lands(r, S)
    PROVE  pos'[r].step \in S \cup {"failed"}
BY FailedPlace DEF Lands, Goes, Move, TypeOK

(* A run lets go of the policy it holds when it leaves the set.            *)
LEMMA StepLetsGo ==
    ASSUME TypeOK, PolicyInv, NEW r \in Clients, CallFits(r), Step(r),
           ~AssignRolesGet(r), ~RemoveRolesGet(r)
    PROVE  call'[r] = NoCall
<1>1. \/ SetPolicy(r) \/ SetConflict(r) \/ AbandonCall(r)
      \/ UNCHANGED policyVars /\ pos[r].step \notin {"rolesSet", "rmRolesSet"}
  <2>1. CASE CallRefused(r) \/ Interrupt(r) \/ AssignRolesSet(r) \/ RemoveRolesSet(r)
    BY <2>1 DEF CallRefused, Interrupt, AssignRolesSet, RemoveRolesSet
  <2>2. CASE Start(r)
    BY <2>2 DEF Start
  <2>3. CASE CreateStep(r) /\ ~AssignRolesSet(r)
    <3>1. pos[r].step \notin {"rolesSet", "rmRolesSet"}
      BY <2>3 DEF CreateStep, GetProjectNumber, CreatePool, GetPool, UndeletePool,
             RecheckPool, EnablePool, CreateProvider, GetProvider, UndeleteProvider,
             RecheckProvider, UpdateProvider, CreateServiceAccount, AssignRolesGet,
             BindingGet, BindingSet, WriteOutput
    <3> QED
      BY <2>3, <3>1, QuietSteps
  <2>4. CASE DeleteServiceAccount(r) \/ DeleteProvider(r) \/ DeletePool(r)
    BY <2>4 DEF DeleteServiceAccount, DeleteProvider, DeletePool, SetProvider, SetPool,
                KeepCloud, policyVars
  <2> QED
    BY <2>1, <2>2, <2>3, <2>4 DEF Step, Progress, DestroyStep
<1> QED
  BY <1>1 DEF SetPolicy, SetConflict, AbandonCall, policyVars, CallFits, PolicyInv, PolicyTypeOK

LEMMA StepCallFits ==
    ASSUME TypeOK, PolicyInv, Sides, NEW r \in Clients, CallFits(r), Step(r)
    PROVE  CallFits(r)'
<1>1. CASE ~AssignRolesGet(r) /\ ~RemoveRolesGet(r)
  BY <1>1, StepLands, LandingStep, StepLetsGo DEF CallFits, Landings
<1>2. ASSUME NEW l \in CreateSteps \cup DestroySteps \cup Resting, Answer(r, l)
      PROVE  pos'[r].step = l /\ Account(r)' = Account(r) /\ Infra(r)' = Infra(r)
  BY <1>2 DEF Answer, Move, At, Account, Infra, TypeOK, Positions
<1>3. CASE AssignRolesGet(r)
  <2>1. "rolesSet" \in CreateSteps /\ "bindGet" \in CreateSteps /\ pos[r].step = "rolesGet"
    BY <1>3 DEF CreateSteps, AssignRolesGet
  <2>2. CASE /\ GetPolicy(r, "add", RoleGrants(Infra(r), Account(r)))
             /\ Answer(r, "rolesSet")
    BY <1>2, <2>1, <2>2 DEF CallFits, GetPolicy, PolicyInv, PolicyTypeOK
  <2>3. CASE /\ GetPolicyUnchanged(r, "add", RoleGrants(Infra(r), Account(r)))
             /\ Answer(r, "bindGet")
    BY <1>2, <2>1, <2>3 DEF CallFits, GetPolicyUnchanged, policyVars
  <2> QED
    BY <1>3, <2>2, <2>3 DEF AssignRolesGet
<1>4. CASE RemoveRolesGet(r)
  <2>1. /\ "rmRolesSet" \in DestroySteps /\ "rmAccount" \in DestroySteps
        /\ pos[r].step = "rmRolesGet"
    BY <1>4 DEF DestroySteps, RemoveRolesGet
  <2>2. CASE /\ GetPolicy(r, "remove", RoleGrants(Infra(r), Account(r)))
             /\ Answer(r, "rmRolesSet")
    BY <1>2, <2>1, <2>2 DEF CallFits, GetPolicy, PolicyInv, PolicyTypeOK
  <2>3. CASE /\ GetPolicyUnchanged(r, "remove", RoleGrants(Infra(r), Account(r)))
             /\ Answer(r, "rmAccount")
    BY <1>2, <2>1, <2>3 DEF CallFits, GetPolicyUnchanged, policyVars
  <2> QED
    BY <1>4, <2>2, <2>3 DEF RemoveRolesGet
<1> QED
  BY <1>1, <1>3, <1>4

LEMMA StepCalls ==
    ASSUME TypeOK, PolicyInv, Sides, CallsFit, NEW r \in Clients, Step(r)
    PROVE  CallsFit'
<1>1. ASSUME NEW q \in Clients, q # r PROVE CallFits(q)'
  <2>1. CallFits(q) /\ Account(q)' = Account(q) /\ Infra(q)' = Infra(q)
    BY <1>1, OthersKeep DEF CallsFit, Account, Infra
  <2> QED
    BY <1>1, <2>1, OthersKeep DEF CallFits
<1> QED
  BY <1>1, StepCallFits DEF CallsFit

-----------------------------------------------------------------------------
(* The step a run takes is that of the place it is at.                     *)
LEMMA CreateGuards ==
    ASSUME NEW r \in Clients
    PROVE  /\ GetProjectNumber(r) => pos[r].step = "project"
           /\ CreatePool(r) => pos[r].step = "pool"
           /\ GetPool(r) => pos[r].step = "poolGet"
           /\ UndeletePool(r) => pos[r].step = "poolUndelete"
           /\ RecheckPool(r) => pos[r].step = "poolReget"
           /\ EnablePool(r) => pos[r].step = "poolEnable"
           /\ CreateProvider(r) => pos[r].step = "prov"
           /\ GetProvider(r) => pos[r].step = "provGet"
           /\ UndeleteProvider(r) => pos[r].step = "provUndelete"
           /\ RecheckProvider(r) => pos[r].step = "provReget"
           /\ UpdateProvider(r) => pos[r].step = "provUpdate"
           /\ CreateServiceAccount(r) => pos[r].step = "account"
           /\ AssignRolesGet(r) => pos[r].step = "rolesGet"
           /\ AssignRolesSet(r) => pos[r].step = "rolesSet"
           /\ BindingGet(r) => pos[r].step = "bindGet"
           /\ BindingSet(r) => pos[r].step = "bindSet"
           /\ WriteOutput(r) => pos[r].step = "output"
BY DEF GetProjectNumber, CreatePool, GetPool, UndeletePool, RecheckPool, EnablePool,
       CreateProvider, GetProvider, UndeleteProvider, RecheckProvider, UpdateProvider,
       CreateServiceAccount, AssignRolesGet, AssignRolesSet, BindingGet, BindingSet, WriteOutput

LEMMA DestroyGuards ==
    ASSUME NEW r \in Clients
    PROVE  /\ RemoveRolesGet(r) => pos[r].step = "rmRolesGet"
           /\ RemoveRolesSet(r) => pos[r].step = "rmRolesSet"
           /\ DeleteServiceAccount(r) => pos[r].step = "rmAccount"
           /\ DeleteProvider(r) => pos[r].step = "rmProv"
           /\ DeletePool(r) => pos[r].step = "rmPool"
BY DEF RemoveRolesGet, RemoveRolesSet, DeleteServiceAccount, DeleteProvider, DeletePool

LEMMA StepOfCommand ==
    ASSUME Sides, NEW r \in Clients
    PROVE  /\ CreateStep(r) => r \in Creates /\ pos[r].step \in CreateSteps
           /\ DestroyStep(r) => r \in Destroys /\ pos[r].step \in DestroySteps
<1>1. ASSUME CreateStep(r) PROVE pos[r].step \in CreateSteps
  BY <1>1, CreateGuards DEF CreateStep, CreateSteps
<1>2. ASSUME DestroyStep(r) PROVE pos[r].step \in DestroySteps
  BY <1>2, DestroyGuards DEF DestroyStep, DestroySteps
<1> QED
  BY <1>1, <1>2, CreatesStep, DestroysStep

(* A run starts, or was at work.                                           *)
LEMMA StepActive ==
    ASSUME NEW r \in Clients, Step(r)
    PROVE  Start(r) \/ (Active(r) /\ disturbed' = disturbed)
<1>1. CASE Start(r) \/ CallRefused(r) \/ Interrupt(r)
  BY <1>1 DEF CallRefused, Interrupt
<1>2. CASE CreateStep(r)
  <2>1. Active(r)
    BY <1>2, CreateGuards DEF CreateStep, Active, Resting
  <2>2. CASE GetProjectNumber(r) \/ CreatePool(r) \/ GetPool(r) \/ UndeletePool(r)
             \/ RecheckPool(r) \/ EnablePool(r)
    BY <2>1, <2>2 DEF GetProjectNumber, CreatePool, GetPool, UndeletePool, RecheckPool, EnablePool,
                SetPool, KeepCloud
  <2>3. CASE CreateProvider(r) \/ GetProvider(r) \/ UndeleteProvider(r)
             \/ RecheckProvider(r) \/ UpdateProvider(r)
    BY <2>1, <2>3 DEF CreateProvider, GetProvider, UndeleteProvider, RecheckProvider,
                UpdateProvider, SetProvider, KeepCloud
  <2>4. CASE CreateServiceAccount(r) \/ AssignRolesGet(r) \/ AssignRolesSet(r)
             \/ BindingGet(r) \/ BindingSet(r) \/ WriteOutput(r)
    BY <2>1, <2>4 DEF CreateServiceAccount, AssignRolesGet, AssignRolesSet, BindingGet, BindingSet,
                WriteOutput, KeepCloud
  <2> QED
    BY <1>2, <2>1, <2>2, <2>3, <2>4 DEF CreateStep
<1>3. CASE DestroyStep(r)
  <2>1. Active(r)
    BY <1>3, DestroyGuards DEF DestroyStep, Active, Resting
  <2>2. disturbed' = disturbed
    BY <1>3 DEF DestroyStep, RemoveRolesGet, RemoveRolesSet, DeleteServiceAccount,
                DeleteProvider, DeletePool, SetProvider, SetPool, KeepCloud
  <2> QED
    BY <2>1, <2>2
<1> QED
  BY <1>1, <1>2, <1>3 DEF Step, Progress

LEMMA RivalsEachOther ==
    ASSUME NEW r \in Clients, NEW q \in Rivals(r)
    PROVE  q \in Clients /\ q # r /\ r \in Rivals(q)
BY RunsAssumption DEF Rivals

LEMMA StepAway ==
    ASSUME TypeOK, PolicyInv, Sides, Away, NEW s \in Clients, Step(s)
    PROVE  Away'
<1> SUFFICES ASSUME NEW r \in Clients \ disturbed', Live(r)', NEW q \in Rivals(r)
             PROVE  ~Active(q)'
  BY DEF Away, Rivals, Infra
<1>1. q \in Clients /\ q # r /\ r \in Rivals(q)
  BY RivalsEachOther
<1>2. ASSUME NEW p \in Clients, p # s PROVE pos'[p] = pos[p]
  BY <1>2, OthersKeep
<1>3. CASE Start(s)
  <2>1. /\ Rivals(s) \subseteq disturbed'
        /\ disturbed \ {s} \subseteq disturbed'
        /\ (\E d \in Rivals(s) : Active(d)) => s \in disturbed'
    BY <1>3 DEF Start, Starting
  <2>2. q # s
    BY <1>1, <2>1
  <2>3. CASE r = s
    BY <1>1, <1>2, <2>1, <2>2, <2>3 DEF Active
  <2>4. CASE r # s
    BY <1>1, <1>2, <2>1, <2>2, <2>4 DEF Active, Live, Away
  <2> QED
    BY <2>3, <2>4
<1>4. CASE Active(s) /\ disturbed' = disturbed
  BY <1>1, <1>2, <1>4 DEF Active, Live, Away
<1> QED
  BY <1>3, <1>4, StepActive

-----------------------------------------------------------------------------
(* A patched pool or provider that is active is as wanted.                 *)
LEMMA EnabledPool ==
    ASSUME NEW p \in Pools, p.state = "active"
    PROVE  /\ p = Enabled <=> ~p.disabled
           /\ [p EXCEPT !.disabled = FALSE] = Enabled
<1>1. ASSUME NEW q \in Pools, q.state = "active", ~q.disabled PROVE q = Enabled
  BY <1>1 DEF Pools, Enabled
<1>2. LET q == [p EXCEPT !.disabled = FALSE] IN q \in Pools /\ q.state = "active" /\ ~q.disabled
  BY DEF Pools
<1>3. ~Enabled.disabled
  BY DEF Enabled
<1> QED
  BY <1>1, <1>2, <1>3

LEMMA WantedProvider ==
    ASSUME NEW p \in Providers, p.state = "active"
    PROVE  /\ p = Wanted <=> ~Mismatch(p)
           /\ [p EXCEPT !.disabled = FALSE, !.issuer = "wanted", !.jwks = "wanted"] = Wanted
<1>1. ASSUME NEW q \in Providers, q.state = "active", ~Mismatch(q) PROVE q = Wanted
  BY <1>1 DEF Providers, Wanted, Mismatch
<1>2. LET q == [p EXCEPT !.disabled = FALSE, !.issuer = "wanted", !.jwks = "wanted"]
      IN  q \in Providers /\ q.state = "active" /\ ~Mismatch(q)
  BY DEF Providers, Mismatch
<1>3. ~Mismatch(Wanted)
  BY DEF Wanted, Mismatch
<1> QED
  BY <1>1, <1>2, <1>3

LEMMA LiveStates == Enabled.state = "active" /\ Wanted.state = "active"
BY DEF Enabled, Wanted

(* Which steps change which part of the cloud.                             *)
LEMMA CloudSteps ==
    ASSUME NEW r \in Clients, Step(r)
    PROVE  /\ \/ UNCHANGED pool
              \/ CreatePool(r) \/ UndeletePool(r) \/ EnablePool(r) \/ DeletePool(r)
           /\ \/ UNCHANGED provider
              \/ CreateProvider(r) \/ UndeleteProvider(r) \/ UpdateProvider(r)
              \/ DeleteProvider(r)
           /\ UNCHANGED accounts \/ CreateServiceAccount(r) \/ DeleteServiceAccount(r)
           /\ UNCHANGED bound \/ BindingSet(r) \/ DeleteServiceAccount(r)
<1>1. CASE GetProjectNumber(r) \/ CreatePool(r) \/ GetPool(r) \/ UndeletePool(r)
           \/ RecheckPool(r) \/ EnablePool(r) \/ DeletePool(r)
  BY <1>1 DEF GetProjectNumber, CreatePool, GetPool, UndeletePool, RecheckPool, EnablePool,
              DeletePool, SetPool, KeepCloud, cloud
<1>2. CASE CreateProvider(r) \/ GetProvider(r) \/ UndeleteProvider(r)
           \/ RecheckProvider(r) \/ UpdateProvider(r) \/ DeleteProvider(r)
  BY <1>2 DEF CreateProvider, GetProvider, UndeleteProvider, RecheckProvider, UpdateProvider,
              DeleteProvider, SetProvider, KeepCloud, cloud
<1>3. CASE CreateServiceAccount(r) \/ AssignRolesGet(r) \/ AssignRolesSet(r)
           \/ BindingGet(r) \/ BindingSet(r) \/ WriteOutput(r)
  BY <1>3 DEF CreateServiceAccount, AssignRolesGet, AssignRolesSet, BindingGet, BindingSet,
              WriteOutput, KeepCloud, cloud
<1>4. CASE Start(r) \/ CallRefused(r) \/ Interrupt(r) \/ RemoveRolesGet(r)
           \/ RemoveRolesSet(r) \/ DeleteServiceAccount(r)
  BY <1>4 DEF Start, CallRefused, Interrupt, RemoveRolesGet, RemoveRolesSet,
              DeleteServiceAccount, cloud
<1> QED
  BY <1>1, <1>2, <1>3, <1>4 DEF Step, Progress, CreateStep, DestroyStep

(* What infra ID i holds only grows.                                       *)
Grows(i) ==
    /\ pool[i].state = "active" => pool'[i].state = "active"
    /\ pool[i] = Enabled => pool'[i] = Enabled
    /\ provider[i].state = "active" => provider'[i].state = "active"
    /\ provider[i] = Wanted => provider'[i] = Wanted
    /\ \A a \in Names : <<i, a>> \in accounts => <<i, a>> \in accounts'
    /\ \A b \in bound : b[1] = i => b \in bound'
    /\ \A a \in Names : RoleGrants(i, a) \cap policy \subseteq policy'

(* What infra ID i holds only shrinks.                                     *)
Shrinks(i) ==
    /\ pool[i].state # "active" => pool'[i].state # "active"
    /\ provider[i].state # "active" => provider'[i].state # "active"
    /\ \A a \in Names : <<i, a>> \in accounts' => <<i, a>> \in accounts
    /\ \A b \in bound' : b[1] = i => b \in bound
    /\ \A a \in Names : RoleGrants(i, a) \cap policy' \subseteq policy

(* The policy a request replaces is the one it read; a create adds its own *)
(* grants and a destroy removes its own.                                   *)
LEMMA SetWrites ==
    ASSUME PolicyInv, Sides, CallsFit, NEW r \in Clients, SetPolicy(r)
    PROVE  \/ /\ r \in Creates
              /\ policy' = policy \cup RoleGrants(Infra(r), Account(r))
           \/ /\ r \in Destroys
              /\ policy' = policy \ RoleGrants(Infra(r), Account(r))
<1>1. call[r].base = policy
  BY DEF SetPolicy, PolicyInv, FreshBase, PastEtags
<1>2. pos[r].step \in {"rolesSet", "rmRolesSet"}
  BY DEF SetPolicy, CallsFit, CallFits
<1>3. CASE pos[r].step = "rolesSet"
  <2>1. r \in Creates
    BY <1>3, CreatesStep DEF CreateSteps
  <2> QED
    BY <1>1, <1>3, <2>1 DEF SetPolicy, Modified, CallsFit, CallFits
<1>4. CASE pos[r].step = "rmRolesSet"
  <2>1. r \in Destroys
    BY <1>4, DestroysStep DEF DestroySteps
  <2> QED
    BY <1>1, <1>4, <2>1 DEF SetPolicy, Modified, CallsFit, CallFits
<1> QED
  BY <1>2, <1>3, <1>4

LEMMA PolicyWrites ==
    ASSUME PolicyInv, Sides, CallsFit, NEW r \in Clients, PolicyMove(r)
    PROVE  \/ policy' = policy
           \/ /\ r \in Creates
              /\ policy' = policy \cup RoleGrants(Infra(r), Account(r))
           \/ /\ r \in Destroys
              /\ policy' = policy \ RoleGrants(Infra(r), Account(r))
<1>1. SetPolicy(r) \/ policy' = policy
  BY DEF PolicyMove, GetPolicy, SetConflict, AbandonCall, policyVars
<1> QED
  BY <1>1, SetWrites

(* A step does nothing to another infra ID.                                *)
LEMMA StepElsewhere ==
    ASSUME TypeOK, PolicyInv, Sides, CallsFit, NEW r \in Clients, Step(r),
           NEW i \in Infras, i # Infra(r)
    PROVE  Grows(i) /\ Shrinks(i)
<1>1. pool'[i] = pool[i]
  BY CloudSteps DEF CreatePool, UndeletePool, EnablePool, DeletePool, SetPool, KeepCloud,
                    cloud, TypeOK
<1>2. provider'[i] = provider[i]
  BY CloudSteps DEF CreateProvider, UndeleteProvider, UpdateProvider, DeleteProvider,
                    SetProvider, KeepCloud, cloud, TypeOK
<1>3. ASSUME NEW a \in Names PROVE <<i, a>> \in accounts' <=> <<i, a>> \in accounts
  <2>1. <<i, a>> # <<Infra(r), Account(r)>>
    OBVIOUS
  <2>2. \/ accounts' = accounts \/ accounts' = accounts \cup {<<Infra(r), Account(r)>>}
        \/ accounts' = accounts \ {<<Infra(r), Account(r)>>}
    BY CloudSteps DEF CreateServiceAccount, DeleteServiceAccount
  <2> QED
    BY <2>1, <2>2
<1>4. ASSUME NEW b \in bound \cup bound', b[1] = i PROVE b \in bound' <=> b \in bound
  <2>1. b # <<Infra(r), Account(r), Subject(r)>> /\ b \notin Bindings(r)
    BY <1>4 DEF Bindings
  <2>2. \/ bound' = bound \/ bound' = bound \cup {<<Infra(r), Account(r), Subject(r)>>}
        \/ bound' = bound \ Bindings(r)
    BY CloudSteps DEF BindingSet, DeleteServiceAccount
  <2> QED
    BY <2>1, <2>2
<1>5. ASSUME NEW a \in Names, NEW g \in RoleGrants(i, a)
      PROVE  g \in policy' <=> g \in policy
  <2>1. g \notin RoleGrants(Infra(r), Account(r))
    BY DEF RoleGrants
  <2> QED
    BY <2>1, StepMovesPolicy, PolicyWrites
<1> QED
  BY <1>1, <1>2, <1>3, <1>4, <1>5 DEF Grows, Shrinks

(* A step of a create takes nothing away.                                  *)
LEMMA CreateGrows ==
    ASSUME TypeOK, PolicyInv, Sides, CallsFit, NEW r \in Creates, Step(r)
    PROVE  Grows(Infra(r))
<1> DEFINE i == Infra(r)
<1>1. r \in Clients /\ ~DestroyStep(r) /\ i \in Infras
  BY StepOfCommand, RunsAssumption DEF Infra
<1>2. /\ pool[i].state = "active" => pool'[i].state = "active"
      /\ pool[i] = Enabled => pool'[i] = Enabled
  <2>1. CASE UNCHANGED pool
    BY <2>1
  <2>2. CASE CreatePool(r) \/ UndeletePool(r)
    <3>1. pool[i].state = "active" => UNCHANGED pool
      BY <2>2 DEF CreatePool, UndeletePool, KeepCloud, cloud
    <3> QED
      BY <3>1, LiveStates
  <2>3. CASE EnablePool(r)
    <3>1. pool[i] \in Pools
      BY <1>1 DEF TypeOK
    <3>2. \/ UNCHANGED pool
          \/ pool[i].state = "active" /\ pool'[i] = [pool[i] EXCEPT !.disabled = FALSE]
      BY <1>1, <2>3 DEF EnablePool, SetPool, KeepCloud, cloud, TypeOK
    <3> QED
      BY <3>1, <3>2, EnabledPool, LiveStates
  <2> QED
    BY <1>1, <2>1, <2>2, <2>3, CloudSteps DEF DestroyStep
<1>3. /\ provider[i].state = "active" => provider'[i].state = "active"
      /\ provider[i] = Wanted => provider'[i] = Wanted
  <2>1. CASE UNCHANGED provider
    BY <2>1
  <2>2. CASE CreateProvider(r) \/ UndeleteProvider(r)
    <3>1. provider[i].state = "active" => UNCHANGED provider
      BY <2>2 DEF CreateProvider, UndeleteProvider, KeepCloud, cloud
    <3> QED
      BY <3>1, LiveStates
  <2>3. CASE UpdateProvider(r)
    <3>1. provider[i] \in Providers
      BY <1>1 DEF TypeOK
    <3>2. \/ UNCHANGED provider
          \/ /\ provider[i].state = "active"
             /\ provider'[i] = [provider[i] EXCEPT !.disabled = FALSE, !.issuer = "wanted",
                                                   !.jwks = "wanted"]
      BY <1>1, <2>3 DEF UpdateProvider, SetProvider, KeepCloud, cloud, TypeOK
    <3> QED
      BY <3>1, <3>2, WantedProvider, LiveStates
  <2> QED
    BY <1>1, <2>1, <2>2, <2>3, CloudSteps DEF DestroyStep
<1>4. accounts \subseteq accounts' /\ bound \subseteq bound'
  BY <1>1, CloudSteps DEF CreateServiceAccount, BindingSet, DestroyStep
<1>5. policy \subseteq policy'
  BY <1>1, StepMovesPolicy, PolicyWrites, RunsAssumption
<1> QED
  BY <1>2, <1>3, <1>4, <1>5 DEF Grows

(* A step of a destroy adds nothing.                                       *)
LEMMA DestroyShrinks ==
    ASSUME TypeOK, PolicyInv, Sides, CallsFit, NEW r \in Destroys, Step(r)
    PROVE  Shrinks(Infra(r))
<1> DEFINE i == Infra(r)
<1>1. r \in Clients /\ ~CreateStep(r) /\ i \in Infras
  BY StepOfCommand, RunsAssumption DEF Infra
<1>2. pool[i].state # "active" => pool'[i].state # "active"
  BY <1>1, CloudSteps DEF DeletePool, SetPool, KeepCloud, cloud, CreateStep, TypeOK
<1>3. provider[i].state # "active" => provider'[i].state # "active"
  BY <1>1, CloudSteps DEF DeleteProvider, SetProvider, KeepCloud, cloud, CreateStep, TypeOK
<1>4. accounts' \subseteq accounts /\ bound' \subseteq bound
  BY <1>1, CloudSteps DEF DeleteServiceAccount, CreateStep
<1>5. policy' \subseteq policy
  BY <1>1, StepMovesPolicy, PolicyWrites, RunsAssumption
<1> QED
  BY <1>2, <1>3, <1>4, <1>5 DEF Shrinks

(* An administrator touches no grant of the program.                       *)
LEMMA OtherEditApart ==
    ASSUME NEW g \in Foreign, OtherEdit(g), NEW i \in Infras
    PROVE  Grows(i) /\ Shrinks(i)
<1>1. UNCHANGED cloud
  BY DEF OtherEdit
<1>2. \A a \in Names : g \notin RoleGrants(i, a)
  BY GrantsAssumption
<1>3. ASSUME NEW a \in Names, NEW h \in RoleGrants(i, a)
      PROVE  h \in policy' <=> h \in policy
  BY <1>2 DEF OtherEdit, AdminEdit
<1> QED
  BY <1>1, <1>3 DEF Grows, Shrinks, cloud

-----------------------------------------------------------------------------
(* What lies behind a run stays as it is while others step.                *)
LEMMA CreateReadyStays ==
    ASSUME TypeOK, NEW r \in Clients, CreateReady(r), Grows(Infra(r)), pos'[r] = pos[r]
    PROVE  CreateReady(r)'
<1>1. Infra(r)' = Infra(r) /\ \A d \in DOMAIN Definitions : Definitions[d] \in Names
  BY Numbered DEF Infra
<1>2. PoolReady(r)' /\ ProviderReady(r)'
  BY <1>1 DEF CreateReady, PoolReady, ProviderReady, Grows
<1>3. AccountsReady(r)'
  BY <1>1 DEF CreateReady, AccountsReady, Behind, Grows
<1>4. GrantsReady(r)'
  <2>1. \A d \in DOMAIN Definitions :
          RoleGrants(Infra(r), Definitions[d]) \cap policy \subseteq policy'
    BY <1>1 DEF Grows
  <2> QED
    BY <1>1, <2>1 DEF CreateReady, GrantsReady, Behind
<1>5. BindingsReady(r)'
  BY <1>1 DEF CreateReady, BindingsReady, Behind, Grows
<1> QED
  BY <1>2, <1>3, <1>4, <1>5 DEF CreateReady

LEMMA DestroyReadyStays ==
    ASSUME TypeOK, NEW r \in Clients, DestroyReady(r), Shrinks(Infra(r)), pos'[r] = pos[r],
           kept'[r] = kept[r]
    PROVE  DestroyReady(r)'
<1>1. Infra(r)' = Infra(r) /\ \A d \in DOMAIN Definitions : Definitions[d] \in Names
  BY Numbered DEF Infra
<1>2. RevokedReady(r)'
  <2>1. \A d \in DOMAIN Definitions :
          RoleGrants(Infra(r), Definitions[d]) \cap policy' \subseteq policy
    BY <1>1 DEF Shrinks
  <2> QED
    BY <1>1, <2>1 DEF DestroyReady, RevokedReady, Behind
<1>3. DeletedReady(r)'
  BY <1>1 DEF DestroyReady, DeletedReady, Behind, Shrinks
<1> QED
  BY <1>1, <1>2, <1>3 DEF DestroyReady, Shrinks

-----------------------------------------------------------------------------
(* What a create must have found or made to go to step l of its definition.*)
Reached(r, l) ==
    /\ l \in {"poolReget", "poolEnable"} => pool'[Infra(r)].state = "active"
    /\ l \in PastPool => pool'[Infra(r)] = Enabled
    /\ l \in {"provReget", "provUpdate"} => provider'[Infra(r)].state = "active"
    /\ l \in PastProvider => provider'[Infra(r)] = Wanted
    /\ l \in PastAccount =>
           pos[r].step \in PastAccount \/ <<Infra(r), Account(r)>> \in accounts'
    /\ l \in PastRoles =>
           pos[r].step \in PastRoles \/ RoleGrants(Infra(r), Account(r)) \subseteq policy'
    /\ l \in Final => pos[r].step \in Final

LEMMA ReadyAt ==
    ASSUME TypeOK, NEW r \in Clients, CreateReady(r), Grows(Infra(r)),
           NEW l, pos'[r] = At(r, l), Reached(r, l)
    PROVE  CreateReady(r)'
<1>1. /\ Infra(r)' = Infra(r) /\ \A d \in DOMAIN Definitions : Definitions[d] \in Names
      /\ pos'[r].step = l /\ pos'[r].def = pos[r].def /\ pos'[r].sub = pos[r].sub
  BY Numbered, WhereItIs DEF Infra, At, Positions
<1>2. PoolReady(r)' /\ ProviderReady(r)'
  BY <1>1 DEF PoolReady, ProviderReady, Reached
<1>3. AccountsReady(r)'
  BY <1>1 DEF CreateReady, AccountsReady, Behind, Grows, Reached, Account
<1>4. GrantsReady(r)'
  <2>1. \A d \in DOMAIN Definitions :
          RoleGrants(Infra(r), Definitions[d]) \cap policy \subseteq policy'
    BY <1>1 DEF Grows
  <2> QED
    BY <1>1, <2>1 DEF CreateReady, GrantsReady, Behind, Reached, Account
<1>5. BindingsReady(r)'
  BY <1>1 DEF CreateReady, BindingsReady, Behind, Grows, Reached
<1>6. l \in Final => pos[r].def = Len(Definitions)
  BY DEF Reached, CreateReady
<1> QED
  BY <1>1, <1>2, <1>3, <1>4, <1>5, <1>6 DEF CreateReady

(* The binding is there, and the loop goes on.                             *)
LEMMA ReadyNextBinding ==
    ASSUME TypeOK, NEW r \in Clients, CreateReady(r), Grows(Infra(r)),
           pos[r].step \in {"bindGet", "bindSet"}, pos'[r] = NextBinding(r),
           <<Infra(r), Account(r), Subject(r)>> \in bound'
    PROVE  CreateReady(r)'
<1>1. /\ Infra(r)' = Infra(r) /\ \A d \in DOMAIN Definitions : Definitions[d] \in Names
      /\ pos[r].def \in 1 .. Len(Definitions) /\ Len(Definitions) \in Nat
      /\ pos[r].sub \in 1 .. Len(SubjectsOf[Account(r)]) /\ Len(SubjectsOf[Account(r)]) \in Nat
      /\ DOMAIN Definitions = 1 .. Len(Definitions)
      /\ DOMAIN SubjectsOf[Account(r)] = 1 .. Len(SubjectsOf[Account(r)])
  BY Numbered, WhereItIs DEF Infra
<1>2. \/ /\ pos'[r].step = "bindGet" /\ pos'[r].def = pos[r].def
         /\ pos'[r].sub = pos[r].sub + 1
      \/ /\ pos[r].sub = Len(SubjectsOf[Account(r)])
         /\ pos'[r].step = "account" /\ pos'[r].def = pos[r].def + 1 /\ pos'[r].sub = 1
      \/ /\ pos[r].sub = Len(SubjectsOf[Account(r)]) /\ pos[r].def = Len(Definitions)
         /\ pos'[r].step = "output" /\ pos'[r].def = pos[r].def /\ pos'[r].sub = pos[r].sub
  BY <1>1, WhereItIs DEF NextBinding, At, Positions
<1>3. PoolReady(r)' /\ ProviderReady(r)'
  BY <1>1, <1>2 DEF CreateReady, PoolReady, ProviderReady, Grows, PastPool, PastProvider,
                    PastAccount, PastRoles, Final
<1>4. ASSUME NEW d \in DOMAIN Definitions, Behind(r, d, PastAccount)'
      PROVE  Behind(r, d, PastAccount)
  BY <1>1, <1>2, <1>4 DEF Behind, PastAccount, PastRoles, Final
<1>5. ASSUME NEW d \in DOMAIN Definitions, Behind(r, d, PastRoles)'
      PROVE  Behind(r, d, PastRoles)
  BY <1>1, <1>2, <1>5 DEF Behind, PastRoles, Final
<1>6. AccountsReady(r)'
  BY <1>1, <1>4 DEF CreateReady, AccountsReady, Grows
<1>7. GrantsReady(r)'
  <2>1. \A d \in DOMAIN Definitions :
          RoleGrants(Infra(r), Definitions[d]) \cap policy \subseteq policy'
    BY <1>1 DEF Grows
  <2> QED
    BY <1>1, <1>5, <2>1 DEF CreateReady, GrantsReady
<1>8. ASSUME NEW d \in DOMAIN Definitions, NEW n \in DOMAIN SubjectsOf[Definitions[d]],
             Behind(r, d, Final)' \/ (d = pos'[r].def /\ n < pos'[r].sub)
      PROVE  \/ Behind(r, d, Final) \/ (d = pos[r].def /\ n < pos[r].sub)
             \/ (d = pos[r].def /\ n = pos[r].sub)
  <2>1. Definitions[d] \in Names /\ d \in Nat
    BY <1>1
  <2>2. DOMAIN SubjectsOf[Definitions[d]] = 1 .. Len(SubjectsOf[Definitions[d]])
        /\ Len(SubjectsOf[Definitions[d]]) \in Nat
    BY <2>1, Numbered
  <2>3. n \in 1 .. Len(SubjectsOf[Definitions[d]])
    BY <2>2
  <2>4. n \in Nat \ {0} /\ (d = pos[r].def => n \in 1 .. Len(SubjectsOf[Account(r)]))
    BY <2>2, <2>3 DEF Account
  <2>5. \/ d < pos'[r].def
        \/ d = pos'[r].def /\ pos'[r].step \in Final
        \/ d = pos'[r].def /\ n < pos'[r].sub
    BY <1>8 DEF Behind, Final
  <2>6. d < pos[r].def \/ (d = pos[r].def /\ n \in Nat /\ n <= pos[r].sub)
    BY <1>1, <1>2, <2>1, <2>4, <2>5 DEF Final
  <2> QED
    BY <1>1, <2>4, <2>6 DEF Behind
<1>9. BindingsReady(r)'
  BY <1>1, <1>8 DEF CreateReady, BindingsReady, Grows, Account, Subject
<1>10. pos'[r].step \in Final => pos'[r].def = Len(Definitions)
  BY <1>2 DEF Final
<1> QED
  BY <1>1, <1>3, <1>6, <1>7, <1>9, <1>10 DEF CreateReady

LEMMA Arrivals ==
    ASSUME TypeOK, NEW r \in Clients
    PROVE  /\ \A p : Reply(r, p) => pos'[r] = p \/ ~Live(r)'
           /\ \A l : Answer(r, l) => pos'[r] = At(r, l)
           /\ \A e : ReturnError(r, e) => ~Live(r)'
           /\ \A e : Refuse(r, e) => ~Live(r)'
<1>1. pos \in [Clients -> Positions]
  BY DEF TypeOK
<1>2. \A e : ReturnError(r, e) => ~Live(r)'
  BY <1>1 DEF ReturnError, Move, At, Live, Active, Resting, Positions
<1> QED
  BY <1>1, <1>2 DEF Reply, Answer, Refuse, Move

(* Each step of a create keeps its promises.                               *)
LEMMA PoolStepsReady ==
    ASSUME TypeOK, NEW r \in Clients, CreateReady(r), Grows(Infra(r)), Live(r)',
           \/ GetProjectNumber(r) \/ CreatePool(r) \/ GetPool(r) \/ UndeletePool(r)
           \/ RecheckPool(r) \/ EnablePool(r)
    PROVE  CreateReady(r)'
<1>1. pool[Infra(r)] \in Pools /\ Infra(r) \in Infras /\ pool \in [Infras -> Pools]
  BY WhereItIs DEF TypeOK
<1>2. ASSUME NEW l \in {"pool", "poolGet", "poolUndelete"}, pos'[r] = At(r, l)
      PROVE  CreateReady(r)'
  <2>1. Reached(r, l)
    BY DEF Reached, PastPool, PastProvider, PastAccount, PastRoles, Final
  <2> QED
    BY <1>2, <2>1, ReadyAt
<1>3. ASSUME NEW l \in {"poolReget", "poolEnable"}, pos'[r] = At(r, l),
             pool'[Infra(r)].state = "active"
      PROVE  CreateReady(r)'
  <2>1. Reached(r, l)
    BY <1>3 DEF Reached, PastPool, PastProvider, PastAccount, PastRoles, Final
  <2> QED
    BY <1>3, <2>1, ReadyAt
<1>4. ASSUME pos'[r] = At(r, "prov"), pool'[Infra(r)] = Enabled
      PROVE  CreateReady(r)'
  <2>1. Reached(r, "prov")
    BY <1>4 DEF Reached, PastProvider, PastAccount, PastRoles, Final
  <2> QED
    BY <1>4, <2>1, ReadyAt
<1>5. CASE GetProjectNumber(r)
  BY <1>2, <1>5, Arrivals DEF GetProjectNumber
<1>6. CASE CreatePool(r)
  BY <1>1, <1>2, <1>4, <1>6, Arrivals DEF CreatePool, SetPool, Enabled
<1>7. CASE GetPool(r)
  BY <1>1, <1>2, <1>3, <1>4, <1>7, Arrivals, EnabledPool DEF GetPool, KeepCloud, cloud
<1>8. CASE UndeletePool(r)
  BY <1>1, <1>3, <1>8, Arrivals DEF UndeletePool, SetPool, Pools
<1>9. CASE RecheckPool(r)
  <2>1. pool[Infra(r)].state = "active"
    BY <1>9 DEF RecheckPool, CreateReady, PoolReady
  <2> QED
    BY <1>1, <1>3, <1>4, <1>9, <2>1, Arrivals, EnabledPool DEF RecheckPool, KeepCloud, cloud
<1>10. CASE EnablePool(r)
  BY <1>1, <1>4, <1>10, Arrivals, EnabledPool DEF EnablePool, SetPool
<1> QED
  BY <1>5, <1>6, <1>7, <1>8, <1>9, <1>10

LEMMA ProviderStepsReady ==
    ASSUME TypeOK, NEW r \in Clients, CreateReady(r), Grows(Infra(r)), Live(r)',
           \/ CreateProvider(r) \/ GetProvider(r) \/ UndeleteProvider(r)
           \/ RecheckProvider(r) \/ UpdateProvider(r)
    PROVE  CreateReady(r)'
<1>1. /\ provider[Infra(r)] \in Providers /\ Infra(r) \in Infras
      /\ provider \in [Infras -> Providers]
  BY WhereItIs DEF TypeOK
<1>2. pool'[Infra(r)] = Enabled
  <2>1. pos[r].step \in PastPool
    BY CreateGuards DEF PastPool
  <2> QED
    BY <2>1 DEF CreateReady, PoolReady, Grows
<1>3. ASSUME NEW l \in {"provGet", "provUndelete"}, pos'[r] = At(r, l)
      PROVE  CreateReady(r)'
  <2>1. Reached(r, l)
    BY <1>2 DEF Reached, PastProvider, PastAccount, PastRoles, Final
  <2> QED
    BY <1>3, <2>1, ReadyAt
<1>4. ASSUME NEW l \in {"provReget", "provUpdate"}, pos'[r] = At(r, l),
             provider'[Infra(r)].state = "active"
      PROVE  CreateReady(r)'
  <2>1. Reached(r, l)
    BY <1>2, <1>4 DEF Reached, PastProvider, PastAccount, PastRoles, Final
  <2> QED
    BY <1>4, <2>1, ReadyAt
<1>5. ASSUME pos'[r] = At(r, "account"), provider'[Infra(r)] = Wanted
      PROVE  CreateReady(r)'
  <2>1. Reached(r, "account")
    BY <1>2, <1>5 DEF Reached, PastAccount, PastRoles, Final
  <2> QED
    BY <1>5, <2>1, ReadyAt
<1>6. CASE CreateProvider(r)
  BY <1>1, <1>3, <1>5, <1>6, Arrivals DEF CreateProvider, SetProvider
<1>7. CASE GetProvider(r)
  BY <1>1, <1>3, <1>4, <1>5, <1>7, Arrivals, WantedProvider
     DEF GetProvider, UpdateIfMismatch, KeepCloud, cloud
<1>8. CASE UndeleteProvider(r)
  BY <1>1, <1>4, <1>8, Arrivals DEF UndeleteProvider, SetProvider, Providers
<1>9. CASE RecheckProvider(r)
  <2>1. provider[Infra(r)].state = "active"
    BY <1>9 DEF RecheckProvider, CreateReady, ProviderReady
  <2> QED
    BY <1>1, <1>4, <1>5, <1>9, <2>1, Arrivals, WantedProvider
       DEF RecheckProvider, UpdateIfMismatch, KeepCloud, cloud
<1>10. CASE UpdateProvider(r)
  BY <1>1, <1>5, <1>10, Arrivals, WantedProvider DEF UpdateProvider, SetProvider
<1> QED
  BY <1>6, <1>7, <1>8, <1>9, <1>10

LEMMA AccountStepsReady ==
    ASSUME TypeOK, PolicyInv, Sides, CallsFit, NEW r \in Creates, CreateReady(r),
           Grows(Infra(r)), Live(r)',
           \/ CreateServiceAccount(r) \/ AssignRolesGet(r) \/ AssignRolesSet(r)
           \/ BindingGet(r) \/ BindingSet(r) \/ WriteOutput(r)
    PROVE  CreateReady(r)'
<1>1. r \in Clients /\ r \notin Destroys
  BY RunsAssumption
<1>2. pool'[Infra(r)] = Enabled /\ provider'[Infra(r)] = Wanted
  <2>1. pos[r].step \in PastProvider /\ pos[r].step \in PastPool
    BY <1>1, CreateGuards DEF PastPool, PastProvider, PastAccount, PastRoles, Final
  <2> QED
    BY <2>1 DEF CreateReady, PoolReady, ProviderReady, Grows
<1>3. ASSUME NEW l \in {"rolesGet", "rolesSet"}, pos'[r] = At(r, l),
             pos[r].step \in PastAccount \/ <<Infra(r), Account(r)>> \in accounts'
      PROVE  CreateReady(r)'
  <2>1. Reached(r, l)
    BY <1>2, <1>3 DEF Reached, PastRoles, Final
  <2> QED
    BY <1>1, <1>3, <2>1, ReadyAt
<1>4. ASSUME NEW l \in {"bindGet", "bindSet"}, pos'[r] = At(r, l),
             pos[r].step \in PastAccount,
             pos[r].step \in PastRoles \/ RoleGrants(Infra(r), Account(r)) \subseteq policy'
      PROVE  CreateReady(r)'
  <2>1. Reached(r, l)
    BY <1>2, <1>4 DEF Reached, Final
  <2> QED
    BY <1>1, <1>4, <2>1, ReadyAt
<1>5. ASSUME pos[r].step \in RetrySteps, NEW e, retryWithBackoff(r, e)
      PROVE  CreateReady(r)'
  <2>1. pos'[r] = At(r, OperationStart(pos[r].step))
    BY <1>1, <1>5, Arrivals DEF retryWithBackoff, Move, TypeOK
  <2>2. Reached(r, OperationStart(pos[r].step))
    BY <1>2, <1>5 DEF Reached, OperationStart, RetrySteps, PastAccount, PastRoles, Final
  <2> QED
    BY <1>1, <2>1, <2>2, ReadyAt
<1>6. ASSUME pos[r].step \in {"bindGet", "bindSet"}, pos'[r] = NextBinding(r),
             <<Infra(r), Account(r), Subject(r)>> \in bound'
      PROVE  CreateReady(r)'
  BY <1>1, <1>6, ReadyNextBinding
<1>7. CASE CreateServiceAccount(r)
  BY <1>1, <1>3, <1>7, Arrivals DEF CreateServiceAccount
<1>8. CASE AssignRolesGet(r)
  <2>1. pos[r].step \in PastAccount
    BY <1>8 DEF AssignRolesGet, PastAccount
  <2>2. ASSUME GetPolicyUnchanged(r, "add", RoleGrants(Infra(r), Account(r)))
        PROVE  RoleGrants(Infra(r), Account(r)) \subseteq policy'
    BY <2>2 DEF GetPolicyUnchanged, Changed, policyVars
  <2> QED
    BY <1>1, <1>3, <1>4, <1>8, <2>1, <2>2, Arrivals DEF AssignRolesGet
<1>9. CASE AssignRolesSet(r)
  <2>1. pos[r].step \in PastAccount /\ pos[r].step \in RetrySteps
    BY <1>9 DEF AssignRolesSet, PastAccount, RetrySteps
  <2>2. ASSUME SetPolicy(r) PROVE RoleGrants(Infra(r), Account(r)) \subseteq policy'
    BY <1>1, <2>2, SetWrites
  <2> QED
    BY <1>1, <1>4, <1>5, <1>9, <2>1, <2>2, Arrivals DEF AssignRolesSet
<1>10. CASE BindingGet(r)
  <2>1. /\ pos[r].step \in {"bindGet", "bindSet"} /\ pos[r].step \in RetrySteps
        /\ pos[r].step \in PastAccount /\ pos[r].step \in PastRoles
        /\ bound' = bound
    BY <1>10 DEF BindingGet, RetrySteps, PastAccount, PastRoles, cloud
  <2>2. Move(r, NextBinding(r)) => pos'[r] = NextBinding(r)
    BY <1>1 DEF Move, TypeOK
  <2> QED
    BY <1>1, <1>4, <1>5, <1>6, <1>10, <2>1, <2>2, Arrivals DEF BindingGet
<1>11. CASE BindingSet(r)
  <2>1. pos[r].step \in {"bindGet", "bindSet"} /\ pos[r].step \in RetrySteps
    BY <1>11 DEF BindingSet, RetrySteps
  <2> QED
    BY <1>1, <1>5, <1>6, <1>11, <2>1, Arrivals DEF BindingSet
<1>12. CASE WriteOutput(r)
  <2>1. pos'[r] = At(r, "done")
    BY <1>1, <1>12, Arrivals DEF WriteOutput
  <2>2. Reached(r, "done")
    BY <1>2, <1>12 DEF WriteOutput, Reached, PastAccount, PastRoles, Final
  <2> QED
    BY <1>1, <2>1, <2>2, ReadyAt
<1> QED
  BY <1>7, <1>8, <1>9, <1>10, <1>11, <1>12

(* A retry goes back over what is there already; a start has nothing       *)
(* behind it yet.                                                          *)
LEMMA CreateRetriesReady ==
    ASSUME TypeOK, PolicyInv, Sides, NEW r \in Creates, CreateReady(r), Grows(Infra(r)),
           Live(r)', CallRefused(r) \/ Interrupt(r)
    PROVE  CreateReady(r)'
<1>1. r \in Clients /\ ~Interrupt(r)
  BY Arrivals, RunsAssumption DEF Interrupt
<1>2. pos[r].step \notin {"rmRolesGet", "rmRolesSet", "rmAccount"}
  BY <1>1, DestroysStep, RunsAssumption DEF DestroySteps
<1>3. PICK e : pos[r].step \in RetrySteps /\ retryWithBackoff(r, e)
  BY <1>1, <1>2, Arrivals DEF CallRefused
<1>4. pos'[r] = At(r, OperationStart(pos[r].step))
  BY <1>1, <1>3, Arrivals DEF retryWithBackoff, Move, TypeOK
<1>5. pool'[Infra(r)] = Enabled /\ provider'[Infra(r)] = Wanted
  <2>1. pos[r].step \in PastProvider /\ pos[r].step \in PastPool
    BY <1>3 DEF RetrySteps, PastPool, PastProvider, PastAccount, PastRoles, Final
  <2> QED
    BY <2>1 DEF CreateReady, PoolReady, ProviderReady, Grows
<1>6. Reached(r, OperationStart(pos[r].step))
  BY <1>3, <1>5 DEF Reached, OperationStart, RetrySteps, PastAccount, PastRoles, Final
<1> QED
  BY <1>1, <1>4, <1>6, ReadyAt

LEMMA StartedPlace ==
    ASSUME TypeOK, NEW r \in Clients, Start(r)
    PROVE  /\ pos'[r].step = IF r \in Creates THEN "project" ELSE "rmRolesGet"
           /\ pos'[r].def = 1 /\ pos'[r].sub = 1 /\ kept'[r] = {}
BY DEF Start, Move, TypeOK

LEMMA StartedCreateReady ==
    ASSUME TypeOK, NEW r \in Creates, Start(r)
    PROVE  CreateReady(r)'
<1>1. pos'[r].step = "project" /\ pos'[r].def = 1 /\ pos'[r].sub = 1
  BY StartedPlace, RunsAssumption
<1>2. \A d \in DOMAIN Definitions : d \in Nat \ {0} /\ \A n \in DOMAIN SubjectsOf[Definitions[d]] : n \in Nat \ {0}
  <2>1. ASSUME NEW d \in DOMAIN Definitions, NEW n \in DOMAIN SubjectsOf[Definitions[d]]
        PROVE  n \in Nat \ {0}
    <3>1. Definitions[d] \in Names
      BY Numbered
    <3> QED
      BY <3>1, Numbered
  <2> QED
    BY <2>1, Numbered
<1>3. PoolReady(r)' /\ ProviderReady(r)' /\ pos'[r].step \notin Final
  BY <1>1 DEF PoolReady, ProviderReady, PastPool, PastProvider, PastAccount, PastRoles, Final
<1>4. AccountsReady(r)' /\ GrantsReady(r)'
  BY <1>1, <1>2 DEF AccountsReady, GrantsReady, Behind, PastAccount, PastRoles, Final
<1>5. BindingsReady(r)'
  BY <1>1, <1>2 DEF BindingsReady, Behind, Final
<1> QED
  BY <1>3, <1>4, <1>5 DEF CreateReady

-----------------------------------------------------------------------------
(* The account a destroy is at is gone, with its bindings.                 *)
GoneNext(r) ==
    /\ <<Infra(r), Account(r)>> \notin accounts'
    /\ \A b \in bound' : ~(b[1] = Infra(r) /\ b[2] = Account(r))

(* What a destroy must have found or done to go to step l of its           *)
(* definition.                                                             *)
Cleared(r, l) ==
    /\ l \in {"rmAccount"} \cup PastAccounts =>
           \/ pos[r].step \in {"rmAccount"} \cup PastAccounts
           \/ RoleGrants(Infra(r), Account(r)) \cap policy' = {}
           \/ "roles" \in kept'[r]
    /\ l \in PastAccounts =>
           /\ pos[r].step \in PastAccounts \/ GoneNext(r)
           /\ "account" \notin kept'[r] /\ pos[r].def = Len(Definitions)
    /\ l \in {"rmPool", "done"} => provider'[Infra(r)].state # "active"
    /\ l = "done" => pool'[Infra(r)].state # "active"

LEMMA ClearedAt ==
    ASSUME TypeOK, NEW r \in Clients, DestroyReady(r), Shrinks(Infra(r)),
           NEW l, pos'[r] = At(r, l), kept[r] \subseteq kept'[r], Cleared(r, l)
    PROVE  DestroyReady(r)'
<1>1. /\ Infra(r)' = Infra(r) /\ \A d \in DOMAIN Definitions : Definitions[d] \in Names
      /\ pos'[r].step = l /\ pos'[r].def = pos[r].def
  BY Numbered, WhereItIs DEF Infra, At, Positions
<1>2. RevokedReady(r)'
  <2>1. \A d \in DOMAIN Definitions :
          RoleGrants(Infra(r), Definitions[d]) \cap policy' \subseteq policy
    BY <1>1 DEF Shrinks
  <2> QED
    BY <1>1, <2>1 DEF DestroyReady, RevokedReady, Behind, Cleared, Account
<1>3. DeletedReady(r)'
  BY <1>1 DEF DestroyReady, DeletedReady, Behind, Shrinks, Cleared, GoneNext, Account
<1> QED
  BY <1>1, <1>2, <1>3 DEF DestroyReady, Cleared

LEMMA ClearedNextDefinition ==
    ASSUME TypeOK, NEW r \in Clients, DestroyReady(r), Shrinks(Infra(r)),
           pos[r].step = "rmAccount",
           pos'[r] = [step |-> "rmRolesGet", def |-> pos[r].def + 1, sub |-> 1],
           kept[r] \subseteq kept'[r], GoneNext(r) \/ "account" \in kept'[r]
    PROVE  DestroyReady(r)'
<1>1. /\ Infra(r)' = Infra(r) /\ \A d \in DOMAIN Definitions : Definitions[d] \in Names
      /\ pos'[r].step = "rmRolesGet" /\ pos'[r].def = pos[r].def + 1
      /\ pos[r].def \in Nat /\ DOMAIN Definitions \subseteq Nat
  BY Numbered, WhereItIs DEF Infra
<1>2. ASSUME NEW d \in DOMAIN Definitions, NEW S, "rmRolesGet" \notin S, Behind(r, d, S)'
      PROVE  d < pos[r].def \/ d = pos[r].def
  <2>1. d < pos[r].def + 1
    BY <1>1, <1>2 DEF Behind
  <2> QED
    BY <1>1, <2>1
<1>3. "rmRolesGet" \notin {"rmAccount"} \cup PastAccounts
  BY DEF PastAccounts
<1>4. RevokedReady(r)'
  <2>1. \A d \in DOMAIN Definitions :
          RoleGrants(Infra(r), Definitions[d]) \cap policy' \subseteq policy
    BY <1>1 DEF Shrinks
  <2>2. ASSUME NEW d \in DOMAIN Definitions, Behind(r, d, {"rmAccount"} \cup PastAccounts)'
        PROVE  Behind(r, d, {"rmAccount"} \cup PastAccounts)
    BY <1>2, <1>3, <2>2 DEF Behind
  <2> QED
    BY <1>1, <2>1, <2>2 DEF DestroyReady, RevokedReady
<1>5. DeletedReady(r)'
  <2>1. ASSUME NEW d \in DOMAIN Definitions, Behind(r, d, PastAccounts)'
        PROVE  Behind(r, d, PastAccounts) \/ Definitions[d] = Account(r)
    BY <1>2, <1>3, <2>1 DEF Behind, Account
  <2> QED
    BY <1>1, <2>1 DEF DestroyReady, DeletedReady, Shrinks, GoneNext
<1> QED
  BY <1>1, <1>4, <1>5 DEF DestroyReady, PastAccounts

LEMMA NextDeletionReady ==
    ASSUME TypeOK, NEW r \in Clients, DestroyReady(r), Shrinks(Infra(r)), Live(r)',
           pos[r].step = "rmAccount", NEW K, NextDeletion(r, K), kept[r] \subseteq K,
           GoneNext(r) \/ "account" \in K
    PROVE  DestroyReady(r)'
<1>1. kept'[r] = K /\ pos \in [Clients -> Positions]
  BY DEF NextDeletion, TypeOK
<1>2. CASE Move(r, [step |-> "rmRolesGet", def |-> pos[r].def + 1, sub |-> 1])
  BY <1>1, <1>2, ClearedNextDefinition DEF Move
<1>3. CASE /\ pos[r].def = Len(Definitions) /\ "account" \notin K
           /\ Move(r, At(r, "rmProv"))
  <2>1. Cleared(r, "rmProv")
    BY <1>1, <1>3 DEF Cleared
  <2> QED
    BY <1>1, <1>3, <2>1, ClearedAt DEF Move
<1> QED
  BY <1>2, <1>3, Arrivals DEF NextDeletion

LEMMA DestroyStepsReady ==
    ASSUME TypeOK, PolicyInv, Sides, CallsFit, NEW r \in Destroys, DestroyReady(r),
           Shrinks(Infra(r)), Live(r)', DestroyStep(r)
    PROVE  DestroyReady(r)'
<1>1. /\ r \in Clients /\ r \notin Creates /\ Infra(r) \in Infras
      /\ pos \in [Clients -> Positions] /\ kept \in [Clients -> SUBSET {"roles", "account"}]
      /\ pool \in [Infras -> Pools] /\ provider \in [Infras -> Providers]
  BY RunsAssumption DEF TypeOK, Infra
<1>2. ASSUME pos'[r] = At(r, "rmAccount"), kept[r] \subseteq kept'[r],
             \/ RoleGrants(Infra(r), Account(r)) \cap policy' = {}
             \/ "roles" \in kept'[r]
      PROVE  DestroyReady(r)'
  <2>1. Cleared(r, "rmAccount")
    BY <1>2 DEF Cleared, PastAccounts
  <2> QED
    BY <1>1, <1>2, <2>1, ClearedAt
<1>3. LogAndGoOn(r) => /\ pos'[r] = At(r, "rmAccount")
                       /\ kept[r] \subseteq kept'[r] /\ "roles" \in kept'[r]
  BY <1>1 DEF LogAndGoOn, Move
<1>4. CASE RemoveRolesGet(r)
  <2>1. kept' = kept
    BY <1>4 DEF RemoveRolesGet
  <2>2. ASSUME pos'[r] = At(r, "rmRolesSet") PROVE DestroyReady(r)'
    <3>1. Cleared(r, "rmRolesSet")
      BY DEF Cleared, PastAccounts
    <3> QED
      BY <1>1, <2>1, <2>2, <3>1, ClearedAt
  <2>3. ASSUME GetPolicyUnchanged(r, "remove", RoleGrants(Infra(r), Account(r)))
        PROVE  RoleGrants(Infra(r), Account(r)) \cap policy' = {}
    BY <2>3 DEF GetPolicyUnchanged, Changed, policyVars
  <2> QED
    BY <1>1, <1>2, <1>4, <2>1, <2>2, <2>3, Arrivals DEF RemoveRolesGet
<1>5. CASE RemoveRolesSet(r)
  <2>1. ASSUME SetPolicy(r) PROVE RoleGrants(Infra(r), Account(r)) \cap policy' = {}
    BY <1>1, <2>1, SetWrites
  <2> QED
    BY <1>1, <1>2, <1>3, <1>5, <2>1, Arrivals DEF RemoveRolesSet
<1>6. CASE DeleteServiceAccount(r)
  <2>1. GoneNext(r)
    BY <1>6 DEF DeleteServiceAccount, GoneNext, Bindings
  <2>2. PICK K : NextDeletion(r, K) /\ kept[r] \subseteq K
    BY <1>6 DEF DeleteServiceAccount
  <2> QED
    BY <1>1, <1>6, <2>1, <2>2, NextDeletionReady DEF DeleteServiceAccount
<1>7. CASE DeleteProvider(r)
  <2>1. pos'[r] = At(r, "rmPool") /\ kept' = kept /\ provider'[Infra(r)].state # "active"
        /\ pos[r].step = "rmProv"
    BY <1>1, <1>7, Arrivals DEF DeleteProvider, SetProvider, KeepCloud, cloud, Providers
  <2>2. Cleared(r, "rmPool")
    BY <2>1 DEF Cleared, DestroyReady, PastAccounts
  <2> QED
    BY <1>1, <2>1, <2>2, ClearedAt
<1>8. CASE DeletePool(r)
  <2>1. pos'[r] = At(r, "done") /\ kept' = kept /\ pool'[Infra(r)].state # "active"
        /\ pos[r].step = "rmPool"
    BY <1>1, <1>8, Arrivals DEF DeletePool, SetPool, KeepCloud, cloud, Pools
  <2>2. Cleared(r, "done")
    BY <2>1 DEF Cleared, DestroyReady, PastAccounts, Shrinks
  <2> QED
    BY <1>1, <2>1, <2>2, ClearedAt
<1> QED
  BY <1>4, <1>5, <1>6, <1>7, <1>8 DEF DestroyStep

LEMMA DestroyRefusedReady ==
    ASSUME TypeOK, PolicyInv, Sides, NEW r \in Destroys, DestroyReady(r),
           Shrinks(Infra(r)), Live(r)', CallRefused(r) \/ Interrupt(r)
    PROVE  DestroyReady(r)'
<1>1. /\ r \in Clients /\ r \notin Creates /\ ~Interrupt(r)
      /\ pos \in [Clients -> Positions] /\ kept \in [Clients -> SUBSET {"roles", "account"}]
  BY Arrivals, RunsAssumption DEF Interrupt, TypeOK
<1>2. pos[r].step \notin RetrySteps
  BY <1>1, CreatesStep DEF RetrySteps, CreateSteps
<1>3. \/ pos[r].step \in {"rmRolesGet", "rmRolesSet"} /\ LogAndGoOn(r)
      \/ /\ pos[r].step = "rmAccount"
         /\ NextDeletion(r, kept[r] \cup {"account"})
  BY <1>1, <1>2, Arrivals DEF CallRefused
<1>4. CASE LogAndGoOn(r)
  <2>1. pos'[r] = At(r, "rmAccount") /\ kept[r] \subseteq kept'[r] /\ "roles" \in kept'[r]
    BY <1>1, <1>4 DEF LogAndGoOn, Move
  <2>2. Cleared(r, "rmAccount")
    BY <2>1 DEF Cleared, PastAccounts
  <2> QED
    BY <1>1, <2>1, <2>2, ClearedAt
<1>5. CASE /\ pos[r].step = "rmAccount"
           /\ NextDeletion(r, kept[r] \cup {"account"})
  BY <1>1, <1>5, NextDeletionReady
<1> QED
  BY <1>3, <1>4, <1>5

LEMMA StartedDestroyReady ==
    ASSUME TypeOK, NEW r \in Destroys, Start(r)
    PROVE  DestroyReady(r)'
<1>1. pos'[r].step = "rmRolesGet" /\ pos'[r].def = 1
  BY StartedPlace, RunsAssumption
<1>2. \A d \in DOMAIN Definitions : d \in Nat \ {0}
  BY Numbered
<1>3. RevokedReady(r)' /\ DeletedReady(r)'
  BY <1>1, <1>2 DEF RevokedReady, DeletedReady, Behind, PastAccounts
<1> QED
  BY <1>1, <1>3 DEF DestroyReady, PastAccounts

-----------------------------------------------------------------------------
(* While another run steps, what is on the infra ID of an undisturbed run  *)
(* only grows for a create and only shrinks for a destroy.                 *)
LEMMA UndisturbedBefore ==
    ASSUME TypeOK, PolicyInv, Sides, NEW s \in Clients, Step(s),
           NEW r \in Clients \ disturbed', r # s, Live(r)'
    PROVE  r \notin disturbed /\ Live(r) /\ pos'[r] = pos[r] /\ kept'[r] = kept[r]
<1>1. pos'[r] = pos[r] /\ kept'[r] = kept[r]
  BY OthersKeep
<1>2. r \notin disturbed
  BY StepActive DEF Start, Starting
<1> QED
  BY <1>1, <1>2 DEF Live, Active

LEMMA RivalsRest ==
    ASSUME TypeOK, PolicyInv, Sides, Away, NEW s \in Clients, Step(s),
           NEW r \in Clients \ disturbed', r # s, Live(r)'
    PROVE  s \notin Rivals(r)
<1> SUFFICES ASSUME s \in Rivals(r) PROVE FALSE
  OBVIOUS
<1>1. r \in Rivals(s)
  BY RivalsEachOther
<1>2. ~Active(s)
  BY UndisturbedBefore DEF Away
<1>3. Start(s)
  BY <1>2, StepActive
<1> QED
  BY <1>1, <1>3 DEF Start, Starting

LEMMA OtherReady ==
    ASSUME IInv, NEW s \in Clients, Step(s), NEW r \in Clients \ disturbed', r # s, Live(r)'
    PROVE  /\ r \in Creates => CreateReady(r)'
           /\ r \in Destroys => DestroyReady(r)'
<1> USE DEF IInv
<1>1. /\ r \notin disturbed /\ Live(r) /\ pos'[r] = pos[r] /\ kept'[r] = kept[r]
      /\ Infra(r) \in Infras
  BY UndisturbedBefore, WhereItIs
<1>2. s \notin Rivals(r)
  BY RivalsRest
<1>3. CASE Infra(s) # Infra(r)
  BY <1>1, <1>3, StepElsewhere, CreateReadyStays, DestroyReadyStays DEF Ready
<1>4. CASE Infra(s) = Infra(r)
  <2>1. r \in Creates => s \in Creates
    BY <1>2, <1>4, RunsAssumption DEF Rivals
  <2>2. r \in Destroys => s \in Destroys
    BY <1>2, <1>4, RunsAssumption DEF Rivals
  <2>3. r \in Creates => Grows(Infra(r))
    BY <1>4, <2>1, CreateGrows
  <2>4. r \in Destroys => Shrinks(Infra(r))
    BY <1>4, <2>2, DestroyShrinks
  <2> QED
    BY <1>1, <2>3, <2>4, CreateReadyStays, DestroyReadyStays DEF Ready
<1> QED
  BY <1>3, <1>4

LEMMA OwnReady ==
    ASSUME IInv, NEW r \in Clients, Step(r), r \notin disturbed', Live(r)'
    PROVE  /\ r \in Creates => CreateReady(r)'
           /\ r \in Destroys => DestroyReady(r)'
<1> USE DEF IInv
<1>1. CASE Start(r)
  BY <1>1, StartedCreateReady, StartedDestroyReady
<1>2. CASE ~Start(r)
  <2>1. r \notin disturbed /\ Live(r)
    BY <1>2, StepActive DEF Live
  <2>2. ASSUME r \in Creates PROVE CreateReady(r)'
    <3>1. CreateReady(r) /\ Grows(Infra(r)) /\ ~DestroyStep(r)
      BY <2>1, <2>2, CreateGrows, StepOfCommand, RunsAssumption DEF Ready
    <3>2. CASE CallRefused(r) \/ Interrupt(r)
      BY <2>2, <3>1, <3>2, CreateRetriesReady
    <3>3. CASE CreateStep(r)
      BY <2>2, <3>1, <3>3, PoolStepsReady, ProviderStepsReady, AccountStepsReady
         DEF CreateStep
    <3> QED
      BY <1>2, <3>1, <3>2, <3>3 DEF Step, Progress
  <2>3. ASSUME r \in Destroys PROVE DestroyReady(r)'
    <3>1. DestroyReady(r) /\ Shrinks(Infra(r)) /\ ~CreateStep(r)
      BY <2>1, <2>3, DestroyShrinks, StepOfCommand, RunsAssumption DEF Ready
    <3> QED
      BY <1>2, <2>3, <3>1, DestroyRefusedReady, DestroyStepsReady DEF Step, Progress
  <2> QED
    BY <2>2, <2>3
<1> QED
  BY <1>1, <1>2

LEMMA StepInv ==
    ASSUME IInv, NEW s \in Clients, Step(s)
    PROVE  IInv'
<1>1. Ready'
  BY OtherReady, OwnReady, RunsAssumption DEF Ready
<1> QED
  BY <1>1, StepType, StepCalls, StepAway DEF IInv

LEMMA OtherEditInv ==
    ASSUME IInv, NEW g \in Foreign, OtherEdit(g)
    PROVE  IInv'
<1>1. /\ UNCHANGED <<pos, kept, disturbed, call>>
      /\ \A r \in Clients : Infra(r) \in Infras
  BY WhereItIs DEF OtherEdit, runs, AdminEdit, IInv
<1>2. CallsFit' /\ Away'
  BY <1>1 DEF IInv, CallsFit, CallFits, Away, Live, Active, Rivals, Infra, Account
<1>3. Ready'
  <2>1. ASSUME NEW r \in Clients, r \notin disturbed', Live(r)'
        PROVE  /\ r \in Creates => CreateReady(r)'
               /\ r \in Destroys => DestroyReady(r)'
    <3>1. r \notin disturbed /\ Live(r) /\ Grows(Infra(r)) /\ Shrinks(Infra(r))
      BY <1>1, <2>1, OtherEditApart DEF Live, Active
    <3> QED
      BY <1>1, <3>1, CreateReadyStays, DestroyReadyStays DEF IInv, Ready
  <2> QED
    BY <2>1, RunsAssumption DEF Ready
<1> QED
  BY <1>2, <1>3, OtherEditType DEF IInv

LEMMA StutterInv == IInv /\ UNCHANGED vars => IInv'
<1> SUFFICES ASSUME IInv, UNCHANGED vars PROVE IInv'
  OBVIOUS
<1>1. UNCHANGED <<policy, etag, call>> /\ UNCHANGED <<pool, provider, accounts, bound>>
      /\ UNCHANGED <<pos, held, kept, err>> /\ UNCHANGED <<faults, disturbed>>
  BY DEF vars, policyVars, cloud, runs
<1>2. CallsFit' /\ Away'
  BY <1>1 DEF IInv, CallsFit, CallFits, Away, Live, Active, Rivals, Infra, Account
<1>3. ASSUME NEW r \in Clients PROVE Grows(Infra(r)) /\ Shrinks(Infra(r))
  BY <1>1 DEF Grows, Shrinks
<1>4. Ready'
  BY <1>1, <1>3, CreateReadyStays, DestroyReadyStays, RunsAssumption
     DEF IInv, Ready, Live, Active
<1> QED
  BY <1>2, <1>4, StutterType DEF IInv

LEMMA InitInv == Init => IInv
<1> SUFFICES ASSUME Init PROVE IInv
  OBVIOUS
<1>1. \A r \in Clients : pos[r].step = "idle" /\ call[r] = NoCall
  BY DEF Init, PolicyInit
<1>2. CallsFit
  BY <1>1 DEF CallsFit, CallFits
<1>3. Away /\ Ready
  BY <1>1, RunsAssumption DEF Away, Ready, Live, Active, Resting
<1> QED
  BY <1>2, <1>3, InitType DEF IInv

LEMMA NextInv == IInv /\ [Next]_vars => IInv'
BY StepInv, OtherEditInv, StutterInv DEF Next, Step

(* The inductive invariant: types, the policy protocol, what each run      *)
(* holds of it, and what lies behind a run that nobody disturbs.           *)
THEOREM Invariant == Spec => []IInv
BY InitInv, NextInv, PTL DEF Spec

-----------------------------------------------------------------------------
LEMMA AllBehind ==
    ASSUME TypeOK, NEW r \in Clients, pos[r].def = Len(Definitions), NEW S, pos[r].step \in S
    PROVE  \A a \in Names : \E d \in DOMAIN Definitions : Definitions[d] = a /\ Behind(r, d, S)
<1>1. ASSUME NEW d \in DOMAIN Definitions PROVE Behind(r, d, S)
  BY Numbered DEF Behind
<1> QED
  BY <1>1 DEF Names

LEMMA CreateKeepsWord == IInv => CreateDelivers
<1> SUFFICES ASSUME IInv, NEW r \in Creates \ disturbed, pos[r].step = "done"
             PROVE  Usable(Infra(r))
  BY DEF CreateDelivers
<1>1. r \in Clients /\ CreateReady(r)
  BY RunsAssumption DEF IInv, Ready, Live
<1>2. /\ pos[r].step \in Final /\ pos[r].step \in PastRoles /\ pos[r].step \in PastAccount
      /\ pos[r].step \in PastProvider /\ pos[r].step \in PastPool
      /\ pos[r].def = Len(Definitions)
  BY <1>1 DEF CreateReady, Final, PastRoles, PastAccount, PastProvider, PastPool
<1>3. pool[Infra(r)] = Enabled /\ provider[Infra(r)] = Wanted
  BY <1>1, <1>2 DEF CreateReady, PoolReady, ProviderReady
<1>4. ASSUME NEW a \in Names
      PROVE  /\ <<Infra(r), a>> \in accounts
             /\ RoleGrants(Infra(r), a) \subseteq policy
             /\ \A n \in DOMAIN SubjectsOf[a] : <<Infra(r), a, SubjectsOf[a][n]>> \in bound
  <2>1. PICK d \in DOMAIN Definitions :
          /\ Definitions[d] = a
          /\ Behind(r, d, Final) /\ Behind(r, d, PastRoles) /\ Behind(r, d, PastAccount)
    BY <1>1, <1>2, AllBehind DEF IInv, Behind
  <2> QED
    BY <1>1, <2>1 DEF CreateReady, AccountsReady, GrantsReady, BindingsReady
<1> QED
  BY <1>3, <1>4 DEF Usable, Enabled

(* A create that succeeds leaves complete, usable infrastructure, for any  *)
(* number of runs, infra IDs, definitions and failures.                    *)
THEOREM CreateDeliversTheorem == Spec => []CreateDelivers
BY Invariant, CreateKeepsWord, PTL

LEMMA GoneAccounts ==
    ASSUME TypeOK, NEW r \in Clients, DestroyReady(r), pos[r].step \in PastAccounts
    PROVE  \A a \in Names :
               /\ <<Infra(r), a>> \notin accounts
               /\ \A b \in bound : ~(b[1] = Infra(r) /\ b[2] = a)
<1>1. "account" \notin kept[r] /\ pos[r].def = Len(Definitions)
  BY DEF DestroyReady
<1> QED
  BY <1>1, AllBehind DEF DestroyReady, DeletedReady

LEMMA DestroyKeepsWord == IInv => DestroyDelivers
<1> SUFFICES ASSUME IInv, NEW r \in Destroys \ disturbed, pos[r].step = "done"
             PROVE  /\ pool[Infra(r)].state # "active"
                    /\ provider[Infra(r)].state # "active"
                    /\ \A a \in Names :
                        /\ <<Infra(r), a>> \notin accounts
                        /\ "roles" \notin kept[r] =>
                               RoleGrants(Infra(r), a) \cap policy = {}
                    /\ \A b \in bound : b[1] # Infra(r)
  BY DEF DestroyDelivers
<1>1. r \in Clients /\ DestroyReady(r) /\ TypeOK
  BY RunsAssumption DEF IInv, Ready, Live
<1>2. /\ pos[r].step \in PastAccounts /\ pos[r].step \in {"rmAccount"} \cup PastAccounts
      /\ pos[r].def = Len(Definitions)
  BY <1>1 DEF DestroyReady, PastAccounts
<1>3. pool[Infra(r)].state # "active" /\ provider[Infra(r)].state # "active"
  BY <1>1 DEF DestroyReady
<1>4. \A a \in Names : /\ <<Infra(r), a>> \notin accounts
                       /\ \A b \in bound : ~(b[1] = Infra(r) /\ b[2] = a)
  BY <1>1, <1>2, GoneAccounts
<1>5. ASSUME NEW a \in Names, "roles" \notin kept[r]
      PROVE  RoleGrants(Infra(r), a) \cap policy = {}
  BY <1>1, <1>2, <1>5, AllBehind DEF DestroyReady, RevokedReady
<1>6. \A b \in bound : b[1] # Infra(r)
  BY <1>1, <1>4 DEF TypeOK
<1> QED
  BY <1>3, <1>4, <1>5, <1>6

(* A destroy that succeeds leaves nothing but the grants it logged that it *)
(* could not remove.                                                       *)
THEOREM DestroyDeliversTheorem == Spec => []DestroyDelivers
BY Invariant, DestroyKeepsWord, PTL

InReverse(i) ==
    (\A r \in Clients : Active(r) /\ Infra(r) = i => r \in Destroys \ disturbed) =>
        /\ provider'[i].state # provider[i].state => \A a \in Names : <<i, a>> \notin accounts
        /\ pool'[i].state # pool[i].state => provider[i].state # "active"

LEMMA StepInReverse ==
    ASSUME IInv, NEW s \in Clients, Step(s), NEW i \in Infras
    PROVE  InReverse(i)
<1> SUFFICES ASSUME \A r \in Clients : Active(r) /\ Infra(r) = i => r \in Destroys \ disturbed
             PROVE  /\ provider'[i].state # provider[i].state =>
                           \A a \in Names : <<i, a>> \notin accounts
                    /\ pool'[i].state # pool[i].state => provider[i].state # "active"
  BY DEF InReverse
<1>1. TypeOK /\ Sides /\ Ready
  BY DEF IInv
<1>2. CASE Start(s)
  BY <1>2 DEF Start, cloud
<1>3. CASE Infra(s) # i
  <2>1. pool'[i] = pool[i]
    BY <1>1, <1>3, CloudSteps DEF CreatePool, UndeletePool, EnablePool, DeletePool, SetPool,
                                  KeepCloud, cloud, TypeOK
  <2>2. provider'[i] = provider[i]
    BY <1>1, <1>3, CloudSteps DEF CreateProvider, UndeleteProvider, UpdateProvider,
                                  DeleteProvider, SetProvider, KeepCloud, cloud, TypeOK
  <2> QED
    BY <2>1, <2>2
<1>4. CASE ~Start(s) /\ Infra(s) = i
  <2>1. s \in Destroys \ disturbed /\ ~CreateStep(s) /\ DestroyReady(s)
    BY <1>1, <1>4, StepActive, StepOfCommand, RunsAssumption DEF Ready, Live
  <2>2. UNCHANGED provider \/ DeleteProvider(s)
    BY <2>1, CloudSteps DEF CreateStep
  <2>3. UNCHANGED pool \/ DeletePool(s)
    BY <2>1, CloudSteps DEF CreateStep
  <2>4. ASSUME DeleteProvider(s) PROVE \A a \in Names : <<i, a>> \notin accounts
    <3>1. pos[s].step \in PastAccounts
      BY <2>4 DEF DeleteProvider, PastAccounts
    <3> QED
      BY <1>1, <1>4, <2>1, <3>1, GoneAccounts
  <2>5. ASSUME DeletePool(s) PROVE provider[i].state # "active"
    BY <1>4, <2>1, <2>5 DEF DeletePool, DestroyReady
  <2> QED
    BY <2>2, <2>3, <2>4, <2>5
<1> QED
  BY <1>2, <1>3, <1>4

(* While only destroys are at work, undisturbed, the provider goes after   *)
(* the accounts and the pool after the provider.                           *)
THEOREM ReverseOrderTheorem == Spec => ReverseOrder
<1>1. IInv /\ [Next]_vars => [\A i \in Infras : InReverse(i)]_vars
  <2> SUFFICES ASSUME IInv, Next, NEW i \in Infras PROVE InReverse(i)
    OBVIOUS
  <2>1. ASSUME NEW g \in Foreign, OtherEdit(g) PROVE InReverse(i)
    BY <2>1 DEF OtherEdit, cloud, InReverse
  <2> QED
    BY <2>1, StepInReverse DEF Next, Step
<1>2. [\A i \in Infras : InReverse(i)]_vars =>
      [\A i \in Infras :
        (\A r \in Clients : Active(r) /\ Infra(r) = i => r \in Destroys \ disturbed) =>
            /\ provider'[i].state # provider[i].state =>
                   \A a \in Names : <<i, a>> \notin accounts
            /\ pool'[i].state # pool[i].state => provider[i].state # "active"
      ]_vars
  BY DEF InReverse
<1> QED
  BY <1>1, <1>2, Invariant, PTL DEF Spec, ReverseOrder
=============================================================================
