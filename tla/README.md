# A TLA+ model of gcphcpctl

`gcphcpctl` is a command-line program: it creates and destroys the GCP
infrastructure of hosted OpenShift clusters (IAM and network), creates the
clusters through a platform API, and gives site reliability engineers guarded
access to operational workflows and an interactive agent.  Each invocation is
a short-lived process.  What makes it hard is not what runs inside one process
but what several invocations, and the cloud between them, do to the same
resources: a command that dies halfway and is run again, two operators on one
project, an operation whose answer is lost, a resource deleted yesterday whose
name is still taken.

This directory holds TLA+ modules that model those behaviours, TLC
configurations that check them on small instances, and theorems proved with
TLAPS.  Paths below are relative to `src/`.

## 1. Inventory

| Part | Code | State | Operations | Hard part | Correct when |
|---|---|---|---|---|---|
| Project IAM policy | `pkg/gcp/iam/client.go:79-96, 242-350` | grants and etag in the cloud; the policy a process holds between get and set | add, remove roles of a member | read-modify-write by several processes | no grant is lost or revived |
| IAM infrastructure | `pkg/infra/iam`, `pkg/gcp/iam` | pool, provider, service accounts, their roles and bindings | `iam create`, `iam destroy` | partial failure and rerun, soft-deleted names, propagation retries, overlap | success means complete (or gone); repetition converges |
| Network infrastructure | `pkg/infra/network`, `pkg/gcp/networking` | network, subnet, router, NAT, firewall rules | `network create`, `network destroy` | dependency order, NAT kept inside the router object, a control-plane operator that owns the same firewall rule | success means complete (or gone); a failed destroy can be resumed |
| Cluster create | `pkg/cluster/create.go` | an infra ID per run; IAM, network and cluster record | set up infrastructure, POST | POST with unknown outcome; each rerun has a new infra ID | no cluster points at missing infrastructure; leftovers are reported |
| Cluster login, kubeconfig | `pkg/cluster/login.go`, `pkg/kubeconfig` | kubeconfig file | load-modify-save, restore | unlocked read-modify-write of a shared file; rollback after a failed validation | other entries survive; a failed login does not switch the context |
| Cluster delete, upgrade policies; node pools | `pkg/cluster`, `pkg/nodepool` | objects of the platform API | create, merge patch, delete, some after a get | a patch of fields that others change; an object created anew under the name | no write reverts what it did not mean |
| Platform API client | `pkg/platformapi` | none | REST verbs, pagination, error classification | which failures may have taken effect | an ambiguous write is never reported as a definite failure |
| Roles, role bindings, platform roles, versions, regions | `pkg/role`, `pkg/rolebinding`, `pkg/platformrole`, `pkg/version`, `pkg/regions`, `pkg/internal/access` | none of their own | list (paged), get, create, update (get, then put with its resource version), delete | a stale put; paging that never ends | a list is complete or an error; a conflict is reported, never overwritten |
| Endpoint discovery | `pkg/discovery` | manifests by URL, under a mutex | resolve region | concurrent lookups, failure must not be cached | at most one fetch per URL that succeeds |
| Token source | `pkg/auth` | token, email, expiry, under a mutex | `TokenWithExpiry` | refresh race, expiry margin, email failing after the token | never a stale token, never half a pair |
| Workflow execution | `pkg/gcp/workflows`, `pkg/ops`, `pkg/ops/wf` | executions and callbacks in the cloud | run, wait, resume, list, status | client deadline against a run that goes on; callback listed, then triggered | no failed run reported as success |
| PAM gate | `pkg/ops/pam_gate.go`, `pkg/ops/pam`, `pkg/gcp/pam` | grants | ensure, request, wait, approve, deny, revoke | grant that expires between check and use; gate skipped on an error | a gated workflow starts only under a grant |
| Companion | `pkg/ops/companion`, `pkg/gcp/cloudrun` | conversation history, session log, denial counter | chat turn, local tools, resume | interrupt at any point of a turn, POST retried, a log that differs from the history | one reply per question; a tool runs only when confirmed |
| HTTP debug transport | `pkg/httpdebug` | captured body, snapshot of a request body | read, close, report | closed while it is read; a snapshot that hangs | a body is reported once, as complete only if it was, and holds nobody up |
| Configuration | `pkg/config`, `pkg/cli` | resolved settings | resolve by precedence | — | flag over environment over file |
| Output, auditing, PagerDuty, describe/etcd/log views | `pkg/output`, `pkg/gcp/auditlog`, rest of `pkg/ops` | none | formatting, reading | — | — |

How they interact: `cluster create` calls the IAM and the network component
in that order and hands their results to the platform API client;
`iam create` and `network create` run the same code on their own.  The ops
commands pass the PAM gate, then call the workflow client.  The companion
calls the agent over HTTP and the workflow client (behind the same gate) for
its local tools.  Every HTTP client sits on the token source, and the debug
transport.  Processes share nothing but the cloud and two files: the
kubeconfig and the companion's session log.

PROJECT.json lists every hazard found in the code with its line and the
properties that cover it.

## 2. Modules

| Module | What it is |
|---|---|
| `IamErrors` | the kinds of error an IAM call returns and the functions that classify them |
| `AtomicPolicy` | abstract: a set of grants; a request takes effect in one step, or never |
| `ProjectPolicy` | the get-modify-set protocol that is to implement `AtomicPolicy` |
| `ProjectPolicyProofs` | theorems about `ProjectPolicy` |
| `IamInfra` | `iam create` and `iam destroy`, composed with `ProjectPolicy` |
| `IamInfraProofs` | theorems about `IamInfra` |
| `MCIamInfra` | instances of `IamInfra` for TLC |
| `NetworkInfra` | `network create` and `network destroy` beside the control-plane operator of the hosted cluster |
| `NetworkInfraProofs` | theorems about `NetworkInfra` |
| `MCNetworkInfra` | instances of `NetworkInfra` for TLC |
| `OpsWorkflow` | the `ops` commands over Cloud Workflows and the PAM grants that gate them |
| `OpsWorkflowProofs` | theorems about `OpsWorkflow` |
| `MCOpsWorkflow` | instances of `OpsWorkflow` for TLC |
| `PlatformApi` | the REST client of the platform API, its verdicts, and the server |
| `PlatformCommands` | the commands over it, composed with `PlatformApi`: `cluster create` to listings |
| `PlatformProofs` | theorems about `PlatformCommands` |
| `MCPlatformCommands` | instances of `PlatformCommands` for TLC |
| `Companion` | `ops sre-companion` and `ops diagnose`, with the client of Cloud Run |
| `CompanionProofs` | theorems about `Companion` |
| `MCCompanion` | the instance of `Companion` for TLC |
| `TokenSource` | the identity token of a process, its durations and their assumptions |
| `TokenSourceProofs` | theorems about `TokenSource` |
| `Discovery` | endpoints of a region, and the cache of manifests |
| `ResponseBody`, `RequestSnapshot` | the two observers of bodies of the debug transport |
| `KubeconfigLogin` | `cluster login` and the kubeconfig file |
| `MCClientSide` | one instance of `TokenSource` and of each of the last four, side by side, and their assumptions |
| `ClientSideProofs` | theorems about `MCClientSide` |

### ProjectPolicy

`policy` and `etag` are the server's, `call[c]` is what process `c` holds
between `GetProjectIAMPolicy` and `SetProjectIAMPolicy`: its request, the
bindings it read and the etag that came with them.  `AddProjectIAMRoles`
changes the object it read and sends the same object back, so the set carries
the etag of the get; `GetPolicy` and `SetPolicy` are the two calls,
`GetPolicyUnchanged` the early return when there is nothing to change,
`SetConflict` the server's 409 (the code does not read again),
`AbandonCall` a failed call or a process that dies between the two.
`AdminEdit` is anybody else.

### IamInfra

A run of a command is a position `pos[r]` in the program of
`CreateIAM` or `DestroyIAM`; every remote call is one action, named after the
method of `pkg/infra/iam/manager.go` that makes it.  `pool`, `provider`,
`accounts` and `bound` are the cloud's state, `kept` what a destroy could not
remove, `err` the error a run ended with.  `Reply` lets any call that took
effect lose its answer (`waitOperation` gives up after five minutes;
connections drop), `CallRefused` refuses any call, `Interrupt` kills the run
between any two calls and `Start` runs the command again.  `retryWithBackoff`
wraps the calls of `CreateServiceAccounts` and restarts the operation the code
restarts, with the errors `isTransientIAMError` accepts after
`wrapAuthError` has been at them.

`disturbed` is a history variable: the runs whose infra ID was also worked on
by the opposite command since they started.  `iam create` and `iam destroy` at
the same time are not meant to give either one's result; the properties speak
of the other runs.  `ReverseOrder` speaks of an infra ID on which nothing but
undisturbed destroys is at work; any weaker condition is not enough with two
destroys, one of which a create came across: that one may delete the pool
while the other still stands before the provider.

What the model takes from the cloud (external, from how the code uses it): a
create of a name in use answers 409 also if the name is soft-deleted; a delete
of something absent or soft-deleted answers 404; an undelete needs a
soft-deleted resource; a patch needs an active one; a policy refuses a new
member that does not exist; a service account takes the policy on it along
when it is deleted and leaves its project grants behind.  A long-running
operation takes effect at once, its answer may come late or never.  The purge
of soft-deleted names after 30 days is left out.  Account policies are guarded
by etags in the same way as the project policy; since the bindings of an
account only grow while it lives, `held` compares the bindings instead.

### NetworkInfra

`state[x]` is what the cloud holds of network, subnet, router and the two
firewall rules (`firewall` is `<infra-id>-internal-cluster`, `legacy` the
kubelet rule that older versions created and only destroys still touch), `nat`
whether the router contains the NAT, `marked` whether the rule carries the
ownership marker.  `pos[r]` is a run's place in `CreateNetwork` or
`DestroyNetwork`.  The four creations share `Insert` followed by `Get`, as the
code's methods share their shape; the NAT is `CreateNATGet` and then
`CreateNATPatch`, because it is a field of the router that is read and
patched.  `Delete` answers not-found, in-use, or starts an operation that
`WaitOperation` waits for and `OperationDone` completes; `Fail` covers a call
that is refused, a wait that gives up after its five minutes, and a process
that dies.

`target` is the version the cluster will run, what the command line says of
it, and whether the payload has an operator that owns the rule.  Only released
versions tell (`Targets`); for the others the command creates the rule and the
operator adopts it by its marker.  `HostCluster`, `CPOReconcile` and
`DeleteCluster` are the other side of that hand-over, modelled from
`firewall.go:13-49` and `66-134`.  `disturbed` again marks the runs that
overlap the opposite command; for a create also those that start while a
deletion is unfinished.

### OpsWorkflow

A command is a process: `line[c]` is what it was given, `at[c]` the call it is
about to make or how it ended, `subject[c]` the execution or grant it is
about, `via`, `labels` and `callback` what it has learnt, `late[c]` that its
deadline has passed.  An execution is named after the command that started it
(`state`, `status`, `made`, `pending`).  The commands that run a workflow
share all steps, as the code's handlers repeat them, and differ in what they
make of an execution that is over: one `Judge...` operator per handler.

| Steps | Code |
|---|---|
| `ReadLabels`, `LabelsUnreadable` | `checkPAMGate`, and its copy in `wf run` |
| `Discover` .. `AwaitGrant` | `EnsurePAMGrant`; `pam request` from `Ask` on |
| `Execute`, `AwaitExecution` | `Client.Execute`, `WaitForCompletion` |
| `Look`, `ListCallbacks`, `TriggerCallback` | `wf status`, `wf resume` |
| `Decide`, `Revoked`, `GrantStatus` | `pam approve`, `deny`, `revoke`, `status` |

A poll that finds nothing new changes nothing and is no step.  The services
are external: executions run, wait for callbacks and end, grants are
activated, expire and are decided at the console, by steps of their own.  That
a gated workflow is started only while a grant is active (`Created`) is IAM's
doing, not the command's; `GateHeld` says what the command has to ensure, for
its own grant.  The gate ends at the last look at the grant: one that ends
before `Execute` makes that call fail or not, whichever other grant there is.
If the labels cannot be read the gate is skipped (`pam_gate.go:22`): the
property speaks of commands that read them.  `pam_gate.go:20` keeps the gate
when an entitlement was named, with no labels, which `EnsurePAMGrant` then
takes for not gated; the flag is not defined for any of these commands, so the
two ways are one here.

`ReasonFlag` says whether the gated commands know `--reason`.  They do not:
the gate's advice to add it (`ensure.go:53-55`) names a flag that only
`pam_gate.go:27` reads and that no gated command defines, so the argument
parser refuses it and the branch of `EnsurePAMGrant` that asks for a grant is
dead code there; asking is reached by `pam request` alone.  `ops_grants` sets
the constant, to check `EnsurePAMGrant` as the function of its parameters that
it is; the other runs have it FALSE.  All grants are of one requester (the
search is by caller), and of one entitlement.

Two things the model shows and no property rules out: with `-o json` the
mutating commands print the result before they look at its status, and `get`
and `describe` never look at it (`hack/workflows/get.yaml:212` sets it to
`error`).

### PlatformApi and PlatformCommands

`sent[c]` is a write on its way, `reply[c]` an answer on its way back,
`store[k]` the object of kind `k`.  A command gives up at any time
(`GiveUp`), and the server handles the request later, or never (`Vanish`).
`normalizeResult` and `decodeResult` are the code's: what counts as uncertain
depends on the flag `nonIdempotent` that every call site passes, the status,
and whether the body of a success is understood.  Contents are three groups of
fields, each as the version of the last write that meant it, so that a field
which goes back is a field somebody overwrote: `Put` replaces all by what the
client read, `Patch` changes what it names.

In `PlatformCommands` a command is at a place `at[c]`.  `cluster create`
passes `validateVersion`, then `CreateIAM` and `CreateNetwork` or
`buildPayloadFromConfigs`; the first two stand for whole runs of `IamInfra`
and `NetworkInfra`, whose result is complete (`CreateDelivers`,
`NetworkDelivers`) or, after an error, anything.  `CleanUp` is the user who
removes an attempt's resources: `decorateCreateError` (`create.go:242-254`)
advises to look first if the outcome is uncertain, so he does it after a
definite failure only.  That infra IDs are fresh is assumed: two random bytes
follow the cluster's name.  A request that is refused with a status from 400
to 499 is taken to have had no effect.  What the model shows and no property
rules out: PATCH and DELETE report a definite failure although they may have
taken effect; `create.go:288-301` accepts the IAM configuration of another
project, and of another infra ID than the network's; `cluster delete` deletes
by name what it resolved by name, without a precondition on the UID, so a
cluster created anew in between is the one that goes.

`FetchPage` is one round of the three paging loops.  A catalog of length 0 is
a server that makes up tokens; what ends those listings is a repeated token
or, for platform roles, the limit of pages.  Such a server may also go on with
tokens it never sent before: two numbers above `MaxToken` stand for them by
turns and are not remembered (`NeverSent`).  That keeps the listings of roles
and of role bindings busy for ever (`access.go:60-94`, `165-199`), and
`CommandsEnd` names this case, and a write that is never answered, as the two
in which a command does not end.

### Companion

`at` is what the program does next, `history` the conversation it posts, `log`
the session's file, `past` the files of earlier sessions.  A turn sends
(`Send`, `SendAnswered`, `Backoff`: `doWithRetry`), reads the stream (`Text`,
`Done`, `Broken`, `ToolCall`), asks the user (`Approve`, `Deny`), runs the tool
(`Execute`, `CreateGrant`, `StartWorkflow`, then `Awaited` or `AwaitEnds`) and
sends its result.  `Interrupt` cancels the turn, not the session, so a tool
that runs goes on; `Expire` is the session's deadline.  `ReturnReply` and
`ReturnError` are what becomes of history and log, which differs between a
question and an incident, and between an error and an interrupt.

The log may have more than the history: an error takes the question out of
the history only.  `LogKeepsHistory` therefore asks for the other direction.
What the model shows and no property rules out: an incident is logged by its
name, so a resumed session has less of it than the one that loaded it; resumed
messages are not written to the new log; after an interrupted incident the
agent is sent two questions in a row; once the session's deadline has passed,
every question ends at once as interrupted; and a log whose last line is torn
(a full disk, a kill) makes `LoadHistory` and `lastUserInput` loop for ever,
since the decoder returns the same error and `More` stays true
(`session.go:207`, `session.go:182`): the place `hung`.

### The client side

`TokenSource`: `tokenMutex` is `ts.mu`, held from `Acquire` to `Commit` or
`Fail` by the call that refreshes.  A token is the time at which it really
ends.  The SDK tells that time; gcloud does not, and `Ends` takes its token to
live `defaultTokenLifetime` from the moment it was made, which is some time
before the code's clock starts to count.  What makes the guess safe is that a
refresh ends within `tokenRefreshTimeout`, which is no more than the margin
`TokenEarlyRefresh` (15 and 30 seconds): `TimeAssumption`.  A user who switches
the gcloud account while the process runs is left out; the e-mail is fetched
once.

`Discovery`: `cacheMutex` is held while a manifest is fetched, as in the code.
`published[u]` changes at any time.

`ResponseBody`: `Read` and `Close` each consist of the call of the source,
their section under the mutex, and the message they print after it.
`RequestSnapshot`: the request, the worker that copies its body, and the hook
that `context.AfterFunc` runs, each a process; `copy.closes` counts closes.
`Select` is the wait for the worker or the end of the context, `RoundTrip` the
second look at the context, after the body was logged: a request may be
aborted whose body was shown.  `BodiesTold` of `MCClientSide` conjoins what
the two observers promise of what they print and close.

`KubeconfigLogin`: `file` is the file, `login[p]` a login and what it has
loaded.  `Open` empties the file and `Write` writes it (`clientcmd.WriteToFile`, then
`os.Chmod`), and a
process may die in between.  Without a lock, overlapping logins do lose
entries: the model shows it, `lossy` records it, and `NothingLost` speaks of
the other behaviours, where the long wait for `kubectl` lies between two loads.
`LoneLogin` is what a login promises that nobody disturbs; a torn save
disturbs the others like a finished one.  `RestoreContext`
may override a context that others chose meanwhile, and a failing `chmod`
leaves the new context in place; both are in the model.

## 3. Runs

All runs are listed in PROJECT.json.  Bounds: `MaxFaults` counts refusals,
lost answers and interruptions, `MaxWrites` stops new runs and `MaxEdits`
other administrators once `etag` has reached them.

| Run | Question | Instance |
|---|---|---|
| `iam_create` | does repetition complete what failed, from any state, beside another create? (`TypeOK`, `CreateConverges`) | two creates, any pool, any provider, one failure anywhere |
| `iam_create_destroy` | what does a run that succeeds leave, with the opposite command before, beside or after? is get-modify-set atomic in the whole of both commands, and does every run end? (`CreateDelivers`, `DestroyDelivers`, `GetModifySetIsAtomic`, `ReverseOrder`, `RunsEnd`) | one of each, two definitions, another administrator, one failure |
| `iam_dangling_grants` | finding: a destroy that succeeds and leaves grants (`DestroyRemovesGrants` violated) | one definition |
| `iam_propagation` | finding: a propagation error that is not retried (`TransientErrorsAreRetried` violated) | one definition |
| `network_create` | what does a successful create leave, and do the workers get their firewall rule, from one side or the other? (`TypeOK`, `NetworkDelivers`, `WorkersConnected`) | two creates, any partial state, any version, two failures |
| `network_create_destroy` | and with destroys, and a live operator? does repetition remove everything? (`NetworkGone`, `DestroyConverges`) | one create, two destroys, any partial state, with or without a live cluster |
| `ops_grants` | does a gated workflow wait for a grant, is a reported verdict final, does a failure show? (`TypeOK`, `GateHeld`, `VerdictsStand`, `WaitsSettle`) | two commands of every kind that meets grants or reads, approvers at the console, two grants |
| `ops_executions` | who resumes an execution, and does every command end? (`ResumesTakeEffectOnce`, `CommandsEnd`) | two commands, one of each sort, or two operators who resume what a third started, two callbacks |
| `ops_mutations` | finding: success reported for a failed execution (`MutationsReported` violated) | two commands |
| `platform` | do verdicts say what is known, does a live cluster keep its resources, does no write revert another, are listings complete, and what can keep a command from ending? (`TypeOK`, `VerdictsTrue`, `ClusterBacked`, `ListComplete`, `NoReversal`, `CommandsEnd`) | two commands that meet at one kind of object, other clients, catalogs of any, one and three pages |
| `companion` | do history, log and agent agree, whatever is interrupted? (`TypeOK`, `AnswersFollow`, `LogKeepsHistory`, `ToolsConfirmed`, `GrantsWarned`, `TurnsEnd`) | two sessions with one tool call, or one with two; two questions, one retry, two denials |
| `client_side` | are the shared parts of the client side safe under two callers, and does nothing that hangs or fails hold up a caller, a cancelled request or a close? (`PartsTypeOK`, `NeverStale`, `PairWhole`, `OneManifest`, `BodiesTold`, `NothingLost`, `LoneLogin`, `CallsEnd`, `RequestsGoOn`, `BodyNamed`) | one part per behaviour, two processes at it |

One failure is enough for the first failure of each call; repetition after it
covers the partial states it leaves.  Two definitions reach the loop's step
from one account to the next, two subjects the inner loop's; the runs that
concern neither use one definition.  `iam_create_destroy` starts from four
project policies (`LeftoversInit`): nothing, part or all of the grants is
there.  Two processes are what a race of a read-modify-write needs, and the
theorems hold for any number.

Fairness: a run that is under way takes its next step (weak fairness: nothing
blocks a process for ever, all calls have deadlines), and an operation that
keeps failing with transient errors meets the deadline that
`retryWithBackoff` compares with the clock (strong fairness of that exit, the
only one stronger than weak).  `iam_create` also assumes that somebody runs a
failed command again; `MaxWrites` and `MaxEdits` are large enough there for
that never to be cut off.

`network_create` assumes that runs go on, deletions complete and the operator
reconciles; it does not assume that anybody repeats a command.
`network_create_destroy` also assumes that destroys are repeated while
something is left, and that the cluster is deleted in the end: an operator that
lives keeps putting its rule back.  It starts from every partial state, which
is what a failed or killed run leaves, and so has no failures of its own
(`MaxFaults = 0`); `network_create` has them.

In the network runs, versions stand for their classes (unset, before 5.0.0,
from 5.0.0 on, prerelease of it): `shouldCreateFirewallRule` tells no others
apart.  `network_create_destroy` takes the two classes in which the command creates the rule, with and without an operator, and starts with marked
and unmarked rules: the operator takes a marked one along when the cluster
goes, the other is left to the destroy.

The `ops` runs have no bound on failures: any call may fail at any time.  They
bound the commands, each of which runs once, the grants, and by `MaxCallbacks`
the callbacks of an execution.  A race over a grant needs two who decide, the
second of whom may be at the console, and two grants tell a command's own from
another's.  Two operators see one callback, a third starts the execution they
see it in, and the second callback tells a stale one from the next; `Meeting`
restricts `ops_executions` to such commands as can meet at one execution, each
pair in one order, and lets only the operators see a second callback.
Symmetry over commands and grants is used for invariants only.  The run
assumes that
a command takes its next step, that its operator answers a prompt, and that
its deadline comes; it assumes nothing of the services, so a grant may stay
undecided and an execution may wait for ever.

In `platform` two commands are what any race here needs, the second of which
may be another client; `MaxVersion` bounds what other clients write, and
`StaysMeeting` leaves out pairs of commands that touch different kinds of
objects, for those do not see each other.  Fairness: a command takes its next
step, which for a read means that it is answered or fails.  There is no
deadline on a request (`rest.Config` has no timeout), so nothing is assumed of
the answer to a write: it may be late for ever, or lost, and the command wait
for it.  `MaxToken` bounds the tokens that a server may send more than once;
of those it sends once there may be any number.

`companion` bounds questions, calls and sessions; the second session is what
resumes the first, and the second question what a first one that was
interrupted can spoil.  Sessions share files and no tool calls, so
`OneOrOther` has two calls in one session or two sessions with one call.  Two
denials stand for ten: the counter is compared in the same way.  Fairness: the
program runs, the user answers a prompt, and the deadline comes; the agent and
the services may be silent for ever.

In `client_side` the parts share no state, so each behaviour is one of one
part.  Two callers race for a mutex; time runs to 5 units, so a token of
lifetime 4 is fetched, served, refreshed before its end and, if the SDK gives
less, at once.  A body shorter than, as long as, and longer than what is kept;
two URLs would not meet.  The kubeconfig is followed until a save is
overlapped or cut short, and starts in every state such a save may leave.
Fairness: whoever holds the mutex fetches within its deadline and `sync.Mutex`
starves nobody (strong fairness of `Acquire`); the goroutines of the debug
transport run, and a source that is closed lets go of a read; it need not
deliver, nor a snapshot ever return.

Deadlock is not checked: runs end and nothing has to follow.

## 4. Proofs

`ProjectPolicyProofs` proves for every set of clients and grants:

* `PolicySafe`: `PolicySpec => []PolicyInv`.  The invariant is inductive as it
  stands: `FreshBase` (a client whose etag is current holds the current
  bindings) is what makes a set safe, `PastEtags` (no etag is ahead of the
  server's) is what keeps `FreshBase` true when `etag` moves.
* `AtomicTheorem`: `PolicySpec` implements `AtomicPolicy` under
  `asked <- Asked`: a get is the abstract `Ask`, a set is `TakeEffect` (by
  `FreshBase`, modifying what was read is modifying what is there), a conflict
  or a lost call is `Drop`.

One lemma per action (`GetPolicyInv`, `SetPolicyInv`, ...) keeps the
invariant.  The assumptions are `ForeignAssumption` and `BoundsAssumption`.

`IamInfraProofs` proves for every set of runs, infra IDs, definitions,
subjects and grants, and any number of failures:

* `TypeCorrect`, `PolicyRefinement`: types, and that the two
  commands, with retries, lost answers and interruptions, still implement
  `AtomicPolicy`: `PolicyInv` is carried over action by action.
* `CreateDeliversTheorem`, `DestroyDeliversTheorem`, `ReverseOrderTheorem`.
  The inductive invariant is
  `IInv == TypeOK /\ PolicyInv /\ Sides /\ CallsFit /\ Away /\ Ready`.  `Away`:
  beside an undisturbed run, nobody is at work on its infra ID with the
  opposite command; so what is there only grows beside a create and only
  shrinks beside a destroy (`Grows`, `Shrinks`).  `Ready` follows each run: of
  what its position says is behind it, pool, provider, and for each definition
  before the current one account, grants and bindings are there
  (`CreateReady`), or are gone, or were given up and logged (`DestroyReady`).
  For the grants this needs `PolicyInv`, and `CallsFit`: a run at a set holds
  the request of the account it stands at, any other holds none.

`PolicyInv` is what connects the two levels: a set that passes wrote what it
meant to the bindings that are there, so it takes nothing from another run.
The assumptions are `DefinitionsAssumption` (there is a definition, each has
roles and a subject, as in `iam-bindings.json`), `RunsAssumption` and those of
`ProjectPolicy`.

`NetworkInfraProofs` proves for every set of runs, versions, initial states
and any number of failures:

* `TypeCorrect`: the type invariant; a run never leaves the positions of its
  own command.
* `NothingLeft`: `Spec => []NetworkGone`.  The inductive invariant `GoneInv`
  adds three facts.  `References`: what a resource refers to is there, which
  every insert and delete respects.  `CreatesAway`: beside a destroy that
  counts as undisturbed no create works.  `NetworkAway`: such a destroy passes
  the network only when the network goes.  Then, when the network is gone,
  nothing can be left that refers to it, the NAT and a rule put back by the
  operator included.  `GoneInv` was checked with TLC before it was proved.
* `NetworkComplete`: `Spec => []NetworkDelivers`.  `DestroysAway` is
  `CreatesAway` from the other side; `MadeStays` adds that no deletion is then
  under way, and that all of what a create has behind it is there (`Made`, by
  its position).  A step that makes nothing go (`Lasts`) keeps this for every
  other create, and the deletion of the cluster, whose operator takes the rule
  along, ends it.

The assumptions are the ones named in `NetworkInfra`: creates and destroys are
different runs, the initial states are states of the resources, the bound on
failures is a number.

`OpsWorkflowProofs` proves for every set of commands, grants and command
lines, and any number of callbacks:

* `TypeCorrect`, from `TypeInv`, which adds to the types which kinds of
  command reach which step (`Fits`) and what they are about (`Sorted`).
  Without it nothing says that a command that polls has got something to poll.
* `NothingPassesTheGate`: `Spec => []GateHeld`.  `Ordered` adds that a command
  has read no labels before the gate, that it holds its grant where it starts
  the workflow, and that it leaves for an end from there, so no later step
  changes `via` or the execution.  `GrantLife` (a grant takes the service's
  steps only, whoever moves it) gives that a grant once active never becomes
  one that was not.
* `ReportedVerdictsStand`: `Spec => []VerdictsStand`, from `GrantLife`, as the
  verdicts are states, or sets of states, that nothing leaves.
* `ResumedOnce`: `Spec => []ResumesTakeEffectOnce`.  `CallbackInv` adds that
  pending callbacks and the one a command found were made by its execution;
  `CallbackLife` that one that is gone does not come back.
* `WaitsSettled`: `Spec => []WaitsSettle`.  `WaitsSettle` is not inductive: it
  says nothing of a command before its end.  `Settled` adds that what a command
  polls was created, that one that runs a workflow is about its own execution
  and that `wf status` looks only without `--wait`; `Progresses`, that an
  execution that is over and a grant that is decided stay so, keeps what was
  true when a command ended.

The assumptions are the ones named in `OpsWorkflow`: commands and grants have
different names, the command lines and the bound are of their types.

`PlatformProofs` proves for every set of invocations, command lines, catalogs
and bounds:

* `TypeCorrect`: the type invariant with `Placed`, which says that a command
  is only at places its command line leads to.
* `VerdictsHold`: `Spec => []VerdictsTrue`.  `Exchange` says where a command's
  request is (on its way, answered or given up) and what each answer tells of
  it; `VerdictTrue`, that a definite failure is read only out of an answer
  that rules out the effect, with no request left on its way.
* `ClusterStaysBacked`: `Spec => []ClusterBacked`.  `Backed` and `Made` follow
  the resources of a `cluster create` from the set-up to the record the server
  made of it; cleaning up is open to it only after a verdict that rules that
  record out.
* `NothingReverts`: the action property.  `FreshBase` (what a client holds
  under the current version of an object is that object) and `Dated` (no
  version is ahead of the server's) are to a put what the invariant of
  `ProjectPolicy` is to a set.
* `ListingsComplete`: `Spec => []ListComplete`.  `Collected` says that a
  listing has the pages before its token, in order, and no other.

The assumptions are `CommandsAssumption`, `LinesAssumption` and
`ListAssumption`: names are distinct, command lines and catalogs are of their
types.

`TokenSourceProofs` proves for every set of callers and every lifetime, margin
and deadline:

* `TypeCorrect`, `TokensLive`: `Spec => []NeverStale`, `PairsWhole`:
  `Spec => []PairWhole`, and `OneFetchTheorem`: one caller refreshes at a
  time, and only while no fresh token is cached.  The invariant `Inv` adds that whoever refreshes holds
  the mutex (`Locked`) and is within its deadline (`InTime`), and what it has
  in hand (`InHand`), what is cached (`CacheGood`) and what was returned
  (`AnswersGood`) ends no earlier than the margin before the expiry it is given.

The assumptions are `TimeAssumption`, whose last conjunct (a refresh ends
within the margin) is what the guess about gcloud's tokens rests on, and
`CallersAssumption`.

`CompanionProofs` proves for every number of questions, calls, retries,
denials and sessions:

* `TypeCorrect`, from an invariant that says when a session is over.
* `AnswersFollowTheorem`, `LogKeepsHistoryTheorem`, from `Conversation`.
  `Told` says what history, log and earlier files consist of: messages up to
  the last question asked, each once, replies of the agent that it finished,
  the log of this session's own.  `Talks` says where the program is in the
  conversation: a turn is about the last question, which ends history and log
  and has no reply in either.  Without that second half nothing keeps
  `ReturnReply` from answering a question that is not there, or twice.
* `ToolsConfirmedTheorem`, from `CallsClear`: nothing happens to a call after
  the agent may have heard of it, so a retry repeats what is so, and what runs
  is what was confirmed.
* `GrantsWarnedTheorem`, from `GrantsClear`: a grant is tracked before anybody
  can know that it was made.

The assumptions are `DenialsAssumption` (there is a limit of denials, and it
is not 0: `maxToolDenials` is 10) and `BoundsAssumption`.  `LogKeepsHistory` is
stated by positions and not by a selected subsequence, which the provers could
not reason about: what the session put in the history is in its log, and two
messages stand in the same order in both, which also says that each is there
once.

`ClientSideProofs` proves for every set of goroutines, closers, logins, URLs,
contexts and lengths, of the parts side by side as the run has them:

* `PartsTypeCorrect`: the type invariants.
* `OneManifestTheorem`, from `EndpointsInv`: who fetches holds the mutex, for a
  URL of which nothing is cached.
* `BodiesToldTheorem`, from `ResponseInv` and `RequestInv`.  `Counted`: what
  was read of the source is counted, or in the hand of the reader on its way to
  its section under the mutex.  `OneSpeaks`: once a body is done with there is
  one message, about to be logged by one of them, or logged.  `RequestInv`:
  the copy is closed by who found nobody closing it, before the worker is done.
* `NothingLostTheorem`, from `KeptInv`: as long as nothing was lost, one login
  at most has the file emptied, and what others put there is in the file, or
  it is in what that login is about to write, and it is in everything loaded.
* `LoneLoginTheorem`, from `AloneInv`: what a login that nobody disturbs has
  made of what it found, before and after its save.

Each part has its invariant, and a step of one leaves the variables of the
others (`EachPartSteps`).  The assumptions are `LookersAssumption`,
`ManifestsAssumption`, `LengthsAssumption` (there is a longest body) and those
of `TokenSource`.

Only model-checked: all liveness (`CreateConverges`, `RunsEnd`,
`WorkersConnected`, `DestroyConverges`, both `CommandsEnd`, `TurnsEnd`,
`CallsEnd`, `RequestsGoOn`, `BodyNamed`), which is out of the prover's reach.  Every invariant and every
action property of the passing runs is also a theorem.  That the three
findings are reachable is TLC's to show.

## 5. What is not modelled

* Text processing: redaction and layout of traced payloads, output formats,
  the texts of errors, the status derived from conditions.  No state.
* Queries that change nothing: the audit log, PagerDuty, versions, regions,
  single gets, listings without pages.
* The wiring of the command tree, the reading of the configuration file and of
  credential files.
* Of the cloud, only what the code relies on: the purge of soft-deleted names,
  quotas and other people's NATs on the command's router are left out.

The hazards without a property have their reasons in PROJECT.json.  Most are in
the model, but no line of the repository says what should be so: a wait for a
deletion that gives up (`networking/client.go:201`), IAM resources under an
infra ID that is not used again (`create.go:341`), the entries that overlapping
logins overwrite (`kubeconfig.go:57`), the context that a failed login sets
back over one chosen meanwhile (`login.go:102`), the gate that is skipped when
the labels cannot be read (`pam_gate.go:22`), a grant that ends between look
and start (`ensure.go:43`), a chat request that the agent receives twice
(`cloudrun/client.go:280`), two questions in a row (`companion.go:236`), a log
that has more than the history (`session.go:211`), and a log that ends in a
partial line (`session.go:207`, a place that is never left).  The NAT patch
without a fingerprint is left out: nobody else is said to use the router.

Next, if the project goes on: abstract specifications for the parts that have
none (the cache of manifests and the token as one step each, a session's log as
a list of exchanges), with the refinements proved; the safety halves of the
liveness properties (that a command which has not ended has a step it can
take, that a holder of a mutex is always at a step that lets it go).
