# TLA+ verification of qs-ai

qs-ai interprets assessment results for participants with the help of language
models, and evaluates the prompts and models it does this with before they are
published. It is a Python service on MySQL with a transactional messaging SDK;
several server, worker and consumer processes share one database, so almost
everything that can go wrong goes wrong *between* two transactions. This
project models those transactions and the processes that run between them,
checks them with TLC on small instances and proves the most important
invariants with TLAPS for every instance.

Paths below are relative to `src/src/qs_ai/`; `m/` stands for
`infrastructure/persistence/mysql/`, `w/` for
`infrastructure/workflow_transport/` and `deploy/` for `src/deploy/serverA/`.

## 1. The system

| Part | State it keeps | Operations | Modelled in |
|---|---|---|---|
| Interpretation Sessions and Runs (`domain/interpretation`, `m/interpretation.py`) | Session (status, version, active Run, failure), Run, state outbox | start, cancel, retry, run, complete, block | GenerationExecution |
| Generation worker and execution store (`application/execution`, `m/execution.py`, `w/interpretation_*`) | job queue, fenced lease, model-call marker, Artifact | read source, claim, defer, finalize claim, hand off, dispatch marker, send, record, finish, exhaust | GenerationExecution |
| Participant capacity (`m/participant_capacity.py`) | reservation per Run: day and slot | reserve, acquire, release | ParticipantCapacity, GenerationExecution |
| Participant retries (`m/participant_retries.py`) | inherited request, accepted risk | retry a blocked Session | GenerationExecution |
| Command receiver (`w/transaction_receiver.py`, `w/transaction_admission.py`, `w/transaction_root.py`) | SDK execution, Inbox decision, archive, quarantine, attempts | lookup, plan, reserve, root, verify, fail, isolate, confirm | CommandReceiver |
| Candidate evaluation (`m/evaluation_*`, `w/candidate_*`) | progress document, coordinator version, slot claims and leases, dispatch ledger, response receipts, completions, transitions | plan, dispatch, invoke, save, complete, expire, recover, cancel, resolve | CandidateEvaluation |
| Human review (`domain/evaluation/review*.py`, `m/evaluation_review*.py`, `m/evaluation_reopening.py`, `w/review_state*.py`, `w/correction_state*.py`) | signatures, correction chains, archived rounds, gate record | sign, correct, finalize, reopen, discard | EvaluationReview |
| Serial evaluation (`m/evaluation_step.py`, `m/evaluation_scan.py`, `m/evaluation_recovery.py`, `w/serial_*`, `w/worker_dispatch_*`, `w/expired_recovery_*`) | one checkpoint, dispatch ledger, response receipts, completions, the SDK execution of each intent | reserve, dispatch, invoke, save, complete, retry, replan, expire, cancel, resolve | SerialEvaluation |
| Run creation and admission (`m/evaluation_runs.py`, `m/evaluation_admission.py`, `m/evaluation_capacity.py`, `m/quotas.py`, `w/creation_state*.py`, `w/resolution_state*.py`) | Run rows, capacity reservations, creation executions, quota versions, ceiling | create, start, resume after a resolution, change the quota, lower the ceiling | EvaluationAdmission, AdmissionLedger |
| Governance workspace (`m/solutions.py`, `m/solution_assets.py`, `m/prompt_drafts.py`, `m/prompt_freezes.py`, `m/semantic_drafts.py`, `w/solution_preparation_*.py`) | drafts and revisions, freezes, registered assets, solutions, receipts | create, edit, freeze, register, save, prepare directly or by the dispatcher | SolutionGovernance |
| Publications (`m/publications.py`, `m/publication_*.py`, `m/profile_lifecycle.py`) | publications, selector pointers, receipts, bindings of Sessions | publish, roll back, disable, resolve, bind | PublicationControl |
| Schema conversion and maintenance (`maintenance/schema_refactor`, `deploy/schema_maintenance.py`) | six schemas, two journals, stop clocks, `host.json`, backup files | plan, prepare, copy, verify, switch, fast rollback, cleanup; prepare, rehearse, switch and roll back the host | SchemaConversion, SchemaMaintenance |
| Release deployment (`deploy/deploy.py`, `deploy/schema_followup.py`, `deploy/runtime_handoff.py`, image retention) | `state.json`, verification files, follow-up pointer and intent, retention state, images | stage, deploy, restore, adopt, bootstrap, follow-up operations, reverse conversion, retain | ReleaseDeployment |
| Admission protection, native broker limit, process lifecycle, model-capacity tokens, QS decoding, generated contracts, later migrations, CI | see section 6 | | not modelled |

How the parts interact. QS sends *commands* over the broker; the command
receiver turns each into one durable decision and, in the same transaction,
changes a Session (start, cancel) and stages its state event in the outbox.
Accepted interpretations become *jobs* that generation workers claim under a
fenced lease; a claim takes a participant slot. Operators retry blocked
Sessions over gRPC. *Evaluation Runs* are a second pipeline: evaluation
consumers claim frozen slots of a Run, call the model, and store receipts and
completions; a scanner recovers expired claims; an operator cancels, resolves
unknown results and authorizes recoveries; reviewers then sign the closed
evidence. A finally approved Run may be *published* at a selector; a
participant's start resolves the most specific active publication and binds it.
The *governance workspace* produces what a Run evaluates: drafts are edited,
frozen and prepared into a Run. Below all of this, the *maintenance* programs
convert the live schema and the *deployment* programs exchange the releases
that run on it. All state transactions go through the same pattern: *plan* on a
snapshot without a lock, *reserve* an SDK execution, and *commit* in a root
transaction that locks the rows and compares them with the plan.

What is hard in it:

* **Interleaving.** Plans are made on snapshots; a second worker, a scanner, an
  operator or a duplicate delivery commits in between.
* **Crash.** A process may stop after any commit: after the marker that says
  "the provider may have been called", after the response was stored, after a
  commit whose reply was lost.
* **Leases.** A lease may lapse while its owner still runs; only a fence (or a
  claim number) tells the two apart.
* **Unknown results.** A call that timed out may have been executed; it must
  neither be repeated silently nor be taken for a failure.
* **Budgets.** Attempts, daily calls, active slots, active Runs, executions per
  slot, technical failures: counted by concurrent actors, under limits that
  operators change meanwhile.
* **Identities.** Operators choose command identities and send them again; a
  second answer must speak of the first change, and never of another request.
* **Non-transactional steps.** DDL commits by itself, a RENAME outlives its
  client, and a deployment is a row of files and containers: what a program
  finds when it is run again is any prefix of what it did.
* **History.** Rounds, corrections and transitions are validated from scratch
  whenever they are read; a legal sequence of operations must not produce a
  document that its own readers refuse.
* **Progress.** Everything a participant or operator started must end.

PROJECT.json lists 40 hazards with the source line at which each bites and the
properties that cover it.

## 2. The modules

Conventions: one action is one committed transaction or one step of a process
between transactions. The guard is what the code checks, including early
returns; the primed variables are what it writes, trailing saves and events
included. A commit whose reply the caller never receives is the commit
followed by a `Stop` of that process. Clauses of identities, hashes, prompts,
encryption and wording are left out: they are equalities between model values.
An operator `X_Flaw` standing before `X` is `X` with a plausible bug; nothing in
a specification uses it, and PROJECT.json (`mutants`) says which property TLC
finds violated when it replaces `X`.

### ParticipantCapacity and GenerationExecution

`ParticipantCapacity` holds the limit arithmetic (`Fits`, `Within`);
`GenerationExecution` extends it. Variables are the tables (`session`, `run`,
`job`, `lease`, `call`, `slot`, `retried`, `configured`, `artifacts`,
`outbox`), the outside world (`sent`: provider invocations, `today`) and each
worker's memory (`pc`, `source`, `claim`, `result`). A Run is `<<session, k>>`.

| Action | Code |
|---|---|
| `StartAccepted`, `StartRefused` | `start_external` with configuration binding and daily reservation; a refusal leaves a blocked Session |
| `Cancel` | cancel of the aggregate, cancellation of jobs and Runs, the fence moved on, the slot released |
| `Retry` | `m/participant_retries.py`: frozen request inherited, risk accepted for unknown results |
| `ReadSource`, `Claim`, `ClaimMissed`, `Exhaust` | claim source read without a lock, `claim_in` with the locked recheck |
| `SlotRefused`, `Defer` | the rolled-back claim and the deferral, a transaction of its own |
| `ClaimFinalization` | takeover of a lease whose response is already stored |
| `Handoff`, `Prepare`, `BeginNew`, `BeginExisting`, `BeginRefused` | reread of the claim, authorization and evidence, `begin_model_call` |
| `Send`, `Record`, `Validate`, `Finish`, `LoseClaim` | gateway call, `record_model_response`, artifact validation, `finish_in`, `LeaseLost` |
| `LeaseRunsOut`, `LeaseLapses`, `Stop`, `BecomeDue`, `NextDay` | time and faults |

The heartbeat that renews a lease is the absence of expiry: while the owner is
alive the lease only lapses as a counted fault. The one registered workflow
never returns a question, so `AWAITING_ANSWER` is unreachable and answering is
left out. The legacy `claim` method is not wired to any process.

### CandidateEvaluation

One Run in candidate mode. An execution is `<<slot, n>>`, the n-th row of the
slot's dispatch ledger. Variables: the audited document (`progress`,
`resolved`, `recovered`, `transitions`, `version`), the rows (`ledger`,
`claims`, `lease`, `receipt`, `evidence`), one logical `clock` for every stored
time, the workers (`pc`, `held`, `reply`), the expiry planned by the scanner
(`scan`) and `calls`, the provider invocations.

Workers `Plan` on a snapshot, `Dispatch` under the coordinator lock if the
version still holds (`DispatchConflict` otherwise), reread the claim
(`Handoff`), `Invoke`, receive a `Reply`, `Save` it as a receipt if claim and
lease still allow, and complete (`WorkerCompletes`, or `WorkerYields` when
recovery was first or the completion is refused). The scanner either completes
a stored response (`RecoverResponse`) or plans and applies an expiry
(`PlanExpiry`, `Expire`, `ExpiryConflict`). `CompletionTarget` is the status a
completion moves the Run to. The operator's actions are `Start`,
`RequestCancel`, `Cancel`, `AuthorizeReplacement`, `CancelUnknown` and
`RecoverContract`; `FinishCancellation` is the poll that drains.

### SerialEvaluation

One Run in serial mode (`serial_v1`, the default), which has one checkpoint and
one call at a time. Where CandidateEvaluation takes a transactional send as one
step, this module has its parts. An *intent* names an SDK execution: the
dispatch of a version, the completion of an invocation with its durable
response, the expiry of a version's checkpoint. A worker acquires the execution
of an intent (`Reserve`), and its root commits (`CommitDispatch`,
`CommitGeneration`, `CommitSemantic`, `CommitExpiry`) or is refused
(`RefuseRoot`); the SDK aborts an execution that stays prepared (`Abort`), also
one whose owner is only slow. Variables: the Run (`run`, `version`, `cp`,
`expired`), its rows (`ledger`, `receipt`, `evidence`), `exec`, the workers
(`pc`, `held`, `reply`) and `calls`.

A worker reserves the dispatch of the present version (`ReserveDispatch`, a
first one or a replan of an aborted one), calls (`Invoke`, `Reply`), stores the
response (`Save`, whatever the lease) and completes; every worker also scans
for an expired checkpoint (`Scan`) and recovers what it found: a stored response
is completed by a retry of the aborted plan or by a new one (`RecoverResponse`),
a missing one is planned or retried as unknown (`RecoverExpiry`). Reading,
planning and reserving are one action: a plan that is outrun before its
reservation ends like one that is outrun before its root. The operator cancels
(`RequestCancel`, `Cancel`), replaces or gives up an unknown call (`Replace`,
`CancelUnknown`); `FinishCancellation` drains. Left out: contract recovery and
preflight (in CandidateEvaluation), the expiry of a checkpoint that is only
prepared (preparation and dispatch commit in one root, so it is never seen),
and the plain preparation and completion of a process that runs without the
transaction services.

### RunCalls

What both ways of executing a Run promise about its calls, as an abstract
specification without versions, claims, leases, plans or workers. A call has a
slot and a kind (`of`), was made so many times (`made`), has an outcome
(`ended`) and may have been decided on by an operator (`granted`); the Run is
open, closing (a cancellation is requested), under review or canceled (`phase`).
`DispatchCall` needs an open Run and that every earlier call of the slot allows
another, `MakeCall` that the call was not made and its result is not known,
`EndCall` that it was made unless its result is unknown, `Grant` and `CancelRun`
that nothing is under way. A call may still be made when it was already written
off as unknown: its owner was only slow, and no lock can hold it back.

In `CandidateEvaluation` a call is a row `<<slot, n>>` of the ledger and a grant
is a resolution or a contract recovery; in `SerialEvaluation` a call is a
position of the ledger and a grant is a resolution. Both state `KeepsCalls ==
Book!CallsSpec` under these mappings (`Issued`, `Ended`, `RunPhase`).

### CommandReceiver

Commands are cancellations of one Session (the CHANGE route); a wire carries a
command and the same command may be sealed in several wires. A handler walks
through `Receive`, `Lookup`, `ReadInbox`, `Plan`, `Reserve`, `Commit` or
`RootRefused` or `RootFails` (reply lost), `Verify`, `Fail`; other processes
change the Session meanwhile (`OthersChange`). `ReceiveMisrouted` and
`ReceiveForged` end in quarantine or in an error. `PhysicalFailure` is the
broker's notice, `ReceiveAck` the confirmation of a published event. The SDK
(`Reserve`'s reservation, `ExpirePreparation`, `Publish`) and the broker are
external and modelled from how the receiver uses them.

### EvaluationReview

The review document `p` has status, signatures, correction chain, archived
rounds, gate record and transitions. `Review`, `Finalize`, `Reopen` and
`Discard` plan and commit in one action, because their root refuses any change
of the source and a plan that lost the race has no effect; a correction has a
durable command identity, so `PlanCorrection`, `ApplyCorrection` and
`AbandonCorrection` are separate. Every commit reads the document back with
the validating readers (`ReadView`: `ValidRounds`, `ValidCorrections`,
`VerifiedFinal`), as the roots do. Time moves with finalizations and the clock
of a request may lag by `Skew`. Of the frozen evidence the model keeps which
judgments a reviewer may contest, whether the other gate checks pass, and
whether MySQL's JSON rounds a stored metric.

### EvaluationAdmission and AdmissionLedger

The Runs of one organization from creation to admission. `row` is a Run with its
checkpoint version, `reserved` the budget day it was paid on, `exec` the
transaction execution of its creation, `quota` the quota versions, `ceiling` and
`day` the deployment and the clock. A creation goes directly (`Insert`, and
`Reread` after a duplicate key) or through an execution (`Lookup`,
`ReadReceipt`, `LookupAgain`, `Reserve`, `CreationRoot`, `AbortExecution`). A
start, or the resolution of the last unknown call, is made directly or frozen
first (`FreezeStart`, `FreezeResolution`) and admitted under the admission lock:
`LockAdmission`, `Check`, `Commit`, or `Leave`. `ApplyQuota` appends a version,
`LowerCeiling` is a later deployment, `Midnight` the UTC day. `Block`,
`Complete`, `Cancel`, `Drain` and `RecoverContract` are what the evaluation
modules do to a Run, reduced to whether it still counts as active.

`AdmissionLedger` is what an organization is promised, in three variables: the
Runs under way by an admission, the day each was paid on, the limits in force.
`EvaluationAdmission!KeepsLedger` is the refinement: `held` is the set of
admitted Runs, `paid` the reservations, `limit` the lower of quota and ceiling.

### SolutionGovernance

Prompt drafts, judge drafts, freezes, registrations and the solutions that own a
draft. A call reads the receipts (`Submit`), takes its locks and writes
(`Write`), or meets a duplicate key and reads again (`Reread`); its answer may
be lost (`Lost`) and the command be sent again. `Write` covers every operation
by its kind: creation, edit, freeze, registration, and the creation, saving and
preparation of a solution, which performs inner commands with identities derived
from its own. The dispatcher's way of preparing has its own steps:
`DispatchLookup`, `DispatchPlan`, `DispatchLookupAgain`, `DispatchReserve`,
`DispatchRoot`, `DispatchRollback`, and the SDK's `AbortExecution`.

### PublicationControl

Selectors with a pointer each, retained publications, receipts by command, Runs
with version and approval. A change is `Submit`, `LockRun`, `LockPointer`,
`Replay` or `Decide`, `Write` or `Reread`, or `Leave` with an error. Others
reopen and finalize Runs (`Reopen`, `Finalize`) and withdraw models
(`WithdrawModel`). A Session starts directly (`StartDirect`, `CommitDirect`) or
from a frozen plan (`FreezeStart`): the root locks the candidate pointers, plans
again and compares (`StartRoot`), and commits later, the locks still held
(`CommitRoot`). It reads its publication when it runs (`Execute`). That a root
also holds the pointers that do not exist yet rests on the gap locks that InnoDB
takes for a locking read under REPEATABLE READ. The models a plan is refused for
(`enabled`) are those of the host that plans, so `RootBindsCurrent` speaks of the
publication the pointers resolve to.

### SchemaConversion and SchemaMaintenance

`SchemaConversion` is the resumable command line program that converts the live
schema from the legacy to the module layout and back. A schema is its layout,
the number of writes its rows hold and its AUTO_INCREMENT counter. The copy may
arrive incomplete (`Projection`): only the comparison of manifests stands
between a lossy copy and the exchange. That a schema is *read* faithfully when
its manifest is computed is assumed. One action is
one statement or one replacement of the journal file; a command may `Stop`
between any two of them, and a RENAME whose client is gone may land later
(`OrphanLands`) or not (`OrphanEnds`). A clock (`windows`: `stop`, `rollback_stop`) tells
whether exchanges, then whether starts of a release, are still allowed. `Invoke`
reads journal and deadline together with taking the lock; the program reads them
just before (`__main__.py:241-254`), and what it then finds out of date is
refused by the checks that follow or done a second time without effect.

`SchemaMaintenance` extends it with the host program of the cut-over. `process`
is its process, `maint` its `host.json`, `serving` the release that runs. It stops the releases, takes and saves the
backup, runs the conversion commands and, after an error (`HostHandler`), decides
between recovering the old release, a fast rollback and keeping every writer
stopped. It may die anywhere (`HostStops`) and is run again; the command it was
waiting for goes on without it.

### ReleaseDeployment

Deployment after the cut-over. One command runs at a time, under both deployment
locks, and may fail at any container or die between two durable writes, those of
`operation-v2.json` and `host.json` at the start of an operation included
(`Begin`, `SaveIntent`). Actions
follow the programs: `deploy.py` (`StagePrepare`, `Deploy`, `RestorePrevious`,
`StopSource`, `StartTarget`, `RecordReady`, `RecordState`, `Recover`, which takes
a failed first release down again),
`runtime_handoff.py` (`HandoffPrepare`, `HandoffAdopt`, `HandoffState`; the
release it creates for the runtime it adopts has that runtime's image and is
identified with it),
`schema_followup.py` (`BootstrapBegin` ... `BootstrapReady`, `FollowupRelease`,
`Apply`, `Restore`, `Resume`, `Validate`, `RuntimeProof`, `Close`, the undo and
the rollback to the legacy release) and the image retention (`Retain`). The
reverse conversion is its journal's phase and the live head, its statements
being those of `SchemaConversion`.

## 3. Runs

| Run | Instance | Shows |
|---|---|---|
| `generation_session` | 1 Session, 3 Runs over 3 days, 2 workers, 2 requests, 2 attempts, 2 faults | at most one send per Run, one owner, stored responses recoverable, rows and outbox consistent, no blind retry, request inherited along the chain, daily budget |
| `generation_sharing` | 2 Sessions sharing a one-slot assessment, 2 workers, 1 fault, fair | slots held exactly while leased and within limits; every accepted interpretation ends |
| `candidate_recoveries` | 2 slots, 2 workers, both kinds of call with limit 2, every operator decision | repeats authorized, budgets, drained before settled, unknowns counted; the calls implement `RunCalls` |
| `candidate_progress` | 2 slots, 2 workers, one call at a time, 1 fault, fair | one call per dispatch, receipts decide, cancellation drains, the Run settles unless a recovery overtakes its last response |
| `serial_calls` | 1 slot, 2 workers, 2 generations and 1 judgement, every outcome and decision, 1 fault, fair | one call per dispatch, receipts decide, the SDK witness tells the truth, the calls implement `RunCalls`, every call gets its evidence |
| `command_decisions` | 2 commands with one key in 3 wires and a forged one, 2 handlers, 1 fault | decided once, truthfully, finally; only durable wires are acknowledged |
| `review_rounds` | 2 candidates (one contestable), 2 reviewers, 1 correction, 2 rounds, lagging clocks | approvals accountable, plans read back, corrections recorded once, signatures kept |
| `run_admission` | 2 Runs, one of them there already, 2 callers, limits 1 and 2, 3 calls, 2 days, 2 quota revisions | answers and executions tell the truth; the admissions implement `AdmissionLedger` |
| `solution_commands` | 1 solution, 1 draft, 1 judge draft, 3 command identities, 2 callers, 4 calls | answers are the original receipts, no edit is overwritten unseen, a preparation freezes what was saved |
| `publication_changes` | an exact and a global selector, 2 Runs, 3 commands, 2 callers, 3 calls, 2 reviews, 1 Session | pointers audited and moved onto approved Runs only, frozen starts bind what is current, accepted Sessions keep their publication |
| `schema_cutover` | one cut-over with rollbacks and cleanups, 3 writes, 2 faults | no write lost, releases run on their layout only, archives stay as recorded, the forward exchange is never repeated |
| `host_releases` | 4 releases, one of them on a later head, 2 images kept, 7 commands, 1 fault | no release on the other schema family, `state.json` accountable, operations closed as intended, no needed image removed |

**Why the bounds are enough.** Every interesting race is between two actors
over one row: two workers per Session or slot, two handlers or callers per
command, two reviewers (the least that may approve). Two attempts or rounds give
"again after the first"; three Runs give a retry of a retry, and one call per
user and day makes the budget refuse. Two slots give "one settles while the
other is in flight". Faults are bounded by `MaxFaults` (`MaxStops` in the cut-over); two let a worker stop and
its successor lapse, so that the third claim finds the job exhausted, and let a
host die and the command it left behind die too. In `serial_calls` one fault is a
stop or a hasty abort; leases run out and roots are refused without spending it.
In `candidate_progress` the two slots let a block of one be overtaken by a
recovery of the other; calls go one at a time (`Parallel` 1) and one fault may
happen, because liveness needs `ENABLED` of every action in every state. Calls
in parallel are the subject of `candidate_recoveries`.
In `command_decisions` one fault is fewer than the two failures that hold a
command, so its `HeldBudget` says nothing; the theorem covers every bound.
`MaxVersion` in `review_rounds` bounds the number of operations; with 8 the
second finalization is the last one, so there is one reopening, and
`PlansCommit` is about that first reopening and about metrics that need no
rounding (section 5 has the other cases). In the governance runs `MaxCalls` exceeds the number of
callers, so that an identity can be sent again after a race.
Seven commands let a release be deployed, adopted into a follow-up context,
changed, restored and rolled back. Symmetry is used for workers, requests,
handlers, callers, commands and reviewers only, and not in the fair runs.
Deadlock is not checked: a settled Session, Run, review, cut-over or bounded
number of calls may stay as it is.

**Fairness.** `generation_sharing`: workers take their next step (`run_loop`
restarts after any error), leases that nobody renews run out, delayed jobs
become due (weak fairness); a job that is claimable again and again is scanned
at last (strong fairness per Run: one scan orders candidates by due time and
tries each). `candidate_progress`: consumers, preflight, recovery scanner and
the drain poll run in loops, an unattended lease runs out; nothing is assumed
of the operator, so liveness ends at a block that needs a decision.
`serial_calls`: consumers poll in a loop, the lease runs out by the clock, a
model call returns or times out, and the SDK aborts a prepared execution that
no live worker owns; again nothing of the operator.
The other runs assume no fairness: their properties are of safety.

## 4. Proofs

Eight modules prove, for every value of the constants, every safety property
that the runs check: 37 theorems about the specifications of ten components,
beside those that only say that an inductive invariant holds.
What is left to TLC is liveness. The assumptions on the constants are the
`ASSUME`s of the component modules, which TLC evaluates in their runs. They ask no more than that bounds are natural numbers, that the sets
whose rows are counted are finite, that identities of different kinds differ,
and that `None` is none of the values it stands beside. Two modules prove two
components each (`EvaluationRunProofs`, `DeploymentProofs`); the specifications
in one module share no name, so a theorem is about exactly one of them.

Each proof follows one layout: the inductive invariant as a conjunction of
named parts (all of them were checked with TLC first, as invariants of the
component's run); lemmas about the helpers and about the kinds of step ("a step
that moves one Run only", "a commit of this call"); one lemma per action or
group of actions; the temporal step by PTL.

### The execution core

`GenerationExecutionProofs`, for any finite set of Sessions, any workers, limits
and number of faults.

* `TypeCorrect` - `Spec => []TypeOK`, with `TypeInv = TypeOK /\ SessionShape /\
  WorkerShape`. `TypeOK` alone is not inductive: a Session that exists must have
  an active Run, and what `Record` and `Finish` write comes from a worker's
  memory, so a busy worker must hold a Run of the table and an outcome that can
  be recorded. In particular a job is never executed more than `AttemptLimit`
  times.
* `SentAtMostOnce` - `Spec => []SingleSend`. `SendInv` relates the marker to the
  workers: a Run without a marker was never sent; a worker about to send has its
  Run's marker behind it, nothing was sent for that Run, and no other worker is
  about to send for it. Crashes, takeovers and lapses do not disturb this,
  because only a missing marker leads to "send".
* `OneOwner` - `Spec => []SingleOwner`. `FenceInv`: no executing claim's fence
  exceeds the fence of its Session, two executing claims of one Session have
  different fences, and a worker that executes nothing has none; every
  `TakeLease`, `Exhaust` and `Cancel` moves the fence on.
* `TablesTellOneStory` - `Spec => []TablesAgree`. `TableInv` says of each
  Session where its active Run, job, slot, call and Artifact are for each status
  (`Now`), that earlier Runs were blocked and later ones do not exist (`Story`),
  that no event of the outbox is newer than the Session and no version has two
  (`Events`), that a call was begun under a fence its Session handed out, and
  that an Artifact belongs to the active Run of a completed Session. The job's
  fence is the bridge: a worker whose claim still carries the Session's fence
  acts on the active Run of a running Session.
* `RetriesAreSafe` - `Spec => []RetriesSafe`. `RetryInv`: an earlier Run with
  an unknown result was followed only by a retry that accepted the risk; every
  Run after a dispatched one carries its request (for all later Runs, not only
  the next, or the step over a Run that never dispatched would be lost); what is
  dispatched is what was carried.
* `SettledOnce` - `Spec => CallSettledOnce`, an action property: `SentInv` (a
  worker about to record has sent) and the compare-and-set of
  `record_model_response`.
* `SlotsAreHeld`, `BudgetKept` - `Spec => []SlotsHeld`, `Spec => []DailyBudget`.
  `CapacityInv`: the limits hold of the rows counted for the active slots and
  for each day. Steps that add no row keep it by monotonicity of `Cardinality`;
  a row that is added was counted with the others under the lock.

### The command receiver

`CommandReceiverProofs`. `ReceiverInv` has `Books` (execution, Inbox row,
archive and failure ledger of a command belong together), `Planned` (what may be
reserved decides something), `EffectsOnce` and `ReceiptsOnce` (the key's
first receipt, the changes and the Inbox rows tell of the same changes, and of
each change exactly one row carries the event), `AcksDurable` and
`DeliveredStored`. `KeysApplyOnce`, `RecordsAreTrue` and `AcksAreDurable` are
`AppliedOnce`, `RecordsTrue` and `AckedIsDurable` as invariants;
`DecisionsAreFinal` is the action property `DecisionsFinal`. The step that needs
the most is the root: two handlers with plans of two commands of one key may
both reach it, and the second finds the first receipt.

### Run admission and its ledger

`EvaluationAdmissionProofs`. `LedgerKept` is the refinement: `Spec =>
KeepsLedger`, every step of creation and admission is a step of
`AdmissionLedger` or a stutter, with the admitted Runs as `held`, the
reservations as `paid` and the effective quota as `limit`. It needs
`LedgerInv`: admitted Runs are active ones (so the code's count sees all of
them), the admission lock has one holder, and what was checked under the lock
still stands when it commits. `RequestsAreFaithful` is `Spec =>
[]RequestsFaithful`; `FaithInv` says more of a refused quota request than that
it was not made: it *cannot be made any more* (its identity is taken, its
revision is past or its values are above the ceiling), or a refusal could be
overtaken.

### Publications

`PublicationControlProofs`: `CatalogIsTrue` and `AcceptedIsKept` as invariants,
`MovesOntoApproved` and `RootsBindCurrent` as action properties. `Inv` has
`EvidenceInv` (what a call established about its Run stays true while it holds
the Run's row, and a call that met a duplicate finds the accepted change),
`TablesInv` (a publication has its receipt and its profile's selector, a
pointer is empty or at a publication of its own selector, and the audit chain of
each selector counts exactly its pointer moves), `PlansInv` (a Session's plan
names a publication that is kept) and `RootsInv` (while a root holds the pointers
no change is past its own pointer lock, and the plan of the root is what the
pointers resolve to). That the audit chain has no gap and no fork
is a statement about the cardinality of a growing set of changes.

### The governance workspace

`SolutionGovernanceProofs`: `EditsAreSeen` (`NoLostEdit`), `CommandsAreFaithful`
(`CommandsFaithful`) and `PreparedStays` (`PreparedAsSaved`). `Inv` adds to the
properties what each call has established at its step (`CallsInv`), that an
execution is in one root at most (`RootOnce`) and its target is its source,
prepared (`TxInv`), that receipts of inner commands come with the receipt of
their command (`InnerInv`: a fresh command finds no inner receipt in its way),
and, per solution, that its draft is for its own version and the revision it
saved last is its own (`SolutionsInv`). The last is why an edit made outside the
workspace blocks the preparation and cannot slip into it.

### Candidate evaluation

`CandidateEvaluationProofs`, for any number of slots, any workers, limits,
degree of parallelism and faults. `ExecutionsAreSound` and
`RepeatsAreAuthorized` are `ExecutionsSound` and `RepeatsAuthorized` as
invariants, `StatusIsTrue` is `SettledOnEvidence`, the audit of the Run's
history included, and `CallsAreKept` is the refinement `Spec => KeepsCalls`.

`DataInv` is about the tables: a dispatched row without evidence is its slot's
claim and a claimed row has no evidence (`RowsInv`), every row but a slot's last
allows its successor and the budgets hold (`AuthorizedInv`), decisions are about
evidence of their kind (`DecisionsInv`), a settled Run and one before its
preflight own no claim (`StatusInv`), the unknown counter is the number of
unknowns not decided, and a Run under review has a candidate in every slot.
`WorldInv` is about what workers and scanner carry between transactions. Its
heart is `PlanStands`: a plan *of the present version* is still what the planner
would plan. Every commit of the Run makes a new version, so a plan that a
sibling, an expiry or a cancellation made stale fails the source check, and
nothing need be said about it. Two workers never have the same execution
(`Alone`), and one that has not called yet has an execution nobody called: that
is why a call is made once. `LengthBound` (a ledger within both budgets is no
longer than both together) keeps executions inside the table they are numbered
by.

`History` is about the transitions of the Run, for the audit that the gates make
of them (`HistoryAudited`). `TimesInv` orders clock readings: nothing is claimed
at a transition, so whatever can still complete a claimed call was read after
the last one. `Chain` says which transition may follow which and that a
resumption names the block before it; `References` that every block for an
unknown result and every resumption has an execution of its own, decided before
the Run went on; `Present` that the last transition is about the present state.
The audit also counts the calls of the whole Run. That is a sum over slots, and
would be an induction over data; `Total` is therefore the cardinality of the set
of executions of a kind, and `TotalBound` maps each of them to its slot and its
ordinal there, one to one, so that the bound is a cardinality of a product.

For the refinement of `RunCalls` two things are needed beyond `Inv`. What is
answered - in a worker's memory or as a receipt - was invoked (`AnsweredInv`),
or a call could end that was never made. And the kind of a call follows from its
slot's earlier calls (`KindsInv`): RunCalls asks whether the slot *has* a
candidate, the code looks at the last row only, and the two agree because a
candidate is followed by judgements alone and an accepted judgement by nothing.
A completion is the step with most behind it: that it goes to review only when
all slots are judged and nothing is left open is `BookInv` of the state it leads
to.

### Serial evaluation

`EvaluationRunProofs`, first part, for any number of slots, workers, limits and
faults: `ExecutionsAlwaysSound` (`ExecutionsSound`), `WitnessAlwaysTrue`
(`WitnessTrue`) and the refinement `CallsAlwaysKept` (`Spec => KeepsCalls`).
`OneAtATime` is the shape of a serial Run: the checkpoint is
the last dispatch and has no evidence, and every dispatch before the last has
evidence that allowed the next. `WorkersHold` gives a dispatched call to one
worker that may still send it. `WitnessInv` relates executions of the SDK to
rows: a dispatch is committed with its row, and a call with evidence has exactly
one committed settlement among the three intents that could have settled it. An
expiry carries no call, only the version it was planned at; that it cannot be
taken for the settlement of another call needs the distance between dispatches
(`VersionsGrow`: three versions apart at least), and that the versions stay
inside the numbered ones needs what each step of a call costs (`Spent`).
For the refinement, `CallStory` adds what candidate evaluation also needs: what
was answered was invoked (`Answered`), and a slot's calls are judgements from
its candidate on and end with the accepted one (`SlotStory`). That the planner
takes the first slot with something to do is what shows that every slot is
judged when it finds none.

### The human review

`EvaluationRunProofs`, second part, for any finite set of candidates, any
reviewers, commands, limits on corrections and rounds, and any clock skew:
`ApprovalsAccountable`, `PlansAlwaysCommit`, `DocumentAlwaysSound` and
`SignaturesAreKept` (an action property).

Every root reads its document back, so most of the invariant is what the reader
saw: `LoadedInv` (a document with rounds or corrections was loaded at some
version and time, for a final status as the state before it) and `FinalInv` (a
final status is verified at the present version, and every candidate is signed
in both roles). The rest is what no reader looks at. `OwnedInv`: a correction is
by the signer of an original, or a later signature could collide with what
stands. `RoundTimesInv`: rounds are ordered in time and a signature of a
candidate is younger than *every* reopening that asked for it. The readers
compare with the last round only; the step that needs the argument is a
signature for a candidate the last round did not reopen: both its roles are
retained from that round, so the batch would repeat a key and is refused.
`ReceiptInv`: an execution is committed exactly when its command occurs once,
and a reopening moves the occurrence into the archive.

`PlansAlwaysCommit` needs, for each operation, that the written document passes
the readers (`BatchReadsBack`, `CorrectionReadsBack`, `FinalReadsBack`,
`ReopeningReadsBack`): in particular that adding signatures keeps the links of
correction chains made before them. `CorrectionsBounded` shows that the audit
bound of 210 corrections (`effective_reviews`) follows from three corrections
per signature: a correction is told apart by its candidate, its role and its
rank in the chain.

### Release deployment

`DeploymentProofs`, first part, for any set of releases, number of images kept,
commands and faults: `FamilyAlwaysServed` (`FamilyServed`),
`StateAlwaysAccountable` (`StateAccountable`) and the action property
`OperationsCloseAsIntended` (`ClosedAsIntended`). The assumption on the
constants is that no release is named as the legacy one or as none, and that the
release of the cut-over and the executor expect head 40. `Safe` says of every
step of every command what the guards before it established and nothing since
could undo: a plain deployment has no context bound and no operation pending
(`PlainInv`), an operation *is* the pending intent and, once it validates,
pointer, `state.json` and head all name the release it closes on
(`OperationInv`), a follow-up stays at head 40 with both its releases
(`FollowInv`), and only a rollback goes below (`RollbackInv`).

### Schema conversion and the cut-over

`DeploymentProofs`, second part, for any number of writes and stops:
`DataIsKept` (`DataKept`), `LayoutAlwaysServed` (`LayoutServed`) and the action
property `ForwardHappensOnce` (`ForwardOnce`). `ConvInv` is about the
conversion: what a journal's phase promises about the schemas it retains
(`JournalInv`), that a pending rollback still has the tables it goes back to
(`PendingInv`), that a command's memory is its journal and a RENAME about to be
sent has what it exchanges (`CommandInv`), also when its client is gone
(`OrphanInv`). `WorldInv` adds the host. Its heart is `QuietInv`: no release
runs or is about to be started while a command relies on the live tables or an
exchange without a client may still land; a host that was told "ok", or that is
about to start a release, finds the conversion quiet. `JourneyInv` and
`FlightInv` say which journal may be worked on before and after the new release
has been started, which is why the forward exchange is never repeated.

### Only model-checked

Liveness under fairness (`EveryRunEnds` of the execution core,
`EverythingSettles` of candidate evaluation, `CallsSettle` of serial
evaluation): `ENABLED` and fairness are outside the prover's reach.

## 5. Observed while modelling

Each of these is behaviour of the model that follows the code; the properties
are stated so that they hold with it. None of them has a run of its own.

Evaluation:

* Two concurrent calls that end unknown leave one block transition and one
  recovery transition, but the audit (`domain/evaluation/closure.py:163-165`)
  requires a reference for each; the gates of such a Run cannot be loaded
  (`m/evaluation_resolution.py:86`).
* The completion of the last call in flight is refused when the blocking
  evidence is older than a recovery (`m/evaluation_candidate_completion.py:203`):
  a durable response stays uncommitted and the Run collecting until a
  cancellation is requested. `RunSettles` names this case (`Overtaken`), and
  `candidate_progress` reaches it: slot 1 exhausts its judgements while slot 2
  still has calls to make, a call of slot 2 ends unknown and blocks the Run, its
  replacement is authorized, and the response to the replacement is the last one.
* In candidate mode the closing transition takes the finish time of the call
  that is completed last (`m/evaluation_candidate_completion.py:205`). If
  another slot's call finished later and was recorded earlier, every later gate
  computation refuses the inventory (`domain/evaluation/closure.py:150-154`) and the Run cannot be
  finalized. `ClosedInventory` is therefore asserted for Runs whose evidence was
  recorded in order.
* Two unknown calls at the budget limit under a requested cancellation cannot
  be decided: each decision would cancel the Run with the other undecided
  (`m/evaluation_resolution.py:74`).
* A signature kept from round 1 and corrected in round 2 is archived in its
  effective form, which the history check refuses
  (`domain/evaluation/reopening.py`): a second reopening is offered and cannot
  succeed.
* A Run with a metric that MySQL's JSON rounds can be finalized but not
  reopened: `validate_rounds` compares without the rounding of
  `mysql_json_record_matches` (`m/evaluation_review_history.py:110`).
* Contract recovery (`m/evaluation_contract_recovery.py:133`) and the request to
  cancel a blocked Run with unknown calls (`m/evaluation_cancellation.py`,
  `m/evaluation_capacity.py:52-61`) make a Run active without an admission, so
  active Runs may exceed `max_active_runs`. `AdmissionLedger` therefore counts
  admitted Runs only.
* An aborted or pending transactional creation makes its Run id unusable through
  transactions for good; a direct creation still succeeds.

Commands:

* A duplicate delivery that looks its request up before, and reads the Inbox
  after, the commit of the first is isolated as an identity conflict
  (`w/transaction_receiver.py:205`). The evaluation requests close this race
  with a second lookup.
* A command whose reservation was aborted is never decided by the receiver
  (`w/transaction_receiver.py:227`).
* The isolation code `transaction_route_mismatch` is not among the quarantine
  codes (`m/messaging.py:282`): a misrouted wire is neither isolated nor
  acknowledged.

Governance:

* A solution whose linked draft was frozen or edited directly can never be saved
  or prepared again.
* A preparation whose host died after the dispatcher's reservation stays pending
  for that command.
* The branch of `MySQLPublications.apply` that finds its own request after a
  duplicate key is unreachable: the row locks come first.

Maintenance and deployment:

* A command that dies after writing `operation-v2.json` and before `host.json`
  (`schema_followup.py:849`, `852`) strands the host if an earlier operation was
  closed: `host.json` keeps the earlier operation, so the pending
  operation blocks every other command and its own repetition is refused with
  "The original operation clock or identity changed"
  (`schema_followup.py:830-835`), although
  `docs/04-接口与运维/09-模块数据表与双向迁移.md:226` says that repeating a command
  goes on with the original clock. `StrandedUntouched` shows that nothing was
  touched: the release the operation started from is still the current one.
* A pending `runtime_restore` whose runtimes were stopped cannot be retried, and
  no command closes an unresolved operation past its window.
* A release whose `verification.json` became ready before `state.json` was
  written can never be applied again.
* The bootstrap of a follow-up context does not check that the current release
  is the one that runs.

## 6. What the models leave out

* *Admission protection* (a clocked latch over metrics): its effect on a root is
  a refused admission, handled as any other error. *Native broker limit*: one
  insert per delivery, read by operators. *Process lifecycle*: to the others, the
  end of a process is the models' `Stop`, its loops are their fairness.
  *Model-capacity tokens*: an in-process semaphore that delays a send only.
* gRPC/HTTP mapping and authentication, QS decoding, generated contracts, the
  DDL of later heads, build and CI scripts: no state of their own.
* Changes of the participant limits at run time (in `EvaluationAdmission` limits
  change); more than one organization (the admission lock serialises each of
  them separately).
* The contents of prompts, requests, outputs, scores and thresholds; encryption
  and canonical encodings; wording of errors and logs; the clocks of
  publications.
* Heartbeats as separate steps (their effect is the absence of expiry).
* The checks that only raise before anything is written: the precheck of a
  conversion (`conversion.py:242-283`) and the inspection of the rehearsal's
  backup before writers are stopped (`schema_maintenance.py:1042-1056`). Files
  that a step has written do not change under it.
* Imports of schema, route and policy assets (single inserts); the reverse mode
  of the rollback command, which no host program asks for; the follow-up's
  cleanup, status and retirement commands.

## 7. Properties by component

A property that is the conjunction of several named ones lists them in brackets.

* *GenerationExecution*: `SingleSend`, `SingleOwner`, `TablesAgree` (`TypeOK`,
  `RowsAgree`, `ArtifactFromResponse`, `ResponseRecoverable`), `RetriesSafe`
  (`NoBlindRetry`, `RequestInherited`), `DailyBudget`, `CallSettledOnce`,
  `SlotsHeld`, `EveryRunEnds`.
* *CandidateEvaluation*: `ExecutionsSound` (`TypeOK`, `CalledOnce`,
  `ResponseDecides`), `RepeatsAuthorized`, `SettledOnEvidence` (`Drained`,
  `UnknownsCounted`, `EvidenceComplete`, `HistoryAudited`),
  `KeepsCalls`, `EverythingSettles` (`CancellationDrains`,
  `RunSettles`).
* *SerialEvaluation*: `ExecutionsSound` (`TypeOK`, `CalledOnce`,
  `ReceiptDecides`), `WitnessTrue`, `KeepsCalls`, `CallsSettle`.
* *CommandReceiver*: `AppliedOnce`, `RecordsTrue` (`TypeOK`, `ReceiptTrue`,
  `HeldBudget`, `DeliveredStored`), `AckedIsDurable`, `DecisionsFinal`.
* *EvaluationReview*: `ApprovedAccountably`, `PlansCommit`, `DocumentSound`
  (with `WitnessedOnce`), `SignaturesKept`.
* *EvaluationAdmission*: `RequestsFaithful` (`AnsweredTruly`,
  `CreationWitnessed`), `KeepsLedger`.
* *SolutionGovernance*: `CommandsFaithful` (`AnswersFaithful`, `WitnessProves`),
  `NoLostEdit`, `PreparedAsSaved`.
* *PublicationControl*: `CatalogTrue` (`PointerAudited`, `LifecycleAgrees`,
  `ToldTheTruth`), `AcceptedKeeps`, `MovedOntoApproved`, `RootBindsCurrent`.
* *SchemaConversion*, *SchemaMaintenance*: `DataKept` (`NoWriteLost`,
  `ArchivesKept`), `LayoutServed`, `ForwardOnce`.
* *ReleaseDeployment*: `FamilyServed`, `StateAccountable` (`Accountable`,
  `ImagesKept`, `StrandedUntouched`), `ClosedAsIntended`.

## 8. Plan

Done, in this order: the execution core with its capacity, retries and proofs;
candidate evaluation; the command receiver; the human review; serial
evaluation; schema conversion and the cut-over; release deployment; solution
governance; publications; Run creation and admission with its abstract ledger;
the abstract calls of an evaluation Run.

Proved: every safety property that a run checks, among them the refinements of
`AdmissionLedger` by Run admission and of `RunCalls` by both kinds of
evaluation.

Next:

1. An abstract specification of an interpretation request (accepted, then
   settled exactly once) that `GenerationExecution` implements.
2. *AdmissionProtection* (`bootstrap/transaction_protection.py`,
   `transaction_observation.py`) and *RuntimeLifecycle*
   (`bootstrap/lifecycle.py`, `daemon.py`).
