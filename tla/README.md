# OpsCheck Flow: verification development

TLA+ modules of OpsCheck Flow, the TLC configurations that check them on small
instances and TLAPS proofs of what matters most for every instance. The source
is `src/opscheck/`; line numbers below are lines of its files.

OpsCheck Flow checks an orders file against rules, compares two exports, lets a
verifier recompute both results, drafts a briefing and waits for a human to
approve it. Everything durable is in one SQLite database, shared by processes
that may die at any moment and are kept apart by operating-system file locks.

## 1. Inventory

| Component | State it keeps | Operations | Talks to |
|---|---|---|---|
| Workflow engine, `workflow.py` | `runs`, `tasks`, `events`; task futures and outputs in memory | `run_workflow`, `_run_tasks`, `_verify`, `_publish_result`, `inspect_run`, `list_runs` | pool of two threads; `approvals.advance`; `event_store.synchronize` |
| Human approvals, `approvals.py`, `revision.py` | `approvals`, the gate and revision rows of `tasks`, event `revision_limit_reached` | `decide`, `resume_run`, `advance` | the run's OS lock; the engine |
| Event store, `event_store.py` | `ingestion_events`, `external_event_ids`, log | `synchronize`, `get`, `log` | reads `runs`; ends in `queue_store.synchronize` |
| Ingestion, `ingestion.py`, `manifests.py` | event rows, reservations | `receive`, `ingest`, `retry_event`, `scan`, `inspect_event`, `list_events` | the event's OS lock; `run_workflow` or `resume_run` |
| Delivery queue, `queue.py`, `queue_store.py` | `queue_jobs`, `queue_attempts`, log | `enqueue`, `claim`, `heartbeat`, `finish`, `replay`, `inspect_job`, `list_jobs`, `scan` | reads `runs`; reserves through ingestion |
| Worker, `worker.py` | a job in hand, heartbeat thread, flags `stop` and `lost` | `run`, `process`, `Heartbeat` | queue, `ingestion._process`, `_publish_result` |
| Engines, `core.py` | the csv library's field limit while parsing | `load_csv`, `validate`, `compare`, `load_rules` | called by tasks and by the verifier |
| Model-backed briefing, `agents.py` | none across attempts | `build_evidence`, `run_agent_team`, HTTP adapter | called by `briefing_agent` |
| Artifacts, `artifacts.py` | report files, temporary files | `write_workflow_reports` | called by `_publish_result` |
| Report, `report.py`; command line, `cli.py`; scripts | none | rendering; one command per operation above | all |

How they interact: a **manifest** becomes an **event**; the event reserves one
**run**; a **job** delivers the event to a worker; whoever holds the event's
lock claims the event and executes the run under the run's lock; a human
decision moves the run on under the same lock; what was committed is published
as reports. The status of events and jobs is *derived*: every command first
synchronizes them with the run, the only authority.

What is hard, and what makes each part correct:

- **Queue.** Leases expire, tokens go stale, workers are slow, commands
  reconcile in any order. Correct: at most one holder, never settled by
  another and never revived; budgets charged, refunded and bounded; where the run
  has come to a rest, that decides its job; history is never rewritten; requeued
  jobs do not starve others.
- **Worker.** The heartbeat thread races with settlement; locks may be busy;
  processes die holding a lease, a claim or a lock. Correct: one executor per
  run; no settlement after a failed renewal; every job and every success is told
  in the end.
- **Approvals.** A decision is bound before its lock is taken, and a crash may
  separate any two transactions. Correct: a decision applies only to the
  version it was made for; versions form a chain; the revision budget is exact;
  success only after an approval; an interrupted run can be moved on.
- **Engine.** Futures come back in batches, siblings run on after a failure,
  files change while they are read. Correct: dependencies first, no future
  lost, the final verdict consistent with every row, verified results computed
  from the bytes the run was created from as far as two fingerprints can tell,
  nothing succeeded done twice.
- **Ingestion.** Receipt, enqueue, ingest and retry race; the claim acts on an
  earlier read. Correct: one event, run and job per content; ids permanently
  bound; no event is stranded; a finished event is not claimed again.
- **Deterministic engines.** A process-wide limit is changed by concurrent
  threads; caps must bound what is kept and not what is counted. Correct: the
  result is that of a definition without locks, loops and caps.
- **Briefing.** The models may answer anything. Correct: what is delivered is the
  draft the reviewer approved, citing only evidence that was supplied under that
  number; only what may help is repeated.
- **Artifacts.** Several files are replaced one after the other while the run and
  its job move on. Correct: no report goes back, and at rest all tell the
  committed state unless a publication did not end.

`PROJECT.json` lists the hazards, each at its line, with the properties that
cover it.

## 2. Modules

```
RunStates ── EventStore ──┬── Queue (EXTENDS QueueStore too) ── MCQueue
     │                    │     └── Delivery ── MCDelivery      implements Queue
     │                    └── Ingestion ── MCIngestion
     ├── RunLifecycle  (abstract specification of a run)
     │        ▲ implemented by
     ├── Approvals ── MCApprovals
     └── Engine ── MCEngine

Snapshots ──┬── Validation ──┐
            └── Comparison ──┴── MCCore      (with CsvLoading)
Evidence, Briefing ── MCBriefing
Reports ── MCReports

proofs:  QueueProofs ── DeliveryProofs
         EngineProofs, IngestionProofs, ApprovalsProofs, ReportsProofs
         CoreProofs (CsvLoading, Validation, Comparison), AgentsProofs (Evidence, Briefing)
```

**RunStates, RunLifecycle.** The interface between the workflow and everything
derived from it: a run is its status, whether `revision_limit_reached` is
recorded and whether approval was ever requested. `RunStep` is the list of what
one committed transaction may do to it. Queue, Delivery and Ingestion take it as
their environment, and Approvals and Engine are each shown to implement
`RunLifecycle`, so the environment assumed is the one provided.

**EventStore.** `SyncEvent` is the status an event gets from its run in
`event_store.synchronize`, including the failure kept while the run is RUNNING.

**QueueStore** holds the functions on one job's row (`queue_store.py` and the
helpers of `queue.py`): `Settle`, `Failure`, `SyncJob`, `Lease`, `Owned`,
`MarkLost`. **Queue** is the state machine: each public operation is one
`BEGIN IMMEDIATE` transaction and hence one action. Conventions:

- Time is relative: `lease` is the time a lease has left, `avail` the time until
  a job is available. `Tick` lets time pass. Past availabilities keep only their
  order (`AgedAvail` renumbers them), all that the `ORDER BY` of `claim` sees;
  this makes the state space finite without a bound on the clock.
- A token is the number of the attempt it was issued for: `uuid4` values are
  only compared for equality and never reused.
- `claim` reads the clock twice. `late` says whether time passed in between.
- `EventClaim`, `EventFail`, `EventEnd`, `EventDropped` and `Workflow` are the
  queue's environment, which Delivery supplies.
- Audit texts are left out except the notes of `lease_lost` (`notes`).

**Delivery** is the queue with the processes that use it: workers with their
poll loop and `process` (77-110), the heartbeat thread (`Beat`, `BeatFails`),
`ingestion._process` split where it commits (`LockEvent`, `Read`, `ClaimEvent`,
`LockRun`, `BeginRun`, ..., `Close`), commands that retry an event, humans that
decide, the event's and the run's lock, Ctrl+C (`Interrupt`, `Unwind`,
`SettleInterrupted`), operations that fail on the database or a file, and death
anywhere. Every transaction is an action of Queue conjoined with what it does to
the process; the module *implements* Queue (`ImplementsQueue`), so what Queue
promises holds of the processes.

**Approvals.** `decide`, `resume_run`, `run_workflow` (up to the DAG, one step
here) and `advance`, split at every transaction boundary. `seen` is the approval
`decide` was bound to before it took the lock; `Crash` ends a process anywhere
and frees its lock, as the operating system does (`workflow.py` 92-98). A
briefing is the sequence of comments worked into it, since `revise_briefing` is
pure. It covers the gate rows and revision rows of `tasks`.

**Engine.** The DAG of one run over any number of invocations of
`run_workflow`: fingerprint, lock, reset of rows, the scheduling loop (`Start`,
`Wait`, `Handle`), worker threads (`Execute`, `ExecuteFail`, `Verify` in its
four reads) and the verdict. The four input files are one version number, which
`Edit` changes at any moment to any other version, those they had before
included; what one read finds in the files is a version, so a mixture of old and
new files is one more. An output is the version it was computed from. The history
variable `undone` tells whether the run's bytes were put back between the two
fingerprints of the verifier; no action reads it. `resume_run` is in Approvals. Lifetime attempt totals,
error texts and the event log are left out.

**Ingestion.** `receive`, `enqueue`'s reservation, `_process` with the event's
lock, `_claim` with its compare-and-set against `row`, read one transaction
before, `_execute`, failures, retries and crashes. A submission is an id, a
folder and the content read there: the event's fingerprint is the content, the
workflow's fingerprint content and folder. Content `None` stands for any bytes
that make no valid submission. Taking the event's lock, the synchronization and
the read that follows are one step (`Process`): the lock excludes other holders,
and what others do between that synchronization and that read they may as well
do before both or after both. `scan` is `ingest` of one file after another.
Duplicate counts and messages are left out.

**CsvLoading.** `load_csv` in several threads: the limit of the csv library is
one variable, which `Raise` and `Restore` change under `_CSV_LOCK`; a file is the
sequence of its records, each with its longest field and whether it fits the
header. **Snapshots** says what it returns: a cell is a text and whether white
space surrounds it. **Validation** and **Comparison** are `validate` and `compare`
row by row, with the cap on findings; types are sets of texts.

**Evidence** is `build_evidence`: findings are offered one by one, numbered,
bounded and left out if they do not fit. **Briefing** is `run_agent_team` and the
attempts `_run_tasks` allows it: each request gets *any* reply, well formed or
not, or fails for a time or for good.

**Reports.** `_publish_result` and `write_workflow_reports` for one run: snapshot
under the run's lock, checks of all destinations, then file by file a temporary
file and a replacement, each of which may fail; the worker's settlement outside
the lock and its refresh, which passes over a busy run; a deferred or interrupted
delivery is settled without one. What a file tells is the version of run and job
it was written from.

**MC modules.** MCCore and MCBriefing put independent parts side by side: a
behaviour is a call of one of them, and the others rest in one fixed state, so
that one run of TLC checks the sum of their state spaces. MCQueue adds
`OrderSpec`, in which run and event are held still and job 1 may have failures
behind it. MCDelivery adds one bound on all disturbances together.

A property with several concerns is a conjunction of named parts, each stated
and commented where it is defined: `StatusesAgree` is `WaitingIffPending` and
`GateAgrees`, and so on (the tables below name the parts).

Some modules contain operators marked `faulty`: variants of the following
definition that a plausible bug would give. No specification uses them; each
shows that one property does depend on the definition it replaces.

## 3. Runs

| Run | Properties (parts) | Bounds, and why they are enough |
|---|---|---|
| `queue` | `BudgetAccounting`, `RecordsAgree` (`NeverAheadOfRun`, `RetryStaysOpen`); `LeaseExclusive`, `LeaseNeverRevived`, `RunPrevails` (`CheckpointPrevails`, `RevisionLimitPrevails`), `HistoryKept` | One job, two attempts, one replay, budgets 1 and 2, leases of 1 and 2 ticks: a stale token beside a fresh one, expiry in the middle of a claim, a budget used up and reset. These properties are per job. |
| `queue_order` | `RequeuedGoesBehind`, `FailureBacksOff` | Two jobs of two priorities, or one after 0 to 8 failures: the delay doubles six times and then is capped twice over. Run and event are held still, as these properties are about selection and delay only. |
| `queue_loss` | `LossNotedOnce` (finding 1) | One job, one attempt. |
| `approvals` | `StatusesAgree` (`WaitingIffPending`, `GateAgrees`), `SuccessApproved`, `RevisionBudget`, `VersionsChain`; `HistorySound` (`DecisionBinds`, `HistoryRetained`, `RevisionReused`), `ImplementsLifecycle`, `InterruptionEnds` | Two processes, a limit of three rejections, two crashes: a delayed decision meets a successor, a revision builds on a revision, one fails or dies and is resumed, the limit is reached. One comment: versions differ by how many are worked in; the theorems cover any comments. |
| `engine` | `ScheduleSound` (`TypeOK`, `DependenciesFirst`, `FuturesTracked`), `FinalVerdict`, `VerifiedInputs`; `SuccessKept`, `ImplementsLifecycle`, `EngineProgress` (`InvocationEnds`, `RunGetsBriefed`) | Allowance 2, three failures (more than one task's allowance), two versions of the files that come and go at any moment, two crashes. Two versions suffice for a specialist, the verifier's recomputation and its fingerprints to see different bytes. `RunGetsBriefed` supposes that the files stay; otherwise finding 2 applies. |
| `engine_restore` | `RestoredRunRecovers` (finding 2) | Two versions of the files, no failure, no crash. |
| `ingestion` | `NeverStranded`, `CreatedAsReceived`; `FinishedNotReclaimed`, `RestoredEventRuns` | One content, two processes, two edits, a crash, a failure, two claims counted; the run is moved on by `RunStep`. |
| `ingestion_identity` | `IdentityHolds` (`TypeOK`, `OneRunPerContent`, `AcceptedAsBound`); `BindingsKept` | Two contents in two folders, one external id, two processes, one crash. Processes and contents are symmetric. |
| `delivery` | `OneExecutor`; `LostNeverSettles`, `CheckpointKept`, `ImplementsQueue`, `DeliveryCompletes` (`DeliveryEnds`, `SuccessKnown`) | A worker, a command and a human on one job, three attempts, and any two of: a command or decision started, a death, an interrupt, a failed operation. That suffices for a human who decides while a command has already read the event, and for a death that leaves a lease and a lock. Two workers at once are covered by the proofs. |
| `core` | `LoadingExact` (`VerdictExact`, `LimitRestored`), `ValidatedExactly` (`ValidationTypeOK`, `IssuesExact`, `FirstReported`, `FirstRowNamed`, `BoundsAgree`), `ComparedExactly` (`ComparisonTypeOK`, `RefusalExact`, `RowsAccounted`, `FindingsFirst`) | Two threads and all files of up to three records where one row is allowed; snapshots of two rows of two columns or three of one, under 40 rule files; pairs of snapshots of two rows; findings capped at 3. Each cap is reached and exceeded. |
| `briefing` | `EvidenceFaithful` (`EvidenceTypeOK`, `NumbersStable`, `SampleDisclosed`, `NeverRefused`), `ReviewFaithful` (`TypeOK`, `ApprovedAsReviewed`, `CorrectionsCarried`, `ExhaustionExplained`); `TeamRetriesBounded` (`RepeatedIfTemporary`, `BriefingEnds`) | Up to four findings per engine, three reported, two considered, of which two or three fit. Three rounds (the maximum the code allows), two attempts, two texts, a number that was supplied and one that was not. |
| `reports` | `ReportsConsistent` (`FirstIsNewest`, `AgreeAtRest`, `SettlementShown`, `NoLitter`); `PublicationSafe` (`NeverBack`, `AllOrNothing`) | Two clients, two workers, three files, three versions of the run, two settlements: a publication fails or dies between any two files while another settles. |

Named bounds: `MaxClaims`, `MaxReplays` in guards of Queue; `MaxCrashes`,
`MaxFailures`, `MaxVersions`, `MaxEdits` in the guards of the actions they name;
`MaxStarts`, `MaxDeaths`, `MaxInterrupts`, `MaxFaults` and `MaxTogether` of
Delivery; `MaxVersion` and `MaxSettled` of Reports; `MaxTotal` of Evidence.
`MaxClaims` of Ingestion is where `claim_attempts` stops counting (only the
holder of the event's lock counts it, so a process whose claim is pending never
meets a changed count); `Moving` is the set of runs that move on after they are
created. Deadlock is checked except where the system really stops: in the
Engine's runs an orchestrator that may not be started again, in `core` and
`briefing` a call that has returned.

### Fairness

- *Approvals*: weak fairness of each process's steps (a command is sequential
  code without waits: its locks are non-blocking) and strong fairness of
  starting `resume` and taking the lock when it is free: somebody resumes
  repeatedly, at moments not synchronized with other commands. Crashes are
  bounded, as no progress can be promised to a process that is always killed.
- *Engine*: weak fairness of the orchestrator and of every thread (loops over
  the rows of files; the model adapter has timeouts), and a run that is begun
  again while it is not finished.
- *Ingestion*: weak fairness of each process's steps, strong fairness of an
  explicit retry of each event while nobody holds its lock.
- *Delivery*: time passes, and every process runs on: its locks do not wait, a
  transaction waits ten seconds at most, workers poll for ever (`run`, 124-140).
  Commands, decisions, deaths, interrupts and failures are never forced.
- *Briefing*: a request is answered or fails within
  `REQUEST_TIMEOUT_SECONDS`.

## 4. Findings

Two disagreements have a run of their own:

1. `queue_loss`: `docs/ARCHITECTURE.md` 270 says "A rejected token can only mark
   its own attempt's lease-loss evidence once." An expired lease whose run
   reached a checkpoint is recovered by `queue_store.synchronize`, which ends the
   attempt with `lease_lost=0` (`queue_store.py` 110-114). If its worker had been
   rejected before, the evidence is erased, and its next rejected call marks and
   logs it again.
2. `engine_restore`: `docs/CLI_GUIDE.md` 189 says "if files changed, restore the
   original bytes to retry that event." When a file is edited after the
   invocation's fingerprint and before a specialist reads it, the output of the
   edited bytes is saved as succeeded. The verifier rejects it, and every retry
   reuses it (`workflow.py` 466-475), so restoring the original bytes does not
   help: the verifier keeps failing.

Four more were met while modelling. The modules follow the code, and the
properties leave out exactly these cases:

- Changes undone under the verifier. `docs/CLI_GUIDE.md` 58 says "Input contents
  and relevant configuration are fingerprinted so a resumed run cannot silently
  mix old and new inputs." A specialist may read edited files; if they are put
  back before the verifier's first fingerprint (`workflow.py` 260), edited again
  in the same way while it recomputes (262-264) and put back before its second
  (266), both fingerprints are the run's, and results of other bytes are verified
  and reused by every later invocation. Two equal fingerprints cannot show this;
  `VerifiedInputs` excepts `undone` and is violated without that exception. What
  it does say: files put back before the first fingerprint, after the second or
  between invocations deceive nobody.

- Ctrl+C. The comment at `worker.py` 33-34 says of a failed renewal "this worker
  cannot settle delivery". Only line 98 looks at `heartbeat.lost`; on
  `KeyboardInterrupt` line 91 hands the delivery back with `queue.finish` without
  looking, and while the lease has not expired that is accepted.
  `LostNeverSettles` excepts the state `interrupted`.
- Unacceptable replies. `docs/ARCHITECTURE.md` 324 says "Malformed envelopes,
  invalid JSON, unknown evidence IDs, and unacceptable schemas fail the task."
  Only a malformed envelope does; the others become correction feedback and
  another round (`agents.py` 327-331, 339-342) until the rounds are used up.
- Refresh after settlement. `docs/ARCHITECTURE.md` 294 says "After settlement the
  worker refreshes compact queue metadata under the existing run lock". If that
  lock is busy the refresh is passed over (`worker.py` 106), and its holder may
  have read the job's row before the settlement: the reports then do not tell it
  until the next publication. After a deferral (104) and on Ctrl+C (89-94) there
  is no refresh at all (`SettleUntold`). `SettlementShown` excepts settlements
  that were not refreshed.

## 5. Proofs

Every theorem holds for any number of processes, jobs, files, threads and
versions and for any value of the bounds; the only assumptions are the ones on
constants, named in each module and evaluated by TLC.

**Queue** (`QueueProofs`; assumption `QueueConstants`).
`Invariance` proves `IInv == TypeOK /\ LeaseShape /\ BudgetBound`; from it
`TypeCorrect`, `LeasesWellShaped`, `BudgetsBounded`, `LeasesExclusive` and
`LeasesNeverRevived`. The three parts of `IInv` need each other. That a leased
job's token is the number of its last attempt (`LeaseShape`) needs the types of
row and history; `Failure` returns a job to the queue only while budget remains,
which keeps `BudgetBound`, and its refund of a busy delivery stays a natural
number only because a leased job has been charged. The argument goes in two
layers: first every function on a row is shown to take a good row (`RowOK`:
typed, well leased, within budget) to a good row, and what it does to lease,
token and history; then one lemma per action lifts this to the table and proves
the invariant and the action properties together (`Kept`, `Keeps`, `NoRevival`).

The second part strengthens the invariant to `Records` (`RecordsInvariance`).
`BudgetAccounting` alone is not inductive: a refund is right because the attempt
under way is of the current replay generation and so is counted, and a replay
starts at zero because no attempt is of a later one (`Accounted`). `RecordsAgree`
needs that a waiting run has asked and a run with its revisions used up has failed
(`RunOK`). One relation, `Continues`, says of a row before and after an operation
that it stays sound, keeps its history and only moves where its run has come to a
rest; it composes, so a transaction that synchronizes, ages and expires a row is
the chain of its operations. That a claim or a replay never delivers a job whose
run is at rest follows because reconciliation left nothing but decided or
unexpired rows (`Reconciled`). From it `BudgetsAccounted`, `RecordsAlwaysAgree`,
`RunsPrevail` and `HistoryAlwaysKept`.

The third part is about waiting. `RequeuedAlwaysBehind`: whatever returns a job to
the queue (a failure, a deferral, an expired lease) makes it available now or
later, synchronization never puts it back in the queue itself, and a job already
due is counted by `AgedAvail` among those ahead of it, itself included, so its
renumbered availability stays negative. `FailuresBackOff` follows from `Records`:
the exponent of `failure` is the budget, and the budget is the number of attempts
charged.

**Delivery** (`DeliveryProofs`). `DeliveryInvariance` (`ControlInv`): a process at
work has a job, an executor holds the run's lock, and one that claimed its event
holds the event's lock while the claim is under way. It is needed for
`DeliveryImplementsQueue`: that the claim a process ends, fails or executes in is
still its own is a guard of Queue that the process meets only because of where it
is. Every step is a step of Queue or leaves its variables alone, so the theorems
of Queue carry over (`DeliveredExclusively`, `DeliveredOnRecord`).
`OneExecutorAtATime` follows from the run's lock. Two more strengthenings carry
the action properties. An execution that is not a human's is of a run that is
`RUNNING` (`ExecutesRunning`), as its first transaction read under the lock; it
gives `CheckpointsKept`. No two workers hold the same attempt (`DeliveriesDiffer`),
because each claim numbers a new one and attempts are never removed, which is
`Records` again; so only a worker itself settles its delivery, and
`LostStaysUnsettled`.

**Approvals** (`ApprovalsProofs`). The inductive invariant says, besides types and
the lock, of the tables: the versions form a chain of rejected versions with at
most one other at the end (`Evidence`, `Outputs`), the run's row is what its
latest version and the budget make it (`RunRow`), and where the holder of the lock
is in its command agrees with both (`Stages`): the half of each transaction that a
crash may leave. From it one theorem per property, among them
`StatusesAlwaysAgree`, `ApprovalRequired`, `RevisionsBounded`, `VersionsChained`,
`HistoryIsSound`, and `ApprovalsImplementLifecycle`, the refinement that justifies
the environment of Queue, Ingestion and Delivery.

**Engine** (`EngineProofs`; assumption `EngineConstants`). The inductive invariant
joins four parts. `RunRow`: which statuses go with which step of the invocation.
`TaskRows`: a task that ran had its premises, whatever is pending may still be
attempted, and where the loop ends nothing runs or can start; without the last,
`FinalVerdict` is not inductive, since the verdict is computed from the rows one
step later. `InFlight`: the running rows of an invocation at work are its futures,
which with the graph (`Plan`) bounds them by the pool of two (`TwoFutures`).
`Verifying`: an output that the verifier found equal to a recomputation has the
run's version if the files still have it and the run's bytes were not put back
since its first fingerprint (`undone`); so it has, when the second fingerprint is
the run's as well. Nothing is supposed of the files: they change at any moment,
to anything. From it `ScheduleAlwaysSound`,
`VerdictFinal`, `InputsVerified`, `SuccessAlwaysKept`, and
`EngineImplementsLifecycle`, the second refinement of `RunLifecycle`.

**Ingestion** (`IngestionProofs`; assumption `IngestionConstants`, of which the
proof needs that there is a folder). `Tables` says what the rows of events and
runs say of each other (each reserved run has one event, equal content one
event, a run without a status no past, an event without a run a status a retry
takes up), `Targets` what a process knows of the event it works on where it is.
`NeverStranded` and `CreatedAsReceived` need the first, `IdentityHolds` both. The
tables change in three forms only (a row is added, a run is reserved, one row and
its run move on), so one lemma per form carries them through every action. The
action properties come from what those forms keep (`BindingsAlwaysKept`) and from
the comparison in `claim` with the status read before (`FinishedNeverReclaimed`).

**Deterministic engines** (`CoreProofs`). Loading: between raising and restoring
the limit only the lock's holder reads it, and what it saved is the initial limit
(`LoadingInvariance`); hence `LoadingAlwaysExact`. Comparison
(`ComparisonConstants`): `Indexes` says that the rows passed so far are indexed,
each under its own key, so a row whose key is there already is a repeated one and
the refusal right; `Counted` that the keys passed so far are the smallest, that
the counts are the cardinalities of their kinds, and that each finding's rank
among the differing keys is its place. At the end all keys are passed
(`ComparisonInvariance`, `AlwaysComparedExactly`).

Validation (`ValidationConstants`: no type contains the blank text, an integer is
a number, bounds are integers, a column has one rule): a violation is a row, the
place of its column and the place of its code, and `Before` orders them. `Tally`
says that issues, affected rows and findings are those of the violations
`Passed` so far, each finding's rank among all violations being its place. A cell
adds one batch of violations right after those (`NextBatch`), in the order in
which `InOrder` lists a finite set (`InOrderRanks`), and `BatchAdded` carries
`Tally` over it. That the codes found for a cell are those of the rules it
violates (`BrokenViolates`) needs `Consistent`, which `_check_rules` has
established, and `Remembered`: a unique column knows, for every text met so far,
the first row that has it. At the end all violations are passed
(`ValidationInvariance`, `AlwaysValidatedExactly`).

**Model-backed briefing** (`AgentsProofs`). `EvidenceInvariance`: what is collected
is numbered by its place in the tool's report, its measured size fits, and the
flag tells what was left out, through the loop that adds findings and the one that
takes them back; hence `EvidenceAlwaysFaithful` (assumption `EvidenceConstants`:
room for the note). `BriefingInvariance`: feedback and previous draft are what the
requests made so far leave to take up (`TakesUp`), and rounds that ended say why;
hence `ReviewsAlwaysFaithful` and `OnlyLossRepeated`. `Size` is a recursive
function, and that appending adds the entry's size is shown without an induction
theorem: of the places where two sums differ there would be a least one
(`LeastNumber`, from the well-foundedness of `<`).

**Reports** (`ReportsProofs`). Between snapshot and last replacement the writer
holds the lock of an unchanged run, and each file is as new as its place in the
loop says (`Invariance`); hence `ReportsStayConsistent` and `PublicationsSafe`.

Only model-checked: liveness (`InterruptionEnds`,
`EngineProgress`, `RestoredEventRuns`, `DeliveryCompletes`, and the `BriefingEnds`
of `TeamRetriesBounded`), because fairness and ENABLED are outside the proof
system's reach; and the two properties the code does not have (section 4), which
are counterexamples. The library's induction theorems take an operator as a
parameter and cannot be used; where a proof needs induction over naturals it
takes the least element of a set instead.

## 6. Not modelled

- `report.py`: HTML from a result, without state.
- `cli.py`, scripts, examples: parsing and printing around one operation each.
- Regular expressions for numbers, dates and e-mail addresses, and the JSON of
  rules, manifests and model replies: a text is of a type or not, an input valid
  or not, a reply acceptable or not. The same holds for paths, permissions and
  sizes of inputs.
- Timestamps and texts, and the audit logs but for the notes of lost leases.
- Failures of SQLite itself: a transaction is committed or did not happen. That
  an operation may fail as a whole is in Delivery and Reports.
- `inspect_run`, `list_runs` and configuration errors of `run_workflow`; lifetime
  totals of task attempts.

## 7. What could come next

- The engine's lifetime attempt totals and its listing.
- Variants for the liveness properties: that every step a fair process takes brings
  an execution nearer to its end is a safety fact and could be proved, which would
  leave only the use of fairness to TLC.
