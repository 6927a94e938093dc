# A TLA+ verification of pi-autopilot

`pi-autopilot` is a Pi extension that drives many model-backed child processes
through planning, implementation, validation and finalisation of one piece of
work.  The repository holds two generations of it:

* the **shipping system**: a thin TypeScript *Host* inside Pi (`src/*.ts`) that
  starts and kills background tasks, and an authoritative Rust *Core* (`kernel/`,
  `drivers/`) that owns an append-only event log and decides everything;
* the **rebuild** (`next/`): a TypeScript monolith with a pure *authority* that
  turns stimuli into records, a *commit loop* that makes records durable before
  their commands are executed, and a *journal* that several processes may open.

This directory models the parts where the order of steps decides correctness.
Each module is written from the code it names, each operation of the code is one
action, and `PROJECT.json` gives the lines of code behind every definition.

## 1. The parts of the system

| Part | State | Operations | What makes it hard | Module |
|---|---|---|---|---|
| Core: BLOCKED latch (`drivers/src/seam`) | event rows, three create-once files per binding, in-memory projection | spawn, acknowledge, complete, admit a BLOCKED report, recover it, observe, reconcile, open | crash or failed write between any two of five durable writes | `BlockedLatch`, `WorkstreamLatch` |
| Host: task ownership (`src/ownership-journal.ts`, `child-control-broker.ts`, `extension.ts`, `effects.ts`, `background-tasks.ts`, `activation.ts`, `transport.ts`) | ownership journal, launch hold, flights, broker connections, task client | command, launch, terminal, BLOCKED report, observation, cancellation, activation | one thread with many suspended fibers, two other processes that die independently | `HostOwnership` |
| Rebuild: journal (`next/storage/journal`) | claims, segments, cuts | open, append, replay, close | several writers, no lock, torn and late writes | `EpochJournal` |
| Rebuild: commit loop and dispatcher (`next/runtime`) | the loop's copy of the run, its handle, its queue | open, ingest, recover, reconcile, dispatch, close | uncertain appends, retries, successors | `CommitLoop` |
| Rebuild: authority (`next/authority`) | run state with authenticated indexes | admission of every stimulus, fold, reaction, outcome, assembly | two computations of one outcome, commands overtaken by later decisions, bounded hot pages | `Authority` |
| Kernel event log, fold, scheduler (`kernel/src`) | events, state | append, replay, dispatch order | torn tail, cache | planned |
| Core: delivery pipeline (`drivers/src/seam`, `integration`, `data/seam_real_producers.rs`) | event rows, run-main and lane branches, specs, plans, receipts, publication files | run, close, submit, integrate, publish, complete, consume | validators that wait for one another, retries after a merge, crash between git, files and log | `LaneFlow` |
| Core: runner and children (`drivers/src/runner`, `checkpoint`, `watchdog`, `bgtasks`, `control`) | child process, settlement, checkpoint intent | start, settle, compact, abort | events out of order | planned |
| Rebuild: content-addressed store (`next/storage/cas`) | objects, temporary files | capture, install, read back | concurrent installers | planned |
| Planning, allocation, evidence, validation | documents | mostly validation of one document against another | little concurrency | later |
| Contract generation, `modelcheck`, scripts | none | text generation and tests | - | not planned |

How they interact.  The Host sends the Core one request per line and the Core
serves them in order; a BLOCKED report therefore crosses `HostOwnership` (close
the launch hold, let started launches finish, acknowledge them, forward) and then
`BlockedLatch` (freeze the live set, publish it).  In `HostOwnership` the Core's
latch transaction is one atomic step; that it may be is exactly what
`BlockedLatch` shows by implementing `WorkstreamLatch`.  `LaneFlow` is the rest of
the Core's request loop for a workstream that is not blocked: it meets the Host
only as the one that starts the child of an action, writes its row and reports its
exit; how it does that beside a BLOCKED report is `HostOwnership`'s business.  In
the rebuild, `CommitLoop` uses the journal as a list of selected records with a
newest writer.  `EpochJournal` is checked to provide that, except after a takeover
that was abandoned before its control frame: there `journal_stale` refutes it, and
nothing said of `CommitLoop` holds for such a journal.  The authority is a map from
actions to commands there; `Authority` describes it in full.

## 2. Modules and code

**`BlockedLatch`** (`drivers/src/seam/mod.rs`).  A binding is one issued runner
invocation.  The rows of the event log are sets (`issued`, `acked`, `consumed`,
`accepted`, `eventRef`, `observed`), the create-once files are functions of the
binding (`prepared`, `receipt`, `latch`), the process is `up`, `proj`, `projErr`,
`toolCall`, and `op` is the request being served with the durable step it has
reached.  `Admit`, `RecoverPending`, `RootedAlias`, `Reconcile`, `Open` start a
transaction; `WritePrepared` ... `Finish` are its steps; `Crash` and `WriteFails`
may come between any two.  A row whose sync failed may be on disk although the
process does not know of it (`unsynced`); the next process reads it, and when the
row was appended again in between it reads it twice (`doubled`), which no
projection accepts.  `given` and `frozen` are history variables.

**`WorkstreamLatch`** is what the Core promises without files, rows or crashes:
launches stop when a gate is fixed, the gate never changes, it is published once
and the reporter is released after that.

**`HostOwnership`** (`src/*.ts`).  An action is what the Host's one thread does
between two awaits.  `journal` is the ownership journal; `hold`,
`activationHold`, `launch`, `own`, `bound`, `buffered` the coordinator; `conn`,
`pend`, `obs`, `killing` the broker's fibers; `term`, `queue`, `poisoned` the task
client; `phase`, `todo` the activation; `toCore`, `toHost` the pipe.  The task
service, the children and the operator are the environment.

**`LaneFlow`** (`drivers/src/seam/mod.rs`, the producers in
`data/seam_real_producers.rs`).  `job` is the request the Core serves and the next
durable write it makes; requests are served one at a time.  `issued`, `terminal`,
`closed`, `blockers`, `rooted`, `evidence` are rows of the log, `main`, `branch`,
`merging` git, `spec`, `plan`, `final`, `artifacts`, `receipt` create-once files,
`pub` the publication.  `task` is the child of a binding by its ownership row,
`strays` counts the live children that have no row, and `host` is the Host process.
Every activation of a Host binds a fresh control socket, and the create-once spec
of a binding names the socket it was written under, so after a restart of the Host
the children of older specs cannot submit (`Reaches`).  `RunChild` and
`rememberSpawn` are the two sides of the await between `run()` and the row; a Host
that exits between them leaves a stray behind, and the next one repeats the report
and starts the child again.  `SubmitDelivery`,
`SubmitForwardReady` and the blocked variants start a submission; packaging, issue
of the next assignment, merge, plan, CAS, lifecycle and publication are its steps,
then artifacts, receipt, rows and the answer; `TaskCompleted` consumes it.  A step
that returns to `Idle` early is an error answer: what it wrote stays.  A commit of
run-main is the sequence of validators whose packages it holds.  Left out: the
BLOCKED latch's gates (`BlockedLatch`), the legacy `ReplayV0` bindings, memory
pressure, and the markers for active units and queued candidates, which the code
reads but never writes.

**`EpochJournal`** (`next/storage/journal`).  A segment is a sequence of frame
kinds with the chain it was started on and the cut its control frame fixed.  A
process scans, claims, scans again segment by segment (other processes move in
between), truncates torn tails, creates its segment, replays, appends in two
halves and verifies after the write that no higher epoch was claimed.

**`CommitLoop`** (`next/runtime/commit-loop`, `dispatcher`).  A record is its
action and the number of records it was prepared on; replay accepts it only
behind exactly those.  `tx` is the transaction at the head of a loop's queue,
`calls` the callers and dispatchers in progress, `view` the loop's copy of the
run, `handle` the epoch it writes under (0 when closed).

**`Authority`** (`next/authority`).  `run` is the state record `fold()` rebuilds.
Facts are tuples headed by their kind and `FoldFact` is `applySemanticFact`;
`Reaction` derives the commands, `Outcome` the terminal result, `Assemble` and
`Prepare` put a record together and fold it.  Callers' stimuli carry the proof
pages they need, the dispatcher's carry none.  `scope` says which records a run is
opened on and which candidates, publications and findings its callers name.  Left out: dependency edges between work items, the
legality of a disposition for an atom kind, route verification, plan supersession
(admission never proposes that fact), the advisory counter, and command kinds
that no reaction issues.

## 3. Runs

| Run | Instance | Shows |
|---|---|---|
| `latch_crash` | 3 bindings of one workstream, one a continuation, 2 reports, 2 crashes | one latch per workstream, nothing spawned behind a frozen set, immutability, refinement of `WorkstreamLatch`, and that an interrupted transaction is completed |
| `latch_io` | 2 bindings, 2 tool calls, 1 crash, 2 failing writes or syncs | a gate given to the Host rests on a complete transaction |
| `host_crash` | 1 reporter, an action with a continuation, 2 reports, one each of Host crash, Core crash, timeout, failed append | the frozen set covers every owned running task; reconciliation never contradicts the journal |
| `host_cancel` | a reporter, three other actions, one the continuation of another, 1 Host crash and 1 timeout anywhere | the reporter is killed last; every other task of the gate stops, unless the Host is down, its task client poisoned or a call timed out |
| `host_two_reports` | two reporters | *violated*: see findings |
| `lane_flow` | 2 lanes: independent with a V2 plan and 1 Host, or with a V1 plan, ratified, and 2 Hosts; in turn with either plan version, the V2 one ratified, and 2 Hosts; one fault anywhere | merged once, accepted stays integrated, dependencies first, one child of a lane is heard, only a complete run-main is published; V1 lanes in turn are published in the end |
| `lane_retry` | 2 independent lanes, no fault | *violated*: see findings |
| `journal_fence` | 3 processes, 3 epochs, 2 frames each, 1 crash, 1 failed write | acknowledged records stay on one branch and in every replay |
| `journal_stale` | 2 processes, a takeover abandoned | *violated*: see findings |
| `commit_loop` | 2 loops, 2 concurrent calls each, 1 request issuing 2 commands, 4 epochs, 1 unreadable replay | one record per action, replay accepts, effects follow commits |
| `authority` | from genesis with 1 candidate, 1 publication and a planning gap; an accepted plan with an advisory and a blocking finding; an accepted plan with 2 candidates of different trees, 2 publications and heads that move | a run that is eligible for an outcome has committed it; a command is settled once; answers not overtaken are admitted, the blocking counter is exact, T1 means corrected, verified and published |
| `authority_hot` | hot pages of 4 values | *violated*: see findings |

Why the bounds are enough to be interesting: two crashes let a recovery itself be
interrupted; three bindings let a continuation race a report; three epochs let a
takeover be abandoned between two others; two loops and two calls let a retry meet
an uncertain append and a successor; two candidates and publications let every
command be overtaken; two lanes let one validator wait for, and be overtaken by,
the other, one fault puts a retry behind any durable write, and two Hosts let a
child be started twice.  One lane of a plan may be repaired, and independent lanes
that may be have one Host: a second repair or Host multiplies the states there and
repeats what the other setups show.  Every bound is a named constant used only as a guard on
failures, epochs, frames or reports.

Deadlock is checked in the latch and lane runs.  The others stop by design: a run with a
terminal outcome accepts nothing, a Host whose reports and crashes are used up has
nothing to do, and the epochs of a journal instance are bounded.

**Fairness.**  `latch_crash` assumes that the Core goes on with the request it
has read, that a dead Core is respawned (the transport does so at the next
request), and that reconciliation is asked for again: every activation of a Host
asks for it, so this is the assumption that sessions go on being started.
`host_cancel` assumes weak fairness of every step that happens unless a process
dies (`Progress`); crashes, timeouts, reports and operator commands are not fair.
Nor is the activation of a Host that is down, which waits for an operator's command
(`activation.ts`): `GateTasksStop` therefore promises nothing while the Host is
down, and binds it again as soon as it is active.  Its other two exceptions are a
protocol error of the task client, which rejects every kill from then on, and a
timeout.
`lane_flow` assumes that the Core and the Host finish the request in progress, that
the operator goes on asking for the run and that children submit and exit in the end; requests
queue at the Core, so the fairness of being served is strong (a request is enabled
whenever the Core is idle).  `SequentialPlanCloses` is about plans whose lanes
depend on each other in turn and need no ratification, of which the instance has the
V1 chain; for independent lanes it is false, see `lane_retry`.  It excepts faults, a
second Host, a child that names a blocker, and a recovery without changes on a
branch without a package (section 6).

## 4. What is proved

The proofs hold for every value of the constants.

* `BlockedLatchProofs` - type correctness; `GateSafety` and `ImmutableSnapshot`
  under any number of crashes and failing writes.  `GivenGateIsRooted` is not
  inductive: that a gate's transaction is complete depends on the order of the
  durable steps, so the invariant adds *Staged*: what is published equals the
  prepared transaction, a row on disk that the process does not know of belongs to a
  transaction that has its files (*Unknown*), and the operation in progress has done
  every step before the one it has reached.
* `BlockedLatchClosure` - with crashes but no failing write in a live process
  (`MaxIoFailures = 0`): `ClosedBehindSnapshot`, `UniqueLatch`, and
  `ImplementsPromise`, the refinement of `WorkstreamLatch`.  The strengthening
  *Closed* says that a Core ready to serve either is degraded or has projected
  every frozen transaction; that is the fact that stops launches after a restart.
  *Synced* adds that a restart finds no accepted root it did not know of.
  The hypothesis is needed: see the last item of section 6.
* `CommitLoopProofs` - for any number of loops, calls, actions and epochs:
  `JournalAlwaysFolds`, `CommitsOnce`, `MemoryAlwaysHistory`, unless a recovery
  could not read the journal.  The invariant adds *Handles* (an epoch has one
  holder), *Stage* (a transaction agrees with its loop's mode) and *Current* (the
  memory of the loop with the newest handle is the selected history, at each
  stage of its transaction).

Assumptions on constants are the named `ASSUME`s of the modules: they fix types
and that `None` is not a value, and that a continuation stays in its workstream.

Only model-checked: all liveness (`FrozenIsEventuallyRooted`, `GateTasksStop`,
`SequentialPlanCloses`), and everything in `HostOwnership`, `LaneFlow`,
`EpochJournal` and `Authority`.
`EffectsFollowCommit` and `OneRecordPerAction`'s counterpart for the authority
(`SettledOnce`) are checked on the instances above.

## 5. Findings

Each is a run that TLC must refute; `PROJECT.json` quotes the sentence of the
repository it contradicts.

* `host_two_reports`: the provisional launch hold has no owner, so the RETRY of one
  report opens it under another one that is at the Core, and a task is launched
  outside the frozen set.
* `journal_stale`: a takeover abandoned before its control frame leaves the writer
  before it without a cut; its late frame makes every replay fail.
* `lane_retry`: a validator's submission merges its package and then selects the
  next lane; a lane that is itself in validation is not excluded, its branch is not
  at the new tip, and the submission is refused after its merge.  When the other
  validator merges, the first can no longer prove its plan, and its lane stays open.
* `authority_hot`: the dispatcher sends no proof pages, so once the actions index
  outgrows its hot page no answer of a port is admitted.

## 6. Hazards without a checked property

`PROJECT.json` lists the hazards by line.  The ones no property covers, or that a
property names as its exception:

* a launch row that could not be appended leaves a binding behind whose
  acknowledgement is written without it, and later activations refuse the journal;
* a continuation refused by the hold turns into a permanent error of the task
  client, after which the kills of a gate are rejected until Pi is restarted;
* a continuation is started twice when the Host dies between `run()` and its launch
  row: only one of the two children is heard (`OneWorkerPerLane`), and both work in
  the worktree of the lane; one binding issued under two revisions would take four
  lanes, and is not checked;
* a task whose `run()` timed out is neither owned nor journaled, so no frozen set
  covers it and `SnapshotCoversRunning` does not speak of it;
* a publication or candidate replaced while its publish command is outstanding has
  an answer that is refused for ever (`AnswersAdmitted` excepts it);
* `reconcile()` of the commit loop may call a port for a command settled meanwhile,
  and a loop that failed to reopen keeps refusing;
* a recovery of the commit loop that cannot read the journal keeps the new handle
  with the old state; the retry then appends a record that no replay accepts
  (`JournalFolds` is stated for runs without such a recovery);
* the close lock is a directory that outlives a crash of the Core, after which every
  close is refused until it is removed;
* a crash between the artifacts of a submission and its receipt leaves files that a
  submission under another tool call can never match;
* a recovery engineer that finds no defect in a lane without a package is accepted
  (V1), and its validator can then not merge the unchanged branch;
* T1 may be committed while a reservation or verification issued after the final
  attestations is outstanding;
* when a write of the latch transaction fails in a live Core, launches of the
  workstream stay open until the projection is rebuilt; a second report can then
  be rooted, the projection refuses two latches of one workstream and stays
  degraded.  It stays degraded too when the sync of a row failed, the row was
  appended again, and the next process reads it twice.

## 7. Plan

1. *Done*: the latch and its promise; Host ownership; journal; commit loop;
   authority; the delivery pipeline; proofs for latch and commit loop.
2. Model next, in this order: the planning waves and their submissions; the Core's
   event log with torn tails and its kernel fold; the runner's child lifecycle
   with settlement and checkpoints; the content-addressed store; the kernel's
   scheduler against a reference definition; evidence.
3. Prove next: `AcknowledgedOnOneBranch` of `EpochJournal`; `SettledOnce` and
   `BlockingAccounted` of `Authority`; `MergedOnce` and `AcceptedIsIntegrated` of
   `LaneFlow` for any number of lanes and faults; the invariants of the modules of
   step 2.

## 8. Not modelled

Formatting, hashing and parsing of documents (a digest is the value it covers);
git itself; a row of the Core's log that was written in part; the Pi API beyond
start, kill and terminal events; prompts; contract
generation; the repository's own `modelcheck` crate; test kits.
