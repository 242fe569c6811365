# ish: a verification development

TLA+ modules that model the service layer and the Engines of `ish` (`src/ish`),
the TLC configurations that check them on small instances, and theorems about
them that TLAPS checks for every value of the constants. `PROJECT.json` maps
every definition to the lines it models and lists components, runs, mutants,
hazards, findings and theorems.

## 1. The system

`ish` runs language-model Tasks. A **Project** is a directory of configuration,
component data and Tasks; a **Task** is a directory with `task.json`, one
conversation file and its Runs. A caller submits requests to the Task's
`RunManager`; each becomes one **Run**, executed by an **Engine** that yields
events: text, completions, and the **Steps** the Run is made of.

| part | source | state | operations |
|---|---|---|---|
| RunManager | `services/runs.py` | `_active` runtime (worker, queue, `preparing`, `execution`, `finished`, `interrupt_requested`, `closed`), `_closed`, control lock; `run.json` files | start, submit, interrupt, wait_idle, shutdown, recovery; the worker's `_begin`, `_consume`, `_finish` |
| ConversationStore | `services/conversation.py` | one append-only JSONL file; per store `_messages`, `_offset`, `_signature` | create, delta, set_status, bind_run, update_metadata; list, get; `_refresh`, `_repair_tail` |
| WorkspaceOwnership | `services/locking.py` | process lock on `.ish.lock`, `_references`, `_tasks`, a re-entrant mutex | scope, retain, release, claim_task, release_task, task_attached |
| TaskManager, TaskRepository | `services/tasks.py` | `task.json` (status, current_run_id), `_attached` | attach/detach, create, save, delete, restore, clone |
| ProjectManager, ProjectRepository | `services/projects.py` | `project.json` (deleted, components, config) | create, save, delete, restore, clone, set_components, remove_component |
| components | `components/`, `services/components.py` | per Project and component a directory: `component.json`, `records/` | initialize, configure, define, clone, delete_directory |
| StepManager, StepEventRecorder | `services/steps.py` | `step.json` files | create, start, complete, fail, interrupt, cancel, recover, record |
| ConversationContextBuilder | `services/context.py` | none | for_run, for_clone |
| StorageIO | `services/storage.py` | one serial lane per manager | run, drain_on_cancel, atomic_json |
| BaseEngine, PipelineEngine, LoopEngine | `engines/` | per Run: generator position, active Steps, transcript | execute; stream_completion |
| stream bridge | `providers/litellm.py` | thread, bounded queue, stop flag | stream_completion |
| results | `core/results.py` | none; the observations in a Run's metadata | from_run, for_run |
| inference, models, paths, logging, compat | elsewhere | none, or files without transitions | see section 7 |

How they interact. The RunManager is event-loop code; everything that touches
the disk runs in a thread through `StorageIO.run`, one call at a time, inside
`WorkspaceOwnership.scope`, and a cancelled caller waits for the call it made.
The worker takes a message from the queue, writes a Run, binds and commits the
message, opens an answer, marks the Task (`_begin`), lets the Engine execute and
records its events (`_consume`), then closes Steps, answer, Run and Task
(`_finish`). A Pipeline pulls its stages' events; a LoopEngine asks the provider
for completions through the bridge and calls tools between them; each completion
is observed in the Run's metadata as it goes. A Project's and a Task's lifecycle
operations hold the same scope from their checks to their last write, and are
refused while a runtime is attached or a Run is persisted as active.

What is hard in it:

- *Crashes and restarts.* Nothing is transactional across files: every operation
  is a sequence of durable writes and a process may die between any two.
  Recovery must settle what it finds, without repeating a request, and may
  itself be cut short and started again.
- *Interleaving on the event loop.* interrupt, shutdown, submit and wait_idle run
  between any two awaits of the worker, on flags and Events it resets.
- *Failing storage.* Each write may fail; one that raises may have reached the
  disk all the same. What undoes a failed operation is a write too.
- *Several owners.* Processes, TaskManagers and threads share a workspace
  through one operating-system lock and one reference count.
- *A thread that feeds an event loop* through a bounded queue, and a consumer
  that may go at any instant.
- *External code.* Engines, tools and providers may emit anything the types let
  through.

## 2. Modules

| module | what it models | variables |
|---|---|---|
| `RunManager` | the scheduler, one durable write a step, with crash and storage faults and an Engine's own deadlines | 20 |
| `RequestLedger` | what the scheduler promises its callers: an abstract specification | 3 |
| `RunManagerRefines` | the refinement mapping from RunManager to RequestLedger | |
| `RunManagerProofs` | its inductive invariants; the proofs of what is left on disk and of what callers may rely on, and that it implements RequestLedger | |
| `ConversationStore` | the conversation file and the stores that project it | 12 |
| `DurableLog` | what a conversation promises the stores that share it: an abstract specification | 4 |
| `ConversationStoreRefines` | the refinement mapping from ConversationStore to DurableLog | |
| `ConversationStoreProofs` | its inductive invariant, the proofs of its properties, and that it implements DurableLog | |
| `WorkspaceOwnership` | the lock, the count, claimed Tasks, and the Task lifecycle they guard | 7 |
| `WorkspaceOwnershipProofs` | its inductive invariant and the proof of its properties | |
| `StepEvents` | from an Engine's events to the Steps and observations on disk and the end of a Run | 12 |
| `StepEventsProofs` | its inductive invariant and the proofs of its properties | |
| `StreamBridge` | the producer thread and its consumer | 10 |
| `StreamBridgeProofs` | its inductive invariant and the proofs of its safety properties | |
| `LoopEngine` | completions and tools of one Run | 8 |
| `LoopEngineProofs` | its inductive invariant and the proofs of its properties | |
| `ConversationContext` | what an Engine is shown of a conversation, in a Task and in its clones | 7 |
| `ConversationContextProofs` | its inductive invariant and the proofs of its properties | |
| `ProjectLifecycle` | Projects, their components and Tasks, under operations of several writes | 9 |
| `ProjectLifecycleProofs` | its inductive invariants and the proofs of its properties | |

The `MC*` modules only hold symmetry sets and sample constants. In every module
a definition named `X_Y` before `X` is a *mutant*: `X` with a plausible bug, used
to see that a property notices it.

### How state and actions correspond to the code

**RunManager.** `log`, `msg`, `runs`, `current` are the disk: the order and status
of user messages, the `run.json` files with their Steps and answers, and
`task.json`'s `current_run_id`. `call`, `pc`, `req` say who holds the control
lock and where it is. `worker` is the worker's position; `hand`, `queue`,
`intReq`, `outcome` are its message, `runtime.queue`, `interrupt_requested` and
how the execution ended. Code between two awaits is one action; each durable
write is one action (`SaveRun`, `BindInput`, `CommitInput`, `OpenAnswer`,
`MarkTask`, `StartRun`; `CloseSteps`, `CloseAnswer`, `CloseRun`, `ClearTask`;
`RecoverSteps`, `RecoverRun`, `RecoverInput`, `RecoverAnswer`, `RecoverTask`).
The storage lane makes `Persist` wait while the worker is inside `_begin` or
`_finish`; interrupt, shutdown and queue insertion do not wait. The Steps of a
Run are abstracted to quiet, active or failed; `StepEvents` has them in full.
Closing several Steps is one action; a crash amid them leaves what a crash
before them leaves, an active Step. A deadline of the Engine that its timeout scope turns
into an error is one way to fail (`EngineEnds`); one that fires while the task writes an
event is not seen by the scope and ends the execution as an interruption does
(`DeadlineExpires`; `expired` is a history of the requests it happened to).

**ConversationStore.** A projection is the sequence of records it has applied.
Bytes matter only to offsets: a record ends at some byte, a torn tail has a length. An
appending operation goes refresh, repair, write, fsync, directory sync, apply;
each is a step and a crash, a failing call or a power loss may cut it anywhere. The
apply of an append ends with a `stat` of its own: when that raises (`StatFails`), the
store has the record and still the offset and stamp from before it. `ahead` is a history of
the stores left like this: their next refresh applies the record again, or, if it is the
creation, raises over the duplicate ID and starts afresh (`RefreshRaises`).
`DurableLog` has none of this: `log` is the kinds of the records, `append` the operation
in progress, called or effective, and `view` what each store has applied.

**WorkspaceOwnership.** An operation of a TaskManager is a transaction in a scope:
mutex, retain, the check the code makes, its write, release. Nested scopes of
one operation are folded into the outermost: the mutex is re-entrant and they
only add and remove references inside it.

**StepEvents.** One Run: its stages (a `BaseEngine`, or a custom Engine that emits
any event it likes), the pipeline's `active` set, the recorder and `_finish`. A
generator advances only when its consumer has recorded its last event. A
`BaseEngine`'s operation may stream completions: `BaseAsks` is the observation
before the provider is called, `ChunkObserved`, `StreamOver` and `CallBreaks` are those that
follow; `noted` is the Run's metadata in memory, `saved` what `run.json` has,
`provider` a history of what became of each call. A cancelled write is drained, a
failing one may have reached the disk, a crash leaves `saved`. `TotalKnown` and
`Settled` are what `ExecutionResult` makes of the observations. The completions of a custom
Engine are its own affair and are not counted.

**StreamBridge.** The thread's steps between the points where it touches shared
state; the put it scheduled; the generator. The provider may refuse to open,
raise at any chunk, and raise again when it is closed.

**LoopEngine.** First the Run's parameters, limits and prompt are put together, or
refused. A completion is a sequence of fragments over call indices, then a
finish reason, or an error anywhere. A complete call is its ID. A batch is
checked as a whole, then its tools run one after the other.

**ConversationContext.** `Ordered`, `ForRun`, `ForLoop` and `ForClone` are the pure
functions of `context.py` and the Loop's own filter, applied not to
arbitrary sequences but to the conversations submissions, Runs, crashes,
recovery and clones can produce. `Ordered` is the order of the sort's keys, a relation on
positions of the file; the functions pick positions, and `Listed` is the sorting itself:
the n-th of a set is the one with n - 1 before it. `turns` is a history of what an
Engine ought to see: an input when it is committed, an answer when it is opened.

**ProjectLifecycle.** `project`, `data`, `task` are the disk: `project.json`, each
component's directory, `task.json` with the conversation. `op` is the operation
that holds the workspace lock: a program of stages (`Program`), each a set of
writes, one a step, in the code's order where it has one. `Begin` is its checks.
`Fail` makes a write raise before or after it was made (the step that makes the write
comes first in the second case); `Caught` says whether a handler then runs, which is
`Discard`, or `DiscardFails` when its own save raises. `result` is what the caller
learns. Three histories say what properties may expect: `opened` has the Projects a
caller was handed whole, `erased` the configurations a permanent delete of such a Project
has removed, `taken` the Projects in use that a failing restore marked deleted. Contents are abstracted to
what a clone must copy: a file is absent, as created, or edited, and a conversation
is its number of messages. RunManager's part is what `task.json` shows of it
(`Attach`, `Run`, `Rest`, `Detach`). `Rest` and recovery are one step each here; their
many writes are in `RunManager`. A removed tree loses its files in any order; once
`project.json` is gone nothing reads the rest.

## 3. Runs

| run | instance | what it shows |
|---|---|---|
| `scheduler_faults` | 2 requests, crashes, storage failures and deadlines anywhere, 2.7M states | all the scheduler's safety, and that it implements `RequestLedger` |
| `scheduler_live` | 2 requests, no faults but deadlines; Engines need not end | interrupt and shutdown return; if Engines end, accepted requests are settled and wait_idle does not hang |
| `deadline_interrupts` | 2 requests, deadlines | **violation**, see section 4 |
| `conversation` | 2 stores, 3 records of 2 or 3 bytes; crash, failure, power loss, replacement | no record is glued, lost once acknowledged, or out of turn; none is applied twice, unless by a store whose own `stat` failed after an append (section 4); the stores implement `DurableLog` |
| `conversation_entry` | the same, with directory entries that may be lost | **violation**, see section 4 |
| `ownership` | 2 managers of one process, 1 of another, 2 Tasks, process crashes | the count is exact, a Task has one runtime, attached Tasks are not touched |
| `bridge` | 4 chunks, a queue of 2 | no chunk lost, streams released, thread and consumer end |
| `step_events` | base and custom stages, alone and in pipelines of two; 2 completions | Runs agree with Steps, Steps end once, no total of usage with a completion missing |
| `tool_loop` | 3 call IDs, 2 calls a response, 3 iterations | no call twice, whole transcripts, no tool without a reader |
| `context` | 3 requests, clones at any time | an Engine sees exactly the committed turns, and a history that only grows |
| `project_lifecycle` | 2 Projects of a component and a Task, crashes anywhere, 2 failing writes an operation, 1.0M states | Projects that were handed out have what they select and runtimes keep theirs, two cases excepted (section 4); one failure leaves nothing half-made in sight, returned clones are whole |
| `project_failures` | the same | **violation**, see section 4 |

Properties, by what they mean:

- *A request is never lost, repeated, reordered or taken back*: `NoLostRequest`,
  `AtMostOneRun`, `OnlyForward`; together, as seen by a caller, with the order and
  with one request executing at a time, `ImplementsLedger`.
- *The disk is consistent when it should be*: `SettledRunAgrees`, `IdleIsQuiescent`.
- *Stopping*: `InterruptedForCause` (a stop never reaches the next Run),
  `InterruptSettles`, `InterruptReturnsAtLast`, `ClosedReleases`,
  `ShutdownCompletes`.
- *Waiting*: `IdleMeansSettled`, `WaitEnds`, `AcceptedSettles`.
- *The file*: `RecordsDecode`, `CacheIsFile`, `AcknowledgedStays`,
  `NoDeltaAfterEnd`; together, as seen by whoever shares it, `ImplementsLog`.
- *Ownership*: `ReferencesExact`, `OneRuntime`, `AttachedUntouched`.
- *Execution*: `RunAgreesWithSteps`, `NoStageAfterFailure`, `EndedOnce`,
  `NoCallTwice`, `RequestWellFormed`, `ToolsAreSeen`,
  `NothingLost`, `StreamReleased`, `ThreadEnds`, `ConsumerEnds`.
- *Context*: `ContextIsTurns`, `ContextGrows`.
- *Accounting*: `UsageIsWhole` (a total is known only if every completion that was
  asked of the provider is in it).
- *Projects*: `SelectionBacked`, `RuntimeBlocksDeletion`, `SingleFailureHides`,
  `ReturnedIsWhole`.

Bounds. Two requests let one be executing, or cut short, while the other is
submitted, queued or recovered: every property of the scheduler speaks of at most
two requests or two Runs, and a crash may come any number of times, so that long
histories are included. Three records let two stores append alternately around a
torn tail; sizes 2 and 3 make offsets that fall inside a record. Three managers
give sharing within a process and competition between two. Four chunks overfill
a queue of two with one put pending. Three IDs, two calls and three iterations
give a repetition within a response, between responses, and a batch in the
last iteration. Three requests give a turn before, during and after a clone. Two
completions let one be counted and the other lost. Two Projects let one be cloned into
the other, removed and created anew; one component and one Task are enough for
properties that speak of one at a time, `MaxContents = 1` lets any one file of them
all be filled or edited, by a user or a Run (a clone's copies come on top), which is
enough to miss it in a copy, and two failing writes are an
operation's and its handler's.

Deadlock checking is off where the system may stop (`CHECK_DEADLOCK FALSE`):
every request may be used up, a Run, a stream or a loop is over, or a bound on
records is reached. `ownership` and `project_lifecycle` never stop and are checked
for deadlock.

Fairness, and why the code justifies it:

- `RunManager!Fairness`: a coroutine that is ready is run by the event loop, and
  the storage lane is a FIFO lock whose calls return; so each of the manager's
  steps that stays enabled is taken. An Engine need not end by itself; it ends
  once it is cancelled. `AcceptedSettles` and `WaitEnds` suppose in addition that Engines
  end (`EnginesEnd`); `InterruptReturnsAtLast` and `ShutdownCompletes` do not.
- `StreamBridge!Fairness`: threads are scheduled, a provider call returns (its own
  timeout at the latest), ready callbacks run, the Engine goes on iterating.

No fairness is put on faults, on callers, or on the application. The live run has neither
crashes nor storage faults: the worker that ends under a waiting `wait_idle` is there one
that `shutdown` stops, not one that a failing write kills.

## 4. Findings

`deadline_interrupts`. The worker records INTERRUPTED for any `CancelledError` of the
execution (`runs.py:474-479`). The timeout scope of `BaseEngine` (`base.py:323`) works by
cancelling the task, and that task runs `_consume`. If the deadline passes while `_consume`
awaits the durable write of an event the Engine has yielded, `StorageIO.run` drains the
write and raises `CancelledError` in `_consume` (`storage.py:127-135`): the scope, which is in
the generator, never turns it into a `TimeoutError`. The Run ends interrupted and nobody
asked. `docs/architecture.md:489-490` says that timeouts fail the Run, and
`README.md:455-456` tells a timed-out preparation from an interruption.
`tests/test_base_engine.py:137` has the deadline pass in an await of the Engine's own. What
does hold is `InterruptedForCause`: an interrupted Run was asked to stop itself, or had a
deadline of its own.

`conversation_entry`. `_append` syncs the directory only when the store that
appends had found no file (`conversation.py:69-70`). If the append that creates
the file is cut short after `open`, by a crash or a failing `fsync`, the file
exists and no later append syncs its directory, although each is acknowledged:
a power loss may then take the whole file. `docs/architecture.md:138-141` says
that acknowledged writes remain fsynced and that appends sync the directory on
first creation. The run shows crash, append, acknowledgement, power loss.

`project_failures`. A failing create or clone is answered by `project.deleted = True`
and another save (`projects.py:93-97`, `209-212`). If that save raises too, as it
will on a disk that is full, the Project stays active: every list shows it, and
Tasks can be created in it. `README.md:654-655` and `docs/architecture.md:546` promise a
soft-deleted Project without this exception. What does hold is `SingleFailureHides`: when
one write fails, the first save excepted, the Project is hidden.

Three more disagreements are in the models without a run of their own. The
properties they bear on say so, and claim nothing for these cases:

- *A record applied twice.* `_append` applies its record and then takes a `stat`
  (`conversation.py:72-75`). If the `stat` raises, offset and signature are still those
  from before the record, so that the next refresh applies it again: the text of a
  delta is in the store twice, until the store replays the whole file. If the record is the
  creation, that refresh raises "Duplicate message ID" once and starts afresh. The file
  is right throughout. `CacheIsFile` says of such a store that it has the file's
  records and no others, of every other store that it has each once and in order.
- *A cut permanent delete.* `delete(permanent=True)` removes the tree and leaves
  `project.json` as it is until its turn comes (`projects.py:169-170`, `storage.py:100`). Cut
  in the middle it may leave an active, listed Project whose components have lost
  their configuration. `docs/architecture.md:154-155` warns of partial trees, and not that
  they stay active. `SelectionBacked` excepts just the configurations such a delete
  removed (`erased`), and only until they are initialised again.
- *Restore of a Project in use.* `restore()` does not ask whether the Project is
  deleted, or at rest (`projects.py:178-192`). Called on an active one, it marks it deleted
  when an initializer fails, with runtimes attached and Runs active in it.
  `README.md:818-820` says that these block deletion; `README.md:566` asks callers to
  shut runtimes down before a restore, which does not cover a Run left RUNNING by a process
  that died. `RuntimeBlocksDeletion` excepts a Project this happened to (`taken`), until it
  is active again. No Task in it is ever deleted or erased under its runtime.

`set_components` may raise after its save reached the disk. The new selection is then
in place, and backed; `README.md:655-656` says that a failed update leaves the old one.

Things the model makes visible and that the code does on purpose, or that no
document promises otherwise:

- The first save of a create is outside its handler. If it raises after
  `project.json` was replaced, and likewise if the process dies before the last write,
  an active Project is left whose components are not initialised. No caller was handed
  it; `SelectionBacked` is about those that were. Restoring the deleted Project of a failed
  clone makes the partial copy active.
- `TaskManager.clone` has no handler: a Task clone that fails half-way stays, with the
  messages copied so far.
- A crash between the answer's COMPLETED and the Run's leaves, after recovery, an
  INTERRUPTED Run whose answer is complete. `SettledRunAgrees` is therefore about
  Runs that ended under their worker.
- A request whose append failed may have reached the file all the same. Recovery
  schedules it, in its place in the file; the ledger orders only the acknowledged
  requests, and an unacknowledged one may be passed by later
  ones until the next restart.

## 5. Assumptions

- A file's stamp (device, inode, size, modification time) tells any two of its
  contents apart. Two writes of equal size within one tick of the file system's
  clock would break it.
- `atomic_json` is atomic: it writes a temporary file, syncs and renames it.
- An Engine or a tool raises `CancelledError` only when it was cancelled, by the manager
  or by a deadline of its own, does not swallow it, and does not call operations of its own
  RunManager.
- The event loop is not torn down while a manager is open: nobody else cancels its tasks.
- Run IDs, message IDs and Step IDs of `new_id()` are unique.
- Callers do not edit the files, other than by restoring a copy of the
  conversation between operations.
- The ID of a removed Project may be drawn again in the model, so that few IDs make
  long histories; in the code it is not.

## 6. Proofs

`RunManagerProofs` proves, for any set of requests and any set of faults:

- `TypeCorrect`: `Spec => []TypeOK` (no run checks it as well: it is proved);
- `OneRunPerRequest`: `Spec => []AtMostOneRun`, a request is claimed by one Run at
  most.

`AtMostOneRun` is not inductive: `SaveRun` appends a Run for the message in hand,
so one must know that no Run has claimed it yet. The invariant `RunInv` follows the
message: while it waits on the queue it is *fresh* (QUEUED on disk and unclaimed)
and is there once (`QueueInv`); the one in the worker's hand is not on the
queue and is fresh until its Run is written (`HandInv`); the one a submit has
persisted and not yet inserted is fresh and neither queued nor in hand
(`PutInv`, `SubmitInv`). Recovery rebuilds the queue from what is QUEUED when no claimed input is
(`RecoverInv`), which is the reason it commits the inputs of the Runs
it finds. The conversation lists a message once (`LogInv`), and one that was
never written is unclaimed (`NewUnclaimed`).

The proof has one lemma per action (`EnterKeeps`, ..., `WorkerFailsKeeps`), each
showing the parts its variables occur in; frame lemmas (`DurableFrame`,
`ControlFrame`, `RuntimeFrame`, `CallersFrame`, `QueueFrame`) keep the others.
`RunInvInit`, `RunInvStep` and `RunInvHolds` combine them. The assumptions are those
the module declares: the sentinels are no requests, and faults are among three.

The other two parts of the module extend it to what is on disk and prove every
safety property of the run `scheduler_faults`:

- `OnlyAdvances`, `SettledAgree`, `IdleQuiescent`, `InterruptsSettle`,
  `InterruptedWithCause`, `ClosedHasReleased`: the properties `OnlyForward`,
  `SettledRunAgrees`, `IdleIsQuiescent`, `InterruptSettles`, `InterruptedForCause`
  and `ClosedReleases`;
- `NothingLost` and `IdleSettled`: `NoLostRequest` and `IdleMeansSettled`.

`SettledRunAgrees` needs to know, when `CloseRun` writes, that the answer already has
the same outcome and that no Step is active. So `LastInv` says for each place of the
worker what the Run in hand looks like (Opening, Streaming, Closing), and `CleanInv` that
every *other* Run is over while there is a runtime: whoever left one half-done is a worker
that failed or a process that died, and no runtime is made before recovery has passed
over all of them (`AllOver`). That gives `IdleIsQuiescent`, and `InterruptSettles` since
the Event is set only when the iteration ends. `DiskStep` shows `Forward` of every step
along with the invariant, from the lemma `OwnRunDisk`: the worker rewrites its own
Run only. `AskInv` follows a request to stop from the flag to the outcome, which only a
deadline can reach otherwise, `HoldInv` who
holds the control lock and the Task.

For `NoLostRequest`, `KeptInv` follows an accepted request on disk from `Persist` to the
write of its Run, and `HeldInv` in memory from `Put` to the worker's hand; the lemma
`IterationDone` says that the message a worker drops at the end of an iteration is
settled, and `RecoveredHolds` that a runtime made from disk has what the last one
had. `JoinInv` says where the requests are that `wait_idle` is waiting for. There the
sentinel matters: a closing worker throws away the messages it takes, and only because
the sentinel is still behind them the queue does not count as joined
(`closed /\ Live => InQueue(Stop)`).

It also proves `LedgerImplemented`, that is `Spec => ImplementsLedger`: the
initial states map to the ledger's, and every step is `Accept` (`PersistAccepts`),
`Acknowledge` (`PutAcknowledges`), `Claim` (`SaveRunClaims`), `Settle` (`StatusSettles`, by
the worker or by recovery) or shows nothing (`Unseen`, `RewriteSeen`). That `Claim`
finds no other request claimed is `AllOver`; that it is the request's turn needs `OrderInv`,
which keeps the queue in the order of the conversation: a submit is the last of it while it
holds the lock (`PutOrder`), recovery reads it in that order (`RecoveredOrder`), and
`HeldInv` says that an accepted request which waits is on the queue (`LoopOrder`).

`WorkspaceOwnershipProofs` proves, for any number of owners, managers and Tasks and
any number of crashes, every property of the `ownership` run:

- `TypeCorrect`: among the rest, a reference count never goes below zero;
- `ReferencesAreExact`: `ReferencesExact`;
- `OneRuntimePerTask`: `OneRuntime`;
- `AttachedIsUntouched`: the action property `AttachedUntouched`.

None of the three is inductive. `OwnInv` adds that a manager with a transaction has
its owner's mutex (`MutexInv`), that a transaction which was told to go on may still
go on (`CheckInv`), that the count is of the claimed Tasks and of whoever is inside
the scope (`CountInv`, `LockInv`), and that what a manager has attached its owner has
claimed (`ClaimInv`). The step the argument turns on is the lemma `Exclusive`: a
manager inside its scope is the only one inside the workspace, and no other owner has
a runtime. So nobody else can change what `Check` read until the write
(`AloneChecked`, `StillAllowed`), and the Task that `Attach` claims cannot be another
process's. One lemma per action (`EnterKeeps`, ..., `CrashKeeps`) shows the parts of
`OwnInv`; `AttachedUntouched` then follows from `OwnInv`, as only `Save` changes a
Task's status. The assumptions are `OwnersAssumption`: every manager has an owner, the
Tasks are finitely many, and the sentinel is neither owner nor manager.

`ConversationStoreProofs` proves, for any number of stores and records of any sizes:

- `RecordsAlwaysDecode`, `CacheIsTheFile`, `DeltasPrecedeTheEnd`: the properties
  `RecordsDecode`, `CacheIsFile` and `NoDeltaAfterEnd`, under every fault, the failing
  `stat` of an append included;
- `AcknowledgedRecordsStay`: `AcknowledgedStays`, if no power loss takes a file whose
  directory entry was not synced (`"entry" \notin Faults`). Without this hypothesis it is
  false, which is what the run `conversation_entry` finds.

None of these is inductive. `CacheInv` says what a store knows of a file that others
append to: what it has applied is the beginning of the file and its offset the position
after it, whether its stamp is stale or not, unless the file was replaced; so that reading
on from there yields just what is missing. Of a store in `ahead` it claims less: it
has what comes before its offset, and nothing that is not in the file (`Covers`); that is
enough to admit or refuse an event as the file would, which is why `NoDeltaAfterEnd` needs
no exception. `OpInv` follows the operation in
progress: until it writes, its store has the whole file, and a delta finds no end there;
once it has written, its record is the last and nothing is torn before it. `FileInv` adds that
records end one after the other (`Positions`). `AckInv` says that acknowledged records
are at the beginning of the file, within what is synced.

`LogImplemented` is `Spec => ImplementsLog`, under the same hypothesis. An append is
`Call` when it has refreshed its store and been admitted (`BeginCalls`), `TakeEffect` when
its record is written (`WriteTakesEffect`) and `Acknowledge` when it returns
(`ApplyAcknowledges`), unless it raises in between (`FailRaises`). Repairs and syncs show
nothing, a refresh is `Read` because it yields the file however stale the store was
(`RefreshLearns`; a store in `ahead` maps to the view `Unsure`, which `DurableLog`
allows and promises nothing about), and what a crash or a power loss takes nobody was told of
(`LossRestarts`, from `AckInv`). That admission is decided on the whole log, and not on what
the store had last seen of it, is in `BeginCalls`.

`StepEventsProofs` proves, for Engines and pipelines of any length, any Step IDs and any
number of completions, every property of the run `step_events`:

- `RunsAgree`, `UsageCounts`: `RunAgreesWithSteps`, `UsageIsWhole`;
- `StagesFollowSuccess`, `StepsEndOnce`: the action properties `NoStageAfterFailure`,
  `EndedOnce`.

The pipeline decides by the events it has seen, and the properties are about the disk.
`PipeInv` ties the two: a Step that is not in the pipeline's `active` set has not begun
or has completed, the Step whose end is being recorded excepted. `EndInv` says in which
places a Run with a given outcome can be, `StartInv` that the second half of recording a
start finds a pending Step. `CallInv` is about observations: one reaches `run.json` before
the provider is called, and none says completed, or whole, of a stream that is not over.

`StreamBridgeProofs` proves, for any buffer and streams of any length, both safety
properties of the run `bridge`:

- `NothingIsLost`: `NothingLost`;
- `StreamIsReleased`: `StreamReleased`.

Lists are awkward to reason about, and `FlowInv` does without comparing them: while the consumer
reads, what it has had, what is queued and the put in flight are the items 1, 2, 3, ...
of the stream (`Item`), and the thread's place says how many they are (`Counted`). So an
item is never sent twice and none is skipped; the end is sent only when all chunks are, and
`EndInv` is what a consumer that has seen it may conclude. `StreamInv` says where the thread
is while the stream is open. The length of the provider's stream appears in no proof.

`LoopEngineProofs` proves, for any call IDs and any limits, every property of the run
`tool_loop`:

- `CallsRunOnce`, `RequestsAreWhole`, `ToolsSeen`: `NoCallTwice`, `RequestWellFormed`,
  `ToolsAreSeen`.

`OnceInv` says that what is left of a batch was never run and that no two of it are one
call. `TranscriptInv` is `RequestWellFormed` while the results are still coming in: the
place of each result is filled, or belongs to a call of the batch that is still to run.
`ExecInv` counts the messages that are no responses: the n-th of them is the result of the
n-th call executed, but for the one whose tool is running (`TurnsOfAdded`, with the
library's theorems on cardinality). `RoundInv` bounds the rounds, so that a batch of the last
one is never begun.

`ConversationContextProofs` proves, for any requests, both properties of the run `context`:

- `ContextAlwaysIsTurns`: `ContextIsTurns`;
- `ContextAlwaysGrows`: the action property `ContextGrows`.

What a sort and filters compute for every sequence would take induction over data.
Here nothing is computed along the sequence: the order is a strict linear one of positions
(`OrderedIsTotal`), so `Listed` enumerates a set of positions in that order (`ListedSorts`)
and nothing else does (`ListedIs`); to know the context it is enough to exhibit an
enumeration of what was selected. It is all of `turns` but the last (`ContextIs`): `InTurn`
says that what is committed or answered in the file is what is in `turns`, and that two turns are in the file's order as they are in `turns`. That an answer stays
behind its own input and before the next, though it is written after inputs that were
queued meanwhile, needs that those have no Run and stand later in the file (the last part of
`InTurn`), which is why the manager must take them in the order of the file:
`QueueInv` for the queue, `First` for the input a Run has claimed and not yet
committed, which recovery commits before any other. `Sound` says that a message is there once
and carries no Run but its own. A clone is written in the old order (`CloneTurn`), so that
the Run links it loses are no longer needed. The one assumption is that the sentinel for
"no Run" is no request.
`ContextGrows` adds `ShownInv`: what was last shown is a prefix of `turns`, and a proper one
of its front by the time the next context is built.

`ProjectLifecycleProofs` proves, for any Projects, components, Tasks, numbers of
messages and of failing writes, every property of the run `project_lifecycle`:

- `RuntimesBlockDeletion`, `SelectionIsBacked`, `OneFailureHides`, `ClonesAreWhole`:
  `RuntimeBlocksDeletion`, `SelectionBacked`, `SingleFailureHides`, `ReturnedIsWhole`.

They suppose nothing of how `restore()` or a permanent delete is called or cut; the two
cases of section 4 are exceptions in the properties themselves.

`RuntimeBlocksDeletion` is not inductive: an operation looks for runtimes once, before
its first write, and marks or erases many steps later. `LifeInv` adds `TypeOK` and what
an operation relies on until it ends (`Sound`): one that may leave its Project
deleted or gone (`Ending`), `restore` apart, found the whole Project free of runtimes and
Runs; only the permanent `delete` erases `project.json`; a Task whose files are erased is
inactive; a change of the selection or a restore writes an active Project; only
operations of `Ending` have a handler. Nothing undoes these while the operation holds the
lock (`SoundStays`), since no runtime comes and no Run begins. A create or a clone may
discard its Project because nothing can run in a new one (`UnusedIsFree`); a restore
whose Project is in use leaves it among those `taken`.
One lemma per action (`CreateKeeps`, ..., `RuntimeKeeps`) shows that `LifeInv` stays;
`LifeInvInit`, `LifeInvStep` and `LifeInvHolds` combine them. The bounds on users'
contents and on failures are parameters of which only `LifecycleAssumption` is used.

For `SelectionBacked`, the invariant `SelInv` counts what a permanent delete has removed
as accounted for (`Accounted`, `SelectionHeld`), and says of an operation
what the order of its stages has ensured (`Backed`): whoever publishes a selection has
initialised it (`select`, `restore`), or takes it from one that is published
(`disable`, `purge`), or nobody has been handed the Project yet (`Making`); whoever is
past its publication finds `project.json` as it wrote it (`Published`), past its
initialisation every selected component configured (`Initialized`); and a `purge` erases
only files of a component that is not selected any more. `StagePlaces` and `StageEnds`
tie the stages of `Program` to these facts, so that a program in another order
breaks the proof; one lemma per action or group of actions (`CreateBacked`, ...,
`TasksBacked`) carries them.

For `SingleFailureHides` and `ReturnedIsWhole`, `WholeInv` says of a clone in progress
(`Copying`) that what it has copied is still what its source has. It writes its own Project
only, each Task of it once (`Apart`); its source was at rest when it began, and rests
while the lock is held; a Task it has not begun is not there (`NothingLeft`: a new
Project has no Task left over), and one it has begun is its own. `AdvanceWhole` collects what
the end of a stage has established, `ReturnWhole` concludes. An exception is caught at
every stage but the first (`Caught`), and a handler that fails makes it two failures.

Only model-checked: liveness under fairness (`InterruptReturnsAtLast`, `ShutdownCompletes`,
`WaitEnds`, `AcceptedSettles`, `ThreadEnds`, `ConsumerEnds`), which these provers do not
reach, nor anything with ENABLED. Every other property of a run without a violation is proved.

The three findings' runs are violations, and there is nothing to prove about them but the
hypotheses and the weaker properties named above.

## 7. Not modelled, and why

- Path containment and link checks: walks over a file system.
- Models, paths, logging, completion parameters, inference clients, the reports of
  `services/results.py`: pure functions, records or single calls without transitions.
- Components that override cloning or keep artifacts outside the common layout;
  registration and JSON validation. LoopEngine takes a tool's verdict on its arguments
  as a choice.
- A component that a Project selects and that is not registered: every operation
  refuses before its first write.
- The scope that tells a Step's deadline from a cancellation (`async_timeout`, or
  asyncio's): external. Which cancellations reach it, and which pass it by, is modelled
  where it matters, in `RunManager` (`DeadlineExpires`); in `StepEvents` a cancellation may
  come from either and any cancelled Step may end interrupted.
- Forked children of an owner (they refuse to retain) and Windows locking.
- Event callbacks: they run after the durable write they report and their
  exceptions are logged.

## 8. Plan

Done, in order: RunManager and RequestLedger, their proofs, ConversationStore,
WorkspaceOwnership and its proofs, StreamBridge, StepEvents, LoopEngine,
ConversationContext, ProjectLifecycle, the observations of completions, the proofs
about ProjectLifecycle, the proofs of the rest of RunManager's safety properties and of
the refinement, the proofs about ConversationStore, StepEvents, StreamBridge and
LoopEngine, those of what creations and clones leave, the order of turns as a relation and
the proofs about ConversationContext, and DurableLog with the proof that
ConversationStore implements it.

Next: a refinement for the observations of completions (an account that is charged once a
call), and a composition of RequestLedger with DurableLog, in which a claim and a
settlement are records of one conversation.
