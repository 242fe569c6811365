----------------------------- MODULE RunManager -----------------------------
(***************************************************************************)
(* The Task-bound scheduler of src/ish/services/runs.py: requests are      *)
(* written to the conversation as QUEUED, put on an in-memory queue, and a *)
(* single worker turns each of them into one Run.                          *)
(*                                                                         *)
(* Every durable write is a step of its own, so that a crash can fall      *)
(* between any two of them; what the event loop does between two awaits is *)
(* one step.  The serial storage lane (StorageIO) keeps the writes of one  *)
(* operation together: another storage operation waits for the lane, while *)
(* event-loop code (interrupt, shutdown, queue insertion) may run between. *)
(***************************************************************************)
EXTENDS Naturals, Sequences, FiniteSets

CONSTANTS
    Requests,    \* the user messages callers may submit, each once
    NoRequest,   \* "no message in the worker's hand"
    Stop,        \* the None sentinel shutdown puts on the queue
    Faults       \* the faults of this instance: "crash", "storage" and "deadline"

ASSUME RequestsAssumption ==
    NoRequest \notin Requests /\ Stop \notin Requests /\ Stop # NoRequest
ASSUME FaultsAssumption == Faults \subseteq {"crash", "storage", "deadline"}

VARIABLES
    log,         \* durable: the requests in the order of the conversation file
    msg,         \* durable: status of each request's user message
    runs,        \* durable: the run.json files, in creation order
    current,     \* durable: task.json's current_run_id (0 is null, Task IDLE)
    call,        \* the operation that holds the control lock
    pc,          \* where that operation is
    req,         \* the request a submit is admitting
    closed,      \* _closed, and runtime.closed when a runtime exists
    attached,    \* the Task is in TaskManager._attached and claimed
    worker,      \* where the worker is; "none" when _active is None
    hand,        \* the message the worker took from the queue
    queue,       \* runtime.queue
    intReq,      \* runtime.interrupt_requested
    outcome,     \* how the execution ended, while _finish is writing it
    interrupt,   \* a caller of interrupt() and the iteration whose Event it holds
    waiter,      \* a caller of wait_idle()
    awaited,     \* history: what had been accepted when wait_idle was called
    accepted,    \* history: the requests whose submit returned
    asked,       \* history: the requests whose execution somebody asked to stop
    expired      \* history: the requests whose execution a deadline has cancelled

durable == <<log, msg, runs, current>>
control == <<call, pc, req, closed, attached>>
runtime == <<worker, hand, queue, intReq, outcome>>
callers == <<interrupt, waiter, awaited, accepted, asked, expired>>
vars == <<durable, control, runtime, callers>>

-----------------------------------------------------------------------------
(* Statuses.  A "bound" message is still QUEUED but already names its Run;   *)
(* a "recovered" Run is INTERRUPTED with error code process_restart.         *)

MessageStatus == {"new", "queued", "bound", "committed"}
Queued == {"queued", "bound"}
ActiveRun == {"pending", "running"}
Outcomes == {"completed", "interrupted", "failed"}
TerminalRun == Outcomes \cup {"recovered"}
Run == [input : Requests, status : ActiveRun \cup TerminalRun,
        step : {"quiet", "active", "failed"},
        answer : {"none", "streaming"} \cup Outcomes]

\* The worker's places, by what it does next.  "get" is queue.get() on an empty
\* queue; the two write sequences are _begin and _finish.
BeginWrites == {"saveRun", "bindInput", "commitInput", "openAnswer", "markTask", "startRun"}
FinishWrites == {"closeSteps", "closeAnswer", "closeRun", "clearTask"}
Executing == {"running", "cancelling"}
Preparing == {"load", "begun"} \cup BeginWrites
Exited == {"stopped", "failed"}
WorkerPlaces == {"none", "start", "get", "settled"} \cup Preparing \cup Executing
                  \cup FinishWrites \cup Exited

last == Len(runs)                              \* the Run of the message in hand
Claimed(r) == \E i \in DOMAIN runs : runs[i].input = r
Settled(r) == \E i \in DOMAIN runs : runs[i].input = r /\ runs[i].status \in TerminalRun
LaneFree == worker \notin BeginWrites \cup FinishWrites

-----------------------------------------------------------------------------
Init ==
    /\ log = <<>> /\ msg = [r \in Requests |-> "new"] /\ runs = <<>> /\ current = 0
    /\ call = "none" /\ pc = "none" /\ req = NoRequest /\ closed = FALSE /\ attached = FALSE
    /\ worker = "none" /\ hand = NoRequest /\ queue = <<>> /\ intReq = FALSE
    /\ outcome = "completed"
    /\ interrupt = [at |-> "idle", on |-> NoRequest]
    /\ waiter = "idle" /\ awaited = {} /\ accepted = {} /\ asked = {}
    /\ expired = {}

-----------------------------------------------------------------------------
(* Operations under the control lock: start, submit, wait_idle's start.      *)

Release == call' = "none" /\ pc' = "none" /\ req' = NoRequest

\* start() and wait_idle(): the lock is taken and _runtime begins.
Enter(c) ==
    /\ call = "none" /\ ~closed
    /\ c = "wait" => waiter \notin {"joining", "joined"}
    /\ call' = c /\ pc' = "prepare"
    /\ UNCHANGED <<durable, req, closed, attached, runtime, callers>>

\* submit(): the request is validated before a runtime is asked for.
Submit(r) ==
    /\ call = "none" /\ ~closed
    /\ msg[r] = "new"
    /\ call' = "submit" /\ pc' = "prepare" /\ req' = r
    /\ UNCHANGED <<durable, closed, attached, runtime, callers>>

\* The request or the Task does not validate, or the worker has already ended.
Refuse ==
    /\ pc = "prepare"
    /\ Release
    /\ UNCHANGED <<durable, closed, attached, runtime, callers>>

\* What the holder of the lock does once _runtime has returned: wait_idle joins
\* the queue and drops the lock, submit goes on to persist.
Granted(q, h) ==
    IF call = "submit"
    THEN /\ pc' = "persist"
         /\ UNCHANGED <<call, req, waiter, awaited>>
    ELSE /\ Release
         /\ IF call = "wait"
            THEN /\ waiter' = IF q = <<>> /\ h = NoRequest THEN "joined" ELSE "joining"
                 /\ awaited' = accepted
            ELSE UNCHANGED <<waiter, awaited>>

\* _runtime with a live worker.
UseRuntime ==
    /\ pc = "prepare" /\ worker \notin Exited \cup {"none"}
    /\ Granted(queue, hand)
    /\ UNCHANGED <<durable, closed, attached, runtime, interrupt, accepted, asked, expired>>

\* _runtime without one: attach, then recover under the same ownership scope.
Attach ==
    /\ pc = "prepare" /\ worker = "none" /\ ~attached
    /\ attached' = TRUE /\ pc' = "recover"
    /\ UNCHANGED <<durable, call, req, closed, runtime, callers>>

-----------------------------------------------------------------------------
(* _recover, one durable write a step.  For each Run in creation order:      *)
(* its Steps, its own status, its input; then the answers; then the Task.    *)

\* Mutant: recovery that leaves the input of a claimed Run QUEUED.
RunClean_ForgetsInput(i) == runs[i].step # "active" /\ runs[i].status \in TerminalRun

RunClean(i) == /\ runs[i].step # "active"
               /\ runs[i].status \in TerminalRun
               /\ msg[runs[i].input] = "committed"
InTurn(i) == \A j \in 1..(i - 1) : RunClean(j)

RecoverSteps(i) ==
    /\ runs[i].step = "active"
    /\ runs' = [runs EXCEPT ![i].step = "quiet"]
    /\ UNCHANGED msg

\* Mutant: recovery marks every Run it reads, terminal ones too.
RecoverRun_All(i) ==
    /\ runs[i].step # "active"
    /\ runs' = [runs EXCEPT ![i].status = "recovered"]
    /\ UNCHANGED msg

RecoverRun(i) ==
    /\ runs[i].step # "active" /\ runs[i].status \in ActiveRun
    /\ runs' = [runs EXCEPT ![i].status = "recovered"]
    /\ UNCHANGED msg

\* bind_run, then set_status(COMMITTED): a claimed input is never replayed.
RecoverInput(i) ==
    /\ runs[i].step # "active" /\ runs[i].status \in TerminalRun
    /\ msg[runs[i].input] \in Queued
    /\ msg' = [msg EXCEPT ![runs[i].input] = IF @ = "queued" THEN "bound" ELSE "committed"]
    /\ UNCHANGED runs

RecoverAnswer(i) ==
    /\ \A j \in DOMAIN runs : RunClean(j)
    /\ runs[i].answer = "streaming"
    /\ runs' = [runs EXCEPT ![i].answer = "interrupted"]
    /\ UNCHANGED msg

RecoverWrite(i) ==
    \/ InTurn(i) /\ (RecoverSteps(i) \/ RecoverRun(i) \/ RecoverInput(i))
    \/ RecoverAnswer(i)

Recover ==
    /\ pc = "recover"
    /\ \E i \in DOMAIN runs : RecoverWrite(i)
    /\ UNCHANGED <<log, current, control, runtime, callers>>

\* Mutant: recovery forgets the answers that were streaming.
RecoverTask_NoAnswers ==
    /\ pc = "recover"
    /\ \A i \in DOMAIN runs : RunClean(i)
    /\ current' = 0
    /\ pc' = "recovered"
    /\ UNCHANGED <<log, msg, runs, call, req, closed, attached, runtime, callers>>

RecoverTask ==
    /\ pc = "recover"
    /\ \A i \in DOMAIN runs : RunClean(i) /\ runs[i].answer # "streaming"
    /\ current' = 0
    /\ pc' = "recovered"
    /\ UNCHANGED <<log, msg, runs, call, req, closed, attached, runtime, callers>>

\* A storage failure while recovering: detach and raise.
RecoverFails ==
    /\ "storage" \in Faults /\ pc \in {"recover", "recovered"}
    /\ attached' = FALSE
    /\ Release
    /\ UNCHANGED <<durable, closed, runtime, callers>>

\* Mutants: only new requests are scheduled; the newest request runs first.
RecoveredQueue_OnlyNew == {<<>>}
RecoveredQueue_NewestFirst ==
    LET q == SelectSeq(log, LAMBDA r : msg[r] \in Queued)
    IN  {[k \in DOMAIN q |-> q[Len(q) + 1 - k]]}

\* The durable QUEUED messages in their order (the set holds that one sequence).
RecoveredQueue ==
    LET W == {r \in Requests : msg[r] \in Queued}
    IN  {q \in UNION {[1..n -> W] : n \in 0..Len(log)} :
           /\ \A r \in W : \E k \in DOMAIN q : q[k] = r
           /\ \A i, j \in DOMAIN q : i < j =>
                 \E m, n \in DOMAIN log : m < n /\ log[m] = q[i] /\ log[n] = q[j]}

CreateRuntime ==
    /\ pc = "recovered"
    /\ \E q \in RecoveredQueue : queue' = q /\ Granted(q, NoRequest)
    /\ worker' = "start" /\ hand' = NoRequest /\ intReq' = FALSE
    /\ UNCHANGED <<durable, closed, attached, outcome, interrupt, accepted, asked, expired>>

-----------------------------------------------------------------------------
(* The rest of submit: the QUEUED message is written, then inserted.         *)

Persist ==
    /\ pc = "persist" /\ LaneFree
    /\ msg' = [msg EXCEPT ![req] = "queued"]
    /\ log' = Append(log, req)
    /\ pc' = "put"
    /\ UNCHANGED <<runs, current, call, req, closed, attached, runtime, callers>>

\* The append or its fsync fails; the line may be in the file all the same.
PersistFails ==
    /\ "storage" \in Faults /\ pc = "persist" /\ LaneFree
    /\ \/ UNCHANGED <<msg, log>>
       \/ msg' = [msg EXCEPT ![req] = "queued"] /\ log' = Append(log, req)
    /\ Release
    /\ UNCHANGED <<runs, current, closed, attached, runtime, callers>>

Put ==
    /\ pc = "put"
    /\ queue' = Append(queue, req)
    /\ accepted' = accepted \cup {req}
    /\ Release
    /\ UNCHANGED <<durable, closed, attached, worker, hand, intReq, outcome,
                   interrupt, waiter, awaited, asked, expired>>

-----------------------------------------------------------------------------
(* The worker.                                                               *)

\* runtime.finished.set() wakes the caller of interrupt() that holds the Event.
WakeInterrupt ==
    interrupt' = IF interrupt.at = "waiting" THEN [interrupt EXCEPT !.at = "woken"]
                                             ELSE interrupt

\* Mutants: a message counts as done when it is taken; only the join is awaited.
WakeWaiter_DoneWhenTaken ==
    waiter' = IF waiter = "joining" /\ queue' = <<>> THEN "joined" ELSE waiter
WakeWaiter_JoinOnly ==
    waiter' = IF waiter = "joining" /\ queue' = <<>> /\ hand' = NoRequest THEN "joined"
              ELSE waiter

\* task_done() may complete the join wait_idle is in; a worker that ends first
\* makes wait_idle raise.
WakeWaiter ==
    waiter' = IF waiter \notin {"joining", "joined"} THEN waiter
              ELSE IF worker' = "failed" THEN "raised"
              ELSE IF waiter = "joined" \/ (queue' = <<>> /\ hand' = NoRequest) THEN "joined"
              ELSE IF worker' = "stopped" THEN "raised"
              ELSE waiter

\* Mutant: the interrupt flag of the previous message is kept.
Take_KeepsFlag ==
    /\ queue' = Tail(queue) /\ UNCHANGED intReq
    /\ IF closed \/ Head(queue) = Stop
       THEN worker' = "stopped" /\ hand' = NoRequest
       ELSE worker' = "load" /\ hand' = Head(queue)

\* An iteration of the loop that has a message: preparing, a cleared interrupt
\* flag and a fresh Event.  A closed runtime or the sentinel ends the worker.
Take ==
    /\ queue' = Tail(queue)
    /\ IF closed \/ Head(queue) = Stop
       THEN worker' = "stopped" /\ hand' = NoRequest /\ UNCHANGED intReq
       ELSE worker' = "load" /\ hand' = Head(queue) /\ intReq' = FALSE

\* while not runtime.closed: await runtime.queue.get()
LoopHead ==
    IF closed
    THEN worker' = "stopped" /\ hand' = NoRequest /\ UNCHANGED <<queue, intReq>>
    ELSE IF queue = <<>>
    THEN worker' = "get" /\ hand' = NoRequest /\ UNCHANGED <<queue, intReq>>
    ELSE Take

WorkerStarts ==
    /\ worker = "start"
    /\ LoopHead
    /\ WakeWaiter
    /\ UNCHANGED <<durable, control, outcome, interrupt, awaited, accepted, asked, expired>>

WorkerGets ==
    /\ worker = "get" /\ queue # <<>>
    /\ Take
    /\ WakeWaiter
    /\ UNCHANGED <<durable, control, outcome, interrupt, awaited, accepted, asked, expired>>

\* The end of an iteration: finished.set(), task_done(), and the loop head.
EndIteration ==
    /\ LoopHead
    /\ WakeInterrupt /\ WakeWaiter
    /\ UNCHANGED <<durable, control, outcome, awaited, accepted, asked, expired>>

\* The message is loaded; a closed runtime leaves it QUEUED.
Load ==
    /\ worker = "load"
    /\ IF closed \/ msg[hand] \notin Queued
       THEN EndIteration
       ELSE /\ worker' = "saveRun"
            /\ UNCHANGED <<durable, control, hand, queue, intReq, outcome, callers>>

\* _begin: run.json PENDING claims the message before anything else is written.
SaveRun ==
    /\ worker = "saveRun" /\ worker' = "bindInput"
    /\ runs' = Append(runs, [input |-> hand, status |-> "pending",
                             step |-> "quiet", answer |-> "none"])
    /\ UNCHANGED <<log, msg, current>>

BindInput ==
    /\ worker = "bindInput" /\ worker' = "commitInput"
    /\ msg' = [msg EXCEPT ![hand] = "bound"]
    /\ UNCHANGED <<log, runs, current>>

CommitInput ==
    /\ worker = "commitInput" /\ worker' = "openAnswer"
    /\ msg' = [msg EXCEPT ![hand] = "committed"]
    /\ UNCHANGED <<log, runs, current>>

OpenAnswer ==
    /\ worker = "openAnswer" /\ worker' = "markTask"
    /\ runs' = [runs EXCEPT ![last].answer = "streaming"]
    /\ UNCHANGED <<log, msg, current>>

MarkTask ==
    /\ worker = "markTask" /\ worker' = "startRun"
    /\ current' = last
    /\ UNCHANGED <<log, msg, runs>>

StartRun ==
    /\ worker = "startRun" /\ worker' = "begun"
    /\ runs' = [runs EXCEPT ![last].status = "running"]
    /\ UNCHANGED <<log, msg, current>>

Begin ==
    /\ SaveRun \/ BindInput \/ CommitInput \/ OpenAnswer \/ MarkTask \/ StartRun
    /\ UNCHANGED <<control, hand, queue, intReq, outcome, callers>>

\* Mutants: a stop that came while the Run was being prepared is forgotten.
Execute_IgnoresInterrupt ==
    /\ worker = "begun"
    /\ worker' = IF closed THEN "cancelling" ELSE "running"
    /\ UNCHANGED <<durable, control, hand, queue, intReq, outcome, callers>>
Execute_IgnoresShutdown ==
    /\ worker = "begun"
    /\ worker' = IF intReq THEN "cancelling" ELSE "running"
    /\ UNCHANGED <<durable, control, hand, queue, intReq, outcome, callers>>

\* The execution is created, and cancelled at once when a stop came meanwhile.
Execute ==
    /\ worker = "begun"
    /\ worker' = IF closed \/ intReq THEN "cancelling" ELSE "running"
    /\ UNCHANGED <<durable, control, hand, queue, intReq, outcome, callers>>

-----------------------------------------------------------------------------
(* The Engine, external except for what the recorder and _consume keep of    *)
(* it: Steps start and end, and the execution ends in one of three ways.     *)

EngineStep ==
    /\ worker \in Executing
    /\ \/ /\ runs[last].step = "quiet"
          /\ runs' = [runs EXCEPT ![last].step = "active"]
       \/ /\ runs[last].step = "active"
          /\ \E s \in {"quiet", "failed"} : runs' = [runs EXCEPT ![last].step = s]
    /\ UNCHANGED <<log, msg, current, control, runtime, callers>>

\* Mutant: the Event is set when the execution ends, before _finish has written.
EngineEnds_SetsEvent ==
    /\ worker \in Executing
    /\ outcome' = IF worker = "cancelling" THEN "interrupted" ELSE "failed"
    /\ worker' = "closeSteps"
    /\ WakeInterrupt
    /\ UNCHANGED <<durable, control, hand, queue, intReq, waiter, awaited, accepted, asked, expired>>

\* An execution that was not cancelled completes only with every Step ended and
\* none failed; a cancelled one is interrupted unless an error surfaces first.
EngineEnds ==
    /\ worker \in Executing
    /\ \/ worker = "running" /\ runs[last].step = "quiet" /\ outcome' = "completed"
       \/ worker = "cancelling" /\ outcome' = "interrupted"
       \/ outcome' = "failed"
    /\ worker' = "closeSteps"
    /\ UNCHANGED <<durable, control, hand, queue, intReq, callers>>

\* A deadline of the Engine's own cancels the task that executes it.  Where that task
\* awaits the Engine's work, a timeout scope makes an error of the cancellation, and the
\* execution fails (EngineEnds).  Where the Engine has yielded an event and the task
\* awaits the event's durable write, the write is drained and the cancellation goes on,
\* past the scope: the Run ends as if somebody had stopped it.
DeadlineExpires ==
    /\ "deadline" \in Faults /\ worker = "running"
    /\ outcome' = "interrupted" /\ expired' = expired \cup {hand}
    /\ worker' = "closeSteps"
    /\ UNCHANGED <<durable, control, hand, queue, intReq,
                   interrupt, waiter, awaited, accepted, asked>>

-----------------------------------------------------------------------------
(* _finish, and the end of the iteration.                                    *)

\* Mutant: only a failed Run closes its Steps.
CloseSteps_OnlyFailed ==
    /\ worker = "closeSteps" /\ worker' = "closeAnswer"
    /\ runs' = [runs EXCEPT ![last].step =
                    IF @ = "active" /\ outcome = "failed" THEN "failed" ELSE @]
    /\ UNCHANGED current

CloseSteps ==
    /\ worker = "closeSteps" /\ worker' = "closeAnswer"
    /\ runs' = [runs EXCEPT ![last].step =
                    IF @ # "active" THEN @
                    ELSE IF outcome = "failed" THEN "failed" ELSE "quiet"]
    /\ UNCHANGED current

CloseAnswer ==
    /\ worker = "closeAnswer" /\ worker' = "closeRun"
    /\ runs' = [runs EXCEPT ![last].answer = outcome]
    /\ UNCHANGED current

CloseRun ==
    /\ worker = "closeRun" /\ worker' = "clearTask"
    /\ runs' = [runs EXCEPT ![last].status = outcome]
    /\ UNCHANGED current

ClearTask ==
    /\ worker = "clearTask" /\ worker' = "settled"
    /\ current' = 0
    /\ UNCHANGED runs

Finish ==
    /\ CloseSteps \/ CloseAnswer \/ CloseRun \/ ClearTask
    /\ UNCHANGED <<log, msg, control, hand, queue, intReq, outcome, callers>>

Settle == worker = "settled" /\ EndIteration

\* A storage failure in get, _begin or _finish ends the worker; its finally
\* clauses still set the Event and count the message as done.
WorkerFails ==
    /\ "storage" \in Faults
    /\ worker \in Preparing \cup FinishWrites \cup {"settled"}
    /\ worker' = "failed" /\ hand' = NoRequest
    /\ UNCHANGED <<queue, intReq>>
    /\ WakeInterrupt /\ WakeWaiter
    /\ UNCHANGED <<durable, control, outcome, awaited, accepted, asked, expired>>

-----------------------------------------------------------------------------
(* interrupt, wait_idle, shutdown: event-loop code outside the storage lane. *)

\* interrupt() without an execution to stop returns False and changes nothing.
Interrupt ==
    /\ interrupt.at = "idle"
    /\ worker \in Preparing \cup Executing
    /\ interrupt' = [at |-> "waiting", on |-> hand]
    /\ intReq' = TRUE
    /\ worker' = IF worker \in Executing THEN "cancelling" ELSE worker
    /\ asked' = asked \cup {hand}
    /\ UNCHANGED <<durable, control, hand, queue, outcome, waiter, awaited, accepted, expired>>

InterruptReturns ==
    /\ interrupt.at = "woken"
    /\ interrupt' = [at |-> "idle", on |-> NoRequest]
    /\ UNCHANGED <<durable, control, runtime, waiter, awaited, accepted, asked, expired>>

WaitReturns ==
    /\ waiter = "joined" /\ waiter' = "idle" /\ awaited' = {}
    /\ UNCHANGED <<durable, control, runtime, interrupt, accepted, asked, expired>>

\* Mutant: shutdown does not take the control lock.
Shutdown_NoLock ==
    /\ closed' = TRUE
    /\ IF worker = "none"
       THEN UNCHANGED <<call, pc, worker, queue>>
       ELSE /\ call' = "shutdown" /\ pc' = "await"
            /\ worker' = IF worker \in Executing THEN "cancelling" ELSE worker
            /\ queue' = Append(queue, Stop)
    /\ UNCHANGED <<durable, req, attached, hand, intReq, outcome, callers>>

Shutdown ==
    /\ call = "none"
    /\ closed' = TRUE
    /\ IF worker = "none"
       THEN UNCHANGED <<call, pc, worker, queue, asked>>
       ELSE /\ call' = "shutdown" /\ pc' = "await"
            /\ worker' = IF worker \in Executing THEN "cancelling" ELSE worker
            /\ queue' = Append(queue, Stop)
            /\ asked' = IF hand = NoRequest THEN asked ELSE asked \cup {hand}
    /\ UNCHANGED <<durable, req, attached, hand, intReq, outcome,
                   interrupt, waiter, awaited, accepted, expired>>

\* The worker has ended: detach and forget the runtime and its queue.
ShutdownEnds ==
    /\ pc = "await" /\ worker \in Exited
    /\ attached' = FALSE /\ worker' = "none" /\ queue' = <<>> /\ hand' = NoRequest
    /\ Release
    /\ UNCHANGED <<durable, closed, intReq, outcome, callers>>

\* The application builds the next RunManager for the Task.
NewManager ==
    /\ closed /\ call = "none" /\ worker = "none"
    /\ closed' = FALSE
    /\ UNCHANGED <<durable, call, pc, req, attached, runtime, callers>>

\* The process dies and another one builds a RunManager.
Crash ==
    /\ "crash" \in Faults
    /\ call' = "none" /\ pc' = "none" /\ req' = NoRequest /\ closed' = FALSE /\ attached' = FALSE
    /\ worker' = "none" /\ hand' = NoRequest /\ queue' = <<>> /\ intReq' = FALSE
    /\ outcome' = "completed"
    /\ interrupt' = [at |-> "idle", on |-> NoRequest]
    /\ waiter' = "idle" /\ awaited' = {}
    /\ UNCHANGED <<durable, accepted, asked, expired>>

-----------------------------------------------------------------------------
RunNext == Attach \/ Refuse \/ UseRuntime \/ Recover \/ RecoverTask \/ CreateRuntime
             \/ Persist \/ Put
WorkerNext == WorkerStarts \/ WorkerGets \/ Load \/ Begin \/ Execute \/ Finish \/ Settle
CallerNext == InterruptReturns \/ WaitReturns
FaultNext == RecoverFails \/ PersistFails \/ WorkerFails \/ Crash

Next ==
    \/ \E c \in {"start", "wait"} : Enter(c)
    \/ \E r \in Requests : Submit(r)
    \/ RunNext
    \/ WorkerNext
    \/ EngineStep \/ EngineEnds \/ DeadlineExpires
    \/ CallerNext
    \/ Interrupt \/ Shutdown \/ ShutdownEnds \/ NewManager
    \/ FaultNext

-----------------------------------------------------------------------------
(* The specification.  The event loop runs every ready callback and the      *)
(* serial lane is a FIFO lock, so each step of the manager that stays        *)
(* enabled is taken.  An Engine need not end by itself; it ends once         *)
(* cancelled.                                                                *)

Fairness ==
    /\ WF_vars(RunNext) /\ WF_vars(WorkerNext) /\ WF_vars(ShutdownEnds)
    /\ WF_vars(InterruptReturns) /\ WF_vars(WaitReturns)
    /\ WF_vars(EngineEnds /\ worker = "cancelling")

Spec == Init /\ [][Next]_vars /\ Fairness

-----------------------------------------------------------------------------
(* Safety.                                                                   *)

DurableOK ==
    /\ log \in Seq(Requests) /\ msg \in [Requests -> MessageStatus]
    /\ runs \in Seq(Run) /\ current \in Nat

ControlOK ==
    /\ call \in {"none", "start", "submit", "wait", "shutdown"}
    /\ pc \in {"none", "prepare", "recover", "recovered", "persist", "put", "await"}
    /\ req \in Requests \cup {NoRequest}
    /\ closed \in BOOLEAN /\ attached \in BOOLEAN

RuntimeOK ==
    /\ worker \in WorkerPlaces /\ hand \in Requests \cup {NoRequest}
    /\ queue \in Seq(Requests \cup {Stop})
    /\ intReq \in BOOLEAN /\ outcome \in Outcomes

CallersOK ==
    /\ interrupt \in [at : {"idle", "waiting", "woken"}, on : Requests \cup {NoRequest}]
    /\ waiter \in {"idle", "joining", "joined", "raised"}
    /\ awaited \subseteq Requests /\ accepted \subseteq Requests /\ asked \subseteq Requests
    /\ expired \subseteq Requests

TypeOK == DurableOK /\ ControlOK /\ RuntimeOK /\ CallersOK

\* A request is claimed by one Run at most, whatever crashes between _begin's
\* writes and whatever recovery replays: its side effects are never repeated.
AtMostOneRun ==
    \A i, j \in DOMAIN runs : runs[i].input = runs[j].input => i = j

\* A request whose submit returned and that no Run has claimed is still QUEUED on
\* disk, and a runtime that is not closing holds it, in its queue or in hand.
NoLostRequest ==
    \A r \in accepted : ~Claimed(r) =>
        /\ msg[r] = "queued" /\ \E k \in DOMAIN log : log[k] = r
        /\ closed \/ worker \in Exited \cup {"none"} \/ hand = r
             \/ \E k \in DOMAIN queue : queue[k] = r

\* A Run that ended under its worker agrees with its answer, has no Step left
\* active and has its input committed, at every instant a reader may look.
SettledRunAgrees ==
    \A i \in DOMAIN runs : runs[i].status \in Outcomes =>
        /\ runs[i].answer = runs[i].status
        /\ runs[i].step # "active"
        /\ runs[i].status = "completed" => runs[i].step = "quiet"
        /\ msg[runs[i].input] = "committed"

\* With the worker between two messages nothing half-done is left on disk, in
\* this Run or in any a crash or a failure cut short earlier.
IdleIsQuiescent ==
    worker \in {"get", "load", "saveRun"} =>
        /\ current = 0
        /\ \A i \in DOMAIN runs : RunClean(i) /\ runs[i].answer # "streaming"

\* interrupt() is woken only when the Run it was asked to stop has ended, or when
\* that Run never began; a worker that a storage failure kills may leave it active.
InterruptSettles ==
    [][interrupt.at = "waiting" /\ interrupt'.at = "woken" /\ worker' # "failed" =>
        \A i \in DOMAIN runs :
            runs[i].input = interrupt.on => runs[i].status \in TerminalRun]_vars

\* A Run is INTERRUPTED (and not by a restart) only when interrupt() or shutdown()
\* came during its own iteration, or a deadline of its own Engine expired: a request
\* to stop never reaches the next one.
InterruptedForCause ==
    \A i \in DOMAIN runs :
        runs[i].status = "interrupted" => runs[i].input \in asked \cup expired

\* "timeouts ... fail the Run" (docs/architecture.md): no Run whose execution a deadline
\* cancelled has ended otherwise than FAILED, wherever the execution was.
TimeoutFails ==
    \A i \in DOMAIN runs :
        runs[i].input \in expired /\ runs[i].status \in Outcomes => runs[i].status = "failed"

\* When wait_idle returns, every request accepted before it was called is settled.
IdleMeansSettled ==
    waiter = "joined" => \A r \in awaited : Settled(r)

\* A closed manager that no operation is working on has let go of its Task.
ClosedReleases ==
    closed /\ call = "none" => worker = "none" /\ ~attached

\* No step, of recovery least of all, takes back what is on disk: messages and Runs
\* only advance, and a terminal Run or an ended answer never changes again.
Forward ==
    /\ \A r \in Requests :
        /\ msg[r] = "committed" => msg'[r] = "committed"
        /\ msg[r] \in Queued => msg'[r] # "new"
    /\ \A i \in DOMAIN runs :
        /\ i \in DOMAIN runs' /\ runs'[i].input = runs[i].input
        /\ runs[i].status = "running" => runs'[i].status # "pending"
        /\ runs[i].status \in TerminalRun => runs'[i].status = runs[i].status
        /\ runs[i].answer \in Outcomes => runs'[i].answer = runs[i].answer
OnlyForward == [][Forward]_vars

-----------------------------------------------------------------------------
(* Liveness.                                                                 *)

\* Every Engine ends its execution sooner or later: what two of the properties need
\* besides the scheduler's own fairness.
EnginesEnd == WF_vars(EngineEnds)

\* interrupt() returns although the Engine would never have ended by itself.
InterruptReturnsAtLast == interrupt.at = "waiting" ~> interrupt.at # "waiting"

\* shutdown() ends, wherever the worker was when it came.
ShutdownCompletes == call = "shutdown" ~> call # "shutdown"

\* Once a runtime exists every accepted request is settled in the end, those it
\* recovered included, unless the manager is shut down: the Engines end their Runs.
AcceptedSettles ==
    EnginesEnd =>
        \A r \in Requests : r \in accepted /\ worker # "none" ~> Settled(r) \/ closed

\* wait_idle does not hang on Engines that end: the queue drains or the worker's end
\* is reported.
WaitEnds == EnginesEnd => (waiter = "joining" ~> waiter # "joining")

=============================================================================
