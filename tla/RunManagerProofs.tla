-------------------------- MODULE RunManagerProofs --------------------------
(***************************************************************************)
(* RunManager for every set of requests and every combination of faults,   *)
(* in three parts: its types and AtMostOneRun; what it leaves on disk,     *)
(* which is OnlyForward, SettledRunAgrees, IdleIsQuiescent,                *)
(* InterruptSettles, InterruptedForCause and ClosedReleases; and what      *)
(* callers may rely on, which is NoLostRequest, IdleMeansSettled and that  *)
(* it implements RequestLedger.                                            *)
(*                                                                         *)
(* AtMostOneRun alone is not inductive: nothing in it says that a message  *)
(* on the queue has no Run yet.  RunInv adds that every place from which   *)
(* the worker will claim a message holds an unclaimed one, and holds it    *)
(* alone; the recovery half says that when the queue is rebuilt from disk  *)
(* every claimed input has left QUEUED.                                    *)
(***************************************************************************)
EXTENDS RunManagerRefines, SequenceTheorems, TLAPS

\* An accepted message that no Run has claimed.
Fresh(r) == r \in Requests /\ msg[r] # "new" /\ ~Claimed(r)

InQueue(r) == \E k \in DOMAIN queue : queue[k] = r

\* The conversation lists a message once, and only after it was written.
LogInv ==
    /\ \A m, n \in DOMAIN log : log[m] = log[n] => m = n
    /\ \A n \in DOMAIN log : msg[log[n]] # "new"

NewUnclaimed == \A r \in Requests : msg[r] = "new" => ~Claimed(r)

QueueInv ==
    /\ \A k \in DOMAIN queue : queue[k] \in Requests => Fresh(queue[k])
    /\ \A j, k \in DOMAIN queue : queue[j] = queue[k] /\ queue[j] \in Requests => j = k

HandInv ==
    /\ worker \in {"load", "saveRun"} => Fresh(hand) /\ ~InQueue(hand)
    /\ worker \in {"bindInput", "commitInput"} => msg[hand] # "new"
    /\ worker \in Preparing \cup Executing => hand \in Requests

PutInv ==
    pc = "put" => /\ Fresh(req) /\ ~InQueue(req)
                  /\ worker \in {"load", "saveRun"} => hand # req

SubmitInv ==
    /\ call = "submit" /\ pc \in {"prepare", "recover", "recovered", "persist"} =>
           req \in Requests /\ msg[req] = "new"
    /\ pc \in {"persist", "put"} => call = "submit"
    /\ call = "none" => pc = "none"

RecoverInv ==
    /\ pc \in {"recover", "recovered"} => worker = "none"
    /\ pc = "recovered" => \A i \in DOMAIN runs : msg[runs[i].input] = "committed"

\* The parts by the variables they speak of.
DurableInv == DurableOK /\ AtMostOneRun /\ LogInv /\ NewUnclaimed
ControlInv == ControlOK /\ SubmitInv /\ RecoverInv
RuntimeInv == RuntimeOK /\ QueueInv /\ HandInv /\ PutInv

RunInv == DurableInv /\ ControlInv /\ RuntimeInv /\ CallersOK

-----------------------------------------------------------------------------
(* A part is kept by a step that changes none of its variables.              *)

LEMMA DurableFrame == DurableInv /\ UNCHANGED durable => DurableInv'
  BY DEF DurableInv, DurableOK, AtMostOneRun, LogInv, NewUnclaimed, Claimed, durable

LEMMA ControlFrame ==
    ControlInv /\ UNCHANGED <<durable, control, worker>> => ControlInv'
  BY DEF ControlInv, ControlOK, SubmitInv, RecoverInv, durable, control

LEMMA RuntimeFrame ==
    RuntimeInv /\ UNCHANGED <<durable, runtime, pc, req>> => RuntimeInv'
  BY DEF RuntimeInv, RuntimeOK, QueueInv, HandInv, Preparing, BeginWrites, Executing, PutInv, Fresh, InQueue, Claimed,
         durable, runtime

LEMMA CallersFrame == CallersOK /\ UNCHANGED callers => CallersOK'
  BY DEF CallersOK, callers

\* The same for a step that changes the worker's place or hand and not the queue.
LEMMA QueueFrame == QueueInv /\ UNCHANGED <<durable, queue>> => QueueInv'
  BY DEF QueueInv, Fresh, Claimed, durable

-----------------------------------------------------------------------------
(* Each step keeps RunInv.  A proof treats the parts the step disturbs; the  *)
(* frame lemmas keep the others.                                             *)

\* start and wait_idle take the lock.
LEMMA EnterKeeps == RunInv /\ (\E c \in {"start", "wait"} : Enter(c)) => RunInv'
<1> SUFFICES ASSUME DurableInv, ControlInv, RuntimeInv, CallersOK, (\E c \in {"start", "wait"} : Enter(c))
             PROVE  DurableInv' /\ ControlInv' /\ RuntimeInv' /\ CallersOK'
  BY DEF RunInv
<1>1. DurableInv' /\ CallersOK'
  BY DurableFrame, CallersFrame DEF Enter
<1>2. ControlInv'
  BY DEF Enter, ControlInv, ControlOK, SubmitInv, RecoverInv, control, durable, runtime
<1>3. RuntimeInv'
  BY DEF Enter, RuntimeInv, RuntimeOK, HandInv, Preparing, BeginWrites, Executing, PutInv, Fresh, InQueue, Claimed, durable,
     runtime, QueueInv
<1>q. QED
  BY <1>1, <1>2, <1>3

\* submit takes the lock with a request nobody has written.
LEMMA SubmitKeeps == RunInv /\ (\E r \in Requests : Submit(r)) => RunInv'
<1> SUFFICES ASSUME DurableInv, ControlInv, RuntimeInv, CallersOK, (\E r \in Requests : Submit(r))
             PROVE  DurableInv' /\ ControlInv' /\ RuntimeInv' /\ CallersOK'
  BY DEF RunInv
<1>1. DurableInv' /\ CallersOK'
  BY DurableFrame, CallersFrame DEF Submit
<1>2. ControlInv'
  BY DEF Submit, ControlInv, ControlOK, SubmitInv, RecoverInv, control, durable, runtime
<1>3. RuntimeInv'
  BY DEF Submit, RuntimeInv, RuntimeOK, HandInv, Preparing, BeginWrites, Executing, PutInv, Fresh, InQueue, Claimed, durable,
     runtime, QueueInv
<1>q. QED
  BY <1>1, <1>2, <1>3

\* The operation is refused.
LEMMA RefuseKeeps == RunInv /\ Refuse => RunInv'
<1> SUFFICES ASSUME DurableInv, ControlInv, RuntimeInv, CallersOK, Refuse
             PROVE  DurableInv' /\ ControlInv' /\ RuntimeInv' /\ CallersOK'
  BY DEF RunInv
<1>1. DurableInv' /\ CallersOK'
  BY DurableFrame, CallersFrame DEF Refuse
<1>2. ControlInv'
  BY DEF Refuse, Release, ControlInv, ControlOK, SubmitInv, RecoverInv, control, durable,
     runtime
<1>3. RuntimeInv'
  BY DEF Refuse, Release, RuntimeInv, RuntimeOK, HandInv, Preparing, BeginWrites, Executing, PutInv, Fresh, InQueue, Claimed,
     durable, runtime, QueueInv
<1>q. QED
  BY <1>1, <1>2, <1>3

\* The live runtime is handed out.
LEMMA UseRuntimeKeeps == RunInv /\ UseRuntime => RunInv'
<1> SUFFICES ASSUME DurableInv, ControlInv, RuntimeInv, CallersOK, UseRuntime
             PROVE  DurableInv' /\ ControlInv' /\ RuntimeInv' /\ CallersOK'
  BY DEF RunInv
<1>1. DurableInv'
  BY DurableFrame DEF UseRuntime
<1>2. CallersOK'
  BY DEF UseRuntime, Granted, CallersOK
<1>3. ControlInv'
  BY DEF UseRuntime, Granted, Release, ControlInv, ControlOK, SubmitInv, RecoverInv, control,
     durable, runtime
<1>4. RuntimeInv'
  BY DEF UseRuntime, Granted, Release, RuntimeInv, RuntimeOK, HandInv, Preparing, BeginWrites, Executing, PutInv, Fresh, InQueue,
     Claimed, durable, runtime, QueueInv
<1>q. QED
  BY <1>1, <1>2, <1>3, <1>4

\* The Task is attached.
LEMMA AttachKeeps == RunInv /\ Attach => RunInv'
<1> SUFFICES ASSUME DurableInv, ControlInv, RuntimeInv, CallersOK, Attach
             PROVE  DurableInv' /\ ControlInv' /\ RuntimeInv' /\ CallersOK'
  BY DEF RunInv
<1>1. DurableInv' /\ CallersOK'
  BY DurableFrame, CallersFrame DEF Attach
<1>2. ControlInv'
  BY DEF Attach, ControlInv, ControlOK, SubmitInv, RecoverInv, control, durable, runtime
<1>3. RuntimeInv'
  BY DEF Attach, RuntimeInv, RuntimeOK, HandInv, Preparing, BeginWrites, Executing, PutInv, Fresh, InQueue, Claimed, durable,
     runtime, QueueInv
<1>q. QED
  BY <1>1, <1>2, <1>3

\* Recovery fails and detaches.
LEMMA RecoverFailsKeeps == RunInv /\ RecoverFails => RunInv'
<1> SUFFICES ASSUME DurableInv, ControlInv, RuntimeInv, CallersOK, RecoverFails
             PROVE  DurableInv' /\ ControlInv' /\ RuntimeInv' /\ CallersOK'
  BY DEF RunInv
<1>1. DurableInv' /\ CallersOK'
  BY DurableFrame, CallersFrame DEF RecoverFails
<1>2. ControlInv'
  BY DEF RecoverFails, Release, ControlInv, ControlOK, SubmitInv, RecoverInv, control, durable,
     runtime
<1>3. RuntimeInv'
  BY DEF RecoverFails, Release, RuntimeInv, RuntimeOK, HandInv, Preparing, BeginWrites, Executing, PutInv, Fresh, InQueue, Claimed,
     durable, runtime, QueueInv
<1>q. QED
  BY <1>1, <1>2, <1>3

\* Recovery ends with every claimed input COMMITTED.
LEMMA RecoverTaskKeeps == RunInv /\ RecoverTask => RunInv'
<1> SUFFICES ASSUME DurableInv, ControlInv, RuntimeInv, CallersOK, RecoverTask
             PROVE  DurableInv' /\ ControlInv' /\ RuntimeInv' /\ CallersOK'
  BY DEF RunInv
<1>1. DurableInv'
  BY DEF RecoverTask, DurableInv, DurableOK, AtMostOneRun, LogInv, NewUnclaimed, Claimed
<1>2. CallersOK'
  BY CallersFrame DEF RecoverTask
<1>3. ControlInv'
  BY DEF RecoverTask, RunClean, ControlInv, ControlOK, SubmitInv, RecoverInv, control, durable,
     runtime
<1>4. RuntimeInv'
  BY DEF RecoverTask, RuntimeInv, RuntimeOK, HandInv, Preparing, BeginWrites, Executing, PutInv, Fresh, InQueue, Claimed, durable,
     runtime, QueueInv
<1>q. QED
  BY <1>1, <1>2, <1>3, <1>4

\* The execution is created.
LEMMA ExecuteKeeps == RunInv /\ Execute => RunInv'
<1> SUFFICES ASSUME DurableInv, ControlInv, RuntimeInv, CallersOK, Execute
             PROVE  DurableInv' /\ ControlInv' /\ RuntimeInv' /\ CallersOK'
  BY DEF RunInv
<1>1. DurableInv' /\ CallersOK'
  BY DurableFrame, CallersFrame DEF Execute
<1>2. ControlInv'
  BY DEF Execute, ControlInv, ControlOK, SubmitInv, RecoverInv, control, durable, runtime
<1>3. RuntimeOK'
  BY EmptySeq DEF Execute, WorkerPlaces, Executing, RuntimeInv, RuntimeOK
<1>4. QueueInv'
  BY QueueFrame DEF Execute, RuntimeInv
<1>5. HandInv' /\ PutInv'
  BY DEF Execute, HandInv, Preparing, BeginWrites, Executing, PutInv, Fresh, InQueue, Claimed, RuntimeInv, durable, control,
     runtime
<1>q. QED
  BY <1>1, <1>2, <1>3, <1>4, <1>5 DEF RuntimeInv

\* The execution ends.
LEMMA EngineEndsKeeps == RunInv /\ (EngineEnds \/ DeadlineExpires) => RunInv'
<1> SUFFICES ASSUME DurableInv, ControlInv, RuntimeInv, CallersOK, EngineEnds \/ DeadlineExpires
             PROVE  DurableInv' /\ ControlInv' /\ RuntimeInv' /\ CallersOK'
  BY DEF RunInv
<1>1. DurableInv' /\ CallersOK'
  BY DurableFrame, CallersFrame DEF EngineEnds, DeadlineExpires, RuntimeInv, HandInv, CallersOK,
     Preparing, BeginWrites, Executing
<1>2. ControlInv'
  BY DEF EngineEnds, DeadlineExpires, Executing, ControlInv, ControlOK, SubmitInv, RecoverInv, control, durable,
     runtime
<1>3. RuntimeOK'
  BY EmptySeq DEF EngineEnds, DeadlineExpires, WorkerPlaces, FinishWrites, Outcomes, Executing, RuntimeInv,
     RuntimeOK
<1>4. QueueInv'
  BY QueueFrame DEF EngineEnds, DeadlineExpires, RuntimeInv
<1>5. HandInv' /\ PutInv'
  BY DEF EngineEnds, DeadlineExpires, Executing, HandInv, Preparing, BeginWrites, Executing, PutInv, Fresh, InQueue, Claimed, RuntimeInv, durable,
     control, runtime
<1>q. QED
  BY <1>1, <1>2, <1>3, <1>4, <1>5 DEF RuntimeInv

\* A crash empties the queue and keeps the disk.
LEMMA CrashKeeps == RunInv /\ Crash => RunInv'
<1> SUFFICES ASSUME DurableInv, ControlInv, RuntimeInv, CallersOK, Crash
             PROVE  DurableInv' /\ ControlInv' /\ RuntimeInv' /\ CallersOK'
  BY DEF RunInv
<1>1. DurableInv'
  BY DurableFrame DEF Crash
<1>2. CallersOK'
  BY DEF Crash, CallersOK
<1>3. ControlInv'
  BY DEF Crash, ControlInv, ControlOK, SubmitInv, RecoverInv, control, durable, runtime
<1>4. RuntimeOK'
  BY EmptySeq DEF Crash, WorkerPlaces, Outcomes, RuntimeInv, RuntimeOK
<1>5. QueueInv'
  BY DEF Crash, QueueInv
<1>6. HandInv' /\ PutInv'
  BY DEF Crash, HandInv, Preparing, BeginWrites, Executing, PutInv, Fresh, InQueue, Claimed, RuntimeInv, durable, control, runtime
<1>q. QED
  BY <1>1, <1>2, <1>3, <1>4, <1>5, <1>6 DEF RuntimeInv

\* shutdown appends the sentinel.
LEMMA ShutdownKeeps == RunInv /\ Shutdown => RunInv'
<1> SUFFICES ASSUME DurableInv, ControlInv, RuntimeInv, CallersOK, Shutdown
             PROVE  DurableInv' /\ ControlInv' /\ RuntimeInv' /\ CallersOK'
  BY DEF RunInv
<1>1. DurableInv'
  BY DurableFrame DEF Shutdown
<1>2. CallersOK'
  BY DEF Shutdown, CallersOK, RuntimeInv, RuntimeOK
<1>3. ControlInv'
  BY DEF Shutdown, ControlInv, ControlOK, SubmitInv, RecoverInv, control, durable, runtime
<1>4. RuntimeOK'
  BY EmptySeq DEF Shutdown, WorkerPlaces, Executing, RuntimeInv, RuntimeOK
<1>5. QueueInv'
  BY RequestsAssumption DEF Shutdown, RuntimeInv, RuntimeOK, QueueInv, Fresh, InQueue, Claimed,
     durable, runtime
<1>6. HandInv' /\ PutInv'
  BY RequestsAssumption DEF Shutdown, Executing, HandInv, Preparing, BeginWrites, Executing, PutInv, Fresh, InQueue, Claimed,
     RuntimeInv, durable, control, runtime
<1>q. QED
  BY <1>1, <1>2, <1>3, <1>4, <1>5, <1>6 DEF RuntimeInv

\* shutdown forgets the runtime.
LEMMA ShutdownEndsKeeps == RunInv /\ ShutdownEnds => RunInv'
<1> SUFFICES ASSUME DurableInv, ControlInv, RuntimeInv, CallersOK, ShutdownEnds
             PROVE  DurableInv' /\ ControlInv' /\ RuntimeInv' /\ CallersOK'
  BY DEF RunInv
<1>1. DurableInv' /\ CallersOK'
  BY DurableFrame, CallersFrame DEF ShutdownEnds
<1>2. ControlInv'
  BY DEF ShutdownEnds, Release, ControlInv, ControlOK, SubmitInv, RecoverInv, control, durable,
     runtime
<1>3. RuntimeOK'
  BY EmptySeq DEF ShutdownEnds, Release, WorkerPlaces, RuntimeInv, RuntimeOK
<1>4. QueueInv'
  BY DEF ShutdownEnds, QueueInv
<1>5. HandInv' /\ PutInv'
  BY DEF ShutdownEnds, Release, HandInv, Preparing, BeginWrites, Executing, PutInv, Fresh, InQueue, Claimed, RuntimeInv, durable,
     control, runtime
<1>q. QED
  BY <1>1, <1>2, <1>3, <1>4, <1>5 DEF RuntimeInv

\* submit inserts the message it has written.
LEMMA PutKeeps == RunInv /\ Put => RunInv'
<1> SUFFICES ASSUME DurableInv, ControlInv, RuntimeInv, CallersOK, Put
             PROVE  DurableInv' /\ ControlInv' /\ RuntimeInv' /\ CallersOK'
  BY DEF RunInv
<1>1. DurableInv'
  BY DurableFrame DEF Put
<1>2. CallersOK'
  BY DEF Put, CallersOK, ControlInv, SubmitInv, PutInv, RuntimeInv, Fresh
<1>3. ControlInv'
  BY DEF Put, Release, ControlInv, ControlOK, SubmitInv, RecoverInv, control, durable, runtime
<1>4. RuntimeInv'
  BY DEF Put, Release, RuntimeInv, RuntimeOK, HandInv, Preparing, BeginWrites, Executing, PutInv, Fresh, InQueue, Claimed, durable,
     runtime, QueueInv
<1>q. QED
  BY <1>1, <1>2, <1>3, <1>4

\* What every step of a live worker owes the control operations.
LEMMA WorkerControl ==
    /\ ControlInv /\ worker # "none" /\ UNCHANGED control
    /\ \A r \in Requests : msg[r] = "new" => msg'[r] = "new"
    => ControlInv'
  BY DEF ControlInv, ControlOK, SubmitInv, RecoverInv, control

\* The worker takes the head of the queue, and is alone to hold it.
LEMMA TakeKeeps ==
    /\ RuntimeInv /\ queue # <<>> /\ Take
    /\ UNCHANGED <<durable, pc, req, outcome>>
    => RuntimeInv'
<1> SUFFICES ASSUME RuntimeInv, queue # <<>>, Take, UNCHANGED <<durable, pc, req, outcome>>
             PROVE  RuntimeInv'
  OBVIOUS
<1>1. /\ queue \in Seq(Requests \cup {Stop})
      /\ Head(queue) \in Requests \cup {Stop}
      /\ Tail(queue) \in Seq(Requests \cup {Stop})
      /\ Len(Tail(queue)) = Len(queue) - 1 /\ Len(queue) \in Nat \ {0}
      /\ \A k \in 1..(Len(queue) - 1) : Tail(queue)[k] = queue[k + 1]
      /\ Head(queue) = queue[1]
  BY HeadTailProperties, EmptySeq, LenProperties DEF RuntimeInv, RuntimeOK
<1>2. \A k \in DOMAIN Tail(queue) : k \in 1..(Len(queue) - 1) /\ k + 1 \in DOMAIN queue
                                   /\ k + 1 # 1 /\ Tail(queue)[k] = queue[k + 1]
  BY <1>1
<1>3. RuntimeOK'
  BY <1>1 DEF Take, RuntimeInv, RuntimeOK, WorkerPlaces, Preparing, Exited
<1>4. QueueInv'
  <2>2. queue' = Tail(queue)
    BY DEF Take
  <2>3. (\A k \in DOMAIN queue : queue[k] \in Requests => Fresh(queue[k]))'
    <3> SUFFICES ASSUME NEW k \in DOMAIN queue', queue'[k] \in Requests
                 PROVE  Fresh(queue[k])'
      OBVIOUS
    <3>1. queue'[k] = queue[k + 1] /\ k + 1 \in DOMAIN queue
      BY <1>2, <2>2
    <3>2. Fresh(queue[k + 1])
      BY <3>1 DEF RuntimeInv, QueueInv
    <3>q. QED
      BY <3>1, <3>2 DEF Fresh, Claimed, durable
  <2>4. \A j, k \in DOMAIN queue' : queue'[j] = queue'[k] /\ queue'[j] \in Requests => j = k
    BY <1>1, <1>2, <2>2 DEF RuntimeInv, QueueInv
  <2>q. QED
    BY <2>3, <2>4 DEF QueueInv
<1>5. HandInv'
  <2>1. CASE closed \/ Head(queue) = Stop
    BY <2>1 DEF Take, HandInv, Preparing, BeginWrites, Executing
  <2>2. CASE ~(closed \/ Head(queue) = Stop)
    <3>1. worker' = "load" /\ hand' = queue[1] /\ queue' = Tail(queue)
      BY <2>2, <1>1 DEF Take
    <3>2. queue[1] \in Requests /\ 1 \in DOMAIN queue
      BY <2>2, <1>1
    <3>3. Fresh(hand)'
      BY <3>1, <3>2 DEF RuntimeInv, QueueInv, Fresh, Claimed, durable
    <3>4. ~InQueue(hand)'
      BY <3>1, <3>2, <1>1, <1>2 DEF RuntimeInv, QueueInv, InQueue
    <3>q. QED
      BY <3>1, <3>3, <3>4 DEF HandInv, Fresh
  <2>q. QED
    BY <2>1, <2>2
<1>6. PutInv'
  <2> SUFFICES ASSUME pc = "put"
               PROVE  Fresh(req)' /\ ~InQueue(req)' /\ (worker' \in {"load", "saveRun"} => hand' # req)
    BY DEF PutInv
  <2>1. Fresh(req) /\ ~InQueue(req)
    BY DEF RuntimeInv, PutInv
  <2>2. Fresh(req)'
    BY <2>1 DEF Fresh, Claimed, durable
  <2>3. ~InQueue(req)'
    BY <2>1, <1>1, <1>2 DEF InQueue, Take
  <2>4. worker' \in {"load", "saveRun"} => hand' # req
    BY <2>1, <1>1 DEF InQueue, Take
  <2>q. QED
    BY <2>2, <2>3, <2>4
<1>q. QED
  BY <1>3, <1>4, <1>5, <1>6 DEF RuntimeInv

LEMMA LoopHeadKeeps ==
    /\ RuntimeInv /\ LoopHead
    /\ UNCHANGED <<durable, pc, req, outcome>>
    => RuntimeInv'
<1> SUFFICES ASSUME RuntimeInv, LoopHead, UNCHANGED <<durable, pc, req, outcome>>,
                    closed \/ queue = <<>>
             PROVE  RuntimeInv'
  BY TakeKeeps DEF LoopHead
<1>1. worker' \in {"stopped", "get"} /\ hand' = NoRequest /\ UNCHANGED <<queue, intReq>>
  BY DEF LoopHead
<1>2. RuntimeOK'
  BY <1>1 DEF RuntimeInv, RuntimeOK, WorkerPlaces, Exited
<1>3. QueueInv'
  BY <1>1, QueueFrame DEF RuntimeInv
<1>4. HandInv' /\ PutInv'
  BY <1>1 DEF RuntimeInv, HandInv, Preparing, BeginWrites, Executing, PutInv, Fresh, InQueue, Claimed, durable
<1>q. QED
  BY <1>2, <1>3, <1>4 DEF RuntimeInv

\* Waking callers moves them between their own places only.
LEMMA WakeKeeps ==
    /\ CallersOK /\ WakeWaiter /\ (WakeInterrupt \/ UNCHANGED interrupt)
    /\ UNCHANGED <<awaited, accepted, asked, expired>>
    => CallersOK'
<1> SUFFICES ASSUME CallersOK, WakeWaiter, WakeInterrupt \/ UNCHANGED interrupt,
                    UNCHANGED <<awaited, accepted, asked, expired>>
             PROVE  CallersOK'
  OBVIOUS
<1>1. waiter' \in {"idle", "joining", "joined", "raised"}
  BY DEF WakeWaiter, CallersOK
<1>2. interrupt' \in [at : {"idle", "waiting", "woken"}, on : Requests \cup {NoRequest}]
  BY DEF WakeInterrupt, CallersOK
<1>q. QED
  BY <1>1, <1>2 DEF CallersOK

\* The two ways into an iteration, and the end of one.
LEMMA WorkerStartsKeeps == RunInv /\ WorkerStarts => RunInv'
<1> SUFFICES ASSUME DurableInv, ControlInv, RuntimeInv, CallersOK, WorkerStarts
             PROVE  DurableInv' /\ ControlInv' /\ RuntimeInv' /\ CallersOK'
  BY DEF RunInv
<1>1. DurableInv' /\ CallersOK'
  BY DurableFrame, WakeKeeps DEF WorkerStarts
<1>2. ControlInv'
  BY WorkerControl DEF WorkerStarts, durable
<1>3. RuntimeInv'
  BY LoopHeadKeeps DEF WorkerStarts, control
<1>q. QED
  BY <1>1, <1>2, <1>3

LEMMA WorkerGetsKeeps == RunInv /\ WorkerGets => RunInv'
<1> SUFFICES ASSUME DurableInv, ControlInv, RuntimeInv, CallersOK, WorkerGets
             PROVE  DurableInv' /\ ControlInv' /\ RuntimeInv' /\ CallersOK'
  BY DEF RunInv
<1>1. DurableInv' /\ CallersOK'
  BY DurableFrame, WakeKeeps DEF WorkerGets
<1>2. ControlInv'
  BY WorkerControl DEF WorkerGets, durable
<1>3. RuntimeInv'
  BY TakeKeeps DEF WorkerGets, control
<1>q. QED
  BY <1>1, <1>2, <1>3

LEMMA EndIterationKeeps == RunInv /\ worker # "none" /\ EndIteration => RunInv'
<1> SUFFICES ASSUME DurableInv, ControlInv, RuntimeInv, CallersOK, worker # "none", EndIteration
             PROVE  DurableInv' /\ ControlInv' /\ RuntimeInv' /\ CallersOK'
  BY DEF RunInv
<1>1. DurableInv' /\ CallersOK'
  BY DurableFrame, WakeKeeps DEF EndIteration
<1>2. ControlInv'
  BY WorkerControl DEF EndIteration, durable
<1>3. RuntimeInv'
  BY LoopHeadKeeps DEF EndIteration, control
<1>q. QED
  BY <1>1, <1>2, <1>3

\* A loaded message goes on to _begin still unclaimed.
LEMMA LoadKeeps == RunInv /\ Load => RunInv'
<1> SUFFICES ASSUME DurableInv, ControlInv, RuntimeInv, CallersOK,
                    worker = "load", worker' = "saveRun",
                    UNCHANGED <<durable, control, hand, queue, intReq, outcome, callers>>
             PROVE  DurableInv' /\ ControlInv' /\ RuntimeInv' /\ CallersOK'
  BY EndIterationKeeps DEF RunInv, Load
<1>1. DurableInv' /\ CallersOK'
  BY DurableFrame, CallersFrame
<1>2. ControlInv'
  BY WorkerControl DEF durable
<1>3. RuntimeOK'
  BY DEF RuntimeInv, RuntimeOK, WorkerPlaces, Preparing, BeginWrites
<1>4. QueueInv'
  BY QueueFrame DEF RuntimeInv
<1>5. HandInv' /\ PutInv'
  BY DEF RuntimeInv, HandInv, Preparing, BeginWrites, Executing, PutInv, Fresh, InQueue, Claimed, durable, control
<1>q. QED
  BY <1>1, <1>2, <1>3, <1>4, <1>5 DEF RuntimeInv

\* The worker ends on a storage failure.
LEMMA WorkerFailsKeeps == RunInv /\ WorkerFails => RunInv'
<1> SUFFICES ASSUME DurableInv, ControlInv, RuntimeInv, CallersOK, WorkerFails
             PROVE  DurableInv' /\ ControlInv' /\ RuntimeInv' /\ CallersOK'
  BY DEF RunInv
<1>1. DurableInv' /\ CallersOK'
  BY DurableFrame, WakeKeeps DEF WorkerFails
<1>2. ControlInv'
  BY WorkerControl DEF WorkerFails, durable, Preparing, BeginWrites, FinishWrites
<1>3. RuntimeOK'
  BY DEF RuntimeInv, RuntimeOK, WorkerFails, WorkerPlaces, Exited
<1>4. QueueInv'
  BY QueueFrame DEF WorkerFails, RuntimeInv
<1>5. HandInv' /\ PutInv'
  BY DEF WorkerFails, RuntimeInv, HandInv, Preparing, BeginWrites, Executing, PutInv, Fresh, InQueue, Claimed, durable, control
<1>q. QED
  BY <1>1, <1>2, <1>3, <1>4, <1>5 DEF RuntimeInv

\* A caller asks for an interrupt.
LEMMA InterruptKeeps == RunInv /\ Interrupt => RunInv'
<1> SUFFICES ASSUME DurableInv, ControlInv, RuntimeInv, CallersOK, Interrupt
             PROVE  DurableInv' /\ ControlInv' /\ RuntimeInv' /\ CallersOK'
  BY DEF RunInv
<1>1. DurableInv'
  BY DurableFrame DEF Interrupt
<1>2. CallersOK'
  BY DEF Interrupt, CallersOK, RuntimeInv, HandInv
<1>3. ControlInv'
  BY WorkerControl DEF Interrupt, durable, Preparing, BeginWrites, Executing
<1>4. RuntimeOK'
  BY DEF RuntimeInv, RuntimeOK, Interrupt, WorkerPlaces, Executing
<1>5. QueueInv'
  BY QueueFrame DEF Interrupt, RuntimeInv
<1>6. HandInv' /\ PutInv'
  BY DEF Interrupt, RuntimeInv, HandInv, Preparing, BeginWrites, Executing, PutInv, Fresh, InQueue, Claimed, Executing,
         durable, control
<1>q. QED
  BY <1>1, <1>2, <1>3, <1>4, <1>5, <1>6 DEF RuntimeInv

\* Callers return; the application builds another manager.
LEMMA CallersKeep == RunInv /\ (InterruptReturns \/ WaitReturns \/ NewManager) => RunInv'
<1> SUFFICES ASSUME DurableInv, ControlInv, RuntimeInv, CallersOK,
                    InterruptReturns \/ WaitReturns \/ NewManager
             PROVE  DurableInv' /\ ControlInv' /\ RuntimeInv' /\ CallersOK'
  BY DEF RunInv
<1>1. DurableInv' /\ RuntimeInv'
  BY DurableFrame, RuntimeFrame DEF InterruptReturns, WaitReturns, NewManager, control
<1>2. ControlInv'
  BY DEF InterruptReturns, WaitReturns, NewManager, ControlInv, ControlOK, SubmitInv, RecoverInv,
         control, durable, runtime
<1>3. CallersOK'
  BY DEF InterruptReturns, WaitReturns, NewManager, CallersOK, callers
<1>q. QED
  BY <1>1, <1>2, <1>3

\* The runtime's queue is made of durable QUEUED messages, each once, and recovery
\* has committed every message a Run has claimed.
LEMMA CreateRuntimeKeeps == RunInv /\ CreateRuntime => RunInv'
<1> SUFFICES ASSUME DurableInv, ControlInv, RuntimeInv, CallersOK, CreateRuntime
             PROVE  DurableInv' /\ ControlInv' /\ RuntimeInv' /\ CallersOK'
  BY DEF RunInv
<1> DEFINE W == {r \in Requests : msg[r] \in Queued}
<1>0. PICK q \in RecoveredQueue : queue' = q /\ Granted(q, NoRequest)
  BY DEF CreateRuntime
<1>1. /\ \E n \in 0..Len(log) : q \in [1..n -> W]
      /\ \A i, j \in DOMAIN q : i < j =>
             \E m, n \in DOMAIN log : m < n /\ log[m] = q[i] /\ log[n] = q[j]
  BY <1>0 DEF RecoveredQueue
<1>2. PICK n \in 0..Len(log) : q \in [1..n -> W]
  BY <1>1
<1>3. Len(log) \in Nat /\ n \in Nat /\ DOMAIN q = 1..n
  BY <1>2, LenProperties DEF DurableInv, DurableOK
<1>4. q \in Seq(Requests \cup {Stop})
  BY <1>2, <1>3
<1>5. DurableInv'
  BY DurableFrame DEF CreateRuntime
<1>6. CallersOK'
  BY <1>0 DEF CreateRuntime, Granted, CallersOK
<1>7. ControlInv'
  BY <1>0 DEF CreateRuntime, Granted, Release, ControlInv, ControlOK, SubmitInv, RecoverInv, durable
<1>8. RuntimeOK'
  BY <1>0, <1>4 DEF CreateRuntime, RuntimeInv, RuntimeOK, WorkerPlaces
<1>9. QueueInv'
  <2>1. \A r \in W : Fresh(r)
    BY DEF Fresh, Claimed, Queued, CreateRuntime, ControlInv, RecoverInv
  <2>2. \A k \in DOMAIN q : q[k] \in W
    BY <1>2, <1>3
  <2>3. \A j, k \in DOMAIN q : q[j] = q[k] => j = k
    <3>1. \A j, k \in DOMAIN q : j < k => q[j] # q[k]
      <4> SUFFICES ASSUME NEW j \in DOMAIN q, NEW k \in DOMAIN q, j < k
                   PROVE  q[j] # q[k]
        OBVIOUS
      <4>1. PICK a, b \in DOMAIN log : a < b /\ log[a] = q[j] /\ log[b] = q[k]
        BY <1>1
      <4>2. a \in Nat /\ b \in Nat
        BY <4>1 DEF DurableInv, DurableOK
      <4>q. QED
        BY <4>1, <4>2 DEF DurableInv, LogInv
    <3>q. QED
      BY <3>1, <1>3
  <2>4. (\A k \in DOMAIN queue : queue[k] \in Requests => Fresh(queue[k]))'
    BY <1>0, <2>1, <2>2 DEF CreateRuntime, Fresh, Claimed, durable
  <2>q. QED
    BY <1>0, <2>3, <2>4 DEF QueueInv
<1>10. HandInv' /\ PutInv'
  BY <1>0 DEF CreateRuntime, Granted, Release, HandInv, Preparing, BeginWrites, Executing, PutInv
<1>q. QED
  BY <1>5, <1>6, <1>7, <1>8, <1>9, <1>10 DEF RuntimeInv

\* Writing a message: it was new, so nothing held it.
LEMMA WriteMessage ==
    /\ RunInv /\ req \in Requests /\ msg[req] = "new"
    /\ msg' = [msg EXCEPT ![req] = "queued"] /\ log' = Append(log, req)
    /\ UNCHANGED <<runs, current>>
    => /\ DurableInv'
       /\ ~Claimed(req) /\ msg'[req] # "new"
       /\ \A r \in Requests : Fresh(r) => Fresh(r)' /\ r # req
<1> SUFFICES ASSUME DurableInv, req \in Requests, msg[req] = "new",
                    msg' = [msg EXCEPT ![req] = "queued"], log' = Append(log, req),
                    UNCHANGED <<runs, current>>
             PROVE  /\ DurableInv'
                    /\ ~Claimed(req) /\ msg'[req] # "new"
                    /\ \A r \in Requests : Fresh(r) => Fresh(r)' /\ r # req
  BY DEF RunInv
<1>1. DurableOK'
  BY AppendProperties DEF DurableInv, DurableOK, MessageStatus
<1>2. AtMostOneRun' /\ NewUnclaimed'
  BY DEF DurableInv, DurableOK, AtMostOneRun, NewUnclaimed, Claimed
<1>3. LogInv'
  <2>1. /\ DOMAIN log' = 1..(Len(log) + 1) /\ DOMAIN log = 1..Len(log) /\ Len(log) \in Nat
        /\ log'[Len(log) + 1] = req
        /\ \A k \in DOMAIN log : log'[k] = log[k] /\ log[k] \in Requests
    BY AppendProperties, LenProperties, ElementOfSeq DEF DurableInv, DurableOK
  <2>2. \A k \in DOMAIN log : log[k] # req
    BY DEF DurableInv, LogInv
  <2>3. \A m, n \in DOMAIN log' : log'[m] = log'[n] => m = n
    BY <2>1, <2>2 DEF DurableInv, LogInv
  <2>4. \A n \in DOMAIN log' : msg'[log'[n]] # "new"
    BY <2>1 DEF DurableInv, DurableOK, LogInv
  <2>q. QED
    BY <2>3, <2>4 DEF LogInv
<1>4. ~Claimed(req) /\ msg'[req] # "new"
  BY DEF DurableInv, DurableOK, NewUnclaimed, Claimed
<1>5. \A r \in Requests : Fresh(r) => Fresh(r)' /\ r # req
  BY DEF Fresh, Claimed, DurableInv, DurableOK
<1>q. QED
  BY <1>1, <1>2, <1>3, <1>4, <1>5 DEF DurableInv

\* Messages that stay fresh keep the queue and the worker's hand sound.
LEMMA FreshFrame ==
    /\ RuntimeInv /\ UNCHANGED <<runtime, req>> /\ pc' # "put"
    /\ \A r \in Requests : Fresh(r) => Fresh(r)'
    /\ \A r \in Requests : msg[r] # "new" => msg'[r] # "new"
    => RuntimeInv'
<1> SUFFICES ASSUME RuntimeInv, UNCHANGED <<runtime, req>>, pc' # "put",
                    \A r \in Requests : Fresh(r) => Fresh(r)',
                    \A r \in Requests : msg[r] # "new" => msg'[r] # "new"
             PROVE  RuntimeInv'
  OBVIOUS
<1>1. RuntimeOK' /\ PutInv'
  BY DEF RuntimeInv, RuntimeOK, PutInv, runtime
<1>2. QueueInv'
  <2>1. queue' = queue
    BY DEF runtime
  <2>2. (\A k \in DOMAIN queue : queue[k] \in Requests => Fresh(queue[k]))'
    <3> SUFFICES ASSUME NEW k \in DOMAIN queue', queue'[k] \in Requests
                 PROVE  Fresh(queue[k])'
      OBVIOUS
    <3>1. Fresh(queue[k]) /\ queue'[k] = queue[k]
      BY <2>1 DEF RuntimeInv, QueueInv
    <3>q. QED
      BY <3>1 DEF Fresh, Claimed
  <2>q. QED
    BY <2>1, <2>2 DEF RuntimeInv, QueueInv
<1>3. HandInv'
  BY DEF RuntimeInv, HandInv, Fresh, Claimed, InQueue, runtime, Preparing, BeginWrites, Executing
<1>q. QED
  BY <1>1, <1>2, <1>3 DEF RuntimeInv

LEMMA PersistKeeps == RunInv /\ (Persist \/ PersistFails) => RunInv'
<1> SUFFICES ASSUME RunInv, Persist \/ PersistFails PROVE RunInv'
  OBVIOUS
<1>0. /\ req \in Requests /\ msg[req] = "new" /\ pc = "persist" /\ call = "submit"
      /\ UNCHANGED <<runs, current, closed, attached, runtime, callers>>
  BY DEF Persist, PersistFails, RunInv, ControlInv, SubmitInv
<1>1. CallersOK'
  BY <1>0, CallersFrame DEF RunInv
<1>2. CASE UNCHANGED <<msg, log>> /\ Release
  <2>1. DurableInv'
    BY <1>0, <1>2, DurableFrame DEF RunInv, durable
  <2>2. ControlInv'
    BY <1>0, <1>2 DEF Release, RunInv, ControlInv, ControlOK, SubmitInv, RecoverInv, durable, runtime
  <2>3. RuntimeInv'
    BY <1>0, <1>2 DEF Release, RunInv, RuntimeInv, RuntimeOK, HandInv, Preparing, BeginWrites,
       Executing, PutInv, QueueInv, Fresh, InQueue, Claimed, runtime
  <2>q. QED
    BY <1>1, <2>1, <2>2, <2>3 DEF RunInv
<1>3. CASE msg' = [msg EXCEPT ![req] = "queued"] /\ log' = Append(log, req)
  <2>1. /\ DurableInv' /\ ~Claimed(req) /\ msg'[req] # "new"
        /\ \A r \in Requests : Fresh(r) => Fresh(r)' /\ r # req
    BY <1>0, <1>3, WriteMessage
  <2>2. \A r \in Requests : msg[r] # "new" => msg'[r] # "new"
    BY <1>3 DEF RunInv, DurableInv, DurableOK
  <2>3. CASE Release
    <3>1. ControlInv'
      BY <1>0, <2>3 DEF Release, RunInv, ControlInv, ControlOK, SubmitInv, RecoverInv
    <3>2. RuntimeInv'
      <4>1. UNCHANGED runtime /\ pc' # "put"
        BY <1>0, <2>3 DEF Release
      <4>2. RuntimeOK' /\ PutInv'
        BY <4>1 DEF RunInv, RuntimeInv, RuntimeOK, PutInv, runtime
      <4>3. QueueInv'
        BY <4>1, <2>1 DEF RunInv, RuntimeInv, QueueInv, Fresh, Claimed, runtime
      <4>4. HandInv'
        BY <4>1, <2>1, <2>2 DEF RunInv, RuntimeInv, HandInv, Fresh, Claimed, InQueue, runtime,
           Preparing, BeginWrites, Executing
      <4>q. QED
        BY <4>2, <4>3, <4>4 DEF RuntimeInv
    <3>q. QED
      BY <1>1, <2>1, <3>1, <3>2 DEF RunInv
  <2>4. CASE pc' = "put" /\ UNCHANGED <<call, req>>
    <3>1. ControlInv'
      BY <1>0, <2>4 DEF RunInv, ControlInv, ControlOK, SubmitInv, RecoverInv
    <3>2. RuntimeOK'
      BY <1>0 DEF RunInv, RuntimeInv, RuntimeOK, runtime
    <3>3. QueueInv'
      BY <1>0, <2>1 DEF RunInv, RuntimeInv, QueueInv, Fresh, Claimed, runtime
    <3>4. HandInv'
      BY <1>0, <2>1, <2>2 DEF RunInv, RuntimeInv, HandInv, Fresh, Claimed, InQueue, runtime,
         Preparing, BeginWrites, Executing
    <3>5. PutInv'
      <4>1. \A k \in DOMAIN queue : queue[k] # req
        BY <1>0 DEF RunInv, RuntimeInv, QueueInv, Fresh
      <4>2. worker \in {"load", "saveRun"} => hand # req
        BY <1>0 DEF RunInv, RuntimeInv, HandInv, Fresh
      <4>q. QED
        BY <1>0, <2>1, <2>4, <4>1, <4>2 DEF PutInv, Fresh, InQueue, Claimed, runtime
    <3>q. QED
      BY <1>1, <2>1, <3>1, <3>2, <3>3, <3>4, <3>5 DEF RunInv, RuntimeInv
  <2>q. QED
    BY <1>3, <2>3, <2>4 DEF Persist, PersistFails
<1>q. QED
  BY <1>2, <1>3 DEF Persist, PersistFails

LEMMA RunFields ==
    ASSUME NEW r \in Run
    PROVE  /\ \A v \in {"quiet", "active", "failed"} :
                 [r EXCEPT !.step = v] \in Run /\ [r EXCEPT !.step = v].input = r.input
           /\ \A v \in ActiveRun \cup TerminalRun :
                 [r EXCEPT !.status = v] \in Run /\ [r EXCEPT !.status = v].input = r.input
           /\ \A v \in {"streaming"} \cup Outcomes :
                 [r EXCEPT !.answer = v] \in Run /\ [r EXCEPT !.answer = v].input = r.input
  BY DEF Run

\* A Run file is rewritten: its input stays, so nothing is claimed or released.
LEMMA RewriteRun ==
    /\ DurableInv /\ UNCHANGED <<log, msg, current>>
    /\ \E i \in Nat : \/ \E v \in {"quiet", "active", "failed"} : runs' = [runs EXCEPT ![i].step = v]
                      \/ \E v \in ActiveRun \cup TerminalRun : runs' = [runs EXCEPT ![i].status = v]
                      \/ \E v \in {"streaming"} \cup Outcomes : runs' = [runs EXCEPT ![i].answer = v]
    => /\ DurableInv'
       /\ \A r : Fresh(r) => Fresh(r)'
<1> SUFFICES ASSUME DurableInv, UNCHANGED <<log, msg, current>>, NEW i \in Nat,
                    \/ \E v \in {"quiet", "active", "failed"} : runs' = [runs EXCEPT ![i].step = v]
                    \/ \E v \in ActiveRun \cup TerminalRun : runs' = [runs EXCEPT ![i].status = v]
                    \/ \E v \in {"streaming"} \cup Outcomes : runs' = [runs EXCEPT ![i].answer = v]
             PROVE  DurableInv' /\ \A r : Fresh(r) => Fresh(r)'
  OBVIOUS
<1>1. runs \in Seq(Run) /\ DOMAIN runs = 1..Len(runs) /\ Len(runs) \in Nat
  BY DEF DurableInv, DurableOK
<1>2. /\ DOMAIN runs' = DOMAIN runs
      /\ \A j \in DOMAIN runs : runs'[j] \in Run /\ runs'[j].input = runs[j].input
  <2>1. CASE \E v \in {"quiet", "active", "failed"} : runs' = [runs EXCEPT ![i].step = v]
    <3>1. PICK v \in {"quiet", "active", "failed"} : runs' = [runs EXCEPT ![i].step = v]
      BY <2>1
    <3>2. /\ DOMAIN runs' = DOMAIN runs
          /\ \A j \in DOMAIN runs :
                runs'[j] = IF j = i THEN [runs[i] EXCEPT !.step = v] ELSE runs[j]
      BY <1>1, <3>1
    <3>3. ASSUME NEW j \in DOMAIN runs
          PROVE  runs'[j] \in Run /\ runs'[j].input = runs[j].input
      <4>1. runs[j] \in Run
        BY <1>1
      <4>2. /\ [runs[j] EXCEPT !.step = v] \in Run
            /\ [runs[j] EXCEPT !.step = v].input = runs[j].input
        BY <4>1, RunFields
      <4>q. QED
        BY <3>2, <4>1, <4>2
    <3>q. QED
      BY <3>2, <3>3
  <2>2. CASE \E v \in ActiveRun \cup TerminalRun : runs' = [runs EXCEPT ![i].status = v]
    <3>1. PICK v \in ActiveRun \cup TerminalRun : runs' = [runs EXCEPT ![i].status = v]
      BY <2>2
    <3>2. /\ DOMAIN runs' = DOMAIN runs
          /\ \A j \in DOMAIN runs :
                runs'[j] = IF j = i THEN [runs[i] EXCEPT !.status = v] ELSE runs[j]
      BY <1>1, <3>1
    <3>3. ASSUME NEW j \in DOMAIN runs
          PROVE  runs'[j] \in Run /\ runs'[j].input = runs[j].input
      <4>1. runs[j] \in Run
        BY <1>1
      <4>2. /\ [runs[j] EXCEPT !.status = v] \in Run
            /\ [runs[j] EXCEPT !.status = v].input = runs[j].input
        BY <4>1, RunFields
      <4>q. QED
        BY <3>2, <4>1, <4>2
    <3>q. QED
      BY <3>2, <3>3
  <2>3. CASE \E v \in {"streaming"} \cup Outcomes : runs' = [runs EXCEPT ![i].answer = v]
    <3>1. PICK v \in {"streaming"} \cup Outcomes : runs' = [runs EXCEPT ![i].answer = v]
      BY <2>3
    <3>2. /\ DOMAIN runs' = DOMAIN runs
          /\ \A j \in DOMAIN runs :
                runs'[j] = IF j = i THEN [runs[i] EXCEPT !.answer = v] ELSE runs[j]
      BY <1>1, <3>1
    <3>3. ASSUME NEW j \in DOMAIN runs
          PROVE  runs'[j] \in Run /\ runs'[j].input = runs[j].input
      <4>1. runs[j] \in Run
        BY <1>1
      <4>2. /\ [runs[j] EXCEPT !.answer = v] \in Run
            /\ [runs[j] EXCEPT !.answer = v].input = runs[j].input
        BY <4>1, RunFields
      <4>q. QED
        BY <3>2, <4>1, <4>2
    <3>q. QED
      BY <3>2, <3>3
  <2>q. QED
    BY <2>1, <2>2, <2>3
<1>3. runs' \in Seq(Run)
  BY <1>1, <1>2, IsASeq
<1>4. DurableOK'
  BY <1>3 DEF DurableInv, DurableOK
<1>5. AtMostOneRun' /\ LogInv' /\ NewUnclaimed'
  BY <1>2 DEF DurableInv, AtMostOneRun, LogInv, NewUnclaimed, Claimed
<1>6. \A r : Fresh(r) => Fresh(r)'
  BY <1>2 DEF Fresh, Claimed
<1>q. QED
  BY <1>4, <1>5, <1>6 DEF DurableInv

\* A message advances: it is not new afterwards, and it was not new before.
LEMMA AdvanceMessage ==
    ASSUME DurableInv, UNCHANGED <<log, runs, current>>,
           NEW r \in Requests, NEW st \in {"bound", "committed"},
           msg[r] # "new", msg' = [msg EXCEPT ![r] = st]
    PROVE  /\ DurableInv'
           /\ \A s \in Requests : (msg[s] = "new") <=> (msg'[s] = "new")
<1>1. DurableOK'
  BY DEF DurableInv, DurableOK, MessageStatus
<1>2. \A s \in Requests : (msg[s] = "new") <=> (msg'[s] = "new")
  BY DEF DurableInv, DurableOK
<1>3. AtMostOneRun' /\ NewUnclaimed'
  BY <1>2 DEF DurableInv, AtMostOneRun, NewUnclaimed, Claimed
<1>4. LogInv'
  <2>1. \A k \in DOMAIN log : log[k] \in Requests
    BY ElementOfSeq DEF DurableInv, DurableOK
  <2>q. QED
    BY <2>1, <1>2 DEF DurableInv, LogInv
<1>q. QED
  BY <1>1, <1>2, <1>3, <1>4 DEF DurableInv

\* A step of the worker that leaves freshness and the queue alone keeps QueueInv, and
\* PutInv too when the worker does not move towards a new claim.
LEMMA WorkerQueue ==
    ASSUME RuntimeInv, UNCHANGED <<queue, hand, control>>,
           worker' \notin {"load", "saveRun"},
           \A r \in Requests : Fresh(r) /\ (InQueue(r) \/ (pc = "put" /\ r = req)) => Fresh(r)'
    PROVE  QueueInv' /\ PutInv'
<1>1. (\A k \in DOMAIN queue : queue[k] \in Requests => Fresh(queue[k]))'
  <2> SUFFICES ASSUME NEW k \in DOMAIN queue', queue'[k] \in Requests
               PROVE  Fresh(queue[k])'
    OBVIOUS
  <2>1. PICK r \in Requests : r = queue[k] /\ queue'[k] = r /\ k \in DOMAIN queue
    OBVIOUS
  <2>2. Fresh(r) /\ InQueue(r)
    BY <2>1 DEF RuntimeInv, QueueInv, InQueue
  <2>3. Fresh(r)'
    BY <2>2 DEF Fresh, Claimed, InQueue
  <2>q. QED
    BY <2>1, <2>3 DEF Fresh, Claimed
<1>2. QueueInv'
  BY <1>1 DEF RuntimeInv, QueueInv
<1>3. PutInv'
  BY DEF RuntimeInv, PutInv, Fresh, Claimed, InQueue, control
<1>q. QED
  BY <1>2, <1>3

\* _begin claims the message in hand; the rest of the queue stays unclaimed.
LEMMA SaveRunKeeps ==
    RunInv /\ SaveRun /\ UNCHANGED <<control, hand, queue, intReq, outcome, callers>> => RunInv'
<1> SUFFICES ASSUME RunInv, SaveRun, UNCHANGED <<control, hand, queue, intReq, outcome, callers>>
             PROVE  RunInv'
  OBVIOUS
<1> DEFINE new == [input |-> hand, status |-> "pending", step |-> "quiet", answer |-> "none"]
<1>0. /\ Fresh(hand) /\ ~InQueue(hand) /\ (pc = "put" => hand # req)
      /\ runs \in Seq(Run) /\ runs' = Append(runs, new)
      /\ UNCHANGED <<log, msg, current>>
  BY DEF SaveRun, RunInv, RuntimeInv, HandInv, PutInv, DurableInv, DurableOK
<1>1. hand \in Requests /\ new \in Run
  BY <1>0 DEF Fresh, Run, ActiveRun
<1>2. /\ runs' \in Seq(Run) /\ DOMAIN runs' = 1..(Len(runs) + 1) /\ Len(runs) \in Nat
      /\ DOMAIN runs = 1..Len(runs)
      /\ runs'[Len(runs) + 1].input = hand
      /\ \A i \in DOMAIN runs : runs'[i] = runs[i]
  BY <1>0, <1>1, AppendProperties, LenProperties
<1>3. \A r : r # hand /\ Fresh(r) => Fresh(r)'
  BY <1>0, <1>2 DEF Fresh, Claimed
<1>4. DurableInv'
  <2>1. DurableOK'
    BY <1>0, <1>2 DEF RunInv, DurableInv, DurableOK
  <2>2. AtMostOneRun'
    <3>1. \A i \in DOMAIN runs : runs[i].input # hand
      BY <1>0 DEF Fresh, Claimed
    <3>q. QED
      BY <3>1, <1>2 DEF RunInv, DurableInv, AtMostOneRun
  <2>3. LogInv'
    BY <1>0 DEF RunInv, DurableInv, LogInv
  <2>4. NewUnclaimed'
    BY <1>0, <1>2 DEF RunInv, DurableInv, NewUnclaimed, Claimed, Fresh
  <2>q. QED
    BY <2>1, <2>2, <2>3, <2>4 DEF DurableInv
<1>5. ControlInv' /\ CallersOK'
  BY <1>0, WorkerControl, CallersFrame DEF RunInv, SaveRun
<1>6. QueueInv' /\ PutInv'
  BY <1>0, <1>3, WorkerQueue DEF RunInv, SaveRun
<1>7. RuntimeOK' /\ HandInv'
  BY <1>0, <1>1 DEF SaveRun, RunInv, RuntimeInv, RuntimeOK, HandInv, WorkerPlaces, Preparing,
     BeginWrites, Fresh
<1>q. QED
  BY <1>4, <1>5, <1>6, <1>7 DEF RunInv, RuntimeInv

\* bind_run and set_status(COMMITTED).
LEMMA InputKeeps ==
    /\ RunInv /\ (BindInput \/ CommitInput)
    /\ UNCHANGED <<control, hand, queue, intReq, outcome, callers>>
    => RunInv'
<1> SUFFICES ASSUME RunInv, BindInput \/ CommitInput,
                    UNCHANGED <<control, hand, queue, intReq, outcome, callers>>
             PROVE  RunInv'
  OBVIOUS
<1>0. /\ worker \in {"bindInput", "commitInput"} /\ worker' \in {"commitInput", "openAnswer"}
      /\ \E st \in {"bound", "committed"} : msg' = [msg EXCEPT ![hand] = st]
      /\ UNCHANGED <<log, runs, current>>
  BY DEF BindInput, CommitInput
<1>1. hand \in Requests /\ msg[hand] # "new"
  BY <1>0 DEF RunInv, RuntimeInv, HandInv, Preparing, BeginWrites
<1>2. DurableInv' /\ \A s \in Requests : (msg[s] = "new") <=> (msg'[s] = "new")
  BY <1>0, <1>1, AdvanceMessage DEF RunInv
<1>3. ControlInv' /\ CallersOK'
  BY <1>0, <1>2, WorkerControl, CallersFrame DEF RunInv
<1>4. \A r \in Requests : Fresh(r) => Fresh(r)'
  BY <1>0, <1>2 DEF Fresh, Claimed
<1>5. QueueInv' /\ PutInv'
  BY <1>0, <1>4, WorkerQueue DEF RunInv
<1>6. RuntimeOK' /\ HandInv'
  BY <1>0, <1>1, <1>2 DEF RunInv, RuntimeInv, RuntimeOK, HandInv, WorkerPlaces, Preparing,
     BeginWrites
<1>q. QED
  BY <1>2, <1>3, <1>5, <1>6 DEF RunInv, RuntimeInv

\* One write of recovery: no worker runs, and pc stays at "recover".
LEMMA RecoverKeeps == RunInv /\ Recover => RunInv'
<1> SUFFICES ASSUME RunInv, pc = "recover", NEW i \in DOMAIN runs, RecoverWrite(i),
                    UNCHANGED <<log, current, control, runtime, callers>>
             PROVE  RunInv'
  BY DEF Recover
<1>0. i \in Nat /\ runs[i].input \in Requests /\ UNCHANGED pc
  <2>1. runs \in Seq(Run)
    BY DEF RunInv, DurableInv, DurableOK
  <2>2. i \in 1..Len(runs) /\ Len(runs) \in Nat
    BY <2>1, LenProperties
  <2>3. runs[i] \in Run
    BY <2>1, <2>2, ElementOfSeq
  <2>q. QED
    BY <2>2, <2>3 DEF Run, control
<1>1. /\ DurableInv' /\ \A s \in Requests : Fresh(s) => Fresh(s)'
      /\ \A s \in Requests : (msg[s] = "new") <=> (msg'[s] = "new")
  <2>1. CASE RecoverInput(i)
    <3>1. \E st \in {"bound", "committed"} : msg' = [msg EXCEPT ![runs[i].input] = st]
      BY <2>1 DEF RecoverInput
    <3>2. msg[runs[i].input] # "new"
      BY <2>1 DEF RecoverInput, Queued
    <3>3. DurableInv' /\ \A s \in Requests : (msg[s] = "new") <=> (msg'[s] = "new")
      BY <1>0, <2>1, <3>1, <3>2, AdvanceMessage DEF RecoverInput, RunInv
    <3>q. QED
      BY <2>1, <3>3 DEF RecoverInput, Fresh, Claimed
  <2>2. CASE RecoverSteps(i) \/ RecoverRun(i) \/ RecoverAnswer(i)
    <3>1. /\ UNCHANGED msg
          /\ \/ \E v \in {"quiet", "active", "failed"} : runs' = [runs EXCEPT ![i].step = v]
             \/ \E v \in ActiveRun \cup TerminalRun : runs' = [runs EXCEPT ![i].status = v]
             \/ \E v \in {"streaming"} \cup Outcomes : runs' = [runs EXCEPT ![i].answer = v]
      BY <2>2 DEF RecoverSteps, RecoverRun, RecoverAnswer, TerminalRun, Outcomes
    <3>2. DurableInv' /\ \A s : Fresh(s) => Fresh(s)'
      BY <1>0, <3>1, RewriteRun DEF RunInv
    <3>q. QED
      BY <3>1, <3>2
  <2>q. QED
    BY <2>1, <2>2 DEF RecoverWrite
<1>2. ControlInv'
  BY <1>0, <1>1 DEF RunInv, ControlInv, ControlOK, SubmitInv, RecoverInv, control, runtime
<1>3. RuntimeInv'
  BY <1>0, <1>1, FreshFrame DEF RunInv, control
<1>q. QED
  BY <1>1, <1>2, <1>3, CallersFrame DEF RunInv

\* The other writes of _begin and _finish, and the Engine's Steps, rewrite run.json,
\* a step.json, the answer or task.json.
LEMMA RewriteKeeps ==
    /\ RunInv
    /\ \/ /\ OpenAnswer \/ MarkTask \/ StartRun
          /\ UNCHANGED <<control, hand, queue, intReq, outcome, callers>>
       \/ EngineStep \/ Finish
    => RunInv'
<1> SUFFICES ASSUME RunInv,
                    \/ /\ OpenAnswer \/ MarkTask \/ StartRun
                       /\ UNCHANGED <<control, hand, queue, intReq, outcome, callers>>
                    \/ EngineStep \/ Finish
             PROVE  RunInv'
  OBVIOUS
<1>0. /\ UNCHANGED <<log, msg, control, hand, queue, intReq, outcome, callers>>
      /\ outcome \in Outcomes /\ runs \in Seq(Run) /\ last \in Nat
      /\ worker \in {"openAnswer", "markTask", "startRun"} \cup Executing \cup FinishWrites
      /\ worker' \in {"markTask", "startRun", "begun", "settled"} \cup Executing \cup FinishWrites
      /\ worker' \in Preparing \cup Executing => worker \in Preparing \cup Executing
  <2>1. CASE OpenAnswer \/ MarkTask \/ StartRun
    BY <2>1 DEF OpenAnswer, MarkTask, StartRun, EngineStep, Finish, CloseSteps, CloseAnswer,
       CloseRun, ClearTask, Executing, FinishWrites, Preparing, BeginWrites, runtime,
       RunInv, RuntimeInv, RuntimeOK, DurableInv, DurableOK, last
  <2>2. CASE EngineStep
    BY <2>2 DEF EngineStep, runtime, RunInv, RuntimeInv, RuntimeOK, DurableInv, DurableOK, last
  <2>3. CASE Finish
    BY <2>3 DEF Finish, CloseSteps, CloseAnswer, CloseRun, ClearTask, Executing, FinishWrites,
       Preparing, BeginWrites, RunInv, RuntimeInv, RuntimeOK, DurableInv, DurableOK, last
  <2>q. QED
    BY <2>1, <2>2, <2>3
<1>1. DurableInv' /\ \A s : Fresh(s) => Fresh(s)'
  <2>1. CASE UNCHANGED runs
    <3>1. current' \in Nat
      BY <1>0 DEF RunInv, DurableInv, DurableOK, OpenAnswer, MarkTask, StartRun, EngineStep,
         Finish, CloseSteps, CloseAnswer, CloseRun, ClearTask
    <3>2. DurableInv'
      BY <1>0, <2>1, <3>1 DEF RunInv, DurableInv, DurableOK, AtMostOneRun, LogInv, NewUnclaimed,
         Claimed
    <3>q. QED
      BY <1>0, <2>1, <3>2 DEF Fresh, Claimed
  <2>2. CASE ~UNCHANGED runs
    <3>1. /\ UNCHANGED current
          /\ \/ \E v \in {"quiet", "active", "failed"} : runs' = [runs EXCEPT ![last].step = v]
             \/ \E v \in ActiveRun \cup TerminalRun : runs' = [runs EXCEPT ![last].status = v]
             \/ \E v \in {"streaming"} \cup Outcomes : runs' = [runs EXCEPT ![last].answer = v]
      <4>1. CASE OpenAnswer \/ MarkTask \/ StartRun
        BY <2>2, <4>1 DEF OpenAnswer, MarkTask, StartRun, ActiveRun
      <4>2. CASE EngineStep
        BY <2>2, <4>2 DEF EngineStep
      <4>3. CASE Finish /\ ~CloseSteps
        BY <1>0, <2>2, <4>3 DEF Finish, CloseAnswer, CloseRun, ClearTask, TerminalRun
      <4>4. CASE CloseSteps
        <5>1. CASE last \in DOMAIN runs
          <6>0. runs[last] \in Run
            BY <5>1, ElementOfSeq, LenProperties DEF RunInv, DurableInv, DurableOK
          <6>1. runs[last].step \in {"quiet", "active", "failed"}
            BY <6>0 DEF Run
          <6>q. QED
            BY <1>0, <4>4, <6>1 DEF CloseSteps
        <5>2. CASE last \notin DOMAIN runs
          BY <1>0, <2>2, <4>4, <5>2 DEF CloseSteps
        <5>q. QED
          BY <5>1, <5>2
      <4>q. QED
        BY <4>1, <4>2, <4>3, <4>4
    <3>q. QED
      BY <1>0, <3>1, RewriteRun DEF RunInv
  <2>q. QED
    BY <2>1, <2>2
<1>2. ControlInv' /\ CallersOK'
  BY <1>0, WorkerControl, CallersFrame DEF RunInv, Executing, FinishWrites
<1>3. QueueInv' /\ PutInv'
  BY <1>0, <1>1, WorkerQueue DEF RunInv, Executing, FinishWrites
<1>4. RuntimeOK' /\ HandInv'
  BY <1>0 DEF RunInv, RuntimeInv, RuntimeOK, HandInv, WorkerPlaces, Preparing, BeginWrites,
     Executing, FinishWrites
<1>q. QED
  BY <1>1, <1>2, <1>3, <1>4 DEF RunInv, RuntimeInv

-----------------------------------------------------------------------------
(* The invariant and what follows from it.                                   *)

THEOREM RunInvInit == Init => RunInv
<1> SUFFICES ASSUME Init PROVE RunInv
  OBVIOUS
<1>1. DurableInv
  BY EmptySeq DEF Init, DurableInv, DurableOK, MessageStatus, AtMostOneRun, LogInv, NewUnclaimed,
     Claimed
<1>2. ControlInv
  BY DEF Init, ControlInv, ControlOK, SubmitInv, RecoverInv
<1>3. RuntimeInv
  <2>1. RuntimeOK
    BY EmptySeq DEF Init, RuntimeOK, WorkerPlaces, Outcomes
  <2>2. QueueInv
    BY EmptySeq DEF Init, QueueInv
  <2>3. HandInv /\ PutInv
    BY DEF Init, HandInv, PutInv, WorkerPlaces, Preparing, BeginWrites, Executing, FinishWrites
  <2>q. QED
    BY <2>1, <2>2, <2>3 DEF RuntimeInv
<1>4. CallersOK
  BY DEF Init, CallersOK
<1>q. QED
  BY <1>1, <1>2, <1>3, <1>4 DEF RunInv

THEOREM RunInvStep == RunInv /\ [Next]_vars => RunInv'
<1> SUFFICES ASSUME RunInv, [Next]_vars PROVE RunInv'
  OBVIOUS
<1>1. CASE (\E c \in {"start", "wait"} : Enter(c)) \/ (\E r \in Requests : Submit(r))
  BY <1>1, EnterKeeps, SubmitKeeps
<1>2. CASE RunNext
  BY <1>2, AttachKeeps, RefuseKeeps, UseRuntimeKeeps, RecoverKeeps, RecoverTaskKeeps,
     CreateRuntimeKeeps, PersistKeeps, PutKeeps DEF RunNext
<1>3. CASE WorkerNext
  <2>1. CASE Begin
    BY <2>1, SaveRunKeeps, InputKeeps, RewriteKeeps DEF Begin
  <2>2. CASE Settle
    BY <2>2, EndIterationKeeps DEF Settle
  <2>q. QED
    BY <1>3, <2>1, <2>2, WorkerStartsKeeps, WorkerGetsKeeps, LoadKeeps, ExecuteKeeps,
       RewriteKeeps DEF WorkerNext
<1>4. CASE EngineStep \/ EngineEnds \/ DeadlineExpires
  BY <1>4, RewriteKeeps, EngineEndsKeeps
<1>5. CASE CallerNext \/ Interrupt \/ Shutdown \/ ShutdownEnds \/ NewManager
  BY <1>5, CallersKeep, InterruptKeeps, ShutdownKeeps, ShutdownEndsKeeps DEF CallerNext
<1>6. CASE FaultNext
  BY <1>6, RecoverFailsKeeps, PersistKeeps, WorkerFailsKeeps, CrashKeeps DEF FaultNext
<1>7. CASE UNCHANGED vars
  BY <1>7, DurableFrame, ControlFrame, RuntimeFrame, CallersFrame
     DEF vars, RunInv, control, runtime
<1>q. QED
  BY <1>1, <1>2, <1>3, <1>4, <1>5, <1>6, <1>7 DEF Next

THEOREM RunInvHolds == Spec => []RunInv
<1>1. Spec => Init /\ [][Next]_vars
  BY DEF Spec
<1>q. QED
  BY <1>1, RunInvInit, RunInvStep, PTL

\* Every variable of the scheduler keeps its type.
THEOREM TypeCorrect == Spec => []TypeOK
<1>1. RunInv => TypeOK
  BY DEF RunInv, DurableInv, ControlInv, RuntimeInv, TypeOK
<1>q. QED
  BY <1>1, RunInvHolds, PTL

\* No request is ever claimed by two Runs, whatever crashes and fails.
THEOREM OneRunPerRequest == Spec => []AtMostOneRun
<1>1. RunInv => AtMostOneRun
  BY DEF RunInv, DurableInv
<1>q. QED
  BY <1>1, RunInvHolds, PTL

-----------------------------------------------------------------------------
(***************************************************************************)
(* What RunManager leaves on disk.  LastInv says for each place of the     *)
(* worker what its Run looks like on disk; CleanInv that every other Run   *)
(* was brought to an end, by the worker or by the recovery before it.      *)
(***************************************************************************)

\* The worker's places, by what its message has on disk.
Opening == {"bindInput", "commitInput", "openAnswer"}
Streaming == {"markTask", "startRun", "begun"} \cup Executing \cup {"closeSteps", "closeAnswer"}
Closing == {"closeRun", "clearTask", "settled"}
Claiming == Opening \cup Streaming \cup Closing

\* The Run of the message in hand.
LastInv ==
    /\ worker \in {"saveRun", "bindInput"} => msg[hand] \in Queued
    /\ worker \in Claiming \ {"bindInput", "commitInput"} => msg[hand] = "committed"
    /\ worker \in Claiming => last \in DOMAIN runs /\ runs[last].input = hand
    /\ worker \in Opening \cup {"markTask", "startRun"} => runs[last].status = "pending"
    /\ worker \in {"begun", "closeSteps", "closeAnswer", "closeRun"} \cup Executing =>
           runs[last].status = "running"
    /\ worker \in {"clearTask", "settled"} => runs[last].status = outcome
    /\ worker \in Opening => runs[last].answer = "none"
    /\ worker \in Streaming => runs[last].answer = "streaming"
    /\ worker \in Closing => runs[last].answer = outcome
    /\ worker \in Claiming \ (Executing \cup {"closeSteps"}) => runs[last].step # "active"
    /\ worker \in {"closeSteps", "closeAnswer"} \cup Closing /\ outcome = "completed" =>
           runs[last].step = "quiet"

\* Nothing is left to do for that Run.
Over(i) == RunClean(i) /\ runs[i].answer # "streaming"

\* The other Runs, while there is a runtime or one is about to be made.
CleanInv ==
    worker \notin Exited \cup {"none"} \/ pc = "recovered" =>
        \A i \in DOMAIN runs : worker \notin Claiming \/ i # last => Over(i)

\* The Task is IDLE between two messages.
CurrentInv ==
    worker \in {"start", "get", "load", "saveRun", "settled"} \/ pc = "recovered" => current = 0

DiskInv == LastInv /\ CleanInv /\ CurrentInv /\ SettledRunAgrees

\* Whoever will be stopped has been asked to stop, or is past its deadline.
AskInv ==
    /\ worker \in Preparing /\ (closed \/ intReq) => hand \in asked
    /\ worker = "cancelling" => hand \in asked
    /\ worker \in FinishWrites /\ outcome = "interrupted" => hand \in asked \cup expired
    /\ InterruptedForCause

\* Who holds the lock, and the Task.
HoldInv ==
    /\ call = "none" <=> pc = "none"
    /\ call = "shutdown" <=> pc = "await"
    /\ closed => call \in {"none", "shutdown"}
    /\ closed /\ worker # "none" => call = "shutdown"
    /\ attached => worker # "none" \/ pc \in {"recover", "recovered"}

-----------------------------------------------------------------------------
(* The lock and the Task.                                                    *)

LEMMA HoldKeeps == ASSUME RunInv, HoldInv, [Next]_vars PROVE HoldInv'
<1> USE DEF HoldInv, durable, control, runtime, callers
<1>1. CASE (\E c \in {"start", "wait"} : Enter(c)) \/ (\E r \in Requests : Submit(r))
  BY <1>1 DEF Enter, Submit
<1>2. CASE RunNext
  <2>1. CASE Attach \/ Refuse \/ UseRuntime
    BY <2>1 DEF Attach, Refuse, Release, UseRuntime, Granted
  <2>2. CASE Recover \/ RecoverTask
    BY <2>2 DEF Recover, RecoverTask
  <2>3. CASE CreateRuntime
    BY <2>3 DEF CreateRuntime, Granted, Release
  <2>4. CASE Persist \/ Put
    BY <2>4 DEF Persist, Put, Release
  <2>q. QED
    BY <1>2, <2>1, <2>2, <2>3, <2>4 DEF RunNext
<1>3. CASE WorkerNext \/ EngineStep \/ EngineEnds \/ DeadlineExpires \/ WorkerFails
  <2>1. worker # "none" /\ worker' # "none" /\ UNCHANGED control
    BY <1>3 DEF WorkerNext, WorkerStarts, WorkerGets, Load, Begin, Execute, Finish, Settle,
       EndIteration, LoopHead, Take, SaveRun, BindInput, CommitInput, OpenAnswer, MarkTask,
       StartRun, CloseSteps, CloseAnswer, CloseRun, ClearTask, EngineStep, EngineEnds, DeadlineExpires,
       WorkerFails, Preparing, BeginWrites, FinishWrites, Executing
  <2>q. QED
    BY <2>1
<1>4. CASE CallerNext
  BY <1>4 DEF CallerNext, InterruptReturns, WaitReturns
<1>5. CASE Interrupt
  BY <1>5 DEF Interrupt, Preparing, BeginWrites, Executing
<1>6. CASE Shutdown
  BY <1>6 DEF Shutdown
<1>7. CASE ShutdownEnds \/ NewManager
  BY <1>7 DEF ShutdownEnds, NewManager, Release
<1>8. CASE RecoverFails \/ PersistFails \/ Crash
  BY <1>8 DEF RecoverFails, PersistFails, Crash, Release
<1>9. CASE UNCHANGED vars
  BY <1>9 DEF vars
<1>q. QED
  BY <1>1, <1>2, <1>3, <1>4, <1>5, <1>6, <1>7, <1>8, <1>9 DEF Next, FaultNext

-----------------------------------------------------------------------------
(* One record of runs is rewritten, or added.                                *)

LEMMA RunsTyped ==
    ASSUME RunInv
    PROVE  /\ last \in Nat /\ DOMAIN runs = 1 .. last
           /\ \A i \in DOMAIN runs :
                  /\ runs[i] \in Run /\ runs[i].input \in Requests
                  /\ runs[i].step \in {"quiet", "active", "failed"}
           /\ \A i \in DOMAIN runs : msg[runs[i].input] # "new"
<1>1. runs \in Seq(Run)
  BY DEF RunInv, DurableInv, DurableOK
<1>2. last \in Nat /\ DOMAIN runs = 1 .. last
  BY <1>1, LenProperties DEF last
<1>3. \A i \in DOMAIN runs : runs[i] \in Run
  BY <1>1, <1>2, ElementOfSeq
<1>4. \A i \in DOMAIN runs : runs[i].input \in Requests
                             /\ runs[i].step \in {"quiet", "active", "failed"}
  BY <1>3 DEF Run
<1>5. \A i \in DOMAIN runs : msg[runs[i].input] # "new"
  BY <1>4 DEF RunInv, DurableInv, NewUnclaimed, Claimed
<1>q. QED
  BY <1>2, <1>3, <1>4, <1>5

LEMMA StepWritten ==
    ASSUME RunInv, RunInv', NEW i \in DOMAIN runs, NEW v, runs' = [runs EXCEPT ![i].step = v]
    PROVE  /\ DOMAIN runs' = DOMAIN runs /\ last' = last
           /\ \A j \in DOMAIN runs : j # i => runs'[j] = runs[j]
           /\ runs'[i].step = v /\ runs'[i].status = runs[i].status
           /\ runs'[i].answer = runs[i].answer /\ runs'[i].input = runs[i].input
<1>1. /\ DOMAIN runs' = DOMAIN runs /\ runs'[i] = [runs[i] EXCEPT !.step = v]
      /\ \A j \in DOMAIN runs : j # i => runs'[j] = runs[j]
  BY RunsTyped
<1>2. /\ last \in Nat /\ DOMAIN runs = 1 .. last /\ runs[i] \in Run
      /\ (last \in Nat)' /\ DOMAIN runs' = 1 .. last'
  BY RunsTyped, LenProperties DEF RunInv, DurableInv, DurableOK, last
<1>3. last' = last
  BY <1>1, <1>2
<1>q. QED
  BY <1>1, <1>2, <1>3 DEF Run

LEMMA StatusWritten ==
    ASSUME RunInv, RunInv', NEW i \in DOMAIN runs, NEW v, runs' = [runs EXCEPT ![i].status = v]
    PROVE  /\ DOMAIN runs' = DOMAIN runs /\ last' = last
           /\ \A j \in DOMAIN runs : j # i => runs'[j] = runs[j]
           /\ runs'[i].status = v /\ runs'[i].step = runs[i].step
           /\ runs'[i].answer = runs[i].answer /\ runs'[i].input = runs[i].input
<1>1. /\ DOMAIN runs' = DOMAIN runs /\ runs'[i] = [runs[i] EXCEPT !.status = v]
      /\ \A j \in DOMAIN runs : j # i => runs'[j] = runs[j]
  BY RunsTyped
<1>2. /\ last \in Nat /\ DOMAIN runs = 1 .. last /\ runs[i] \in Run
      /\ (last \in Nat)' /\ DOMAIN runs' = 1 .. last'
  BY RunsTyped, LenProperties DEF RunInv, DurableInv, DurableOK, last
<1>3. last' = last
  BY <1>1, <1>2
<1>q. QED
  BY <1>1, <1>2, <1>3 DEF Run

LEMMA AnswerWritten ==
    ASSUME RunInv, RunInv', NEW i \in DOMAIN runs, NEW v, runs' = [runs EXCEPT ![i].answer = v]
    PROVE  /\ DOMAIN runs' = DOMAIN runs /\ last' = last
           /\ \A j \in DOMAIN runs : j # i => runs'[j] = runs[j]
           /\ runs'[i].answer = v /\ runs'[i].step = runs[i].step
           /\ runs'[i].status = runs[i].status /\ runs'[i].input = runs[i].input
<1>1. /\ DOMAIN runs' = DOMAIN runs /\ runs'[i] = [runs[i] EXCEPT !.answer = v]
      /\ \A j \in DOMAIN runs : j # i => runs'[j] = runs[j]
  BY RunsTyped
<1>2. /\ last \in Nat /\ DOMAIN runs = 1 .. last /\ runs[i] \in Run
      /\ (last \in Nat)' /\ DOMAIN runs' = 1 .. last'
  BY RunsTyped, LenProperties DEF RunInv, DurableInv, DurableOK, last
<1>3. last' = last
  BY <1>1, <1>2
<1>q. QED
  BY <1>1, <1>2, <1>3 DEF Run

\* A Run is added behind the others.
LEMMA RunAdded ==
    ASSUME RunInv, NEW run, run \in Run, runs' = Append(runs, run)
    PROVE  /\ last' = last + 1 /\ DOMAIN runs' = DOMAIN runs \cup {last + 1}
           /\ last + 1 \notin DOMAIN runs /\ runs'[last + 1] = run
           /\ \A j \in DOMAIN runs : runs'[j] = runs[j]
<1>1. runs \in Seq(Run)
  BY DEF RunInv, DurableInv, DurableOK
<1>2. /\ Len(runs') = Len(runs) + 1 /\ DOMAIN runs' = 1 .. (Len(runs) + 1)
      /\ runs'[Len(runs) + 1] = run /\ \A j \in DOMAIN runs : runs'[j] = runs[j]
      /\ Len(runs) \in Nat /\ DOMAIN runs = 1 .. Len(runs)
  BY <1>1, AppendProperties, LenProperties
<1>q. QED
  BY <1>2 DEF last

-----------------------------------------------------------------------------
(* Steps that write no Run.                                                  *)

LEMMA SameFiles == UNCHANGED <<msg, runs>> => Forward
BY DEF Forward, Queued, TerminalRun, Outcomes

\* With the worker between two messages, all that was begun has ended.
LEMMA AllOver ==
    ASSUME RunInv, DiskInv,
           worker \in {"start", "get", "load", "saveRun", "settled"} \/ pc = "recovered"
    PROVE  current = 0 /\ \A i \in DOMAIN runs : Over(i)
<1>1. current = 0
  BY DEF DiskInv, CurrentInv
<1>2. CASE worker = "settled"
  <2>1. last \in DOMAIN runs /\ \A i \in DOMAIN runs : i # last => Over(i)
    BY <1>2 DEF DiskInv, LastInv, CleanInv, Claiming, Closing, Exited
  <2>2. outcome \in Outcomes
    BY DEF RunInv, RuntimeInv, RuntimeOK
  <2>3. Over(last)
    BY <1>2, <2>2 DEF DiskInv, LastInv, Claiming, Closing, Executing, Over, RunClean,
       TerminalRun, Outcomes
  <2>q. QED
    BY <1>1, <2>1, <2>3
<1>3. CASE worker # "settled"
  <2>1. worker \notin Claiming
    BY <1>3 DEF Claiming, Opening, Streaming, Closing, Executing, RunInv, ControlInv, RecoverInv
  <2>q. QED
    BY <1>1, <1>3, <2>1 DEF DiskInv, CleanInv, Exited
<1>q. QED
  BY <1>2, <1>3

\* Operations of callers; the message they may write was new.
LEMMA FilesFrame ==
    ASSUME RunInv, DiskInv, UNCHANGED <<runs, current, worker, hand, outcome>>,
           \A r \in Requests : msg[r] # "new" => msg'[r] = msg[r],
           pc' = "recovered" => pc = "recovered"
    PROVE  DiskInv' /\ Forward
<1>1. \A i \in DOMAIN runs : msg'[runs[i].input] = msg[runs[i].input]
  BY RunsTyped
<1>2. worker \in {"saveRun", "bindInput"} \cup Claiming => msg'[hand] = msg[hand]
  <2>1. CASE worker \in {"saveRun", "bindInput"}
    BY <2>1 DEF RunInv, RuntimeInv, HandInv, Preparing, BeginWrites, Fresh
  <2>2. CASE worker \in Claiming
    BY <1>1, <2>2 DEF DiskInv, LastInv
  <2>q. QED
    BY <2>1, <2>2
<1>3. LastInv'
  BY <1>2 DEF DiskInv, LastInv, last, Claiming
<1>4. CleanInv' /\ CurrentInv' /\ SettledRunAgrees'
  BY <1>1 DEF DiskInv, CleanInv, CurrentInv, SettledRunAgrees, Over, RunClean, last
<1>5. Forward
  BY DEF Forward, Queued, TerminalRun, Outcomes
<1>q. QED
  BY <1>3, <1>4, <1>5 DEF DiskInv

LEMMA CallersDisk ==
    ASSUME RunInv, DiskInv,
           \/ \E c \in {"start", "wait"} : Enter(c)
           \/ \E r \in Requests : Submit(r)
           \/ Refuse \/ UseRuntime \/ Attach \/ Put \/ Persist \/ PersistFails \/ RecoverFails
           \/ InterruptReturns \/ WaitReturns \/ NewManager
    PROVE  DiskInv' /\ Forward
<1>1. UNCHANGED <<runs, current, worker, hand, outcome>>
  BY DEF Enter, Submit, Refuse, UseRuntime, Attach, Put, Persist, PersistFails, RecoverFails,
         InterruptReturns, WaitReturns, NewManager, durable, runtime
<1>2. pc' = "recovered" => pc = "recovered"
  BY DEF Enter, Submit, Refuse, UseRuntime, Granted, Attach, Put, Persist, PersistFails,
         RecoverFails, InterruptReturns, WaitReturns, NewManager, Release, control
<1>3. \A r \in Requests : msg[r] # "new" => msg'[r] = msg[r]
  <2>1. CASE Persist \/ PersistFails
    <3>1. req \in Requests /\ msg[req] = "new" /\ msg \in [Requests -> MessageStatus]
      BY <2>1 DEF Persist, PersistFails, RunInv, ControlInv, SubmitInv, DurableInv, DurableOK
    <3>q. QED
      BY <2>1, <3>1 DEF Persist, PersistFails
  <2>2. CASE ~(Persist \/ PersistFails)
    BY <2>2 DEF Enter, Submit, Refuse, UseRuntime, Attach, Put, RecoverFails, InterruptReturns,
         WaitReturns, NewManager, durable
  <2>q. QED
    BY <2>1, <2>2
<1>q. QED
  BY <1>1, <1>2, <1>3, FilesFrame

\* A worker that takes its next message, waits for one or ends; a new worker.
LEMMA BetweenMessages ==
    ASSUME RunInv, DiskInv, UNCHANGED durable,
           worker \in {"start", "get", "load", "settled"} \/ pc = "recovered",
           worker' \in {"start", "get", "load", "stopped"}
    PROVE  DiskInv' /\ Forward
<1>1. current = 0 /\ \A i \in DOMAIN runs : Over(i)
  BY AllOver
<1>2. worker' \notin Claiming \cup {"saveRun", "bindInput"}
  BY DEF Claiming, Opening, Streaming, Closing, Executing
<1>3. LastInv'
  BY <1>2 DEF LastInv, Claiming, Opening, Streaming, Closing
<1>4. CleanInv' /\ CurrentInv' /\ SettledRunAgrees'
  BY <1>1, <1>2 DEF DiskInv, CleanInv, CurrentInv, SettledRunAgrees, Over, RunClean, durable
<1>q. QED
  BY <1>3, <1>4, SameFiles DEF DiskInv, durable

\* A worker or a process that ends.
LEMMA Stopping ==
    ASSUME RunInv, DiskInv, UNCHANGED durable,
           worker' \in {"none", "stopped", "failed"}, pc' # "recovered"
    PROVE  DiskInv' /\ Forward
<1>1. worker' \notin Claiming \cup {"saveRun", "bindInput"}
  BY DEF Claiming, Opening, Streaming, Closing, Executing
<1>2. LastInv'
  BY <1>1 DEF LastInv, Claiming, Opening, Streaming, Closing
<1>3. CleanInv' /\ CurrentInv' /\ SettledRunAgrees'
  BY DEF DiskInv, CleanInv, CurrentInv, SettledRunAgrees, RunClean, Exited, durable
<1>q. QED
  BY <1>2, <1>3, SameFiles DEF DiskInv, durable

\* An execution that begins or is cancelled, and a message that was loaded.
LEMMA MovesDisk ==
    ASSUME RunInv, DiskInv, UNCHANGED <<durable, hand, outcome>>, pc' \in {pc, "await"},
           \/ UNCHANGED worker
           \/ worker \in {"begun"} \cup Executing /\ worker' \in Executing
           \/ worker = "load" /\ msg[hand] \in Queued /\ worker' = "saveRun"
    PROVE  DiskInv' /\ Forward
<1>1. CASE UNCHANGED worker
  BY <1>1, FilesFrame DEF durable
<1>2. CASE worker \in {"begun"} \cup Executing /\ worker' \in Executing
  <2>1. LastInv'
    BY <1>2 DEF DiskInv, LastInv, Claiming, Opening, Streaming, Closing, Executing, durable, last
  <2>2. CleanInv' /\ CurrentInv' /\ SettledRunAgrees'
    BY <1>2 DEF DiskInv, CleanInv, CurrentInv, SettledRunAgrees, Over, RunClean, Claiming,
       Streaming, Executing, Exited, durable, last, RunInv, ControlInv, RecoverInv
  <2>q. QED
    BY <2>1, <2>2, SameFiles DEF DiskInv, durable
<1>3. CASE worker = "load" /\ msg[hand] \in Queued /\ worker' = "saveRun"
  <2>1. current = 0 /\ \A i \in DOMAIN runs : Over(i)
    BY <1>3, AllOver
  <2>2. LastInv'
    BY <1>3 DEF LastInv, Claiming, Opening, Streaming, Closing, Executing, durable
  <2>3. CleanInv' /\ CurrentInv' /\ SettledRunAgrees'
    BY <2>1 DEF DiskInv, CleanInv, CurrentInv, SettledRunAgrees, Over, RunClean, durable
  <2>q. QED
    BY <2>2, <2>3, SameFiles DEF DiskInv, durable
<1>q. QED
  BY <1>1, <1>2, <1>3

-----------------------------------------------------------------------------
(* Steps that write Runs.                                                    *)

\* Recovery, with no worker: what is terminal stays as it is.
LEMMA RecoverDisk == ASSUME RunInv, RunInv', DiskInv, Recover PROVE DiskInv' /\ Forward
<1>1. PICK i \in DOMAIN runs : RecoverWrite(i)
  BY DEF Recover
<1>2. worker = "none" /\ worker' = "none" /\ pc' = "recover"
  BY DEF Recover, RunInv, ControlInv, RecoverInv, control, runtime
<1>3. LastInv' /\ CleanInv' /\ CurrentInv'
  BY <1>2 DEF LastInv, CleanInv, CurrentInv, Claiming, Opening, Streaming, Closing, Executing,
     Exited
<1>4. runs[i].input \in Requests /\ msg \in [Requests -> MessageStatus]
  BY RunsTyped DEF RunInv, DurableInv, DurableOK
<1>5. SettledRunAgrees' /\ Forward
  <2>1. CASE RecoverSteps(i)
    <3>1. /\ DOMAIN runs' = DOMAIN runs
          /\ \A j \in DOMAIN runs : j # i => runs'[j] = runs[j]
          /\ runs'[i].step = "quiet" /\ runs'[i].status = runs[i].status
          /\ runs'[i].answer = runs[i].answer /\ runs'[i].input = runs[i].input
          /\ UNCHANGED msg
      BY <2>1, StepWritten DEF RecoverSteps
    <3>q. QED
      BY <3>1 DEF DiskInv, SettledRunAgrees, Forward, Queued, TerminalRun, Outcomes
  <2>2. CASE RecoverRun(i)
    <3>1. /\ DOMAIN runs' = DOMAIN runs
          /\ \A j \in DOMAIN runs : j # i => runs'[j] = runs[j]
          /\ runs'[i].status = "recovered" /\ runs[i].status \in ActiveRun
          /\ runs'[i].answer = runs[i].answer /\ runs'[i].input = runs[i].input
          /\ UNCHANGED msg
      BY <2>2, StatusWritten DEF RecoverRun
    <3>q. QED
      BY <3>1 DEF DiskInv, SettledRunAgrees, Forward, Queued, TerminalRun, Outcomes, ActiveRun
  <2>3. CASE RecoverInput(i)
    <3>1. /\ \A r \in Requests : msg[r] = "committed" => msg'[r] = "committed"
          /\ \A r \in Requests : msg[r] # "new" => msg'[r] # "new"
          /\ UNCHANGED runs
      BY <1>4, <2>3 DEF RecoverInput, Queued
    <3>2. \A j \in DOMAIN runs : runs[j].input \in Requests
      BY RunsTyped
    <3>q. QED
      BY <3>1, <3>2 DEF DiskInv, SettledRunAgrees, Forward, Queued, TerminalRun, Outcomes
  <2>4. CASE RecoverAnswer(i)
    <3>1. /\ DOMAIN runs' = DOMAIN runs
          /\ \A j \in DOMAIN runs : j # i => runs'[j] = runs[j]
          /\ runs'[i].status = runs[i].status /\ runs'[i].step = runs[i].step
          /\ runs[i].answer = "streaming" /\ runs'[i].input = runs[i].input
          /\ UNCHANGED msg
      BY <2>4, AnswerWritten DEF RecoverAnswer
    <3>q. QED
      BY <3>1 DEF DiskInv, SettledRunAgrees, Forward, Queued, TerminalRun, Outcomes
  <2>q. QED
    BY <1>1, <2>1, <2>2, <2>3, <2>4 DEF RecoverWrite
<1>q. QED
  BY <1>3, <1>5 DEF DiskInv

LEMMA RecoverTaskDisk == ASSUME RunInv, DiskInv, RecoverTask PROVE DiskInv' /\ Forward
<1>1. worker = "none" /\ worker' = "none"
  BY DEF RecoverTask, RunInv, ControlInv, RecoverInv, runtime
<1>2. LastInv'
  BY <1>1 DEF LastInv, Claiming, Opening, Streaming, Closing, Executing
<1>3. CleanInv' /\ CurrentInv' /\ SettledRunAgrees'
  BY DEF RecoverTask, DiskInv, CleanInv, CurrentInv, SettledRunAgrees, Over, RunClean
<1>q. QED
  BY <1>2, <1>3, SameFiles DEF DiskInv, RecoverTask

\* _begin: a Run PENDING, its input COMMITTED, its answer STREAMING, then RUNNING.
LEMMA SaveRunDisk ==
    ASSUME RunInv, DiskInv, SaveRun, UNCHANGED <<control, hand, outcome>>
    PROVE  DiskInv' /\ Forward
<1> DEFINE run == [input |-> hand, status |-> "pending", step |-> "quiet", answer |-> "none"]
<1>1. hand \in Requests /\ msg[hand] \in Queued /\ worker = "saveRun"
  BY DEF SaveRun, RunInv, RuntimeInv, HandInv, Fresh, DiskInv, LastInv
<1>2. run \in Run
  BY <1>1 DEF Run, ActiveRun
<1>3. /\ last' = last + 1 /\ DOMAIN runs' = DOMAIN runs \cup {last + 1}
      /\ last + 1 \notin DOMAIN runs /\ runs'[last + 1] = run
      /\ \A j \in DOMAIN runs : runs'[j] = runs[j]
  BY <1>2, RunAdded DEF SaveRun
<1>4. current = 0 /\ \A i \in DOMAIN runs : Over(i)
  BY <1>1, AllOver
<1>5. worker' = "bindInput" /\ UNCHANGED <<msg, current>>
  BY DEF SaveRun
<1>6. LastInv'
  BY <1>1, <1>3, <1>5 DEF LastInv, Claiming, Opening, Streaming, Closing, Executing
<1>7. CleanInv'
  BY <1>3, <1>4, <1>5 DEF CleanInv, Over, RunClean, Claiming, Opening
<1>8. CurrentInv' /\ SettledRunAgrees'
  BY <1>3, <1>4, <1>5 DEF DiskInv, CurrentInv, SettledRunAgrees, Outcomes, control, RunInv,
     ControlInv, RecoverInv
<1>9. Forward
  BY <1>3, <1>5 DEF Forward, Queued, TerminalRun, Outcomes
<1>q. QED
  BY <1>6, <1>7, <1>8, <1>9 DEF DiskInv

LEMMA InputDisk ==
    ASSUME RunInv, DiskInv, BindInput \/ CommitInput, UNCHANGED <<control, hand, outcome>>
    PROVE  DiskInv' /\ Forward
<1>1. /\ hand \in Requests /\ worker \in {"bindInput", "commitInput"}
      /\ msg \in [Requests -> MessageStatus] /\ UNCHANGED <<runs, current>>
      /\ worker' = IF worker = "bindInput" THEN "commitInput" ELSE "openAnswer"
      /\ msg' = [msg EXCEPT ![hand] = IF worker = "bindInput" THEN "bound" ELSE "committed"]
      /\ worker = "bindInput" => msg[hand] \in Queued
  BY DEF BindInput, CommitInput, RunInv, RuntimeInv, HandInv, Preparing, BeginWrites, DurableInv,
         DurableOK, DiskInv, LastInv
<1>2. \A r \in Requests : r # hand => msg'[r] = msg[r]
  BY <1>1
<1>3. /\ last \in DOMAIN runs /\ runs[last].input = hand /\ runs[last].status = "pending"
      /\ \A i \in DOMAIN runs : i # last => Over(i)
  BY <1>1 DEF DiskInv, LastInv, CleanInv, Claiming, Opening, Exited
<1>4. \A r \in Requests : /\ msg[r] = "committed" => msg'[r] = "committed"
                          /\ msg[r] \in Queued => msg'[r] # "new"
  BY <1>1, <1>2 DEF Queued
<1>5. LastInv'
  BY <1>1 DEF DiskInv, LastInv, Claiming, Opening, Streaming, Closing, Executing, Queued, last
<1>6. CleanInv'
  BY <1>1, <1>3, <1>4, RunsTyped DEF CleanInv, Over, RunClean, Claiming, Opening, last
<1>7. CurrentInv'
  BY <1>1 DEF CurrentInv, control, RunInv, ControlInv, RecoverInv
<1>8. SettledRunAgrees'
  BY <1>1, <1>4, RunsTyped DEF DiskInv, SettledRunAgrees
<1>9. Forward
  BY <1>1, <1>4 DEF Forward, TerminalRun, Outcomes
<1>q. QED
  BY <1>5, <1>6, <1>7, <1>8, <1>9 DEF DiskInv

\* The worker rewrites its own Run, its answer or the Task: what LastInv must say then.
LEMMA OwnRunDisk ==
    ASSUME RunInv, DiskInv, worker \in Claiming, worker' \in Claiming \ {"bindInput"},
           UNCHANGED <<msg, control, hand>>,
           DOMAIN runs' = DOMAIN runs, last' = last,
           \A j \in DOMAIN runs : j # last => runs'[j] = runs[j],
           LastInv', worker' = "settled" => current' = 0,
           runs'[last].input = runs[last].input,
           runs[last].status \in ActiveRun \/ runs'[last].status = runs[last].status,
           runs[last].status = "running" => runs'[last].status # "pending",
           runs[last].answer \in Outcomes => runs'[last].answer = runs[last].answer,
           runs'[last].status \in Outcomes => worker' \in {"clearTask", "settled"}
    PROVE  DiskInv' /\ Forward
<1>1. CleanInv'
  BY DEF DiskInv, CleanInv, Over, RunClean, Claiming, Opening, Streaming, Closing, Executing,
         Exited
<1>2. CurrentInv'
  BY DEF CurrentInv, Claiming, Opening, Streaming, Closing, Executing, control, RunInv,
         ControlInv, RecoverInv
<1>3. SettledRunAgrees'
  <2>1. ASSUME runs'[last].status \in Outcomes
        PROVE  /\ runs'[last].answer = runs'[last].status /\ runs'[last].step # "active"
               /\ runs'[last].status = "completed" => runs'[last].step = "quiet"
               /\ msg'[runs'[last].input] = "committed"
    BY <2>1 DEF LastInv, Claiming, Closing, Executing
  <2>q. QED
    BY <2>1 DEF DiskInv, SettledRunAgrees
<1>4. Forward
  BY DEF Forward, Queued, ActiveRun, TerminalRun, Outcomes
<1>q. QED
  BY <1>1, <1>2, <1>3, <1>4 DEF DiskInv

\* What a worker in the middle of its Run may count on.
LEMMA InHand ==
    ASSUME RunInv, DiskInv, worker \in Claiming
    PROVE  /\ last \in DOMAIN runs /\ outcome \in Outcomes
           /\ runs[last].step \in {"quiet", "active", "failed"}
BY RunsTyped DEF DiskInv, LastInv, RunInv, RuntimeInv, RuntimeOK

LEMMA BeginDisk ==
    ASSUME RunInv, RunInv', DiskInv, OpenAnswer \/ MarkTask \/ StartRun,
           UNCHANGED <<control, hand, queue, intReq, outcome, callers>>
    PROVE  DiskInv' /\ Forward
<1> USE DEF Claiming, Opening, Streaming, Closing, Executing
<1>1. CASE OpenAnswer
  <2>1. worker = "openAnswer" /\ worker' = "markTask" /\ UNCHANGED msg
    BY <1>1 DEF OpenAnswer
  <2>2. /\ DOMAIN runs' = DOMAIN runs /\ last' = last
        /\ \A j \in DOMAIN runs : j # last => runs'[j] = runs[j]
        /\ runs'[last].answer = "streaming" /\ runs'[last].step = runs[last].step
        /\ runs'[last].status = runs[last].status /\ runs'[last].input = runs[last].input
    BY <1>1, <2>1, InHand, AnswerWritten DEF OpenAnswer
  <2>3. LastInv'
    BY <2>1, <2>2 DEF DiskInv, LastInv
  <2>4. runs[last].answer \notin Outcomes /\ runs[last].status = "pending"
    BY <2>1 DEF DiskInv, LastInv, Outcomes
  <2>q. QED
    BY <2>1, <2>2, <2>3, <2>4, OwnRunDisk DEF Outcomes
<1>2. CASE MarkTask
  <2>1. worker = "markTask" /\ worker' = "startRun" /\ UNCHANGED <<msg, runs>>
    BY <1>2 DEF MarkTask
  <2>2. LastInv'
    BY <2>1 DEF DiskInv, LastInv, last
  <2>3. runs[last].status = "pending" /\ last' = last
    BY <2>1 DEF DiskInv, LastInv, last
  <2>q. QED
    BY <2>1, <2>2, <2>3, OwnRunDisk DEF Outcomes
<1>3. CASE StartRun
  <2>1. worker = "startRun" /\ worker' = "begun" /\ UNCHANGED msg
    BY <1>3 DEF StartRun
  <2>2. /\ DOMAIN runs' = DOMAIN runs /\ last' = last
        /\ \A j \in DOMAIN runs : j # last => runs'[j] = runs[j]
        /\ runs'[last].status = "running" /\ runs'[last].step = runs[last].step
        /\ runs'[last].answer = runs[last].answer /\ runs'[last].input = runs[last].input
    BY <1>3, <2>1, InHand, StatusWritten DEF StartRun
  <2>3. LastInv'
    BY <2>1, <2>2 DEF DiskInv, LastInv
  <2>4. runs[last].status \in ActiveRun
    BY <2>1 DEF DiskInv, LastInv, ActiveRun
  <2>q. QED
    BY <2>1, <2>2, <2>3, <2>4, OwnRunDisk DEF Outcomes
<1>q. QED
  BY <1>1, <1>2, <1>3

LEMMA EngineDisk ==
    ASSUME RunInv, RunInv', DiskInv, EngineStep \/ EngineEnds \/ DeadlineExpires
    PROVE  DiskInv' /\ Forward
<1> USE DEF Claiming, Opening, Streaming, Closing, Executing
<1>1. worker \in Executing /\ runs[last].status = "running" /\ last \in DOMAIN runs
  BY DEF EngineStep, EngineEnds, DeadlineExpires, DiskInv, LastInv
<1>2. CASE EngineStep
  <2>1. UNCHANGED <<msg, current, control, runtime>>
    BY <1>2 DEF EngineStep
  <2>2. PICK v : runs' = [runs EXCEPT ![last].step = v]
    BY <1>2 DEF EngineStep
  <2>3. /\ DOMAIN runs' = DOMAIN runs /\ last' = last
        /\ \A j \in DOMAIN runs : j # last => runs'[j] = runs[j]
        /\ runs'[last].status = runs[last].status
        /\ runs'[last].answer = runs[last].answer /\ runs'[last].input = runs[last].input
    BY <1>1, <2>2, StepWritten
  <2>4. LastInv'
    BY <1>1, <2>1, <2>3 DEF DiskInv, LastInv, runtime
  <2>q. QED
    BY <1>1, <2>1, <2>3, <2>4, OwnRunDisk DEF Outcomes, runtime
<1>3. CASE EngineEnds \/ DeadlineExpires
  <2>1. /\ worker' = "closeSteps" /\ UNCHANGED <<msg, runs, current, control, hand>>
        /\ outcome' = "completed" => runs[last].step = "quiet"
    BY <1>3 DEF EngineEnds, DeadlineExpires, durable
  <2>2. LastInv'
    BY <1>1, <2>1 DEF DiskInv, LastInv, last
  <2>3. last' = last
    BY <2>1 DEF last
  <2>q. QED
    BY <1>1, <2>1, <2>2, <2>3, OwnRunDisk DEF Outcomes
<1>q. QED
  BY <1>2, <1>3

\* _finish: Steps, answer, Run, Task.
LEMMA FinishDisk == ASSUME RunInv, RunInv', DiskInv, Finish PROVE DiskInv' /\ Forward
<1> USE DEF Claiming, Opening, Streaming, Closing, Executing
<1>1. UNCHANGED <<msg, control, hand, outcome>>
  BY DEF Finish
<1>2. CASE CloseSteps
  <2>1. worker = "closeSteps" /\ worker' = "closeAnswer" /\ UNCHANGED current
    BY <1>2 DEF CloseSteps
  <2> DEFINE v == IF runs[last].step # "active" THEN runs[last].step
                  ELSE IF outcome = "failed" THEN "failed" ELSE "quiet"
  <2>2. runs' = [runs EXCEPT ![last].step = v]
    BY <1>2 DEF CloseSteps
  <2>3. v # "active" /\ (runs[last].step = "quiet" => v = "quiet")
    OBVIOUS
  <2> HIDE DEF v
  <2>4. /\ DOMAIN runs' = DOMAIN runs /\ last' = last
        /\ \A j \in DOMAIN runs : j # last => runs'[j] = runs[j]
        /\ runs'[last].step = v /\ runs'[last].status = runs[last].status
        /\ runs'[last].answer = runs[last].answer /\ runs'[last].input = runs[last].input
    BY <2>1, <2>2, InHand, StepWritten
  <2>5. LastInv'
    BY <1>1, <2>1, <2>3, <2>4 DEF DiskInv, LastInv
  <2>6. runs[last].status = "running"
    BY <2>1 DEF DiskInv, LastInv
  <2>q. QED
    BY <1>1, <2>1, <2>4, <2>5, <2>6, OwnRunDisk DEF Outcomes
<1>3. CASE CloseAnswer
  <2>1. worker = "closeAnswer" /\ worker' = "closeRun" /\ UNCHANGED current
    BY <1>3 DEF CloseAnswer
  <2>2. /\ DOMAIN runs' = DOMAIN runs /\ last' = last
        /\ \A j \in DOMAIN runs : j # last => runs'[j] = runs[j]
        /\ runs'[last].answer = outcome /\ runs'[last].step = runs[last].step
        /\ runs'[last].status = runs[last].status /\ runs'[last].input = runs[last].input
    BY <1>3, <2>1, InHand, AnswerWritten DEF CloseAnswer
  <2>3. LastInv'
    BY <1>1, <2>1, <2>2 DEF DiskInv, LastInv
  <2>4. runs[last].answer \notin Outcomes /\ runs[last].status = "running"
    BY <2>1 DEF DiskInv, LastInv, Outcomes
  <2>q. QED
    BY <1>1, <2>1, <2>2, <2>3, <2>4, OwnRunDisk DEF Outcomes
<1>4. CASE CloseRun
  <2>1. worker = "closeRun" /\ worker' = "clearTask" /\ UNCHANGED current
    BY <1>4 DEF CloseRun
  <2>2. /\ DOMAIN runs' = DOMAIN runs /\ last' = last
        /\ \A j \in DOMAIN runs : j # last => runs'[j] = runs[j]
        /\ runs'[last].status = outcome /\ runs'[last].step = runs[last].step
        /\ runs'[last].answer = runs[last].answer /\ runs'[last].input = runs[last].input
    BY <1>4, <2>1, InHand, StatusWritten DEF CloseRun
  <2>3. LastInv'
    BY <1>1, <2>1, <2>2 DEF DiskInv, LastInv
  <2>4. runs[last].status \in ActiveRun /\ outcome \in Outcomes
    BY <2>1, InHand DEF DiskInv, LastInv, ActiveRun
  <2>q. QED
    BY <1>1, <2>1, <2>2, <2>3, <2>4, OwnRunDisk DEF Outcomes
<1>5. CASE ClearTask
  <2>1. worker = "clearTask" /\ worker' = "settled" /\ current' = 0 /\ UNCHANGED runs
    BY <1>5 DEF ClearTask
  <2>2. LastInv' /\ last' = last
    BY <1>1, <2>1 DEF DiskInv, LastInv, last
  <2>3. runs[last].status = "running" => runs'[last].status # "pending"
    BY <2>1
  <2>q. QED
    BY <1>1, <2>1, <2>2, <2>3, OwnRunDisk DEF Outcomes
<1>q. QED
  BY <1>2, <1>3, <1>4, <1>5 DEF Finish

-----------------------------------------------------------------------------
(* Every step.                                                               *)

LEMMA DiskStep == ASSUME RunInv, RunInv', DiskInv, [Next]_vars PROVE DiskInv' /\ Forward
<1>1. CASE \/ \E c \in {"start", "wait"} : Enter(c)
           \/ \E r \in Requests : Submit(r)
           \/ Refuse \/ UseRuntime \/ Attach \/ Put \/ Persist \/ PersistFails \/ RecoverFails
           \/ InterruptReturns \/ WaitReturns \/ NewManager
  BY <1>1, CallersDisk
<1>2. CASE Recover \/ RecoverTask
  BY <1>2, RecoverDisk, RecoverTaskDisk
<1>3. CASE CreateRuntime
  BY <1>3, BetweenMessages DEF CreateRuntime
<1>4. ASSUME EndIteration, worker \in {"load", "settled"}
      PROVE  DiskInv' /\ Forward
  BY <1>4, BetweenMessages DEF EndIteration, LoopHead, Take
<1>5. CASE WorkerStarts \/ WorkerGets
  BY <1>5, BetweenMessages DEF WorkerStarts, WorkerGets, LoopHead, Take
<1>6. CASE Load
  <2>1. CASE closed \/ msg[hand] \notin Queued
    BY <1>4, <1>6, <2>1 DEF Load
  <2>2. CASE ~(closed \/ msg[hand] \notin Queued)
    BY <1>6, <2>2, MovesDisk DEF Load, control
  <2>q. QED
    BY <2>1, <2>2
<1>7. CASE Begin
  BY <1>7, SaveRunDisk, InputDisk, BeginDisk DEF Begin
<1>8. CASE Execute
  BY <1>8, MovesDisk DEF Execute, Executing, control
<1>9. CASE Finish
  BY <1>9, FinishDisk
<1>10. CASE Settle
  BY <1>4, <1>10 DEF Settle
<1>11. CASE EngineStep \/ EngineEnds \/ DeadlineExpires
  BY <1>11, EngineDisk
<1>12. CASE Interrupt
  BY <1>12, MovesDisk DEF Interrupt, Executing, control
<1>13. CASE Shutdown
  <2>1. CASE worker = "none"
    BY <1>13, <2>1, MovesDisk DEF Shutdown
  <2>2. CASE worker # "none"
    BY <1>13, <2>2, MovesDisk DEF Shutdown, Executing
  <2>q. QED
    BY <2>1, <2>2
<1>14. CASE ShutdownEnds \/ Crash
  BY <1>14, Stopping DEF ShutdownEnds, Crash, Release
<1>15. CASE WorkerFails
  <2>1. pc # "recovered"
    BY <1>15 DEF WorkerFails, RunInv, ControlInv, RecoverInv, Preparing, BeginWrites, FinishWrites
  <2>q. QED
    BY <1>15, <2>1, Stopping DEF WorkerFails, control
<1>16. CASE UNCHANGED vars
  BY <1>16, FilesFrame DEF vars, durable, control, runtime
<1>q. QED
  BY <1>1, <1>2, <1>3, <1>5, <1>6, <1>7, <1>8, <1>9, <1>10, <1>11, <1>12, <1>13, <1>14, <1>15,
     <1>16 DEF Next, RunNext, WorkerNext, CallerNext, FaultNext

-----------------------------------------------------------------------------
(* Who was asked to stop.                                                    *)

\* A step that writes "interrupted" to no Run but one that had cause to end so.
LEMMA AskedFrame ==
    ASSUME InterruptedForCause, asked \subseteq asked', expired \subseteq expired',
           DOMAIN runs' = DOMAIN runs,
           \A i \in DOMAIN runs :
               /\ runs'[i].input = runs[i].input
               /\ \/ runs'[i].status = runs[i].status \/ runs'[i].status # "interrupted"
                  \/ runs[i].input \in asked \cup expired
    PROVE  InterruptedForCause'
BY DEF InterruptedForCause

\* The steps that rewrite or add a Run.
LEMMA WritesAsk ==
    ASSUME RunInv, RunInv', DiskInv, AskInv, Recover \/ Begin \/ EngineStep \/ Finish
    PROVE  InterruptedForCause'
<1>1. InterruptedForCause /\ UNCHANGED <<asked, expired>>
  BY DEF AskInv, Recover, Begin, EngineStep, Finish, callers
<1>2. ASSUME NEW i \in DOMAIN runs, NEW v,
             \/ runs' = [runs EXCEPT ![i].step = v]
             \/ runs' = [runs EXCEPT ![i].answer = v]
             \/ /\ runs' = [runs EXCEPT ![i].status = v]
                /\ v # "interrupted" \/ runs[i].input \in asked \cup expired
      PROVE  InterruptedForCause'
  <2>1. CASE runs' = [runs EXCEPT ![i].step = v]
    BY <1>1, <2>1, StepWritten, AskedFrame
  <2>2. CASE runs' = [runs EXCEPT ![i].answer = v]
    BY <1>1, <2>2, AnswerWritten, AskedFrame
  <2>3. CASE runs' = [runs EXCEPT ![i].status = v]
             /\ (v # "interrupted" \/ runs[i].input \in asked \cup expired)
    BY <1>1, <2>3, StatusWritten, AskedFrame
  <2>q. QED
    BY <1>2, <2>1, <2>2, <2>3
<1>3. ASSUME UNCHANGED runs PROVE InterruptedForCause'
  BY <1>1, <1>3 DEF InterruptedForCause
<1>4. CASE Recover
  <2>1. PICK i \in DOMAIN runs : RecoverWrite(i)
    BY <1>4 DEF Recover
  <2>2. CASE RecoverSteps(i)
    BY <1>2, <2>2 DEF RecoverSteps
  <2>3. CASE RecoverRun(i)
    BY <1>1, <2>3, StatusWritten, AskedFrame DEF RecoverRun
  <2>4. CASE RecoverInput(i)
    BY <1>3, <2>4 DEF RecoverInput
  <2>5. CASE RecoverAnswer(i)
    BY <1>2, <2>5 DEF RecoverAnswer
  <2>q. QED
    BY <2>1, <2>2, <2>3, <2>4, <2>5 DEF RecoverWrite
<1>5. CASE SaveRun
  <2> DEFINE new == [input |-> hand, status |-> "pending", step |-> "quiet", answer |-> "none"]
  <2>1. hand \in Requests /\ runs' = Append(runs, new)
    BY <1>5 DEF SaveRun, RunInv, RuntimeInv, HandInv, Preparing, BeginWrites
  <2>2. new \in Run /\ new.status = "pending"
    BY <2>1 DEF Run, ActiveRun
  <2> HIDE DEF new
  <2>q. QED
    BY <1>1, <2>1, <2>2, RunAdded DEF InterruptedForCause
<1>6. CASE BindInput \/ CommitInput \/ MarkTask \/ ClearTask
  BY <1>3, <1>6 DEF BindInput, CommitInput, MarkTask, ClearTask
<1>7. ASSUME OpenAnswer \/ StartRun \/ EngineStep \/ CloseSteps \/ CloseAnswer \/ CloseRun
      PROVE  worker \in Claiming /\ last \in DOMAIN runs
  BY <1>7, InHand DEF OpenAnswer, StartRun, EngineStep, CloseSteps, CloseAnswer, CloseRun,
     Claiming, Opening, Streaming, Closing, Executing
<1>8. CASE OpenAnswer \/ CloseAnswer
  BY <1>2, <1>7, <1>8 DEF OpenAnswer, CloseAnswer
<1>9. CASE StartRun
  BY <1>1, <1>7, <1>9, StatusWritten, AskedFrame DEF StartRun
<1>10. CASE EngineStep
  BY <1>2, <1>7, <1>10 DEF EngineStep
<1>11. CASE CloseSteps
  <2>1. PICK v : runs' = [runs EXCEPT ![last].step = v]
    BY <1>11 DEF CloseSteps
  <2>q. QED
    BY <1>2, <1>7, <1>11, <2>1
<1>12. CASE CloseRun
  <2>1. /\ worker = "closeRun" /\ runs' = [runs EXCEPT ![last].status = outcome]
        /\ last \in DOMAIN runs
    BY <1>7, <1>12 DEF CloseRun
  <2>2. outcome # "interrupted" \/ runs[last].input \in asked \cup expired
    BY <2>1 DEF DiskInv, LastInv, Claiming, Closing, AskInv, FinishWrites
  <2>q. QED
    BY <1>2, <2>1, <2>2
<1>q. QED
  BY <1>4, <1>5, <1>6, <1>8, <1>9, <1>10, <1>11, <1>12 DEF Begin, Finish

LEMMA AskKeeps ==
    ASSUME RunInv, RunInv', DiskInv, AskInv, [Next]_vars
    PROVE  AskInv'
<1> USE DEF AskInv, Preparing, BeginWrites, FinishWrites, Executing
<1>1. CASE Recover \/ Begin \/ EngineStep \/ Finish
  <2>1. /\ UNCHANGED <<asked, expired, closed, intReq, hand, outcome>>
        /\ worker' \in Preparing => worker \in Preparing
        /\ worker' = "cancelling" => worker = "cancelling"
        /\ worker' \in FinishWrites => worker \in FinishWrites
    BY <1>1 DEF Recover, Begin, SaveRun, BindInput, CommitInput, OpenAnswer, MarkTask, StartRun,
       EngineStep, Finish, CloseSteps, CloseAnswer, CloseRun, ClearTask, control, runtime, callers
  <2>q. QED
    BY <1>1, <2>1, WritesAsk
<1>3. ASSUME UNCHANGED runs, asked \subseteq asked', expired \subseteq expired'
      PROVE  InterruptedForCause'
  BY <1>3 DEF InterruptedForCause
<1>4. CASE \/ \E c \in {"start", "wait"} : Enter(c)
           \/ \E r \in Requests : Submit(r)
           \/ Attach \/ Refuse \/ UseRuntime \/ RecoverTask \/ Persist \/ Put
           \/ CallerNext \/ RecoverFails \/ PersistFails \/ UNCHANGED vars
  <2>1. UNCHANGED <<runs, asked, expired, closed, intReq, hand, outcome, worker>>
    BY <1>4 DEF Enter, Submit, Attach, Refuse, UseRuntime, Granted, Release, RecoverTask, Persist,
       Put, CallerNext, InterruptReturns, WaitReturns, RecoverFails, PersistFails, durable,
       control, runtime, callers, vars
  <2>q. QED
    BY <1>3, <2>1
<1>5. CASE CreateRuntime \/ NewManager \/ Crash \/ ShutdownEnds
  <2>1. worker' \in {"none", "start"} /\ UNCHANGED <<runs, asked, expired>>
    BY <1>5 DEF CreateRuntime, NewManager, Crash, ShutdownEnds, durable, runtime, callers
  <2>q. QED
    BY <1>3, <2>1
<1>6. ASSUME LoopHead \/ (Take /\ ~closed) \/ (Take /\ closed), UNCHANGED <<runs, asked, expired, closed>>
      PROVE  AskInv'
  <2>1. worker' \in {"stopped", "get"} \/ (worker' = "load" /\ ~closed' /\ ~intReq')
    BY <1>6 DEF LoopHead, Take
  <2>q. QED
    BY <1>3, <1>6, <2>1
<1>7. CASE WorkerStarts \/ WorkerGets \/ Settle
  BY <1>6, <1>7 DEF WorkerStarts, WorkerGets, Settle, EndIteration, durable, control
<1>8. CASE Load
  <2>1. CASE EndIteration
    BY <1>6, <2>1 DEF EndIteration, durable, control
  <2>2. CASE ~EndIteration
    BY <1>3, <1>8, <2>2 DEF Load, durable, control, callers
  <2>q. QED
    BY <2>1, <2>2
<1>9. CASE Execute
  BY <1>3, <1>9 DEF Execute, durable, control, callers
<1>10. CASE EngineEnds \/ DeadlineExpires
  BY <1>3, <1>10 DEF EngineEnds, DeadlineExpires, durable, control, callers
<1>11. CASE Interrupt
  BY <1>3, <1>11 DEF Interrupt, durable, control
<1>12. CASE Shutdown
  <2>1. worker \in Preparing \cup Executing => hand # NoRequest
    BY RequestsAssumption DEF RunInv, RuntimeInv, HandInv
  <2>2. UNCHANGED <<runs, expired, hand, outcome>> /\ asked \subseteq asked'
    BY <1>12 DEF Shutdown, durable
  <2>3. CASE worker = "none"
    BY <1>3, <1>12, <2>2, <2>3 DEF Shutdown
  <2>4. CASE worker # "none"
    BY <1>3, <1>12, <2>1, <2>2, <2>4 DEF Shutdown
  <2>q. QED
    BY <2>3, <2>4
<1>13. CASE WorkerFails
  BY <1>3, <1>13 DEF WorkerFails, durable
<1>q. QED
  BY <1>1, <1>4, <1>5, <1>7, <1>8, <1>9, <1>10, <1>11, <1>12, <1>13
     DEF Next, RunNext, WorkerNext, FaultNext

-----------------------------------------------------------------------------
(* The theorems.                                                             *)

LEMMA DiskInit == Init => DiskInv /\ AskInv /\ HoldInv
<1> SUFFICES ASSUME Init PROVE DiskInv /\ AskInv /\ HoldInv
  OBVIOUS
<1>1. worker = "none" /\ pc = "none" /\ DOMAIN runs = {}
  BY DEF Init
<1>2. LastInv /\ CurrentInv /\ CleanInv /\ SettledRunAgrees
  BY <1>1 DEF LastInv, CleanInv, CurrentInv, SettledRunAgrees, Claiming, Opening, Streaming,
     Closing, Executing, Exited
<1>3. AskInv
  BY <1>1 DEF AskInv, InterruptedForCause, Preparing, BeginWrites, FinishWrites
<1>4. HoldInv
  BY DEF Init, HoldInv
<1>q. QED
  BY <1>2, <1>3, <1>4 DEF DiskInv

LEMMA DiskInvHolds == Spec => [](RunInv /\ DiskInv /\ AskInv /\ HoldInv)
<1> DEFINE All == RunInv /\ DiskInv /\ AskInv /\ HoldInv
<1>1. Init => All
  BY RunInvInit, DiskInit
<1>2. All /\ [Next]_vars => All'
  BY RunInvStep, DiskStep, AskKeeps, HoldKeeps
<1>3. Spec => Init /\ [][Next]_vars
  BY DEF Spec
<1>q. QED
  BY <1>1, <1>2, <1>3, PTL

\* Messages and Runs only advance: no crash, failure or recovery takes anything back.
THEOREM OnlyAdvances == Spec => OnlyForward
<1>1. RunInv /\ RunInv' /\ DiskInv /\ [Next]_vars => [Forward]_vars
  BY DiskStep
<1>2. Spec => Init /\ [][Next]_vars
  BY DEF Spec
<1>q. QED
  BY <1>1, <1>2, DiskInvHolds, PTL DEF OnlyForward

\* A Run that ended under its worker agrees with its answer, Steps and input.
THEOREM SettledAgree == Spec => []SettledRunAgrees
<1>1. DiskInv => SettledRunAgrees
  BY DEF DiskInv
<1>q. QED
  BY <1>1, DiskInvHolds, PTL

\* Between two messages nothing half-done is left, however earlier workers ended.
THEOREM IdleQuiescent == Spec => []IdleIsQuiescent
<1>1. RunInv /\ DiskInv => IdleIsQuiescent
  BY AllOver DEF IdleIsQuiescent, Over
<1>q. QED
  BY <1>1, DiskInvHolds, PTL

\* interrupt() returns from a live worker only when its Run has ended or never began.
THEOREM InterruptsSettle == Spec => InterruptSettles
<1> DEFINE Settles == interrupt.at = "waiting" /\ interrupt'.at = "woken" /\ worker' # "failed" =>
                          \A i \in DOMAIN runs :
                              runs[i].input = interrupt.on => runs[i].status \in TerminalRun
<1>1. ASSUME RunInv, DiskInv, Next, interrupt.at = "waiting", interrupt'.at = "woken",
             worker' # "failed"
      PROVE  worker \in {"load", "settled"}
  <2>1. interrupt' # interrupt
    BY <1>1
  <2>2. CASE \/ \E c \in {"start", "wait"} : Enter(c)
             \/ \E r \in Requests : Submit(r)
             \/ RunNext \/ EngineStep \/ EngineEnds \/ DeadlineExpires \/ WaitReturns
             \/ Shutdown \/ ShutdownEnds \/ NewManager \/ RecoverFails \/ PersistFails
    BY <2>1, <2>2 DEF Enter, Submit, RunNext, Attach, Refuse, UseRuntime, Recover, RecoverTask,
       CreateRuntime, Persist, Put, EngineStep, EngineEnds, DeadlineExpires, WaitReturns, Shutdown, ShutdownEnds,
       NewManager, RecoverFails, PersistFails, callers
  <2>3. CASE InterruptReturns \/ Interrupt \/ Crash \/ WorkerFails
    BY <1>1, <2>3 DEF InterruptReturns, Interrupt, Crash, WorkerFails
  <2>4. CASE WorkerNext
    BY <2>1, <2>4 DEF WorkerNext, WorkerStarts, WorkerGets, Load, Begin, Execute, Finish, Settle,
       callers
  <2>q. QED
    BY <1>1, <2>2, <2>3, <2>4 DEF Next, CallerNext, FaultNext
<1>2. RunInv /\ DiskInv /\ [Next]_vars => [Settles]_vars
  <2> SUFFICES ASSUME RunInv, DiskInv, Next, interrupt.at = "waiting", interrupt'.at = "woken",
                      worker' # "failed"
               PROVE  \A i \in DOMAIN runs : runs[i].status \in TerminalRun
    OBVIOUS
  <2>q. QED
    BY <1>1, AllOver DEF Over, RunClean
<1>3. Spec => Init /\ [][Next]_vars
  BY DEF Spec
<1>4. Spec => [][Settles]_vars
  BY <1>2, <1>3, DiskInvHolds, PTL
<1>q. QED
  BY <1>4 DEF InterruptSettles

\* A Run is INTERRUPTED by its worker only when its own stop was asked for or its own
\* deadline expired.
THEOREM InterruptedWithCause == Spec => []InterruptedForCause
<1>1. AskInv => InterruptedForCause
  BY DEF AskInv
<1>q. QED
  BY <1>1, DiskInvHolds, PTL

\* A closed manager nothing works on has let go of its worker and its Task.
THEOREM ClosedHasReleased == Spec => []ClosedReleases
<1>1. HoldInv => ClosedReleases
  BY DEF HoldInv, ClosedReleases
<1>q. QED
  BY <1>1, DiskInvHolds, PTL

-----------------------------------------------------------------------------
(* What callers may rely on: NoLostRequest and IdleMeansSettled, and that    *)
(* the scheduler implements RequestLedger.  KeptInv follows an accepted      *)
(* request on disk and HeldInv in memory; JoinInv says where the requests    *)
(* are that wait_idle is waiting for.  For the refinement OrderInv adds the  *)
(* turn of a request: the queue is in the order of the conversation, and the *)
(* message in hand has no accepted one before it that still waits.           *)

Live == worker \notin Exited \cup {"none"}
InLog(r) == \E k \in DOMAIN log : log[k] = r
Kept(r) == msg[r] = "queued" /\ InLog(r)
Held(r) == closed \/ ~Live \/ hand = r \/ InQueue(r)

\* A request is on disk before it is inserted, and until a Run claims it.
KeptInv ==
    /\ pc = "put" => Kept(req)
    /\ \A r \in accepted : ~Claimed(r) => Kept(r)

\* A closing runtime has the sentinel before it.
HeldInv ==
    /\ worker \in {"start", "get"} => hand = NoRequest
    /\ closed /\ Live => InQueue(Stop)
    /\ \A r \in accepted : ~Claimed(r) => Held(r)

JoinInv ==
    /\ waiter \in {"joining", "joined"} => awaited \subseteq accepted
    /\ waiter = "joining" => Live /\ \A r \in awaited : Settled(r) \/ hand = r \/ InQueue(r)
    /\ waiter = "joined" => \A r \in awaited : Settled(r)

-----------------------------------------------------------------------------
(* Runs only come and end, the queue gains and loses one message at a time.  *)

LEMMA ClaimsStay ==
    ASSUME RunInv, Forward
    PROVE  \A r : (Claimed(r) => Claimed(r)') /\ (Settled(r) => Settled(r)')
<1>1. \A r : Claimed(r) => Claimed(r)'
  BY DEF Claimed, Forward
<1>2. \A r : Settled(r) => Settled(r)'
  BY DEF Settled, Forward
<1>q. QED
  BY <1>1, <1>2

LEMMA QueueGains ==
    ASSUME RunInv, NEW x \in Requests \cup {Stop}, queue' = Append(queue, x)
    PROVE  InQueue(x)' /\ \A y : InQueue(y) => InQueue(y)'
<1>1. queue \in Seq(Requests \cup {Stop})
  BY DEF RunInv, RuntimeInv, RuntimeOK
<1>2. /\ DOMAIN queue' = 1 .. (Len(queue) + 1) /\ queue'[Len(queue) + 1] = x
      /\ Len(queue) \in Nat /\ DOMAIN queue = 1 .. Len(queue)
      /\ \A k \in DOMAIN queue : queue'[k] = queue[k]
  BY <1>1, AppendProperties, LenProperties
<1>q. QED
  BY <1>2 DEF InQueue

LEMMA QueueLoses ==
    ASSUME RunInv, queue # <<>>, queue' = Tail(queue)
    PROVE  /\ Head(queue) \in Requests \cup {Stop}
           /\ \A y : InQueue(y) => y = Head(queue) \/ InQueue(y)'
<1>1. queue \in Seq(Requests \cup {Stop})
  BY DEF RunInv, RuntimeInv, RuntimeOK
<1>2. /\ Head(queue) = queue[1] /\ Head(queue) \in Requests \cup {Stop}
      /\ Len(queue) \in Nat /\ DOMAIN queue = 1 .. Len(queue)
      /\ DOMAIN queue' = 1 .. (Len(queue) - 1)
      /\ \A k \in 1 .. (Len(queue) - 1) : queue'[k] = queue[k + 1]
  BY <1>1, HeadTailProperties, LenProperties
<1>3. ASSUME NEW y, InQueue(y), y # Head(queue)
      PROVE  InQueue(y)'
  <2>1. PICK k \in DOMAIN queue : queue[k] = y
    BY <1>3 DEF InQueue
  <2>2. k - 1 \in 1 .. (Len(queue) - 1) /\ (k - 1) + 1 = k
    BY <1>2, <1>3, <2>1
  <2>3. k - 1 \in DOMAIN queue' /\ queue'[k - 1] = y
    BY <1>2, <2>1, <2>2
  <2>q. QED
    BY <2>3 DEF InQueue
<1>q. QED
  BY <1>2, <1>3

\* Where the loop goes next, and what became of the message it took.
LEMMA LoopGoes ==
    ASSUME RunInv, LoopHead \/ (queue # <<>> /\ Take)
    PROVE  /\ worker' \in {"get", "load", "stopped"} /\ (worker' # "load" => hand' = NoRequest)
           /\ worker' \in {"get", "load"} => ~closed
           /\ worker' = "get" => \A y : ~InQueue(y)
           /\ worker' = "load" =>
                  hand' # NoRequest /\ \A y : InQueue(y) => hand' = y \/ InQueue(y)'
           /\ queue' = <<>> /\ worker' = "stopped" /\ (closed => InQueue(Stop)) =>
                  \A y \in Requests : ~InQueue(y)
<1>1. \A y : queue = <<>> => ~InQueue(y)
  BY DEF InQueue
<1>2. \A y : queue' = <<>> => ~InQueue(y)'
  BY DEF InQueue
<1>3. CASE queue # <<>> /\ Take
  <2>1. /\ Head(queue) \in Requests \cup {Stop}
        /\ \A y : InQueue(y) => y = Head(queue) \/ InQueue(y)'
    BY <1>3, QueueLoses DEF Take
  <2>q. QED
    BY <1>2, <1>3, <2>1, RequestsAssumption DEF Take
<1>4. CASE LoopHead /\ closed
  BY <1>1, <1>4 DEF LoopHead
<1>5. CASE LoopHead /\ ~closed /\ queue = <<>>
  BY <1>1, <1>5 DEF LoopHead
<1>q. QED
  BY <1>3, <1>4, <1>5 DEF LoopHead

-----------------------------------------------------------------------------
(* An accepted request on disk.                                              *)

LEMMA KeptFrame ==
    ASSUME RunInv, RunInv', KeptInv, Forward, UNCHANGED <<accepted, req>>,
           pc' = "put" => pc = "put",
           \A r \in Requests : Kept(r) => Kept(r)' \/ Claimed(r)'
    PROVE  KeptInv'
<1>1. accepted \subseteq Requests
  BY DEF RunInv, CallersOK
<1>2. \A r \in accepted : ~Claimed(r)' => Kept(r)'
  BY <1>1, ClaimsStay DEF KeptInv
<1>3. pc' = "put" => Kept(req)'
  <2> SUFFICES ASSUME pc' = "put" PROVE Kept(req)'
    OBVIOUS
  <2>1. Fresh(req)'
    BY DEF RunInv, RuntimeInv, PutInv
  <2>2. req' = req /\ Kept(req) /\ req \in Requests
    BY <2>1 DEF KeptInv, Fresh
  <2>q. QED
    BY <2>1, <2>2 DEF Fresh, Kept, InLog, Claimed
<1>q. QED
  BY <1>2, <1>3 DEF KeptInv

\* The conversation gains a message that was not there.
LEMMA KeptAppends ==
    ASSUME RunInv, req \in Requests, msg[req] = "new", log' = Append(log, req),
           msg' = [msg EXCEPT ![req] = "queued"]
    PROVE  \A r \in Requests : Kept(r) \/ r = req => Kept(r)'
<1>1. log \in Seq(Requests) /\ msg \in [Requests -> MessageStatus]
  BY DEF RunInv, DurableInv, DurableOK
<1>2. /\ DOMAIN log' = 1 .. (Len(log) + 1) /\ log'[Len(log) + 1] = req
      /\ Len(log) \in Nat /\ DOMAIN log = 1 .. Len(log)
      /\ \A k \in DOMAIN log : log'[k] = log[k]
  BY <1>1, AppendProperties, LenProperties
<1>3. \A r : (InLog(r) => InLog(r)') /\ (r = req => InLog(r)')
  BY <1>2 DEF InLog
<1>4. \A r \in Requests : (Kept(r) => Kept(r)') /\ (r = req => Kept(r)')
  BY <1>1, <1>3 DEF Kept
<1>q. QED
  BY <1>4

LEMMA KeptKeeps ==
    ASSUME RunInv, RunInv', DiskInv, KeptInv, Forward, [Next]_vars
    PROVE  KeptInv'
<1>1. accepted \subseteq Requests
  BY DEF RunInv, CallersOK
<1>2. CASE Persist \/ PersistFails
  <2>1. /\ req \in Requests /\ msg[req] = "new" /\ UNCHANGED <<runs, accepted>>
        /\ pc = "persist" /\ pc' \in {"none", "put"}
    BY <1>2 DEF Persist, PersistFails, Release, RunInv, ControlInv, SubmitInv, callers
  <2>2. \A r : Claimed(r)' <=> Claimed(r)
    BY <2>1 DEF Claimed
  <2>3. CASE log' = Append(log, req) /\ msg' = [msg EXCEPT ![req] = "queued"]
    <3>1. \A r \in Requests : Kept(r) \/ r = req => Kept(r)'
      BY <2>1, <2>3, KeptAppends
    <3>2. pc' = "put" => req' = req
      BY <1>2 DEF Persist, PersistFails, Release
    <3>3. pc' = "put" => Kept(req)'
      BY <2>1, <3>1, <3>2 DEF Kept, InLog
    <3>q. QED
      BY <1>1, <2>1, <2>2, <3>1, <3>3 DEF KeptInv
  <2>4. CASE UNCHANGED <<log, msg>> /\ pc' = "none"
    BY <2>1, <2>2, <2>4 DEF KeptInv, Kept, InLog
  <2>q. QED
    BY <1>2, <2>3, <2>4 DEF Persist, PersistFails, Release
<1>3. CASE Put
  <2>1. KeptInv /\ pc = "put" /\ UNCHANGED <<log, msg, runs>> /\ pc' = "none"
        /\ accepted' = accepted \cup {req}
    BY <1>3 DEF Put, Release, durable
  <2>q. QED
    BY <2>1 DEF KeptInv, Kept, InLog, Claimed
<1>4. CASE Recover
  <2>1. PICK i \in DOMAIN runs : RecoverWrite(i)
    BY <1>4 DEF Recover
  <2>2. UNCHANGED log /\ \A r \in Requests : msg'[r] # msg[r] => r = runs[i].input
    BY <1>4, <2>1 DEF Recover, RecoverWrite, RecoverSteps, RecoverRun, RecoverInput, RecoverAnswer,
       RunInv, DurableInv, DurableOK
  <2>3. Claimed(runs[i].input)
    BY DEF Claimed
  <2>4. \A r \in Requests : Kept(r) => Kept(r)' \/ Claimed(r)'
    BY <2>2, <2>3, ClaimsStay DEF Kept, InLog
  <2>q. QED
    BY <1>4, <2>4, KeptFrame DEF Recover, control, callers
<1>5. CASE Begin
  <2>1. UNCHANGED <<log, control, callers>>
    BY <1>5 DEF Begin, SaveRun, BindInput, CommitInput, OpenAnswer, MarkTask, StartRun
  <2>2. \A r \in Requests : msg'[r] # msg[r] => r = hand /\ worker \in {"bindInput", "commitInput"}
    BY <1>5 DEF Begin, SaveRun, BindInput, CommitInput, OpenAnswer, MarkTask, StartRun,
       RunInv, DurableInv, DurableOK
  <2>3. worker \in {"bindInput", "commitInput"} => Claimed(hand)
    BY DEF DiskInv, LastInv, Claiming, Opening, Claimed
  <2>4. \A r \in Requests : Kept(r) => Kept(r)' \/ Claimed(r)'
    BY <2>1, <2>2, <2>3, ClaimsStay DEF Kept, InLog
  <2>q. QED
    BY <2>1, <2>4, KeptFrame DEF control, callers
<1>6. ASSUME UNCHANGED <<log, msg, accepted>>, pc' = "put" => pc = "put" /\ req' = req
      PROVE  KeptInv'
  <2>1. \A r : Kept(r)' <=> Kept(r)
    BY <1>6 DEF Kept, InLog
  <2>2. \A r : Claimed(r) => Claimed(r)'
    BY ClaimsStay
  <2>3. pc' = "put" => Kept(req)'
    BY <1>6 DEF KeptInv, Kept, InLog
  <2>q. QED
    BY <1>6, <2>1, <2>2, <2>3 DEF KeptInv
<1>7. CASE \/ \E c \in {"start", "wait"} : Enter(c)
           \/ \E r \in Requests : Submit(r)
           \/ Attach \/ Refuse \/ UseRuntime \/ RecoverTask \/ CreateRuntime \/ CallerNext
           \/ Shutdown \/ ShutdownEnds \/ NewManager \/ RecoverFails \/ Crash
           \/ UNCHANGED vars
  <2>1. UNCHANGED <<log, msg, accepted>>
    BY <1>7 DEF Enter, Submit, Attach, Refuse, UseRuntime, RecoverTask, CreateRuntime, CallerNext,
       InterruptReturns, WaitReturns, Shutdown, ShutdownEnds, NewManager, RecoverFails, Crash,
       durable, callers, vars
  <2>2. pc' = "put" => pc = "put" /\ req' = req
    BY <1>7 DEF Enter, Submit, Attach, Refuse, UseRuntime, Granted, RecoverTask, CreateRuntime,
       CallerNext, InterruptReturns, WaitReturns, Shutdown, ShutdownEnds, NewManager,
       RecoverFails, Crash, Release, control, vars
  <2>q. QED
    BY <1>6, <2>1, <2>2
<1>8. CASE \/ WorkerStarts \/ WorkerGets \/ Load \/ Execute \/ Finish \/ Settle
           \/ EngineStep \/ EngineEnds \/ DeadlineExpires \/ Interrupt \/ WorkerFails
  <2>1. UNCHANGED <<log, msg, accepted, control>>
    BY <1>8 DEF WorkerStarts, WorkerGets, Load, EndIteration, Execute, Finish, CloseSteps,
       CloseAnswer, CloseRun, ClearTask, Settle, EngineStep, EngineEnds, DeadlineExpires, Interrupt, WorkerFails,
       durable, callers
  <2>q. QED
    BY <1>6, <2>1 DEF control
<1>q. QED
  BY <1>2, <1>3, <1>4, <1>5, <1>7, <1>8 DEF Next, RunNext, WorkerNext, FaultNext

-----------------------------------------------------------------------------
(* An accepted request in memory.                                            *)

LEMMA HeldFrame ==
    ASSUME RunInv, HeldInv, Forward, UNCHANGED <<closed, accepted, hand, queue>>,
           worker' \in {"start", "get"} => worker' = worker,
           ~Live => ~Live'
    PROVE  HeldInv'
<1>1. \A y : InQueue(y)' <=> InQueue(y)
  BY DEF InQueue
<1>2. \A r \in accepted : ~Claimed(r)' => Held(r)'
  BY <1>1, ClaimsStay DEF HeldInv, Held
<1>q. QED
  BY <1>1, <1>2 DEF HeldInv

\* The message in hand when an iteration ends needs the worker no more.
LEMMA IterationDone ==
    ASSUME RunInv, DiskInv, KeptInv, HeldInv,
           worker \in {"start", "get", "settled"}
               \/ (worker = "load" /\ msg[hand] \notin Queued)
    PROVE  \A r \in accepted : hand = r => Settled(r)
<1>1. accepted \subseteq Requests /\ NoRequest \notin Requests
  BY RequestsAssumption DEF RunInv, CallersOK
<1>2. CASE worker \in {"start", "get"}
  BY <1>1, <1>2 DEF HeldInv
<1>3. CASE worker = "settled"
  <2>1. /\ last \in DOMAIN runs /\ runs[last].input = hand /\ runs[last].status = outcome
        /\ outcome \in Outcomes
    BY <1>3 DEF DiskInv, LastInv, Claiming, Closing, RunInv, RuntimeInv, RuntimeOK
  <2>q. QED
    BY <2>1 DEF Settled, TerminalRun
<1>4. CASE worker = "load" /\ msg[hand] \notin Queued
  BY <1>4 DEF RunInv, RuntimeInv, HandInv, Fresh, KeptInv, Kept, Queued
<1>q. QED
  BY <1>2, <1>3, <1>4

\* A runtime made from disk has every accepted request that no Run claimed.
LEMMA RecoveredHolds ==
    ASSUME RunInv, KeptInv, CreateRuntime
    PROVE  \A r \in accepted : ~Claimed(r) => InQueue(r)'
<1>1. PICK q \in RecoveredQueue : queue' = q
  BY DEF CreateRuntime
<1>2. \A r \in Requests : msg[r] \in Queued => \E k \in DOMAIN q : q[k] = r
  BY DEF RecoveredQueue
<1>3. \A r \in accepted : ~Claimed(r) => r \in Requests /\ msg[r] \in Queued
  BY DEF KeptInv, Kept, Queued, RunInv, CallersOK
<1>q. QED
  BY <1>1, <1>2, <1>3 DEF InQueue

LEMMA HeldKeeps ==
    ASSUME RunInv, RunInv', DiskInv, HoldInv, KeptInv, HeldInv, Forward, [Next]_vars
    PROVE  HeldInv'
<1> USE DEF Live, Exited
<1>1. CASE \/ \E c \in {"start", "wait"} : Enter(c)
           \/ \E r \in Requests : Submit(r)
           \/ Attach \/ Refuse \/ UseRuntime \/ Recover \/ RecoverTask \/ Persist \/ CallerNext
           \/ RecoverFails \/ PersistFails \/ UNCHANGED vars
  <2>1. UNCHANGED <<closed, accepted, hand, queue, worker>>
    BY <1>1 DEF Enter, Submit, Attach, Refuse, UseRuntime, Granted, Release, Recover, RecoverTask,
       Persist, CallerNext, InterruptReturns, WaitReturns, RecoverFails, PersistFails, control,
       runtime, callers, vars
  <2>q. QED
    BY <2>1, HeldFrame
<1>2. CASE Begin \/ Execute \/ Finish \/ EngineStep \/ EngineEnds \/ DeadlineExpires \/ Interrupt
  <2>1. /\ UNCHANGED <<closed, accepted, hand, queue>> /\ worker' \notin {"start", "get"}
        /\ worker \notin Exited \cup {"none"}
    BY <1>2 DEF Begin, SaveRun, BindInput, CommitInput, OpenAnswer, MarkTask, StartRun, Execute,
       Finish, CloseSteps, CloseAnswer, CloseRun, ClearTask, EngineStep, EngineEnds, DeadlineExpires, Interrupt,
       Preparing, BeginWrites, Executing, control, runtime, callers
  <2>q. QED
    BY <2>1, HeldFrame
<1>3. CASE Put
  <2>1. UNCHANGED <<closed, hand, worker>> /\ queue' = Append(queue, req)
        /\ accepted' = accepted \cup {req} /\ pc = "put"
    BY <1>3 DEF Put
  <2>2. req \in Requests
    BY <2>1 DEF RunInv, RuntimeInv, PutInv, Fresh
  <2>3. \A y : InQueue(y) \/ y = req => InQueue(y)'
    BY <2>1, <2>2, QueueGains
  <2>4. \A r \in accepted' : ~Claimed(r)' => Held(r)'
    BY <2>1, <2>3, ClaimsStay DEF HeldInv, Held
  <2>q. QED
    BY <2>1, <2>3, <2>4 DEF HeldInv
<1>4. CASE CreateRuntime
  <2>1. ~closed /\ UNCHANGED <<closed, runs, accepted>> /\ worker' = "start" /\ hand' = NoRequest
    BY <1>4 DEF CreateRuntime, HoldInv, durable
  <2>2. \A r \in accepted : ~Claimed(r) => InQueue(r)'
    BY <1>4, RecoveredHolds
  <2>q. QED
    BY <2>1, <2>2 DEF HeldInv, Held, Claimed
<1>5. CASE WorkerFails \/ ShutdownEnds \/ Crash \/ NewManager
  <2>1. worker' \in Exited \cup {"none"}
    BY <1>5 DEF WorkerFails, ShutdownEnds, Crash, NewManager, runtime
  <2>q. QED
    BY <2>1 DEF HeldInv, Held
<1>6. CASE Shutdown
  <2>1. CASE worker = "none"
    BY <1>6, <2>1 DEF Shutdown, HeldInv, Held
  <2>2. CASE worker # "none"
    <3>1. closed' /\ UNCHANGED hand /\ queue' = Append(queue, Stop)
          /\ (worker' \in {"start", "get"} => worker' = worker)
      BY <1>6, <2>2 DEF Shutdown
    <3>2. InQueue(Stop)'
      BY <3>1, QueueGains
    <3>q. QED
      BY <3>1, <3>2 DEF HeldInv, Held
  <2>q. QED
    BY <2>1, <2>2
<1>7. ASSUME LoopHead \/ (queue # <<>> /\ Take), UNCHANGED <<runs, closed, accepted>>,
             worker \in {"start", "get", "load", "settled"},
             closed \/ worker # "load" \/ msg[hand] \notin Queued
      PROVE  HeldInv'
  <2>1. /\ worker' \in {"get", "load", "stopped"} /\ (worker' # "load" => hand' = NoRequest)
        /\ worker' \in {"get", "load"} => ~closed
        /\ worker' = "get" => \A y : ~InQueue(y)
        /\ worker' = "load" => \A y : InQueue(y) => hand' = y \/ InQueue(y)'
    BY <1>7, LoopGoes
  <2>2. ~closed => \A r \in accepted : ~Claimed(r) => InQueue(r)
    <3>1. ~closed => \A r \in accepted : hand = r => Settled(r)
      BY <1>7, IterationDone
    <3>2. \A r : Settled(r) => Claimed(r)
      BY DEF Settled, Claimed
    <3>q. QED
      BY <1>7, <3>1, <3>2 DEF HeldInv, Held
  <2>3. \A r : Claimed(r)' <=> Claimed(r)
    BY <1>7 DEF Claimed
  <2>q. QED
    BY <1>7, <2>1, <2>2, <2>3 DEF HeldInv, Held
<1>8. CASE WorkerStarts \/ WorkerGets \/ Settle
  BY <1>7, <1>8 DEF WorkerStarts, WorkerGets, Settle, EndIteration, durable, control
<1>9. CASE Load
  <2>1. CASE closed \/ msg[hand] \notin Queued
    BY <1>7, <1>9, <2>1 DEF Load, EndIteration, durable, control
  <2>2. CASE ~(closed \/ msg[hand] \notin Queued)
    BY <1>9, <2>2, HeldFrame DEF Load, control, callers
  <2>q. QED
    BY <2>1, <2>2
<1>q. QED
  BY <1>1, <1>2, <1>3, <1>4, <1>5, <1>6, <1>8, <1>9
     DEF Next, RunNext, WorkerNext, FaultNext

-----------------------------------------------------------------------------
(* What wait_idle is waiting for.                                            *)

\* A claimed request is settled, but for the one in hand.
LEMMA ClaimedSettles ==
    ASSUME RunInv, DiskInv, Live \/ pc = "recovered"
    PROVE  \A r : Claimed(r) => Settled(r) \/ (hand = r /\ worker \in Claiming)
<1>1. \A i \in DOMAIN runs : worker \notin Claiming \/ i # last => Over(i)
  BY DEF DiskInv, CleanInv, Live
<1>2. worker \in Claiming => runs[last].input = hand
  BY DEF DiskInv, LastInv
<1>q. QED
  BY <1>1, <1>2 DEF Claimed, Settled, Over, RunClean

\* The lock is granted to wait_idle, with a live worker or a new one.
LEMMA WaitJoins ==
    ASSUME RunInv, DiskInv, HoldInv, KeptInv, HeldInv, call = "wait",
           UseRuntime \/ CreateRuntime
    PROVE  JoinInv'
<1>1. PICK q, h : /\ Granted(q, h) /\ queue' = q /\ hand' = h
                  /\ UNCHANGED <<runs, accepted, closed>> /\ Live' /\ ~closed
  <2>1. CASE UseRuntime
    BY <2>1 DEF UseRuntime, HoldInv, Live, durable, runtime
  <2>2. CASE CreateRuntime
    BY <2>2 DEF CreateRuntime, HoldInv, Live, Exited, durable
  <2>q. QED
    BY <2>1, <2>2
<1>2. \A r \in accepted : Settled(r)' \/ hand' = r \/ InQueue(r)'
  <2>1. CASE UseRuntime
    <3>1. Live /\ UNCHANGED <<hand, queue>>
      BY <2>1 DEF UseRuntime, Live, runtime
    <3>2. \A r : (Settled(r)' <=> Settled(r)) /\ (InQueue(r)' <=> InQueue(r))
      BY <1>1, <3>1 DEF Settled, InQueue
    <3>q. QED
      BY <1>1, <3>1, <3>2, ClaimedSettles DEF HeldInv, Held
  <2>2. CASE CreateRuntime
    <3>1. pc = "recovered" /\ worker = "none"
      BY <2>2 DEF CreateRuntime, RunInv, ControlInv, RecoverInv
    <3>2. \A r : Claimed(r) => Settled(r)
      BY <3>1, ClaimedSettles DEF Claiming, Opening, Streaming, Closing, Executing
    <3>3. \A r : Settled(r) => Settled(r)'
      BY <1>1 DEF Settled
    <3>q. QED
      BY <2>2, <3>2, <3>3, RecoveredHolds
  <2>q. QED
    BY <2>1, <2>2
<1>3. \A r : queue' = <<>> => ~InQueue(r)'
  BY DEF InQueue
<1>4. accepted \subseteq Requests /\ NoRequest \notin Requests
  BY RequestsAssumption DEF RunInv, CallersOK
<1>5. /\ waiter' = IF queue' = <<>> /\ hand' = NoRequest THEN "joined" ELSE "joining"
      /\ awaited' = accepted
  BY <1>1 DEF Granted
<1>q. QED
  BY <1>1, <1>2, <1>3, <1>4, <1>5 DEF JoinInv

LEMMA JoinFrame ==
    ASSUME RunInv, JoinInv, Forward, UNCHANGED <<waiter, awaited>>, accepted \subseteq accepted',
           waiter = "joining" =>
               Live' /\ \A r \in awaited : hand = r \/ InQueue(r) => hand' = r \/ InQueue(r)'
    PROVE  JoinInv'
BY ClaimsStay DEF JoinInv

\* The loop takes the next message or ends, and task_done() was called before.
LEMMA LoopJoins ==
    ASSUME RunInv, HeldInv, JoinInv, LoopHead \/ (queue # <<>> /\ Take), WakeWaiter, Live,
           UNCHANGED <<runs, awaited, accepted>>,
           \/ closed /\ LoopHead
           \/ \A r \in accepted : hand = r => Settled(r)
    PROVE  JoinInv'
<1>1. CASE waiter # "joining"
  <2>1. waiter' # "joining" /\ (waiter' = "joined" => waiter = "joined")
    BY <1>1 DEF WakeWaiter
  <2>q. QED
    BY <2>1 DEF JoinInv, Settled
<1>2. CASE waiter = "joining"
  <2>1. /\ worker' \in {"get", "load", "stopped"} /\ (worker' # "load" => hand' = NoRequest)
        /\ worker' = "get" => \A y : ~InQueue(y)
        /\ worker' = "load" =>
               hand' # NoRequest /\ \A y : InQueue(y) => hand' = y \/ InQueue(y)'
        /\ queue' = <<>> /\ worker' = "stopped" => \A y \in Requests : ~InQueue(y)
    BY LoopGoes DEF HeldInv
  <2>2. awaited \subseteq accepted /\ awaited \subseteq Requests
    BY <1>2 DEF JoinInv, RunInv, CallersOK
  <2>3. \A r : Settled(r)' <=> Settled(r)
    BY DEF Settled
  <2>4. CASE \A r \in accepted : hand = r => Settled(r)
    <3>1. \A r \in awaited : Settled(r) \/ InQueue(r)
      BY <1>2, <2>2, <2>4 DEF JoinInv
    <3>2. waiter' = "joined" => \A r \in awaited : Settled(r)'
      BY <1>2, <2>1, <2>2, <2>3, <3>1 DEF WakeWaiter
    <3>3. waiter' = "joining" =>
              Live' /\ \A r \in awaited : Settled(r)' \/ hand' = r \/ InQueue(r)'
      BY <1>2, <2>1, <2>3, <3>1 DEF WakeWaiter, Live, Exited
    <3>q. QED
      BY <2>2, <3>2, <3>3 DEF JoinInv
  <2>5. CASE closed /\ LoopHead
    <3>1. worker' = "stopped" /\ queue' = queue /\ InQueue(Stop)
      BY <2>5 DEF LoopHead, HeldInv
    <3>2. queue' # <<>>
      BY <3>1 DEF InQueue
    <3>q. QED
      BY <1>2, <3>1, <3>2 DEF WakeWaiter, JoinInv
  <2>q. QED
    BY <2>4, <2>5
<1>q. QED
  BY <1>1, <1>2

LEMMA JoinKeeps ==
    ASSUME RunInv, RunInv', DiskInv, HoldInv, KeptInv, HeldInv, JoinInv, Forward, [Next]_vars
    PROVE  JoinInv'
<1> USE DEF Live, Exited
<1>1. CASE (UseRuntime \/ CreateRuntime) /\ call = "wait"
  BY <1>1, WaitJoins
<1>2. CASE (UseRuntime \/ CreateRuntime) /\ call # "wait"
  <2>1. UNCHANGED <<waiter, awaited, accepted>>
    BY <1>2 DEF UseRuntime, CreateRuntime, Granted
  <2>2. CASE UseRuntime
    BY <2>1, <2>2, JoinFrame DEF UseRuntime, InQueue, JoinInv, runtime
  <2>3. CASE CreateRuntime
    <3>1. waiter # "joining"
      BY <2>3 DEF CreateRuntime, RunInv, ControlInv, RecoverInv, JoinInv
    <3>q. QED
      BY <2>1, <3>1, JoinFrame
  <2>q. QED
    BY <1>2, <2>2, <2>3
<1>3. CASE \/ \E c \in {"start", "wait"} : Enter(c)
           \/ \E r \in Requests : Submit(r)
           \/ Attach \/ Refuse \/ Recover \/ RecoverTask \/ Persist \/ InterruptReturns
           \/ NewManager \/ RecoverFails \/ PersistFails \/ UNCHANGED vars
  <2>1. UNCHANGED <<waiter, awaited, accepted, hand, queue, worker>>
    BY <1>3 DEF Enter, Submit, Attach, Refuse, Release, Recover, RecoverTask,
       Persist, InterruptReturns, NewManager, RecoverFails, PersistFails, runtime, callers, vars
  <2>q. QED
    BY <2>1, JoinFrame DEF InQueue, JoinInv
<1>4. CASE Begin \/ Execute \/ Finish \/ EngineStep \/ EngineEnds \/ DeadlineExpires \/ Interrupt
  <2>1. /\ UNCHANGED <<waiter, awaited, accepted, hand, queue>>
        /\ worker' \notin Exited \cup {"none"}
    BY <1>4 DEF Begin, SaveRun, BindInput, CommitInput, OpenAnswer, MarkTask, StartRun, Execute,
       Finish, CloseSteps, CloseAnswer, CloseRun, ClearTask, EngineStep, EngineEnds, DeadlineExpires, Interrupt,
       Preparing, BeginWrites, Executing, control, runtime, callers
  <2>q. QED
    BY <2>1, JoinFrame DEF InQueue
<1>5. CASE Put
  <2>1. UNCHANGED <<waiter, awaited, hand, worker>> /\ queue' = Append(queue, req)
        /\ accepted' = accepted \cup {req} /\ pc = "put"
    BY <1>5 DEF Put
  <2>2. req \in Requests
    BY <2>1 DEF RunInv, RuntimeInv, PutInv, Fresh
  <2>3. \A y : InQueue(y) => InQueue(y)'
    BY <2>1, <2>2, QueueGains
  <2>q. QED
    BY <2>1, <2>3, JoinFrame DEF JoinInv
<1>6. CASE Shutdown
  <2>1. UNCHANGED <<waiter, awaited, accepted, hand>>
    BY <1>6 DEF Shutdown
  <2>2. CASE worker = "none"
    BY <1>6, <2>1, <2>2, JoinFrame DEF Shutdown, JoinInv
  <2>3. CASE worker # "none"
    <3>1. queue' = Append(queue, Stop) /\ (Live => Live')
      BY <1>6, <2>3 DEF Shutdown, Executing
    <3>2. \A y : InQueue(y) => InQueue(y)'
      BY <3>1, QueueGains
    <3>q. QED
      BY <2>1, <3>1, <3>2, JoinFrame DEF JoinInv
  <2>q. QED
    BY <2>2, <2>3
<1>7. CASE ShutdownEnds
  BY <1>7, JoinFrame DEF ShutdownEnds, JoinInv, callers
<1>8. CASE WaitReturns \/ Crash
  BY <1>8 DEF WaitReturns, Crash, JoinInv
<1>9. CASE WorkerFails
  <2>1. waiter' \notin {"joining", "joined"}
    BY <1>9 DEF WorkerFails, WakeWaiter
  <2>q. QED
    BY <2>1 DEF JoinInv
<1>10. CASE WorkerStarts \/ WorkerGets \/ Settle
  <2>1. \A r \in accepted : hand = r => Settled(r)
    BY <1>10, IterationDone DEF WorkerStarts, WorkerGets, Settle
  <2>q. QED
    BY <1>10, <2>1, LoopJoins DEF WorkerStarts, WorkerGets, Settle, EndIteration, durable
<1>11. CASE Load
  <2>1. CASE closed
    BY <1>11, <2>1, LoopJoins DEF Load, EndIteration, durable
  <2>2. CASE ~closed /\ msg[hand] \notin Queued
    <3>1. \A r \in accepted : hand = r => Settled(r)
      BY <1>11, <2>2, IterationDone DEF Load
    <3>q. QED
      BY <1>11, <2>2, <3>1, LoopJoins DEF Load, EndIteration, durable
  <2>3. CASE ~(closed \/ msg[hand] \notin Queued)
    BY <1>11, <2>3, JoinFrame DEF Load, InQueue, callers
  <2>q. QED
    BY <2>1, <2>2, <2>3
<1>q. QED
  BY <1>1, <1>2, <1>3, <1>4, <1>5, <1>6, <1>7, <1>8, <1>9, <1>10, <1>11
     DEF Next, RunNext, WorkerNext, CallerNext, FaultNext

-----------------------------------------------------------------------------
(* The theorems.                                                             *)

LEMMA RequestInvHolds == Spec => [](KeptInv /\ HeldInv /\ JoinInv)
<1> DEFINE Base == RunInv /\ DiskInv /\ AskInv /\ HoldInv
           Inv == KeptInv /\ HeldInv /\ JoinInv
<1>1. Init => Inv
  BY DEF Init, KeptInv, HeldInv, JoinInv
<1>2. Base /\ Base' /\ Inv /\ [Next]_vars => Inv'
  BY DiskStep, KeptKeeps, HeldKeeps, JoinKeeps
<1>3. Spec => Init /\ [][Next]_vars
  BY DEF Spec
<1>q. QED
  BY <1>1, <1>2, <1>3, DiskInvHolds, PTL

\* An accepted request is on disk and with the runtime until a Run claims it.
THEOREM NothingLost == Spec => []NoLostRequest
<1>1. KeptInv /\ HeldInv => NoLostRequest
  BY DEF KeptInv, Kept, InLog, HeldInv, Held, Live, InQueue, NoLostRequest
<1>q. QED
  BY <1>1, RequestInvHolds, PTL

\* wait_idle returns only when every request accepted before it is settled.
THEOREM IdleSettled == Spec => []IdleMeansSettled
<1>1. JoinInv => IdleMeansSettled
  BY DEF JoinInv, IdleMeansSettled
<1>q. QED
  BY <1>1, RequestInvHolds, PTL

-----------------------------------------------------------------------------
(* The turn of a request.                                                    *)

Before(p, r) == \E m, n \in DOMAIN log : m < n /\ log[m] = p /\ log[n] = r

OrderInv ==
    /\ \A r \in Requests : msg[r] # "new" => InLog(r)
    /\ pc = "put" => log # <<>> /\ log[Len(log)] = req
    /\ \A j, k \in DOMAIN queue :
           j < k /\ queue[j] \in Requests /\ queue[k] \in Requests => Before(queue[j], queue[k])
    /\ worker \in {"load", "saveRun"} => \A p \in accepted : Before(p, hand) => Claimed(p)

-----------------------------------------------------------------------------
(* The conversation and the queue.                                           *)

LEMMA LogTyped == ASSUME RunInv PROVE Len(log) \in Nat /\ DOMAIN log = 1 .. Len(log)
BY LenProperties DEF RunInv, DurableInv, DurableOK

LEMMA BeforeIsOrder ==
    ASSUME RunInv
    PROVE  \A p, r : Before(p, r) => p # r /\ ~Before(r, p)
BY LogTyped DEF Before, RunInv, DurableInv, LogInv

LEMMA LogGains ==
    ASSUME RunInv, NEW x \in Requests, log' = Append(log, x), ~InLog(x)
    PROVE  /\ \A r : InLog(r)' <=> InLog(r) \/ r = x
           /\ \A p, r : Before(p, r) => Before(p, r)'
           /\ \A p, r : Before(p, r)' => Before(p, r) \/ r = x
           /\ log' # <<>> /\ log'[Len(log')] = x
<1>1. /\ DOMAIN log' = 1 .. (Len(log) + 1) /\ log'[Len(log) + 1] = x
      /\ Len(log) \in Nat /\ DOMAIN log = 1 .. Len(log) /\ Len(log') = Len(log) + 1
      /\ \A k \in DOMAIN log : log'[k] = log[k]
  BY AppendProperties, LenProperties DEF RunInv, DurableInv, DurableOK
<1>2. DOMAIN log' = DOMAIN log \cup {Len(log) + 1} /\ Len(log) + 1 \notin DOMAIN log
  BY <1>1
<1>3. \A r : InLog(r)' <=> InLog(r) \/ r = x
  BY <1>1, <1>2 DEF InLog
<1>4. \A p, r : Before(p, r) => Before(p, r)'
  BY <1>1, <1>2 DEF Before
<1>5. ASSUME NEW p, NEW r, Before(p, r)', r # x PROVE Before(p, r)
  <2>1. PICK m, n \in DOMAIN log' : m < n /\ log'[m] = p /\ log'[n] = r
    BY <1>5 DEF Before
  <2>2. n \in DOMAIN log
    BY <1>1, <1>2, <1>5, <2>1
  <2>3. m \in DOMAIN log
    BY <1>1, <2>1, <2>2
  <2>q. QED
    BY <1>1, <2>1, <2>2, <2>3 DEF Before
<1>6. log' # <<>>
  BY <1>1
<1>q. QED
  BY <1>1, <1>3, <1>4, <1>5, <1>6

\* What is last in the conversation is behind all the rest of it.
LEMMA LastIsBehind ==
    ASSUME RunInv, log # <<>>
    PROVE  \A p : /\ InLog(p) /\ p # log[Len(log)] => Before(p, log[Len(log)])
                  /\ ~Before(log[Len(log)], p)
<1>1. Len(log) \in DOMAIN log /\ \A k \in DOMAIN log : k # Len(log) => k < Len(log)
  <2>1. log \in Seq(Requests)
    BY DEF RunInv, DurableInv, DurableOK
  <2>2. Len(log) # 0
    BY <2>1, EmptySeq
  <2>q. QED
    BY <2>2, LogTyped
<1>2. \A p : InLog(p) /\ p # log[Len(log)] => Before(p, log[Len(log)])
  BY <1>1 DEF InLog, Before
<1>3. ASSUME NEW p, Before(log[Len(log)], p) PROVE FALSE
  <2>1. PICK m, n \in DOMAIN log : m < n /\ log[m] = log[Len(log)]
    BY <1>3 DEF Before
  <2>2. m = Len(log)
    BY <1>1, <2>1 DEF RunInv, DurableInv, LogInv
  <2>q. QED
    BY <2>1, <2>2, LogTyped
<1>q. QED
  BY <1>2, <1>3

LEMMA QueueDomain ==
    ASSUME RunInv
    PROVE  /\ Len(queue) \in Nat /\ DOMAIN queue = 1 .. Len(queue)
           /\ \A k \in DOMAIN queue : queue[k] \in Requests \cup {Stop}
BY LenProperties, ElementOfSeq DEF RunInv, RuntimeInv, RuntimeOK

-----------------------------------------------------------------------------
(* Requests are taken in their turn.                                         *)

LEMMA OrderFrame ==
    ASSUME RunInv, OrderInv, Forward, UNCHANGED <<log, accepted, hand, queue>>,
           \A r \in Requests : msg'[r] # "new" => msg[r] # "new",
           worker' \in {"load", "saveRun"} => worker \in {"load", "saveRun"},
           pc' = "put" => pc = "put" /\ req' = req
    PROVE  OrderInv'
<1>1. \A p, r : Before(p, r)' <=> Before(p, r)
  BY DEF Before
<1>2. \A j, k \in DOMAIN queue' :
          j < k /\ queue'[j] \in Requests /\ queue'[k] \in Requests =>
              Before(queue[j], queue[k])
  BY DEF OrderInv
<1>3. (\A j, k \in DOMAIN queue :
          j < k /\ queue[j] \in Requests /\ queue[k] \in Requests => Before(queue[j], queue[k]))'
  BY <1>2 DEF Before
<1>4. (\A r \in Requests : msg[r] # "new" => InLog(r))'
  BY DEF OrderInv, InLog
<1>5. (pc = "put" => log # <<>> /\ log[Len(log)] = req)'
  BY DEF OrderInv
<1>6. (worker \in {"load", "saveRun"} => \A p \in accepted : Before(p, hand) => Claimed(p))'
  <2>1. \A p : Claimed(p) => Claimed(p)'
    BY ClaimsStay
  <2>q. QED
    BY <2>1 DEF OrderInv, Before
<1>q. QED
  BY <1>3, <1>4, <1>5, <1>6 DEF OrderInv

\* The conversation grows at its end.
LEMMA PersistOrder ==
    ASSUME RunInv, OrderInv, pc = "persist", UNCHANGED <<runs, accepted, hand, queue, worker>>,
           log' = Append(log, req), msg' = [msg EXCEPT ![req] = "queued"],
           pc' = "put" => req' = req
    PROVE  OrderInv'
<1>1. req \in Requests /\ msg[req] = "new" /\ msg \in [Requests -> MessageStatus]
  BY DEF RunInv, ControlInv, SubmitInv, DurableInv, DurableOK
<1>2. ~InLog(req)
  BY <1>1 DEF InLog, RunInv, DurableInv, LogInv
<1>3. /\ \A r : InLog(r)' <=> InLog(r) \/ r = req
      /\ \A p, r : Before(p, r) => Before(p, r)'
      /\ \A p, r : Before(p, r)' => Before(p, r) \/ r = req
      /\ log' # <<>> /\ log'[Len(log')] = req
  BY <1>1, <1>2, LogGains
<1>4. (\A r \in Requests : msg[r] # "new" => InLog(r))'
  BY <1>1, <1>3 DEF OrderInv
<1>5. (pc = "put" => log # <<>> /\ log[Len(log)] = req)'
  BY <1>3
<1>6. (\A j, k \in DOMAIN queue :
          j < k /\ queue[j] \in Requests /\ queue[k] \in Requests => Before(queue[j], queue[k]))'
  <2> SUFFICES ASSUME NEW j \in DOMAIN queue, NEW k \in DOMAIN queue, j < k,
                      queue[j] \in Requests, queue[k] \in Requests
               PROVE  Before(queue[j], queue[k])'
    OBVIOUS
  <2>1. PICK p, r : p = queue[j] /\ r = queue[k] /\ Before(p, r)
    BY DEF OrderInv
  <2>2. Before(p, r)' /\ p = queue'[j] /\ r = queue'[k]
    BY <1>3, <2>1
  <2>q. QED
    BY <2>2 DEF Before
<1>7. (worker \in {"load", "saveRun"} => \A p \in accepted : Before(p, hand) => Claimed(p))'
  <2> SUFFICES ASSUME worker \in {"load", "saveRun"}, NEW p \in accepted, Before(p, hand)'
               PROVE  Claimed(p)'
    OBVIOUS
  <2>1. hand # req
    BY <1>1 DEF RunInv, RuntimeInv, HandInv, Fresh
  <2>2. PICK r : r = hand /\ Before(p, r)'
    BY DEF Before
  <2>3. Claimed(p)
    BY <1>3, <2>1, <2>2 DEF OrderInv
  <2>q. QED
    BY <2>3 DEF Claimed
<1>q. QED
  BY <1>4, <1>5, <1>6, <1>7 DEF OrderInv

\* What is inserted is last in the conversation.
LEMMA PutOrder == ASSUME RunInv, OrderInv, Put PROVE OrderInv'
<1>1. /\ queue' = Append(queue, req) /\ accepted' = accepted \cup {req} /\ pc = "put"
      /\ pc' = "none" /\ UNCHANGED <<log, msg, runs, worker, hand>>
  BY DEF Put, Release, durable
<1>2. req \in Requests /\ ~InQueue(req) /\ log # <<>> /\ log[Len(log)] = req
  BY <1>1 DEF RunInv, RuntimeInv, PutInv, Fresh, OrderInv
<1>3. /\ DOMAIN queue' = 1 .. (Len(queue) + 1) /\ queue'[Len(queue) + 1] = req
      /\ Len(queue) \in Nat /\ DOMAIN queue = 1 .. Len(queue)
      /\ \A k \in DOMAIN queue : queue'[k] = queue[k]
  BY <1>1, <1>2, AppendProperties, LenProperties DEF RunInv, RuntimeInv, RuntimeOK
<1>4. \A p : (InLog(p) /\ p # req => Before(p, req)) /\ ~Before(req, p)
  BY <1>2, LastIsBehind
<1>5. (\A j, k \in DOMAIN queue :
          j < k /\ queue[j] \in Requests /\ queue[k] \in Requests => Before(queue[j], queue[k]))'
  <2> SUFFICES ASSUME NEW j \in DOMAIN queue', NEW k \in DOMAIN queue', j < k,
                      queue'[j] \in Requests, queue'[k] \in Requests
               PROVE  Before(queue'[j], queue'[k])
    BY <1>1 DEF Before
  <2>1. j \in DOMAIN queue /\ queue'[j] = queue[j]
    BY <1>3
  <2>2. CASE k \in DOMAIN queue
    BY <1>3, <2>1, <2>2 DEF OrderInv
  <2>3. CASE k \notin DOMAIN queue
    <3>1. queue'[k] = req
      BY <1>3, <2>3
    <3>2. queue[j] # req /\ InLog(queue[j])
      BY <1>2, <2>1 DEF InQueue, OrderInv, RunInv, RuntimeInv, QueueInv, Fresh
    <3>q. QED
      BY <1>4, <2>1, <3>1, <3>2
  <2>q. QED
    BY <2>2, <2>3
<1>6. (worker \in {"load", "saveRun"} => \A p \in accepted : Before(p, hand) => Claimed(p))'
  <2> SUFFICES ASSUME worker \in {"load", "saveRun"}, NEW p \in accepted', Before(p, hand)
               PROVE  Claimed(p)
    BY <1>1 DEF Before, Claimed
  <2>1. p \in accepted
    BY <1>1, <1>4
  <2>q. QED
    BY <2>1 DEF OrderInv
<1>7. (\A r \in Requests : msg[r] # "new" => InLog(r))'
  BY <1>1 DEF OrderInv, InLog
<1>q. QED
  BY <1>1, <1>5, <1>6, <1>7 DEF OrderInv

\* A part of the queue is in order too.
LEMMA QueueOrder ==
    ASSUME RunInv, OrderInv, UNCHANGED log, NEW x \in Nat,
           queue' \in Seq(Requests \cup {Stop}),
           \A k \in DOMAIN queue' : queue'[k] \in Requests =>
               k + x \in DOMAIN queue /\ queue'[k] = queue[k + x]
    PROVE  (\A j, k \in DOMAIN queue :
               j < k /\ queue[j] \in Requests /\ queue[k] \in Requests =>
                   Before(queue[j], queue[k]))'
<1> SUFFICES ASSUME NEW j \in DOMAIN queue', NEW k \in DOMAIN queue', j < k,
                    queue'[j] \in Requests, queue'[k] \in Requests
             PROVE  Before(queue'[j], queue'[k])
  BY DEF Before
<1>1. j + x < k + x
  <2>1. j \in Nat /\ k \in Nat
    BY LenProperties
  <2>q. QED
    BY <2>1
<1>q. QED
  BY <1>1 DEF OrderInv

LEMMA LoopOrder ==
    ASSUME RunInv, RunInv', DiskInv, KeptInv, HeldInv, OrderInv,
           LoopHead \/ (queue # <<>> /\ Take), UNCHANGED <<durable, control, accepted>>,
           worker \in {"start", "get", "load", "settled"},
           closed \/ worker # "load" \/ msg[hand] \notin Queued
    PROVE  OrderInv'
<1>1. queue' = queue \/ (queue # <<>> /\ queue' = Tail(queue))
  BY DEF LoopHead, Take
<1>2. queue' \in Seq(Requests \cup {Stop}) /\ Len(queue) \in Nat /\ DOMAIN queue = 1 .. Len(queue)
  BY QueueDomain DEF RunInv, RuntimeInv, RuntimeOK
<1>3. (\A j, k \in DOMAIN queue :
          j < k /\ queue[j] \in Requests /\ queue[k] \in Requests => Before(queue[j], queue[k]))'
  <2>1. CASE queue' = queue
    <3>1. \A k \in DOMAIN queue' : k + 0 \in DOMAIN queue /\ queue'[k] = queue[k + 0]
      BY <1>2, <2>1
    <3>q. QED
      BY <1>2, <3>1, QueueOrder DEF durable
  <2>2. CASE queue # <<>> /\ queue' = Tail(queue)
    <3>1. /\ DOMAIN queue' = 1 .. (Len(queue) - 1)
          /\ \A k \in 1 .. (Len(queue) - 1) : queue'[k] = queue[k + 1]
      BY <2>2, HeadTailProperties, LenProperties DEF RunInv, RuntimeInv, RuntimeOK
    <3>2. \A k \in DOMAIN queue' : k + 1 \in DOMAIN queue /\ queue'[k] = queue[k + 1]
      BY <1>2, <3>1
    <3>q. QED
      BY <1>2, <3>2, QueueOrder DEF durable
  <2>q. QED
    BY <1>1, <2>1, <2>2
<1>4. (worker \in {"load", "saveRun"} => \A p \in accepted : Before(p, hand) => Claimed(p))'
  <2> SUFFICES ASSUME worker' \in {"load", "saveRun"}, NEW p \in accepted,
                      Before(p, hand'), ~Claimed(p)
               PROVE  FALSE
    BY DEF Before, Claimed, durable
  <2>1. ~closed /\ queue # <<>> /\ hand' = Head(queue) /\ hand' \in Requests
    BY QueueLoses DEF LoopHead, Take
  <2>2. 1 \in DOMAIN queue /\ hand' = queue[1]
    BY <1>2, <2>1, HeadTailProperties DEF RunInv, RuntimeInv, RuntimeOK
  <2>3. hand # p
    <3>1. \A r \in accepted : hand = r => Settled(r)
      BY <2>1, IterationDone
    <3>q. QED
      BY <3>1 DEF Settled, Claimed
  <2>4. PICK k \in DOMAIN queue : queue[k] = p
    BY <2>1, <2>3 DEF HeldInv, Held, Live, Exited, InQueue
  <2>5. p # hand' /\ ~Before(hand', p)
    BY BeforeIsOrder
  <2>6. 1 < k
    BY <1>2, <2>2, <2>4, <2>5
  <2>7. p \in Requests
    BY DEF RunInv, CallersOK
  <2>q. QED
    BY <2>1, <2>2, <2>4, <2>5, <2>6, <2>7 DEF OrderInv
<1>5. (\A r \in Requests : msg[r] # "new" => InLog(r))'
  BY DEF OrderInv, InLog, durable
<1>6. (pc = "put" => log # <<>> /\ log[Len(log)] = req)'
  BY DEF OrderInv, durable, control
<1>q. QED
  BY <1>3, <1>4, <1>5, <1>6 DEF OrderInv

\* A queue made from disk is in the order of the conversation.
LEMMA RecoveredOrder == ASSUME RunInv, RunInv', OrderInv, CreateRuntime PROVE OrderInv'
<1>1. PICK q \in RecoveredQueue : queue' = q
  BY DEF CreateRuntime
<1>2. \A i, j \in DOMAIN q : i < j => Before(q[i], q[j])
  BY DEF RecoveredQueue, Before
<1>3. UNCHANGED durable /\ worker' = "start" /\ pc' # "put" /\ UNCHANGED accepted
  BY DEF CreateRuntime, Granted, Release
<1>4. (\A j, k \in DOMAIN queue :
          j < k /\ queue[j] \in Requests /\ queue[k] \in Requests => Before(queue[j], queue[k]))'
  BY <1>1, <1>2, <1>3 DEF Before, durable
<1>5. (\A r \in Requests : msg[r] # "new" => InLog(r))'
  BY <1>3 DEF OrderInv, InLog, durable
<1>q. QED
  BY <1>3, <1>4, <1>5 DEF OrderInv

LEMMA OrderKeeps ==
    ASSUME RunInv, RunInv', DiskInv, KeptInv, HeldInv, OrderInv, Forward, [Next]_vars
    PROVE  OrderInv'
<1>1. CASE \/ \E c \in {"start", "wait"} : Enter(c)
           \/ \E r \in Requests : Submit(r)
           \/ Attach \/ Refuse \/ UseRuntime \/ RecoverTask \/ CallerNext
           \/ RecoverFails \/ UNCHANGED vars
  <2>1. UNCHANGED <<log, msg, accepted, hand, queue, worker>>
    BY <1>1 DEF Enter, Submit, Attach, Refuse, UseRuntime, RecoverTask, CallerNext,
       InterruptReturns, WaitReturns, RecoverFails, durable, runtime, callers, vars
  <2>2. pc' = "put" => pc = "put" /\ req' = req
    BY <1>1 DEF Enter, Submit, Attach, Refuse, UseRuntime, Granted, Release, RecoverTask,
       CallerNext, InterruptReturns, WaitReturns, RecoverFails, control, vars
  <2>q. QED
    BY <2>1, <2>2, OrderFrame
<1>2. CASE Recover
  <2>1. PICK i \in DOMAIN runs : RecoverWrite(i)
    BY <1>2 DEF Recover
  <2>2. \A r \in Requests : msg'[r] # "new" => msg[r] # "new"
    BY <2>1 DEF RecoverWrite, RecoverSteps, RecoverRun, RecoverInput, RecoverAnswer, Queued,
       RunInv, DurableInv, DurableOK
  <2>q. QED
    BY <1>2, <2>2, OrderFrame DEF Recover, control, runtime, callers
<1>3. CASE Begin
  <2>1. worker \in {"bindInput", "commitInput"} => msg[hand] # "new"
    BY DEF RunInv, RuntimeInv, HandInv
  <2>2. \A r \in Requests : msg'[r] # "new" => msg[r] # "new"
    BY <1>3, <2>1 DEF Begin, SaveRun, BindInput, CommitInput, OpenAnswer, MarkTask, StartRun,
       RunInv, DurableInv, DurableOK
  <2>3. UNCHANGED <<log, accepted, hand, queue, pc, req>> /\ worker' \notin {"load", "saveRun"}
    BY <1>3 DEF Begin, SaveRun, BindInput, CommitInput, OpenAnswer, MarkTask, StartRun, control,
       callers
  <2>q. QED
    BY <2>2, <2>3, OrderFrame
<1>4. CASE Execute \/ Finish \/ EngineStep \/ EngineEnds \/ DeadlineExpires \/ Interrupt
  <2>1. /\ UNCHANGED <<log, msg, accepted, hand, queue, pc, req>>
        /\ worker' \in {"load", "saveRun"} => worker \in {"load", "saveRun"}
    BY <1>4 DEF Execute, Finish, CloseSteps, CloseAnswer, CloseRun, ClearTask, EngineStep,
       EngineEnds, DeadlineExpires, Interrupt, durable, control, runtime, callers
  <2>q. QED
    BY <2>1, OrderFrame
<1>5. CASE Persist \/ PersistFails
  <2>1. /\ pc = "persist" /\ UNCHANGED <<runs, accepted, hand, queue, worker>>
        /\ pc' = "put" => req' = req
    BY <1>5 DEF Persist, PersistFails, Release, runtime, callers
  <2>2. CASE log' = Append(log, req) /\ msg' = [msg EXCEPT ![req] = "queued"]
    BY <2>1, <2>2, PersistOrder
  <2>3. CASE UNCHANGED <<msg, log>> /\ pc' = "none"
    BY <2>1, <2>3, OrderFrame
  <2>q. QED
    BY <1>5, <2>2, <2>3 DEF Persist, PersistFails, Release
<1>6. CASE Put
  BY <1>6, PutOrder
<1>7. CASE CreateRuntime
  BY <1>7, RecoveredOrder
<1>8. CASE WorkerStarts \/ WorkerGets \/ Settle
  BY <1>8, LoopOrder DEF WorkerStarts, WorkerGets, Settle, EndIteration
<1>9. CASE Load
  <2>1. CASE closed \/ msg[hand] \notin Queued
    BY <1>9, <2>1, LoopOrder DEF Load, EndIteration
  <2>2. CASE ~(closed \/ msg[hand] \notin Queued)
    BY <1>9, <2>2, OrderFrame DEF Load, durable, control, callers
  <2>q. QED
    BY <2>1, <2>2
<1>10. CASE Shutdown
  <2>1. CASE worker = "none"
    BY <1>10, <2>1, OrderFrame DEF Shutdown, durable
  <2>2. CASE worker # "none"
    <3>1. /\ UNCHANGED <<log, msg, runs, accepted, hand>> /\ queue' = Append(queue, Stop)
          /\ worker' \in {"load", "saveRun"} => worker \in {"load", "saveRun"}
          /\ pc' = "await"
      BY <1>10, <2>2 DEF Shutdown, durable
    <3>2. /\ DOMAIN queue' = 1 .. (Len(queue) + 1) /\ queue'[Len(queue) + 1] = Stop
          /\ Len(queue) \in Nat /\ DOMAIN queue = 1 .. Len(queue)
          /\ \A k \in DOMAIN queue : queue'[k] = queue[k]
      BY <3>1, AppendProperties, LenProperties DEF RunInv, RuntimeInv, RuntimeOK
    <3>3. \A k \in DOMAIN queue' : queue'[k] \in Requests =>
              k + 0 \in DOMAIN queue /\ queue'[k] = queue[k + 0]
      BY <3>2, RequestsAssumption
    <3>4. (\A j, k \in DOMAIN queue :
              j < k /\ queue[j] \in Requests /\ queue[k] \in Requests =>
                  Before(queue[j], queue[k]))'
      BY <3>1, <3>3, QueueOrder DEF RunInv, RuntimeInv, RuntimeOK
    <3>q. QED
      BY <3>1, <3>4 DEF OrderInv, InLog, Before, Claimed
  <2>q. QED
    BY <2>1, <2>2
<1>11. CASE ShutdownEnds \/ Crash
  <2>1. queue' = <<>> /\ worker' = "none" /\ pc' = "none" /\ UNCHANGED <<log, msg>>
    BY <1>11 DEF ShutdownEnds, Crash, Release, durable
  <2>q. QED
    BY <2>1 DEF OrderInv, InLog
<1>12. CASE WorkerFails
  <2>1. worker' = "failed" /\ UNCHANGED <<queue, log, msg, pc, req>>
    BY <1>12 DEF WorkerFails, durable, control
  <2>q. QED
    BY <2>1 DEF OrderInv, InLog, Before
<1>13. CASE NewManager
  BY <1>13, OrderFrame DEF NewManager, durable, runtime, callers
<1>q. QED
  BY <1>1, <1>2, <1>3, <1>4, <1>5, <1>6, <1>7, <1>8, <1>9, <1>10, <1>11, <1>12, <1>13
     DEF Next, RunNext, WorkerNext, FaultNext

-----------------------------------------------------------------------------
(* The steps of the ledger.                                                  *)

phases == [r \in Requests |-> Phase(r)]
seen == <<log, phases, accepted>>

\* A step that claims and settles nothing.
LEMMA Unseen ==
    ASSUME RunInv, UNCHANGED <<log, accepted>>,
           \A r \in Requests : msg'[r] = "new" <=> msg[r] = "new",
           DOMAIN runs' = DOMAIN runs,
           \A i \in DOMAIN runs :
               /\ runs'[i].input = runs[i].input
               /\ runs'[i].status \in TerminalRun <=> runs[i].status \in TerminalRun
    PROVE  UNCHANGED seen
<1>1. \A r : (Claimed(r)' <=> Claimed(r)) /\ (Settled(r)' <=> Settled(r))
  BY DEF Claimed, Settled
<1>2. \A r \in Requests : Phase(r)' = Phase(r)
  BY <1>1 DEF Phase
<1>q. QED
  BY <1>2 DEF phases, seen

\* A step in which one request moves on.
LEMMA OneMoves ==
    ASSUME NEW r \in Requests, NEW p, Phase(r)' = p,
           \A s \in Requests : s # r => Phase(s)' = Phase(s)
    PROVE  phases' = [phases EXCEPT ![r] = p]
BY DEF phases

LEMMA PersistAccepts ==
    ASSUME RunInv, pc = "persist", UNCHANGED <<runs, accepted>>,
           log' = Append(log, req), msg' = [msg EXCEPT ![req] = "queued"]
    PROVE  \E r \in Requests : Ledger!Accept(r)
<1>1. req \in Requests /\ msg[req] = "new" /\ msg \in [Requests -> MessageStatus]
      /\ ~Claimed(req)
  BY DEF RunInv, ControlInv, SubmitInv, DurableInv, DurableOK, NewUnclaimed
<1>2. PICK r \in Requests : r = req
  BY <1>1
<1>3. \A s : (Claimed(s)' <=> Claimed(s)) /\ (Settled(s)' <=> Settled(s))
  BY DEF Claimed, Settled
<1>4. ~Settled(r)
  BY <1>1, <1>2 DEF Settled, Claimed
<1>5. Phase(r) = "new" /\ Phase(r)' = "waiting"
  BY <1>1, <1>2, <1>3, <1>4 DEF Phase
<1>6. \A s \in Requests : s # r => Phase(s)' = Phase(s)
  BY <1>1, <1>2, <1>3 DEF Phase
<1>7. phases' = [phases EXCEPT ![r] = "waiting"]
  BY <1>5, <1>6, OneMoves
<1>q. QED
  BY <1>2, <1>5, <1>7 DEF Ledger!Accept, phases

LEMMA PutAcknowledges ==
    ASSUME RunInv, Put
    PROVE  \E r \in Requests : Ledger!Acknowledge(r)
<1>1. PICK r \in Requests : r = req /\ msg[r] # "new" /\ ~Claimed(r)
  BY DEF Put, RunInv, RuntimeInv, PutInv, Fresh
<1>2. Phase(r) = "waiting"
  BY <1>1 DEF Phase, Settled, Claimed
<1>3. accepted' = accepted \cup {r} /\ UNCHANGED <<log, msg, runs>>
  BY <1>1 DEF Put, durable
<1>4. phases' = phases
  BY <1>3 DEF phases, Phase, Settled, Claimed
<1>q. QED
  BY <1>2, <1>3, <1>4 DEF Ledger!Acknowledge, phases

\* A Run is written for the message in hand: all others are over, and no accepted one
\* that waits comes before it.
LEMMA SaveRunClaims ==
    ASSUME RunInv, DiskInv, OrderInv, SaveRun, UNCHANGED accepted
    PROVE  \E r \in Requests : Ledger!Claim(r)
<1> DEFINE new == [input |-> hand, status |-> "pending", step |-> "quiet", answer |-> "none"]
<1>1. PICK r \in Requests : r = hand /\ msg[r] # "new" /\ ~Claimed(r)
  BY DEF SaveRun, RunInv, RuntimeInv, HandInv, Fresh
<1>2. worker = "saveRun" /\ runs' = Append(runs, new) /\ UNCHANGED <<log, msg>>
  BY DEF SaveRun
<1>3. new \in Run /\ new.status \notin TerminalRun /\ new.input = r
  BY <1>1 DEF Run, ActiveRun, TerminalRun, Outcomes
<1> HIDE DEF new
<1>4. /\ DOMAIN runs' = DOMAIN runs \cup {last + 1} /\ runs'[last + 1] = new
      /\ last + 1 \notin DOMAIN runs /\ \A j \in DOMAIN runs : runs'[j] = runs[j]
  BY <1>2, <1>3, RunAdded
<1>5. \A s : (Claimed(s)' <=> Claimed(s) \/ s = r) /\ (Settled(s)' <=> Settled(s))
  BY <1>3, <1>4 DEF Claimed, Settled
<1>6. \A i \in DOMAIN runs : Over(i)
  BY <1>2, AllOver
<1>7. \A s : Claimed(s) => Settled(s)
  BY <1>6 DEF Claimed, Settled, Over, RunClean
<1>8. ~Settled(r)
  BY <1>1 DEF Settled, Claimed
<1>9. Phase(r) = "waiting" /\ Phase(r)' = "claimed"
  BY <1>1, <1>2, <1>5, <1>8 DEF Phase
<1>10. \A s \in Requests : Phase(s) # "claimed" /\ (s # r => Phase(s)' = Phase(s))
  BY <1>2, <1>5, <1>7 DEF Phase
<1>11. phases' = [phases EXCEPT ![r] = "claimed"]
  BY <1>9, <1>10, OneMoves
<1>12. ASSUME NEW m \in DOMAIN log, NEW n \in DOMAIN log, m < n, log[n] = r, log[m] \in accepted
       PROVE  phases[log[m]] # "waiting"
  <2>1. Claimed(log[m])
    BY <1>1, <1>2, <1>12 DEF OrderInv, Before
  <2>2. log[m] \in Requests
    BY <1>12 DEF RunInv, CallersOK
  <2>q. QED
    BY <2>1, <2>2, <1>7 DEF phases, Phase
<1>q. QED
  BY <1>2, <1>9, <1>10, <1>11, <1>12 DEF Ledger!Claim, phases

\* A Run becomes terminal.
LEMMA StatusSettles ==
    ASSUME RunInv, RunInv', NEW i \in DOMAIN runs, NEW v \in TerminalRun,
           runs[i].status \notin TerminalRun, runs' = [runs EXCEPT ![i].status = v],
           UNCHANGED <<log, msg, accepted>>
    PROVE  \E r \in Requests : Ledger!Settle(r)
<1>1. /\ DOMAIN runs' = DOMAIN runs /\ \A j \in DOMAIN runs : j # i => runs'[j] = runs[j]
      /\ runs'[i].status = v /\ runs'[i].input = runs[i].input
  BY StatusWritten
<1>2. PICK r \in Requests : r = runs[i].input
  BY RunsTyped
<1>3. \A j \in DOMAIN runs : runs[j].input = r => j = i
  BY <1>2 DEF RunInv, DurableInv, AtMostOneRun
<1>4. Claimed(r) /\ ~Settled(r) /\ Settled(r)'
  BY <1>1, <1>2, <1>3 DEF Claimed, Settled
<1>5. \A s : Claimed(s)' <=> Claimed(s)
  BY <1>1 DEF Claimed
<1>6. \A s : s # r => (Settled(s)' <=> Settled(s))
  BY <1>1, <1>2 DEF Settled
<1>7. Phase(r) = "claimed" /\ Phase(r)' = "settled"
  BY <1>4 DEF Phase
<1>8. \A s \in Requests : s # r => Phase(s)' = Phase(s)
  BY <1>5, <1>6 DEF Phase
<1>9. phases' = [phases EXCEPT ![r] = "settled"]
  BY <1>7, <1>8, OneMoves
<1>q. QED
  BY <1>7, <1>9 DEF Ledger!Settle, phases

-----------------------------------------------------------------------------
(* Every step is one of them, or shows nothing.                              *)

LEMMA RewriteSeen ==
    ASSUME RunInv, RunInv', NEW i \in DOMAIN runs, NEW v, UNCHANGED <<log, msg, accepted>>,
           \/ runs' = [runs EXCEPT ![i].step = v]
           \/ runs' = [runs EXCEPT ![i].answer = v]
           \/ /\ runs' = [runs EXCEPT ![i].status = v]
              /\ runs[i].status \notin TerminalRun /\ v \notin TerminalRun
    PROVE  UNCHANGED seen
<1>1. CASE runs' = [runs EXCEPT ![i].step = v]
  BY <1>1, StepWritten, Unseen
<1>2. CASE runs' = [runs EXCEPT ![i].answer = v]
  BY <1>2, AnswerWritten, Unseen
<1>3. CASE /\ runs' = [runs EXCEPT ![i].status = v]
           /\ runs[i].status \notin TerminalRun /\ v \notin TerminalRun
  BY <1>3, StatusWritten, Unseen
<1>q. QED
  BY <1>1, <1>2, <1>3

LEMMA LedgerStep ==
    ASSUME RunInv, RunInv', DiskInv, OrderInv, [Next]_vars
    PROVE  [Ledger!Next]_seen
<1>1. CASE Persist \/ PersistFails
  <2>1. pc = "persist" /\ UNCHANGED <<runs, accepted>>
    BY <1>1 DEF Persist, PersistFails, callers
  <2>2. CASE log' = Append(log, req) /\ msg' = [msg EXCEPT ![req] = "queued"]
    BY <2>1, <2>2, PersistAccepts DEF Ledger!Next
  <2>3. CASE UNCHANGED <<log, msg>>
    BY <2>1, <2>3, Unseen
  <2>q. QED
    BY <1>1, <2>2, <2>3 DEF Persist, PersistFails
<1>2. CASE Put
  BY <1>2, PutAcknowledges DEF Ledger!Next
<1>3. CASE Recover
  <2>1. PICK i \in DOMAIN runs : RecoverWrite(i)
    BY <1>3 DEF Recover
  <2>2. UNCHANGED <<log, accepted>>
    BY <1>3 DEF Recover, callers
  <2>3. CASE RecoverSteps(i) \/ RecoverAnswer(i)
    BY <2>2, <2>3, RewriteSeen DEF RecoverSteps, RecoverAnswer
  <2>4. CASE RecoverRun(i)
    <3>1. runs[i].status \notin TerminalRun /\ "recovered" \in TerminalRun
      BY <2>4 DEF RecoverRun, ActiveRun, TerminalRun, Outcomes
    <3>q. QED
      BY <2>2, <2>4, <3>1, StatusSettles DEF RecoverRun, Ledger!Next
  <2>5. CASE RecoverInput(i)
    <3>1. UNCHANGED runs /\ \A r \in Requests : msg'[r] = "new" <=> msg[r] = "new"
      BY <2>5 DEF RecoverInput, Queued, RunInv, DurableInv, DurableOK
    <3>q. QED
      BY <2>2, <3>1, Unseen
  <2>q. QED
    BY <2>1, <2>3, <2>4, <2>5 DEF RecoverWrite
<1>4. CASE Begin
  <2>1. UNCHANGED <<log, accepted>>
    BY <1>4 DEF Begin, SaveRun, BindInput, CommitInput, OpenAnswer, MarkTask, StartRun, callers
  <2>2. CASE SaveRun
    BY <2>1, <2>2, SaveRunClaims DEF Ledger!Next
  <2>3. CASE BindInput \/ CommitInput
    <3>1. UNCHANGED runs /\ msg[hand] # "new"
      BY <2>3 DEF BindInput, CommitInput, RunInv, RuntimeInv, HandInv
    <3>2. \A r \in Requests : msg'[r] = "new" <=> msg[r] = "new"
      BY <2>3, <3>1 DEF BindInput, CommitInput, RunInv, DurableInv, DurableOK
    <3>q. QED
      BY <2>1, <3>1, <3>2, Unseen
  <2>4. CASE MarkTask
    BY <2>1, <2>4, Unseen DEF MarkTask
  <2>5. CASE OpenAnswer
    <3>1. last \in DOMAIN runs
      BY <2>5, InHand DEF OpenAnswer, Claiming, Opening
    <3>q. QED
      BY <2>1, <2>5, <3>1, RewriteSeen DEF OpenAnswer
  <2>6. CASE StartRun
    <3>1. worker = "startRun" /\ worker \in Claiming
      BY <2>6 DEF StartRun, Claiming, Streaming
    <3>2. /\ last \in DOMAIN runs /\ "running" \notin TerminalRun
          /\ runs[last].status \notin TerminalRun
      BY <3>1 DEF DiskInv, LastInv, TerminalRun, Outcomes
    <3>q. QED
      BY <2>1, <2>6, <3>2, RewriteSeen DEF StartRun
  <2>q. QED
    BY <1>4, <2>2, <2>3, <2>4, <2>5, <2>6 DEF Begin
<1>5. CASE EngineStep
  <2>1. last \in DOMAIN runs /\ UNCHANGED <<log, msg, accepted>>
    BY <1>5, InHand DEF EngineStep, Claiming, Streaming, callers
  <2>q. QED
    BY <1>5, <2>1, RewriteSeen DEF EngineStep
<1>6. CASE Finish
  <2>1. UNCHANGED <<log, msg, accepted>>
    BY <1>6 DEF Finish, callers
  <2>2. CloseSteps \/ CloseAnswer \/ CloseRun => last \in DOMAIN runs
    BY InHand DEF CloseSteps, CloseAnswer, CloseRun, Claiming, Streaming, Closing
  <2>3. CASE CloseSteps \/ CloseAnswer
    BY <2>1, <2>2, <2>3, RewriteSeen DEF CloseSteps, CloseAnswer
  <2>4. CASE CloseRun
    <3>1. worker = "closeRun" /\ worker \in Claiming
      BY <2>4 DEF CloseRun, Claiming, Closing
    <3>2. runs[last].status \notin TerminalRun /\ outcome \in TerminalRun
      BY <3>1, InHand DEF DiskInv, LastInv, TerminalRun, Outcomes
    <3>q. QED
      BY <2>1, <2>2, <2>4, <3>2, StatusSettles DEF CloseRun, Ledger!Next
  <2>5. CASE ClearTask
    BY <2>1, <2>5, Unseen DEF ClearTask
  <2>q. QED
    BY <1>6, <2>3, <2>4, <2>5 DEF Finish
<1>7. CASE \/ \E c \in {"start", "wait"} : Enter(c)
           \/ \E r \in Requests : Submit(r)
           \/ Attach \/ Refuse \/ UseRuntime \/ RecoverTask \/ CreateRuntime
           \/ WorkerStarts \/ WorkerGets \/ Load \/ Execute \/ Settle \/ EngineEnds \/ DeadlineExpires
           \/ CallerNext \/ Interrupt \/ Shutdown \/ ShutdownEnds \/ NewManager
           \/ RecoverFails \/ WorkerFails \/ Crash \/ UNCHANGED vars
  <2>1. UNCHANGED <<log, msg, runs, accepted>>
    BY <1>7 DEF Enter, Submit, Attach, Refuse, UseRuntime, RecoverTask, CreateRuntime,
       WorkerStarts, WorkerGets, Load, EndIteration, Execute, Settle, EngineEnds, DeadlineExpires, CallerNext,
       InterruptReturns, WaitReturns, Interrupt, Shutdown, ShutdownEnds, NewManager,
       RecoverFails, WorkerFails, Crash, durable, callers, vars
  <2>q. QED
    BY <2>1, Unseen
<1>q. QED
  BY <1>1, <1>2, <1>3, <1>4, <1>5, <1>6, <1>7 DEF Next, RunNext, WorkerNext, FaultNext

LEMMA OrderInvHolds ==
    Spec => [](RunInv /\ DiskInv /\ AskInv /\ HoldInv /\ OrderInv)
<1> DEFINE Base == RunInv /\ DiskInv /\ AskInv /\ HoldInv
           Held2 == KeptInv /\ HeldInv /\ JoinInv
<1>1. Init => OrderInv
  BY DEF Init, OrderInv
<1>2. Base /\ Base' /\ Held2 /\ OrderInv /\ [Next]_vars => OrderInv'
  BY DiskStep, OrderKeeps
<1>3. Spec => Init /\ [][Next]_vars
  BY DEF Spec
<1>q. QED
  BY <1>1, <1>2, <1>3, DiskInvHolds, RequestInvHolds, PTL

\* The scheduler implements the ledger: whatever crashes or fails, a request is claimed
\* once, alone and in its turn, and settled once and for ever.
THEOREM LedgerImplemented == Spec => ImplementsLedger
<1>1. Init => Ledger!Init
  BY DEF Init, Ledger!Init, Phase, Settled, Claimed
<1>2. RunInv /\ RunInv' /\ DiskInv /\ OrderInv /\ [Next]_vars => [Ledger!Next]_Ledger!vars
  BY LedgerStep DEF seen, phases, Ledger!vars
<1>3. Spec => Init /\ [][Next]_vars
  BY DEF Spec
<1>q. QED
  BY <1>1, <1>2, <1>3, OrderInvHolds, PTL DEF ImplementsLedger, Ledger!Spec

=============================================================================
