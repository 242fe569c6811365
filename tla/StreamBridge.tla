----------------------------- MODULE StreamBridge -----------------------------
(***************************************************************************)
(* stream_completion of src/ish/providers/litellm.py: a daemon thread      *)
(* reads a synchronous provider stream and hands each chunk to the event   *)
(* loop through a bounded queue.  The thread polls the put it scheduled;   *)
(* whoever leaves the generator sets the stop flag and goes.               *)
(*                                                                         *)
(* The provider is external: it may refuse to open, end or raise at any    *)
(* chunk, and raise once more when it is closed.                           *)
(***************************************************************************)
EXTENDS Naturals, Sequences

CONSTANTS
    BufferSize,  \* buffer_size
    MaxChunks    \* bound on the chunks of a provider stream

ASSUME BridgeAssumption == BufferSize \in Nat \ {0} /\ MaxChunks \in Nat

VARIABLES
    thread,      \* where the producer thread is
    stream,      \* the provider's stream: "none", "open" or "closed"
    produced,    \* chunks the provider has yielded
    failure,     \* the thread's failure is not None
    put,         \* the put the thread waits for, or <<>> when there is none
    queue,       \* asyncio.Queue(maxsize=buffer_size)
    stopped,     \* threading.Event
    consumer,    \* where the generator is
    delivered,   \* history: the chunks it has yielded
    loop         \* the event loop is running

vars == <<thread, stream, produced, failure, put, queue, stopped, consumer, delivered, loop>>
producer == <<thread, stream, produced, failure>>

-----------------------------------------------------------------------------
\* A chunk is its position in the stream; the queue holds <<"chunk", n>>, <<"end", 0>>
\* and <<"error", 0>>.
Reading == {"waiting", "holding"}      \* in queue.get(), or suspended at the yield
Gone == {"ended", "raised", "left"}

Init ==
    /\ thread = "start" /\ stream = "none" /\ produced = 0 /\ failure = FALSE
    /\ put = <<>> /\ queue = <<>> /\ stopped = FALSE
    /\ consumer = "waiting" /\ delivered = <<>> /\ loop = TRUE

-----------------------------------------------------------------------------
(* produce(), in the thread.                                                 *)

Open ==
    /\ thread = "start"
    /\ IF stopped
       THEN thread' = "exit" /\ UNCHANGED <<stream, failure>>
       ELSE \/ thread' = "loop" /\ stream' = "open" /\ UNCHANGED failure
            \/ thread' = "close" /\ stream' = "open" /\ failure' = TRUE
            \/ thread' = "final" /\ failure' = TRUE /\ UNCHANGED stream
    /\ UNCHANGED <<produced, put, queue, stopped, consumer, delivered, loop>>

LoopTop ==
    /\ thread = "loop"
    /\ thread' = IF stopped THEN "close" ELSE "next"
    /\ UNCHANGED <<stream, produced, failure, put, queue, stopped, consumer, delivered, loop>>

\* next(iterator) returns a chunk, ends, or raises.
ProviderNext ==
    /\ thread = "next"
    /\ \/ /\ produced < MaxChunks
          /\ produced' = produced + 1 /\ thread' = "send" /\ UNCHANGED failure
       \/ thread' = "close" /\ UNCHANGED <<produced, failure>>
       \/ thread' = "close" /\ failure' = TRUE /\ UNCHANGED produced
    /\ UNCHANGED <<stream, put, queue, stopped, consumer, delivered, loop>>

\* send(): nothing is sent once stopped, or to a loop that is closed.
Schedule(item, waiting, refused) ==
    /\ IF stopped \/ ~loop
       THEN thread' = refused /\ UNCHANGED put
       ELSE thread' = waiting /\ put' = <<item>>
    /\ UNCHANGED <<stream, produced, failure, queue, stopped, consumer, delivered, loop>>

\* Mutant: only a stream that ended well is reported.
SendFinal_OnlyEnd ==
    /\ thread = "final"
    /\ IF failure
       THEN thread' = "exit"
              /\ UNCHANGED <<stream, produced, failure, put, queue, stopped, consumer, delivered, loop>>
       ELSE Schedule(<<"end", 0>>, "finalWait", "exit")

SendChunk == thread = "send" /\ Schedule(<<"chunk", produced>>, "wait", "close")
SendFinal ==
    /\ thread = "final"
    /\ Schedule(IF failure THEN <<"error", 0>> ELSE <<"end", 0>>, "finalWait", "exit")

Accepted == IF thread = "wait" THEN "loop" ELSE "exit"
Refused == IF thread = "wait" THEN "close" ELSE "exit"

\* Mutant: the put is awaited without looking at the stop flag.
Poll_NoStop ==
    /\ thread \in {"wait", "finalWait"}
    /\ put = <<>> /\ thread' = Accepted
    /\ UNCHANGED <<stream, produced, failure, put, queue, stopped, consumer, delivered, loop>>

\* Mutant: a put that takes long is given up.
Poll_TimesOut ==
    /\ thread \in {"wait", "finalWait"}
    /\ \/ put = <<>> /\ thread' = Accepted /\ UNCHANGED put
       \/ put # <<>> /\ thread' = Refused /\ put' = <<>>
    /\ UNCHANGED <<stream, produced, failure, queue, stopped, consumer, delivered, loop>>

\* future.result(timeout): the put is done, or the stop flag is seen and it is
\* cancelled.
Poll ==
    /\ thread \in {"wait", "finalWait"}
    /\ \/ put = <<>> /\ thread' = Accepted /\ UNCHANGED put
       \/ stopped /\ thread' = Refused /\ put' = <<>>
    /\ UNCHANGED <<stream, produced, failure, queue, stopped, consumer, delivered, loop>>

\* Mutant: a thread that was told to stop leaves its stream to the collector.
Close_NotStopped ==
    /\ thread = "close" /\ thread' = "final"
    /\ IF stopped THEN UNCHANGED <<stream, failure>>
       ELSE stream' = "closed" /\ failure' \in {failure, TRUE}
    /\ UNCHANGED <<produced, put, queue, stopped, consumer, delivered, loop>>

\* The stream is closed in the thread that read it; closing may fail.
Close ==
    /\ thread = "close" /\ stream' = "closed" /\ thread' = "final"
    /\ failure' \in {failure, TRUE}
    /\ UNCHANGED <<produced, put, queue, stopped, consumer, delivered, loop>>

-----------------------------------------------------------------------------
(* The event loop: the scheduled put, the generator, whoever iterates it.    *)

\* queue.put: it waits while the queue is full.
PutLands ==
    /\ loop /\ put # <<>> /\ Len(queue) < BufferSize
    /\ queue' = Append(queue, put[1]) /\ put' = <<>>
    /\ UNCHANGED <<producer, stopped, consumer, delivered, loop>>

Take ==
    /\ consumer = "waiting" /\ queue # <<>>
    /\ queue' = Tail(queue)
    /\ CASE Head(queue)[1] = "chunk" ->
              /\ consumer' = "holding" /\ delivered' = Append(delivered, Head(queue)[2])
              /\ UNCHANGED stopped
         [] Head(queue)[1] = "end"   -> consumer' = "ended" /\ stopped' = TRUE /\ UNCHANGED delivered
         [] Head(queue)[1] = "error" -> consumer' = "raised" /\ stopped' = TRUE /\ UNCHANGED delivered
    /\ UNCHANGED <<producer, put, loop>>

Resume ==
    /\ consumer = "holding" /\ consumer' = "waiting"
    /\ UNCHANGED <<producer, put, queue, stopped, delivered, loop>>

\* Cancelled or closed: the finally clause sets the flag.
Leave ==
    /\ consumer \in Reading /\ consumer' = "left" /\ stopped' = TRUE
    /\ UNCHANGED <<producer, put, queue, delivered, loop>>

\* The application's loop ends after the generator; a put may never have run.
LoopCloses ==
    /\ loop /\ consumer \in Gone /\ loop' = FALSE
    /\ UNCHANGED <<producer, put, queue, stopped, consumer, delivered>>

-----------------------------------------------------------------------------
Produce == Open \/ LoopTop \/ ProviderNext \/ SendChunk \/ SendFinal \/ Poll \/ Close
Consume == Take \/ Resume
Next == Produce \/ PutLands \/ Consume \/ Leave \/ LoopCloses

\* The thread is scheduled and every provider call returns in the end, by its own
\* timeout at the latest; the loop runs what is ready and the Engine iterates on.
Fairness == WF_vars(Produce) /\ WF_vars(PutLands) /\ WF_vars(Consume)
Spec == Init /\ [][Next]_vars /\ Fairness

-----------------------------------------------------------------------------
(* Properties.                                                               *)

\* Every chunk of the provider reaches the consumer once and in order: while it reads
\* they are all delivered, queued, or in the thread's hands; when it sees the end it
\* has had every one and nothing failed, when it sees an error it has had every one
\* that came before.
Held == IF thread = "send" THEN <<produced>>
        ELSE IF put # <<>> /\ put[1][1] = "chunk" THEN <<put[1][2]>> ELSE <<>>
Ending == queue # <<>> /\ queue[Len(queue)][1] # "chunk"
Queued == [i \in 1..(IF Ending THEN Len(queue) - 1 ELSE Len(queue)) |-> queue[i][2]]
AllChunks == [i \in 1..produced |-> i]
NothingLost ==
    /\ consumer \in Reading => delivered \o Queued \o Held = AllChunks
    /\ consumer = "ended" => delivered = AllChunks /\ ~failure
    /\ consumer = "raised" => delivered = AllChunks /\ failure

\* A thread that ends has closed the stream it opened, and it closes none that it
\* still reads.
StreamReleased ==
    /\ thread = "exit" => stream # "open"
    /\ stream = "closed" => thread \in {"final", "finalWait", "exit"}

\* A thread whose consumer has gone ends and gives its stream back, though the queue
\* may be full and the loop closed.
ThreadEnds == consumer \in Gone ~> thread = "exit"

\* A consumer that goes on reading sees the end or the error of the stream.
ConsumerEnds == <>(consumer \in Gone)

=============================================================================
