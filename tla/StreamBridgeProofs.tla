-------------------------- MODULE StreamBridgeProofs --------------------------
(***************************************************************************)
(* Proofs about StreamBridge, for every BufferSize and every length of a   *)
(* provider's stream.  StreamInv says where the thread is while it owns an *)
(* open stream.  FlowInv is NothingLost counted: while the consumer reads, *)
(* what it has had, what is queued and the put in flight are the items     *)
(* 1, 2, 3, ... of the stream, and the thread's place says how many they   *)
(* are; only then is nothing after them, and nothing among them twice.     *)
(* EndInv is what is left of that when the consumer has seen the end.      *)
(***************************************************************************)
EXTENDS StreamBridge, SequenceTheorems, TLAPS

Steps == {"start", "loop", "next", "send", "wait", "close", "final", "finalWait", "exit"}

\* The items of the stream in their order: its chunks, then how it ended.
Final == IF failure THEN <<"error", 0>> ELSE <<"end", 0>>
Item(n) == IF n <= produced THEN <<"chunk", n>> ELSE Final

Messages == {"chunk", "end", "error"} \X Nat
TypeOK ==
    /\ thread \in Steps /\ stream \in {"none", "open", "closed"}
    /\ produced \in Nat /\ failure \in BOOLEAN /\ stopped \in BOOLEAN /\ loop \in BOOLEAN
    /\ consumer \in Reading \cup Gone
    /\ delivered \in Seq(Nat)
    /\ queue \in Seq(Messages) /\ Len(queue) <= BufferSize
    /\ put \in Seq(Messages) /\ Len(put) <= 1

StreamInv ==
    /\ thread = "start" => stream = "none"
    /\ thread \in {"loop", "next", "send", "wait", "close"} => stream = "open"
    /\ thread \in {"final", "finalWait", "exit"} => stream # "open"

\* How many items have left the thread, by the place the thread has come to.
Sent == Len(delivered) + Len(queue) + Len(put)
Counted ==
    /\ thread \in {"start", "loop", "next", "close", "final"} => put = <<>> /\ Sent = produced
    /\ thread = "send" => put = <<>> /\ Sent + 1 = produced
    /\ thread = "wait" => Sent = produced
    /\ thread \in {"finalWait", "exit"} => Sent = produced + 1
    /\ thread = "exit" => put = <<>>

FlowInv ==
    consumer \in Reading =>
        /\ ~stopped /\ loop /\ Counted /\ Len(delivered) <= produced
        /\ \A i \in 1..Len(delivered) : delivered[i] = i
        /\ \A k \in 1..Len(queue) : queue[k] = Item(Len(delivered) + k)
        /\ put # <<>> => put[1] = Item(Len(delivered) + Len(queue) + 1)

EndInv ==
    consumer \in {"ended", "raised"} =>
        /\ thread \in {"finalWait", "exit"}
        /\ Len(delivered) = produced
        /\ \A i \in 1..Len(delivered) : delivered[i] = i
        /\ failure <=> consumer = "raised"

BridgeInv == TypeOK /\ StreamInv /\ FlowInv /\ EndInv

-----------------------------------------------------------------------------
(* Types and items.                                                          *)

LEMMA Items ==
    ASSUME TypeOK, NEW n \in Nat
    PROVE  /\ n <= produced => Item(n) = <<"chunk", n>> /\ Item(n)[1] = "chunk" /\ Item(n)[2] = n
           /\ n > produced => Item(n) = Final /\ Item(n)[1] # "chunk"
           /\ failure => Final = <<"error", 0>> /\ Final[1] = "error"
           /\ ~failure => Final = <<"end", 0>> /\ Final[1] = "end"
BY DEF TypeOK, Item, Final

LEMMA Lengths ==
    ASSUME TypeOK
    PROVE  /\ Len(delivered) \in Nat /\ Len(queue) \in Nat /\ Len(put) \in Nat
           /\ Len(put) <= 1 /\ (put = <<>> <=> Len(put) = 0)
           /\ Sent \in Nat
<1>1. /\ Len(delivered) \in Nat /\ Len(queue) \in Nat /\ Len(put) \in Nat
      /\ Len(put) <= 1 /\ (put = <<>> <=> Len(put) = 0)
  BY LenProperties, EmptySeq DEF TypeOK
<1>q. QED
  BY <1>1 DEF Sent

LEMMA BridgeInit == Init => BridgeInv
<1> SUFFICES ASSUME Init
             PROVE  BridgeInv
  OBVIOUS
<1>1. <<>> \in Seq(Messages) /\ <<>> \in Seq(Nat) /\ Len(<<>>) = 0
  OBVIOUS
<1>2. TypeOK
  <2>1. delivered \in Seq(Nat) /\ queue \in Seq(Messages) /\ put \in Seq(Messages)
    BY <1>1 DEF Init
  <2>2. Len(queue) <= BufferSize /\ Len(put) <= 1
    BY <1>1, BridgeAssumption DEF Init
  <2>q. QED
    BY <2>1, <2>2 DEF Init, TypeOK, Steps, Reading, Gone
<1>3. Sent = 0
  BY <1>1 DEF Init, Sent
<1>4. FlowInv
  BY <1>1, <1>3 DEF Init, FlowInv, Counted
<1>q. QED
  BY <1>2, <1>4 DEF Init, BridgeInv, StreamInv, EndInv

-----------------------------------------------------------------------------
(* The thread.                                                               *)

\* A step of the thread that moves no item leaves the items sent so far as they are: the
\* provider yields the next one only when all have been sent, and what fails, fails
\* before the final one is.
LEMMA ThreadKeepsFlow ==
    ASSUME BridgeInv, produced' \in {produced, produced + 1},
           <<put, queue, stopped, consumer, delivered, loop>>'
               = <<put, queue, stopped, consumer, delivered, loop>>,
           consumer \in Reading => Counted',
           consumer \in Reading /\ (produced' # produced \/ failure' # failure)
               => Sent <= produced
    PROVE  FlowInv'
<1> SUFFICES ASSUME consumer \in Reading
             PROVE  FlowInv'
  BY DEF FlowInv
<1>1. TypeOK /\ FlowInv
  BY DEF BridgeInv
<1>2. ASSUME NEW n \in Nat, n <= Sent
      PROVE  Item(n)' = Item(n)
  <2>1. produced \in Nat /\ Sent \in Nat
    BY <1>1, Lengths DEF TypeOK
  <2>2. CASE produced' = produced /\ failure' = failure
    BY <2>2 DEF Item, Final
  <2>3. CASE ~(produced' = produced /\ failure' = failure)
    <3>1. n <= produced /\ n <= produced'
      <4>1. Sent <= produced
        BY <2>3
      <4>2. produced <= produced'
        BY <2>1
      <4>q. QED
        BY <1>2, <2>1, <4>1, <4>2
    <3>q. QED
      BY <3>1 DEF Item
  <2>q. QED
    BY <2>2, <2>3
<1>3. ASSUME NEW k \in 1..Len(queue)
      PROVE  queue[k] = Item(Len(delivered) + k)'
  <2>1. PICK n \in Nat : n = Len(delivered) + k /\ n <= Sent
    BY <1>1, Lengths DEF Sent
  <2>2. queue[k] = Item(n)
    BY <1>1, <2>1 DEF FlowInv
  <2>q. QED
    BY <1>2, <2>1, <2>2
<1>4. put # <<>> => put[1] = Item(Len(delivered) + Len(queue) + 1)'
  <2> SUFFICES ASSUME put # <<>>
               PROVE  put[1] = Item(Len(delivered) + Len(queue) + 1)'
    OBVIOUS
  <2>1. PICK n \in Nat : n = Len(delivered) + Len(queue) + 1 /\ n <= Sent
    BY <1>1, Lengths DEF Sent
  <2>2. put[1] = Item(n)
    BY <1>1, <2>1 DEF FlowInv
  <2>q. QED
    BY <1>2, <2>1, <2>2
<1>5. Len(delivered) <= produced'
  <2>1. Len(delivered) \in Nat /\ produced \in Nat /\ Len(delivered) <= produced
    BY <1>1, Lengths DEF TypeOK, FlowInv
  <2>q. QED
    BY <2>1
<1>q. QED
  BY <1>1, <1>3, <1>4, <1>5 DEF FlowInv

\* The thread's steps that only read and close the stream.
LEMMA ReadKeeps ==
    ASSUME BridgeInv, Open \/ LoopTop \/ ProviderNext \/ Close
    PROVE  BridgeInv'
<1>1. TypeOK /\ StreamInv /\ FlowInv /\ EndInv
  BY DEF BridgeInv
<1>2. /\ put' = put /\ queue' = queue /\ stopped' = stopped /\ consumer' = consumer
      /\ delivered' = delivered /\ loop' = loop
  BY DEF Open, LoopTop, ProviderNext, Close
<1>3. /\ thread \in {"start", "loop", "next", "close"}
      /\ thread' \in {"loop", "close", "final", "exit", "next", "send"}
      /\ stream' \in {"none", "open", "closed"} /\ failure' \in BOOLEAN
      /\ produced' = IF thread' = "send" THEN produced + 1 ELSE produced
      /\ thread' = "exit" => stopped
  BY <1>1 DEF Open, LoopTop, ProviderNext, Close, TypeOK
<1>4. TypeOK'
  BY <1>1, <1>2, <1>3 DEF TypeOK, Steps
<1>5. StreamInv'
  BY <1>1 DEF Open, LoopTop, ProviderNext, Close, StreamInv, TypeOK
<1>6. Sent' = Sent /\ Sent \in Nat
  BY <1>1, <1>2, Lengths DEF Sent
<1>7. consumer \in Reading => Counted' /\ Sent <= produced
  BY <1>1, <1>2, <1>3, <1>6 DEF FlowInv, Counted, TypeOK
<1>8. FlowInv'
  <2>1. produced' \in {produced, produced + 1}
    BY <1>3
  <2>q. QED
    BY <1>2, <1>4, <1>7, <2>1, ThreadKeepsFlow DEF TypeOK
<1>9. EndInv'
  BY <1>1, <1>2, <1>3 DEF EndInv
<1>q. QED
  BY <1>4, <1>5, <1>8, <1>9 DEF BridgeInv

\* The items it sends are the next of the stream.
LEMMA SendKeeps ==
    ASSUME BridgeInv, SendChunk \/ SendFinal
    PROVE  BridgeInv'
<1>1. TypeOK /\ StreamInv /\ FlowInv /\ EndInv
  BY DEF BridgeInv
<1>2. /\ stream' = stream /\ produced' = produced /\ failure' = failure /\ queue' = queue
      /\ stopped' = stopped /\ consumer' = consumer /\ delivered' = delivered /\ loop' = loop
  BY DEF SendChunk, SendFinal, Schedule
<1>3. PICK item \in Messages :
        /\ \/ thread = "send" /\ item = <<"chunk", produced>>
              /\ thread' = (IF stopped \/ ~loop THEN "close" ELSE "wait")
           \/ thread = "final" /\ item = Final
              /\ thread' = (IF stopped \/ ~loop THEN "exit" ELSE "finalWait")
        /\ IF stopped \/ ~loop THEN put' = put ELSE put' = <<item>>
  <2>1. <<"chunk", produced>> \in Messages
        /\ Final \in Messages
    BY <1>1 DEF TypeOK, Final, Messages
  <2>2. CASE SendChunk
    BY <2>1, <2>2 DEF SendChunk, Schedule
  <2>3. CASE SendFinal
    BY <2>1, <2>3 DEF SendFinal, Schedule, Final
  <2>q. QED
    BY <2>2, <2>3
<1>4. <<item>> \in Seq(Messages) /\ Len(<<item>>) = 1 /\ <<item>>[1] = item
      /\ <<item>> # <<>>
  OBVIOUS
<1>5. TypeOK'
  <2>1. put' \in Seq(Messages) /\ Len(put') <= 1
    <3>1. CASE put' = put
      BY <1>1, <3>1 DEF TypeOK
    <3>2. CASE put' = <<item>>
      BY <1>4, <3>2
    <3>q. QED
      BY <1>3, <3>1, <3>2
  <2>2. thread' \in Steps
    BY <1>3 DEF Steps
  <2>q. QED
    BY <1>1, <1>2, <2>1, <2>2 DEF TypeOK
<1>6. StreamInv'
  BY <1>1, <1>2, <1>3 DEF StreamInv
<1>7. EndInv'
  BY <1>1, <1>2, <1>3 DEF EndInv
<1>8. ASSUME consumer \in Reading
      PROVE  FlowInv'
  <2>1. /\ ~stopped /\ loop /\ put = <<>> /\ put' = <<item>> /\ Len(put) = 0 /\ Len(put') = 1
        /\ Len(delivered) \in Nat /\ Len(queue) \in Nat
    BY <1>1, <1>3, <1>4, <1>8, Lengths DEF FlowInv, Counted
  <2>2. Counted'
    <3>1. /\ thread' \in {"wait", "finalWait"}
          /\ thread' = "wait" => Sent + 1 = produced
          /\ thread' = "finalWait" => Sent = produced
      BY <1>1, <1>3, <1>8, <2>1 DEF FlowInv, Counted
    <3>2. Sent' = Sent + 1
      BY <1>2, <2>1 DEF Sent
    <3>q. QED
      BY <1>2, <3>1, <3>2 DEF Counted
  <2>3. \A n \in Nat : Item(n)' = Item(n)
    BY <1>2 DEF Item, Final
  <2>4. \A k \in 1..Len(queue) : queue[k] = Item(Len(delivered) + k)'
    <3> SUFFICES ASSUME NEW k \in 1..Len(queue)
                 PROVE  queue[k] = Item(Len(delivered) + k)'
      OBVIOUS
    <3>1. PICK n \in Nat : n = Len(delivered) + k
      BY <2>1
    <3>2. queue[k] = Item(n)
      BY <1>1, <1>8, <3>1 DEF FlowInv
    <3>q. QED
      BY <1>2, <2>3, <3>1, <3>2
  <2>5. put'[1] = Item(Len(delivered) + Len(queue) + 1)'
    <3>1. PICK n \in Nat : n = Len(delivered) + Len(queue) + 1
      BY <2>1
    <3>2. IF thread = "send" THEN n = produced ELSE n = produced + 1
      BY <1>1, <1>3, <1>8, <2>1, <3>1 DEF FlowInv, Counted, Sent, TypeOK
    <3>3. produced \in Nat
      BY <1>1 DEF TypeOK
    <3>4. item = Item(n)
      BY <1>3, <3>2, <3>3 DEF Item
    <3>q. QED
      BY <1>2, <1>4, <2>1, <2>3, <3>1, <3>4
  <2>q. QED
    BY <1>1, <1>2, <1>8, <2>1, <2>2, <2>4, <2>5 DEF FlowInv
<1>9. FlowInv'
  BY <1>2, <1>8 DEF FlowInv
<1>q. QED
  BY <1>5, <1>6, <1>7, <1>9 DEF BridgeInv

LEMMA PollKeeps ==
    ASSUME BridgeInv, Poll
    PROVE  BridgeInv'
<1>1. TypeOK /\ StreamInv /\ FlowInv /\ EndInv
  BY DEF BridgeInv
<1>2. /\ stream' = stream /\ produced' = produced /\ failure' = failure /\ queue' = queue
      /\ stopped' = stopped /\ consumer' = consumer /\ delivered' = delivered /\ loop' = loop
      /\ put' \in {put, <<>>} /\ (~stopped => put' = put /\ put = <<>>)
      /\ thread = "wait" => thread' \in {"loop", "close"}
      /\ thread = "finalWait" => thread' = "exit"
      /\ ~stopped /\ thread = "wait" => thread' = "loop"
      /\ thread \in {"wait", "finalWait"}
  BY DEF Poll, Accepted, Refused
<1>3. TypeOK'
  <2>1. <<>> \in Seq(Messages) /\ Len(<<>>) = 0
    OBVIOUS
  <2>2. put' \in Seq(Messages) /\ Len(put') <= 1
    <3>1. CASE put' = put
      BY <1>1, <3>1 DEF TypeOK
    <3>2. CASE put' = <<>>
      BY <2>1, <3>2
    <3>q. QED
      BY <1>2, <3>1, <3>2
  <2>3. thread' \in Steps
    BY <1>2 DEF Steps
  <2>q. QED
    BY <1>1, <1>2, <2>2, <2>3 DEF TypeOK
<1>4. StreamInv'
  BY <1>1, <1>2 DEF StreamInv
<1>5. EndInv'
  BY <1>1, <1>2 DEF EndInv
<1>6. FlowInv'
  <2>1. CASE consumer \in Reading
    <3>1. put' = put /\ put = <<>>
      BY <1>1, <1>2, <2>1 DEF FlowInv
    <3>2. Sent' = Sent
      BY <1>2, <3>1 DEF Sent
    <3>3. Counted'
      BY <1>1, <1>2, <2>1, <3>1, <3>2 DEF FlowInv, Counted
    <3>q. QED
      BY <1>2, <3>1, <3>3, ThreadKeepsFlow
  <2>2. CASE consumer \notin Reading
    BY <1>2, <2>2 DEF FlowInv
  <2>q. QED
    BY <2>1, <2>2
<1>q. QED
  BY <1>3, <1>4, <1>5, <1>6 DEF BridgeInv

-----------------------------------------------------------------------------
(* The event loop.                                                           *)

LEMMA PutLandsKeeps ==
    ASSUME BridgeInv, PutLands
    PROVE  BridgeInv'
<1>1. TypeOK /\ StreamInv /\ FlowInv /\ EndInv
  BY DEF BridgeInv
<1>2. /\ thread' = thread /\ stream' = stream /\ produced' = produced /\ failure' = failure
      /\ stopped' = stopped /\ consumer' = consumer /\ delivered' = delivered /\ loop' = loop
      /\ put # <<>> /\ put' = <<>> /\ queue' = Append(queue, put[1]) /\ Len(queue) < BufferSize
  BY DEF PutLands, producer
<1>3. /\ Len(put) = 1 /\ Len(<<>>) = 0 /\ <<>> \in Seq(Messages)
      /\ Len(delivered) \in Nat /\ Len(queue) \in Nat
  <2>1. Len(<<>>) = 0 /\ <<>> \in Seq(Messages)
    OBVIOUS
  <2>2. /\ Len(delivered) \in Nat /\ Len(queue) \in Nat
        /\ Len(put) \in Nat /\ Len(put) <= 1 /\ Len(put) # 0
    BY <1>1, <1>2, Lengths
  <2>3. Len(put) = 1
    <3>1. PICK m \in Nat : m = Len(put)
      BY <2>2
    <3>2. m = 1
      BY <2>2, <3>1
    <3>q. QED
      BY <3>1, <3>2
  <2>q. QED
    BY <2>1, <2>2, <2>3
<1>4. put[1] \in Messages
  <2>1. put \in Seq(Messages) /\ 1 \in 1..Len(put)
    BY <1>1, <1>3 DEF TypeOK
  <2>q. QED
    BY <2>1, ElementOfSeq
<1>5. /\ queue' \in Seq(Messages) /\ Len(queue') = Len(queue) + 1
      /\ \A k \in 1..Len(queue) : queue'[k] = queue[k]
      /\ queue'[Len(queue) + 1] = put[1]
  BY <1>1, <1>2, <1>4, AppendProperties DEF TypeOK
<1>6. TypeOK'
  <2>1. Len(queue') <= BufferSize
    BY <1>2, <1>3, <1>5, BridgeAssumption
  <2>2. put' \in Seq(Messages) /\ Len(put') <= 1
    BY <1>2, <1>3
  <2>q. QED
    BY <1>1, <1>2, <1>5, <2>1, <2>2 DEF TypeOK
<1>7. StreamInv' /\ EndInv'
  BY <1>1, <1>2 DEF StreamInv, EndInv
<1>8. ASSUME consumer \in Reading
      PROVE  FlowInv'
  <2>1. Sent' = Sent
    BY <1>2, <1>3, <1>5 DEF Sent
  <2>2. Counted'
    BY <1>1, <1>2, <1>8, <2>1 DEF FlowInv, Counted
  <2>3. \A n \in Nat : Item(n)' = Item(n)
    BY <1>2 DEF Item, Final
  <2>4. \A k \in 1..Len(queue') : queue'[k] = Item(Len(delivered) + k)'
    <3> SUFFICES ASSUME NEW k \in 1..Len(queue')
                 PROVE  queue'[k] = Item(Len(delivered) + k)'
      OBVIOUS
    <3>1. PICK n \in Nat : n = Len(delivered) + k
      BY <1>3, <1>5
    <3>2. CASE k \in 1..Len(queue)
      <4>1. queue[k] = Item(n)
        BY <1>1, <1>8, <3>1, <3>2 DEF FlowInv
      <4>q. QED
        BY <1>2, <1>5, <2>3, <3>1, <3>2, <4>1
    <3>3. CASE k = Len(queue) + 1
      <4>1. n = Len(delivered) + Len(queue) + 1
        BY <1>3, <3>1, <3>3
      <4>2. put[1] = Item(n)
        BY <1>1, <1>2, <1>8, <4>1 DEF FlowInv
      <4>q. QED
        BY <1>2, <1>5, <2>3, <3>1, <3>3, <4>2
    <3>q. QED
      BY <1>3, <1>5, <3>2, <3>3
  <2>q. QED
    BY <1>1, <1>2, <1>8, <2>2, <2>4 DEF FlowInv
<1>9. FlowInv'
  BY <1>2, <1>8 DEF FlowInv
<1>q. QED
  BY <1>6, <1>7, <1>9 DEF BridgeInv

LEMMA TakeKeeps ==
    ASSUME BridgeInv, Take
    PROVE  BridgeInv'
<1>1. TypeOK /\ StreamInv /\ FlowInv /\ EndInv
  BY DEF BridgeInv
<1>2. /\ thread' = thread /\ stream' = stream /\ produced' = produced /\ failure' = failure
      /\ put' = put /\ loop' = loop
      /\ consumer = "waiting" /\ queue # <<>> /\ queue' = Tail(queue)
  BY DEF Take, producer
<1>3. /\ Len(delivered) \in Nat /\ Len(queue) \in Nat \ {0} /\ Len(put) \in Nat
      /\ produced \in Nat
  BY <1>1, <1>2, Lengths, EmptySeq DEF TypeOK
<1>4. /\ queue' \in Seq(Messages) /\ Len(queue') = Len(queue) - 1
      /\ \A k \in 1..Len(queue') : queue'[k] = queue[k + 1]
      /\ Head(queue) = queue[1]
  BY <1>1, <1>2, HeadTailProperties DEF TypeOK
<1>5. PICK n \in Nat : n = Len(delivered) + 1
  BY <1>3
<1>6. /\ ~stopped /\ loop /\ Counted /\ Len(delivered) <= produced /\ queue[1] = Item(n)
      /\ \A i \in 1..Len(delivered) : delivered[i] = i
      /\ \A k \in 1..Len(queue) : queue[k] = Item(Len(delivered) + k)
      /\ put # <<>> => put[1] = Item(Len(delivered) + Len(queue) + 1)
  BY <1>1, <1>2, <1>3, <1>5 DEF FlowInv, Reading
<1>7. StreamInv'
  BY <1>1, <1>2 DEF StreamInv
<1>8. Len(queue') <= BufferSize
  BY <1>1, <1>3, <1>4, BridgeAssumption DEF TypeOK
<1>9. CASE n <= produced
  <2>1. Head(queue)[1] = "chunk" /\ Head(queue)[2] = n
    BY <1>1, <1>4, <1>6, <1>9, Items
  <2>2. consumer' = "holding" /\ delivered' = Append(delivered, n) /\ stopped' = stopped
    BY <2>1 DEF Take
  <2>3. /\ delivered' \in Seq(Nat) /\ Len(delivered') = Len(delivered) + 1
        /\ \A i \in 1..Len(delivered) : delivered'[i] = delivered[i]
        /\ delivered'[Len(delivered) + 1] = n
    BY <1>1, <1>5, <2>2, AppendProperties DEF TypeOK
  <2>4. TypeOK'
    BY <1>1, <1>2, <1>4, <1>8, <2>2, <2>3 DEF TypeOK, Reading
  <2>5. EndInv'
    BY <2>2 DEF EndInv
  <2>6. Sent' = Sent
    BY <1>2, <1>3, <1>4, <2>3 DEF Sent
  <2>7. Counted'
    BY <1>2, <1>6, <2>6 DEF Counted
  <2>8. \A m \in Nat : Item(m)' = Item(m)
    BY <1>2 DEF Item, Final
  <2>9. \A i \in 1..Len(delivered') : delivered'[i] = i
    <3>1. Len(delivered') = n
      BY <1>5, <2>3
    <3>2. \A i \in 1..n : i \in 1..Len(delivered) \/ i = n
      BY <1>3, <1>5
    <3>q. QED
      BY <1>5, <1>6, <2>3, <3>1, <3>2
  <2>10. \A k \in 1..Len(queue') : queue'[k] = Item(Len(delivered) + k)'
    <3> SUFFICES ASSUME NEW k \in 1..Len(queue')
                 PROVE  queue'[k] = Item(Len(delivered) + k)'
      OBVIOUS
    <3>1. PICK m \in Nat : m = Len(delivered) + (k + 1)
      BY <1>3
    <3>2. m = Len(delivered') + k /\ k + 1 \in 1..Len(queue)
      BY <1>3, <1>4, <2>3, <3>1
    <3>3. queue[k + 1] = Item(m)
      BY <1>6, <3>1, <3>2
    <3>q. QED
      BY <1>4, <2>8, <3>2, <3>3
  <2>11. put # <<>> => put[1] = Item(Len(delivered) + Len(queue) + 1)'
    <3>1. PICK m \in Nat : m = Len(delivered) + Len(queue) + 1
      BY <1>3
    <3>2. m = Len(delivered') + Len(queue') + 1
      BY <1>3, <1>4, <2>3, <3>1
    <3>q. QED
      BY <1>6, <2>8, <3>1, <3>2
  <2>12. Len(delivered') <= produced'
    BY <1>2, <1>3, <1>5, <1>9, <2>3
  <2>13. FlowInv'
    BY <1>2, <1>6, <2>2, <2>7, <2>9, <2>10, <2>11, <2>12 DEF FlowInv
  <2>q. QED
    BY <1>7, <2>4, <2>5, <2>13 DEF BridgeInv
<1>10. CASE n > produced
  <2>1. /\ Head(queue)[1] = (IF failure THEN "error" ELSE "end")
    BY <1>1, <1>4, <1>6, <1>10, Items
  <2>2. /\ consumer' = (IF failure THEN "raised" ELSE "ended")
        /\ stopped' = TRUE /\ delivered' = delivered
    BY <2>1 DEF Take
  <2>3. TypeOK'
    BY <1>1, <1>2, <1>4, <1>8, <2>2 DEF TypeOK, Gone
  <2>4. FlowInv'
    BY <2>2 DEF FlowInv, Reading
  <2>5. thread \in {"finalWait", "exit"} /\ Len(delivered) = produced
    <3>1. Sent > produced /\ Sent = Len(delivered) + Len(queue) + Len(put)
      BY <1>3, <1>5, <1>10 DEF Sent
    <3>2. thread \in {"finalWait", "exit"} /\ Sent = produced + 1
      BY <1>1, <1>3, <1>6, <3>1 DEF Counted, TypeOK, Steps
    <3>q. QED
      BY <1>3, <1>5, <1>10, <3>1, <3>2
  <2>6. EndInv'
    BY <1>2, <1>6, <2>2, <2>5, <1>1 DEF EndInv, TypeOK
  <2>q. QED
    BY <1>7, <2>3, <2>4, <2>6 DEF BridgeInv
<1>q. QED
  BY <1>3, <1>5, <1>9, <1>10

LEMMA GoKeeps ==
    ASSUME BridgeInv, Resume \/ Leave \/ LoopCloses
    PROVE  BridgeInv'
<1>1. TypeOK /\ StreamInv /\ FlowInv /\ EndInv
  BY DEF BridgeInv
<1>2. /\ thread' = thread /\ stream' = stream /\ produced' = produced /\ failure' = failure
      /\ put' = put /\ queue' = queue /\ delivered' = delivered
  BY DEF Resume, Leave, LoopCloses, producer
<1>3. /\ stopped' \in BOOLEAN /\ loop' \in BOOLEAN /\ consumer' \in Reading \cup Gone
      /\ \/ consumer \in Reading /\ consumer' \in Reading /\ stopped' = stopped /\ loop' = loop
         \/ consumer' = "left"
         \/ consumer' = consumer /\ consumer \in Gone
  BY <1>1 DEF Resume, Leave, LoopCloses, TypeOK, Reading, Gone
<1>4. TypeOK'
  BY <1>1, <1>2, <1>3 DEF TypeOK
<1>5. StreamInv'
  BY <1>1, <1>2 DEF StreamInv
<1>6. FlowInv'
  <2>1. CASE consumer \in Reading /\ consumer' \in Reading /\ stopped' = stopped /\ loop' = loop
    <3>1. Counted'
      BY <1>1, <1>2, <2>1 DEF FlowInv, Counted, Sent
    <3>2. \A n \in Nat : Item(n)' = Item(n)
      BY <1>2 DEF Item, Final
    <3>3. \A k \in 1..Len(queue) : queue[k] = Item(Len(delivered) + k)'
      BY <1>1, <1>2, <2>1 DEF FlowInv, Item, Final
    <3>4. put # <<>> => put[1] = Item(Len(delivered) + Len(queue) + 1)'
      BY <1>1, <1>2, <2>1 DEF FlowInv, Item, Final
    <3>q. QED
      BY <1>1, <1>2, <2>1, <3>1, <3>3, <3>4 DEF FlowInv
  <2>2. CASE consumer' \notin Reading
    BY <2>2 DEF FlowInv
  <2>q. QED
    BY <1>3, <2>1, <2>2 DEF Reading, Gone
<1>7. EndInv'
  BY <1>1, <1>2, <1>3 DEF EndInv, Reading, Gone
<1>q. QED
  BY <1>4, <1>5, <1>6, <1>7 DEF BridgeInv

LEMMA BridgeStep == BridgeInv /\ [Next]_vars => BridgeInv'
<1> SUFFICES ASSUME BridgeInv, [Next]_vars
             PROVE  BridgeInv'
  OBVIOUS
<1>1. CASE Open \/ LoopTop \/ ProviderNext \/ Close
  BY <1>1, ReadKeeps
<1>2. CASE SendChunk \/ SendFinal
  BY <1>2, SendKeeps
<1>3. CASE Poll
  BY <1>3, PollKeeps
<1>4. CASE PutLands
  BY <1>4, PutLandsKeeps
<1>5. CASE Take
  BY <1>5, TakeKeeps
<1>6. CASE Resume \/ Leave \/ LoopCloses
  BY <1>6, GoKeeps
<1>7. CASE UNCHANGED vars
  BY <1>7 DEF vars, BridgeInv, TypeOK, StreamInv, FlowInv, EndInv, Counted, Sent, Item, Final
<1>q. QED
  BY <1>1, <1>2, <1>3, <1>4, <1>5, <1>6, <1>7 DEF Next, Produce, Consume

-----------------------------------------------------------------------------
(* The theorems.                                                             *)

\* The inductive invariant of the bridge, at every instant of the thread and of the loop.
THEOREM BridgeInvHolds == Spec => []BridgeInv
<1> QED
  BY BridgeInit, BridgeStep, PTL DEF Spec

\* Every variable keeps its type, the queue its bound, and the thread has one put at a time.
THEOREM TypeCorrect == Spec => []TypeOK
<1>1. BridgeInv => TypeOK
  BY DEF BridgeInv
<1> QED
  BY <1>1, BridgeInvHolds, PTL

\* A thread that has ended has closed the stream it opened, and no thread reads a stream that
\* was closed, whatever the provider does and whenever the consumer goes.
THEOREM StreamIsReleased == Spec => []StreamReleased
<1>1. BridgeInv => StreamReleased
  BY DEF BridgeInv, TypeOK, StreamInv, StreamReleased, Steps
<1> QED
  BY <1>1, BridgeInvHolds, PTL

\* What the consumer has had is a run of the stream without gap or repetition.
LEMMA Delivered ==
    ASSUME BridgeInv, Len(delivered) = produced,
           \A i \in 1..Len(delivered) : delivered[i] = i
    PROVE  delivered = AllChunks
<1>1. delivered \in Seq(Nat) /\ produced \in Nat
  BY DEF BridgeInv, TypeOK
<1>2. AllChunks \in Seq(Nat) /\ Len(AllChunks) = produced
      /\ \A i \in 1..produced : AllChunks[i] = i
  BY <1>1, IsASeq DEF AllChunks
<1>q. QED
  BY <1>1, <1>2, SeqEqual

\* While the consumer reads, the chunks it has had, the chunks queued and the one in the
\* thread's hands are 1, 2, ... up to the last the provider has yielded.
LEMMA Reads ==
    ASSUME BridgeInv, consumer \in Reading
    PROVE  delivered \o Queued \o Held = AllChunks
<1>1. /\ TypeOK /\ ~stopped /\ loop /\ Counted /\ Len(delivered) <= produced
      /\ \A i \in 1..Len(delivered) : delivered[i] = i
      /\ \A k \in 1..Len(queue) : queue[k] = Item(Len(delivered) + k)
      /\ put # <<>> => put[1] = Item(Len(delivered) + Len(queue) + 1)
  BY DEF BridgeInv, FlowInv
<1>2. /\ Len(delivered) \in Nat /\ Len(queue) \in Nat /\ Len(put) \in Nat /\ Len(put) <= 1
      /\ produced \in Nat /\ (put = <<>> <=> Len(put) = 0) /\ (queue # <<>> <=> Len(queue) > 0)
      /\ delivered \in Seq(Nat)
  BY <1>1, Lengths, EmptySeq DEF TypeOK
<1> DEFINE chunks == IF Ending THEN Len(queue) - 1 ELSE Len(queue)
<1>3. Ending <=> Len(queue) > 0 /\ Len(delivered) + Len(queue) > produced
  <2>1. ASSUME Len(queue) > 0
        PROVE  queue[Len(queue)][1] # "chunk" <=> Len(delivered) + Len(queue) > produced
    <3>1. PICK n \in Nat : n = Len(delivered) + Len(queue)
      BY <1>2
    <3>2. queue[Len(queue)] = Item(n)
      BY <1>1, <1>2, <2>1, <3>1
    <3>q. QED
      BY <1>1, <1>2, <3>1, <3>2, Items
  <2>q. QED
    BY <1>2, <2>1 DEF Ending
<1>4. /\ Sent = Len(delivered) + Len(queue) + Len(put)
      /\ Sent <= produced + 1
      /\ thread = "send" => put = <<>> /\ Sent + 1 = produced
      /\ thread # "send" => Sent >= produced
  BY <1>1, <1>2 DEF Counted, Sent, TypeOK, Steps
<1>5. chunks \in Nat /\ Len(delivered) + chunks <= produced /\ chunks <= Len(queue)
  <2>1. CASE Ending
    <3>1. chunks = Len(queue) - 1
      BY <2>1
    <3>q. QED
      BY <1>2, <1>3, <1>4, <2>1, <3>1
  <2>2. CASE ~Ending
    <3>1. chunks = Len(queue)
      BY <2>2
    <3>2. Len(queue) = 0 => Len(delivered) <= produced
      BY <1>1
    <3>q. QED
      BY <1>2, <1>3, <1>4, <2>2, <3>1, <3>2
  <2>q. QED
    BY <2>1, <2>2
<1>6. Queued \in Seq(Nat) /\ Len(Queued) = chunks
      /\ \A k \in 1..chunks : Queued[k] = Len(delivered) + k
  <2>1. ASSUME NEW k \in 1..chunks
        PROVE  queue[k][2] = Len(delivered) + k
    <3>1. PICK n \in Nat : n = Len(delivered) + k /\ n <= produced
      BY <1>2, <1>5
    <3>2. queue[k] = Item(n)
      BY <1>1, <1>2, <1>5, <3>1
    <3>q. QED
      BY <1>1, <3>1, <3>2, Items
  <2>2. Queued = [k \in 1..chunks |-> queue[k][2]]
    BY DEF Queued
  <2>3. \A k \in 1..chunks : queue[k][2] \in Nat
    BY <1>2, <1>5, <2>1
  <2> HIDE DEF chunks
  <2>q. QED
    BY <1>5, <2>1, <2>2, <2>3, IsASeq
<1> HIDE DEF chunks
<1>7. PICK rest \in {0, 1} : rest = produced - (Len(delivered) + chunks)
  <2>1. produced <= Len(delivered) + chunks + 1
    BY <1>2, <1>3, <1>4, <1>5 DEF chunks
  <2>q. QED
    BY <1>2, <1>5, <2>1
<1>8. Held \in Seq(Nat) /\ Len(Held) = rest /\ (rest = 1 => Held[1] = produced)
  <2>1. CASE thread = "send"
    <3>1. Held = <<produced>> /\ rest = 1
      BY <1>2, <1>3, <1>4, <1>5, <1>7, <2>1 DEF Held, chunks
    <3>q. QED
      BY <1>2, <3>1
  <2>2. CASE thread # "send" /\ rest = 1
    <3>1. put # <<>> /\ Len(delivered) + Len(queue) + 1 = produced
      BY <1>2, <1>3, <1>4, <1>5, <1>7, <2>2 DEF chunks
    <3>2. put[1] = Item(produced)
      BY <1>1, <3>1
    <3>3. put[1][1] = "chunk" /\ put[1][2] = produced
      BY <1>1, <1>2, <3>2, Items
    <3>4. Held = <<produced>>
      BY <2>2, <3>1, <3>3 DEF Held
    <3>q. QED
      BY <1>2, <2>2, <3>4
  <2>3. CASE thread # "send" /\ rest = 0
    <3>1. put # <<>> => put[1][1] # "chunk"
      <4> SUFFICES ASSUME put # <<>>
                   PROVE  put[1][1] # "chunk"
        OBVIOUS
      <4>1. PICK n \in Nat : n = Len(delivered) + Len(queue) + 1
        BY <1>2
      <4>2. n > produced
        BY <1>2, <1>3, <1>4, <1>5, <1>7, <2>3, <4>1 DEF chunks
      <4>q. QED
        BY <1>1, <4>1, <4>2, Items
    <3>2. Held = <<>>
      BY <2>3, <3>1 DEF Held
    <3>q. QED
      BY <2>3, <3>2
  <2>q. QED
    BY <2>1, <2>2, <2>3
<1> DEFINE all == (delivered \o Queued) \o Held
<1>9. /\ delivered \o Queued \in Seq(Nat)
      /\ Len(delivered \o Queued) = Len(delivered) + chunks
      /\ \A i \in 1..Len(delivered) + chunks : (delivered \o Queued)[i] = i
  <2>1. /\ delivered \o Queued \in Seq(Nat)
        /\ Len(delivered \o Queued) = Len(delivered) + chunks
        /\ \A i \in 1..Len(delivered) + chunks : (delivered \o Queued)[i] =
              IF i <= Len(delivered) THEN delivered[i] ELSE Queued[i - Len(delivered)]
    BY <1>2, <1>6, ConcatProperties
  <2>q. QED
    BY <1>1, <1>2, <1>5, <1>6, <2>1
<1>10. /\ all \in Seq(Nat) /\ Len(all) = produced
       /\ \A i \in 1..produced : all[i] = i
  <2> DEFINE had == delivered \o Queued
  <2> HIDE DEF had
  <2>1. had \in Seq(Nat) /\ Len(had) \in Nat /\ Len(had) + rest = produced
        /\ \A i \in 1..Len(had) : had[i] = i
    BY <1>2, <1>5, <1>7, <1>9 DEF had
  <2>2. /\ had \o Held \in Seq(Nat) /\ Len(had \o Held) = produced
        /\ \A i \in 1..produced : (had \o Held)[i] =
              IF i <= Len(had) THEN had[i] ELSE Held[i - Len(had)]
    BY <1>8, <2>1, ConcatProperties
  <2>3. ASSUME NEW i \in 1..produced
        PROVE  (had \o Held)[i] = i
    <3>1. CASE i <= Len(had)
      BY <2>1, <2>2, <3>1
    <3>2. CASE ~(i <= Len(had))
      <4>1. rest = 1 /\ i = produced /\ i - Len(had) = 1
        BY <1>2, <2>1, <3>2
      <4>q. QED
        BY <1>8, <2>2, <3>2, <4>1
    <3>q. QED
      BY <3>1, <3>2
  <2>q. QED
    BY <2>2, <2>3 DEF had
<1>11. AllChunks \in Seq(Nat) /\ Len(AllChunks) = produced
       /\ \A i \in 1..produced : AllChunks[i] = i
  BY <1>2, IsASeq DEF AllChunks
<1>q. QED
  BY <1>10, <1>11, SeqEqual

\* Every chunk of the provider reaches a consumer that reads, once and in order; one that has
\* seen the end has had them all and nothing had failed, one that has seen the error has had
\* every chunk that came before it.
THEOREM NothingIsLost == Spec => []NothingLost
<1>1. BridgeInv => NothingLost
  <2> SUFFICES ASSUME BridgeInv
               PROVE  NothingLost
    OBVIOUS
  <2>1. consumer \in {"ended", "raised"} => delivered = AllChunks /\ (failure <=> consumer = "raised")
    BY Delivered DEF BridgeInv, EndInv
  <2>q. QED
    BY <2>1, Reads DEF NothingLost
<1> QED
  BY <1>1, BridgeInvHolds, PTL

=============================================================================
