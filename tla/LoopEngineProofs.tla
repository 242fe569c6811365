--------------------------- MODULE LoopEngineProofs ---------------------------
(***************************************************************************)
(* Proofs about LoopEngine, for every set of call IDs and every limit.     *)
(*                                                                         *)
(* OnceInv: what is still to run was never run, and no two of it are one   *)
(* call.  TranscriptInv: each response is followed by its results, those   *)
(* that are still missing being exactly the calls of the batch.  ExecInv:  *)
(* the results are those of the calls executed, in turn, but for the one   *)
(* whose tool is running.                                                  *)
(***************************************************************************)
EXTENDS LoopEngine, FiniteSetTheorems, SequenceTheorems, TLAPS

Lost == {"failed", "cancelled"}
Message == [role : {"assistant", "tool"}, ids : Seq(CallIds)]

TypeOK ==
    /\ at \in {"configure", "stream", "tools", "tool"} \cup Over
    /\ iteration \in Nat
    /\ calls \in [0..(MaxToolCalls - 1) -> CallIds \cup {Absent, Incomplete}]
    /\ finish \in Reasons \cup {"none"}
    /\ batch \in Seq(CallIds) /\ seen \in SUBSET CallIds
    /\ messages \in Seq(Message) /\ executed \in Seq(CallIds)

RoundInv ==
    /\ at # "exhausted"
    /\ at \in {"tools", "tool"} => iteration < MaxIterations
    /\ at \in {"configure", "stream", "answered"} => batch = <<>>
    /\ at = "tool" => batch # <<>>

OnceInv ==
    /\ NoCallTwice
    /\ \A n \in DOMAIN executed : executed[n] \in seen
    /\ \A m, n \in DOMAIN batch : batch[m] = batch[n] => m = n
    /\ at = "tools" => \A n \in DOMAIN batch : batch[n] \notin seen
    /\ at = "tool" => \A n \in DOMAIN batch : n # 1 => batch[n] \notin seen

\* The message at m asks for the result at n.
Asks(m, n) == messages[m].role = "assistant" /\ n - m \in 1..Len(messages[m].ids)
Kept(m, n) ==
    LET id == messages[m].ids[n - m]
    IN  \/ n <= Len(messages) /\ messages[n] = Result(id)
        \/ n - Len(messages) \in 1..Len(batch) /\ batch[n - Len(messages)] = id
TranscriptInv ==
    at \notin Lost =>
        /\ \A m \in 1..Len(messages), n \in Nat : Asks(m, n) => Kept(m, n)
        /\ \A n \in 1..Len(messages) :
               messages[n].role = "tool" => \E m \in 1..Len(messages) : Asks(m, n)
        /\ \A n \in Nat : n - Len(messages) \in 1..Len(batch) =>
               \E m \in 1..Len(messages) : Asks(m, n)

Turn(n) == n - Cardinality(AskedUpTo(n))
ExecInv ==
    at \notin Lost =>
        /\ IF at = "tool"
           THEN /\ Len(executed) = Turn(Len(messages)) + 1 /\ executed # <<>>
                /\ executed[Len(executed)] = batch[1]
           ELSE Len(executed) = Turn(Len(messages))
        /\ \A n \in 1..Len(messages) : messages[n].role = "tool" =>
               Turn(n) \in 1..Len(executed) /\ messages[n] = Result(executed[Turn(n)])

LoopInv == TypeOK /\ RoundInv /\ OnceInv /\ TranscriptInv /\ ExecInv

-----------------------------------------------------------------------------
(* Messages, and how many of them ask.                                       *)

LEMMA Roles ==
    /\ \A ids : Assistant(ids).role = "assistant" /\ Assistant(ids).ids = ids
    /\ \A id : Result(id).role = "tool" /\ Result(id).ids = <<id>>
    /\ \A ids \in Seq(CallIds) : Assistant(ids) \in Message
    /\ \A id \in CallIds : Result(id) \in Message
<1>1. \A id \in CallIds : <<id>> \in Seq(CallIds)
  OBVIOUS
<1>q. QED
  BY <1>1 DEF Assistant, Result, Message

LEMMA Lengths ==
    ASSUME TypeOK
    PROVE  /\ Len(messages) \in Nat /\ DOMAIN messages = 1..Len(messages)
           /\ Len(executed) \in Nat /\ DOMAIN executed = 1..Len(executed)
           /\ Len(batch) \in Nat /\ DOMAIN batch = 1..Len(batch)
BY LenProperties DEF TypeOK

LEMMA MessageAt ==
    ASSUME TypeOK, NEW m \in 1..Len(messages)
    PROVE  messages[m].ids \in Seq(CallIds) /\ Len(messages[m].ids) \in Nat
           /\ DOMAIN messages[m].ids = 1..Len(messages[m].ids)
<1>1. messages[m] \in Message
  BY ElementOfSeq DEF TypeOK
<1>2. messages[m].ids \in Seq(CallIds)
  BY <1>1 DEF Message
<1>q. QED
  BY <1>2, LenProperties

LEMMA AskedFinite ==
    ASSUME NEW n \in Nat
    PROVE  IsFiniteSet(AskedUpTo(n)) /\ Cardinality(AskedUpTo(n)) \in Nat
<1>1. IsFiniteSet(1..n)
  BY FS_Interval
<1>2. AskedUpTo(n) \in SUBSET (1..n)
  BY DEF AskedUpTo
<1>q. QED
  BY <1>1, <1>2, FS_Subset, FS_CardinalityType

\* A message that is added leaves the turns of those before it as they are; a result takes
\* the next turn, a response takes none.
LEMMA TurnsOfAdded ==
    ASSUME TypeOK, NEW x \in Message, messages' = Append(messages, x)
    PROVE  /\ \A n \in 0..Len(messages) : Turn(n)' = Turn(n) /\ Turn(n) \in Int
           /\ \A n \in Nat : n = Len(messages) + 1 =>
                  Turn(n)' = IF x.role = "assistant" THEN Turn(Len(messages))
                             ELSE Turn(Len(messages)) + 1
<1>1. /\ Len(messages) \in Nat /\ Len(messages') = Len(messages) + 1
      /\ \A i \in 1..Len(messages) : messages'[i] = messages[i]
      /\ messages'[Len(messages) + 1] = x
  BY AppendProperties, Lengths DEF TypeOK
<1>2. ASSUME NEW n \in 0..Len(messages)
      PROVE  AskedUpTo(n)' = AskedUpTo(n)
  BY <1>1, <1>2 DEF AskedUpTo
<1>3. ASSUME NEW n \in 0..Len(messages)
      PROVE  Turn(n)' = Turn(n) /\ Turn(n) \in Int
  BY <1>1, <1>2, <1>3, AskedFinite DEF Turn
<1>4. ASSUME NEW n \in Nat, n = Len(messages) + 1
      PROVE  Turn(n)' = IF x.role = "assistant" THEN Turn(Len(messages))
                        ELSE Turn(Len(messages)) + 1
  <2> DEFINE old == AskedUpTo(Len(messages))
  <2>1. AskedUpTo(n)' = IF x.role = "assistant" THEN old \cup {n} ELSE old
    BY <1>1, <1>4 DEF AskedUpTo
  <2>2. IsFiniteSet(old) /\ Cardinality(old) \in Nat /\ n \notin old
    <3>1. n \notin old
      BY <1>1, <1>4 DEF AskedUpTo
    <3>q. QED
      BY <1>1, <3>1, AskedFinite
  <2>3. Cardinality(old \cup {n}) = Cardinality(old) + 1
    BY <2>2, FS_AddElement
  <2>4. Turn(Len(messages)) = Len(messages) - Cardinality(old)
    BY DEF Turn
  <2>5. Turn(n)' = n - Cardinality(AskedUpTo(n)')
    BY DEF Turn
  <2> HIDE DEF old
  <2>6. CASE x.role = "assistant"
    <3>1. PICK k \in Nat : k = Cardinality(old)
      BY <2>2
    <3>2. Cardinality(AskedUpTo(n)') = k + 1
      BY <2>1, <2>3, <2>6, <3>1
    <3>3. Turn(n)' = n - (k + 1) /\ Turn(Len(messages)) = Len(messages) - k
      BY <2>4, <2>5, <3>1, <3>2
    <3>q. QED
      BY <1>1, <1>4, <2>6, <3>3
  <2>7. CASE x.role # "assistant"
    BY <1>1, <1>4, <2>1, <2>2, <2>4, <2>5, <2>7
  <2>q. QED
    BY <2>6, <2>7
<1>q. QED
  BY <1>3, <1>4

LEMMA LoopInit == Init => LoopInv
<1> SUFFICES ASSUME Init
             PROVE  LoopInv
  OBVIOUS
<1>1. /\ <<>> \in Seq(CallIds) /\ <<>> \in Seq(Message) /\ Len(<<>>) = 0
      /\ DOMAIN <<>> = {}
  OBVIOUS
<1>2. TypeOK
  <2>1. calls \in [0..(MaxToolCalls - 1) -> CallIds \cup {Absent, Incomplete}]
    BY DEF Init
  <2>2. batch \in Seq(CallIds) /\ messages \in Seq(Message) /\ executed \in Seq(CallIds)
    BY <1>1 DEF Init
  <2>q. QED
    BY <2>1, <2>2 DEF Init, TypeOK
<1>3. /\ at = "configure" /\ batch = <<>> /\ messages = <<>> /\ executed = <<>>
      /\ Len(batch) = 0 /\ Len(messages) = 0 /\ Len(executed) = 0
      /\ DOMAIN batch = {} /\ DOMAIN executed = {}
  BY <1>1 DEF Init
<1>4. RoundInv
  BY <1>3 DEF RoundInv
<1>5. OnceInv
  BY <1>3 DEF OnceInv, NoCallTwice
<1>6. TranscriptInv
  <2>1. \A n \in Nat : n - Len(messages) \notin 1..Len(batch)
    BY <1>3
  <2>2. 1..Len(messages) = {}
    BY <1>3
  <2>q. QED
    BY <2>1, <2>2 DEF TranscriptInv
<1>7. ExecInv
  <2>1. AskedUpTo(0) = {}
    BY DEF AskedUpTo
  <2>2. Turn(Len(messages)) = 0
    BY <1>3, <2>1, FS_EmptySet DEF Turn
  <2>3. 1..Len(messages) = {}
    BY <1>3
  <2>q. QED
    BY <1>3, <2>2, <2>3 DEF ExecInv
<1>q. QED
  BY <1>2, <1>4, <1>5, <1>6, <1>7 DEF LoopInv

-----------------------------------------------------------------------------
(* Steps that neither ask nor execute.                                       *)

LEMMA IdleKeeps ==
    ASSUME LoopInv, TypeOK', UNCHANGED <<batch, seen, messages, executed>>,
           \/ at' \in Lost
           \/ at \in {"configure", "stream"} /\ at' \in {"configure", "stream", "answered"}
           \/ at = "tools" /\ at' = "stream" /\ batch = <<>>
           \/ at' = at /\ iteration' = iteration
    PROVE  LoopInv'
<1>1. RoundInv /\ OnceInv /\ TranscriptInv /\ ExecInv
  BY DEF LoopInv
<1>2. RoundInv'
  BY <1>1 DEF RoundInv, Lost
<1>3. OnceInv'
  BY <1>1 DEF OnceInv, NoCallTwice, Lost
<1>4. TranscriptInv'
  BY <1>1 DEF TranscriptInv, Asks, Kept, Lost
<1>5. ExecInv'
  BY <1>1 DEF ExecInv, Turn, AskedUpTo, Lost
<1>q. QED
  BY <1>2, <1>3, <1>4, <1>5 DEF LoopInv

LEMMA StopKeeps ==
    ASSUME LoopInv, NEW how \in Lost \cup {"answered"}, Stop(how),
           how = "answered" => at = "stream"
    PROVE  LoopInv'
<1>1. TypeOK'
  BY DEF LoopInv, TypeOK, Stop, stream, Lost, Over
<1>q. QED
  BY <1>1, IdleKeeps DEF Stop

LEMMA ChunkKeeps ==
    ASSUME LoopInv, Chunk \/ Configure
    PROVE  LoopInv'
<1>1. CASE Configure
  <2>1. TypeOK'
    BY <1>1 DEF LoopInv, TypeOK, Configure, stream
  <2>q. QED
    BY <1>1, <2>1, IdleKeeps DEF Configure
<1>2. CASE Chunk
  <2>1. /\ at = "stream" /\ at' = at /\ iteration' = iteration
        /\ UNCHANGED <<batch, seen, messages, executed>>
        /\ calls' \in [0..(MaxToolCalls - 1) -> CallIds \cup {Absent, Incomplete}]
        /\ finish' \in Reasons \cup {"none"}
    BY <1>2 DEF Chunk, Fragment, FinishReason, LoopInv, TypeOK
  <2>2. TypeOK'
    BY <2>1 DEF LoopInv, TypeOK
  <2>q. QED
    BY <2>1, <2>2, IdleKeeps
<1>q. QED
  BY <1>1, <1>2

LEMMA NextIterationKeeps ==
    ASSUME LoopInv, NextIteration
    PROVE  LoopInv'
<1>1. at = "tools" /\ at' = "stream" /\ batch = <<>>
  BY DEF NextIteration, LoopInv, RoundInv
<1>2. calls' \in [0..(MaxToolCalls - 1) -> CallIds \cup {Absent, Incomplete}] /\ finish' = "none"
  BY DEF NextIteration, Fresh
<1>3. TypeOK'
  BY <1>1, <1>2 DEF NextIteration, LoopInv, TypeOK
<1>q. QED
  BY <1>1, <1>3, IdleKeeps DEF NextIteration

-----------------------------------------------------------------------------
(* A batch is prepared: the response is added, its results are to come.      *)

LEMMA ResponseOnce ==
    ASSUME TypeOK, Assembled, Executable, NEW order \in Sorted
    PROVE  LET ids == Response(order)
           IN  /\ ids \in Seq(CallIds)
               /\ \A m, n \in DOMAIN ids : ids[m] = ids[n] => m = n
               /\ \A n \in DOMAIN ids : ids[n] \notin seen
<1> DEFINE ids == Response(order)
<1>1. Present \subseteq 0..(MaxToolCalls - 1) /\ IsFiniteSet(0..(MaxToolCalls - 1))
  BY FS_Interval, LoopAssumption DEF Present, TypeOK
<1>2. Cardinality(Present) \in Nat
  BY <1>1, FS_Subset, FS_CardinalityType
<1>3. /\ order \in [1..Cardinality(Present) -> Present]
      /\ \A m, n \in 1..Cardinality(Present) : m < n => order[m] < order[n]
  BY DEF Sorted
<1>4. ids = [n \in 1..Cardinality(Present) |-> calls[order[n]]]
  BY <1>3 DEF Response
<1>5. ASSUME NEW i \in Present
      PROVE  calls[i] \in CallIds /\ calls[i] \notin seen /\ i \in Int
  BY <1>1 DEF Present, Assembled, Executable, TypeOK
<1>6. \A n \in 1..Cardinality(Present) : ids[n] \in CallIds /\ ids[n] \notin seen
  BY <1>3, <1>4, <1>5
<1>7. ids \in Seq(CallIds)
  BY <1>2, <1>4, <1>6, IsASeq
<1>8. ASSUME NEW m \in 1..Cardinality(Present), NEW n \in 1..Cardinality(Present), ids[m] = ids[n]
      PROVE  m = n
  <2>1. order[m] = order[n]
    BY <1>3, <1>4, <1>8 DEF Assembled
  <2>2. order[m] \in Int /\ order[n] \in Int
    BY <1>3, <1>5
  <2>3. ~(m < n) /\ ~(n < m)
    BY <1>3, <2>1, <2>2
  <2>q. QED
    BY <1>2, <2>3
<1>9. DOMAIN ids = 1..Cardinality(Present)
  BY <1>4
<1> HIDE DEF ids
<1>10. /\ ids \in Seq(CallIds)
       /\ \A m, n \in DOMAIN ids : ids[m] = ids[n] => m = n
       /\ \A n \in DOMAIN ids : ids[n] \notin seen
  BY <1>6, <1>7, <1>8, <1>9
<1>q. QED
  BY <1>10 DEF ids

LEMMA PrepareKeeps ==
    ASSUME LoopInv, Prepare
    PROVE  LoopInv'
<1>1. TypeOK /\ RoundInv /\ OnceInv /\ TranscriptInv /\ ExecInv
  BY DEF LoopInv
<1>2. /\ at = "stream" /\ at' = "tools" /\ iteration' = iteration /\ calls' = calls
      /\ finish' = finish /\ seen' = seen /\ executed' = executed
      /\ Assembled /\ Executable
  BY DEF Prepare, stream
<1>3. PICK order \in Sorted :
        batch' = Response(order) /\ messages' = Append(messages, Assistant(Response(order)))
  BY DEF Prepare
<1>4. PICK ids \in Seq(CallIds) :
        /\ batch' = ids /\ messages' = Append(messages, Assistant(ids))
        /\ \A m, n \in DOMAIN ids : ids[m] = ids[n] => m = n
        /\ \A n \in DOMAIN ids : ids[n] \notin seen
  <2>1. /\ Response(order) \in Seq(CallIds)
        /\ \A i, j \in DOMAIN Response(order) : Response(order)[i] = Response(order)[j] => i = j
        /\ \A i \in DOMAIN Response(order) : Response(order)[i] \notin seen
    BY <1>1, <1>2, ResponseOnce
  <2>q. QED
    BY <1>3, <2>1
<1>5. /\ messages' \in Seq(Message) /\ Len(messages') = Len(messages) + 1
      /\ \A m \in 1..Len(messages) : messages'[m] = messages[m]
      /\ messages'[Len(messages) + 1] = Assistant(ids)
      /\ Assistant(ids) \in Message
      /\ Len(messages) \in Nat /\ Len(ids) \in Nat /\ DOMAIN ids = 1..Len(ids)
  <2>1. Assistant(ids) \in Message
    BY Roles
  <2>q. QED
    BY <1>1, <1>4, <2>1, Lengths, AppendProperties, LenProperties DEF TypeOK
<1>6. TypeOK'
  BY <1>1, <1>2, <1>4, <1>5 DEF TypeOK
<1>7. RoundInv'
  BY <1>1, <1>2 DEF RoundInv, Executable
<1>8. OnceInv'
  BY <1>1, <1>2, <1>4 DEF OnceInv, NoCallTwice
<1>9. TranscriptInv'
  <2>1. /\ \A m \in 1..Len(messages), n \in Nat :
               Asks(m, n) => n <= Len(messages) /\ messages[n] = Result(messages[m].ids[n - m])
        /\ \A n \in 1..Len(messages) :
               messages[n].role = "tool" => \E m \in 1..Len(messages) : Asks(m, n)
    <3>1. Len(batch) = 0
      BY <1>1, <1>2 DEF RoundInv
    <3>q. QED
      BY <1>1, <1>2, <3>1 DEF TranscriptInv, Kept, Lost
  <2>2. \A m \in 1..Len(messages), n \in Nat : Asks(m, n)' <=> Asks(m, n)
    BY <1>5 DEF Asks
  <2>3. \A m, n \in Nat : m = Len(messages) + 1 => (Asks(m, n)' <=> n - m \in 1..Len(ids))
    BY <1>5, Roles DEF Asks
  <2>4. ASSUME NEW m \in 1..Len(messages'), NEW n \in Nat, Asks(m, n)'
        PROVE  Kept(m, n)'
    <3>1. CASE m \in 1..Len(messages)
      <4>1. n <= Len(messages) /\ messages[n] = Result(messages[m].ids[n - m]) /\ n >= 1
        <5>1. Asks(m, n)
          BY <2>2, <2>4, <3>1
        <5>2. n - m >= 1
          BY <1>1, <3>1, <5>1, MessageAt DEF Asks
        <5>q. QED
          BY <2>1, <3>1, <5>1, <5>2
      <4>2. n <= Len(messages') /\ messages'[n] = messages[n] /\ messages'[m] = messages[m]
        BY <1>5, <3>1, <4>1
      <4>q. QED
        BY <4>1, <4>2 DEF Kept
    <3>2. CASE m = Len(messages) + 1
      <4>1. n - m \in 1..Len(ids) /\ m = Len(messages')
        BY <1>5, <2>3, <2>4, <3>2
      <4>2. messages'[m].ids = ids
        BY <1>5, <3>2, Roles
      <4>3. n - Len(messages') \in 1..Len(batch') /\ batch'[n - Len(messages')] = ids[n - m]
        BY <1>4, <4>1
      <4>q. QED
        BY <4>2, <4>3 DEF Kept
    <3>q. QED
      BY <1>5, <3>1, <3>2
  <2>5. ASSUME NEW n \in 1..Len(messages'), messages'[n].role = "tool"
        PROVE  \E m \in 1..Len(messages') : Asks(m, n)'
    <3>1. n \in 1..Len(messages) /\ messages[n].role = "tool"
      BY <1>5, <2>5, Roles
    <3>2. PICK m \in 1..Len(messages) : Asks(m, n)
      BY <2>1, <3>1
    <3>q. QED
      BY <1>5, <2>2, <3>1, <3>2
  <2>6. ASSUME NEW n \in Nat, n - Len(messages') \in 1..Len(batch')
        PROVE  \E m \in 1..Len(messages') : Asks(m, n)'
    <3>1. PICK m \in Nat : m = Len(messages) + 1
      BY <1>5
    <3>2. m \in 1..Len(messages') /\ n - m \in 1..Len(ids)
      BY <1>4, <1>5, <2>6, <3>1
    <3>3. Asks(m, n)'
      BY <2>3, <3>1, <3>2
    <3>q. QED
      BY <3>2, <3>3
  <2>q. QED
    BY <2>4, <2>5, <2>6 DEF TranscriptInv
<1>10. ExecInv'
  <2>1. /\ \A n \in 0..Len(messages) : Turn(n)' = Turn(n) /\ Turn(n) \in Int
        /\ \A n \in Nat : n = Len(messages) + 1 => Turn(n)' = Turn(Len(messages))
    BY <1>1, <1>4, <1>5, Roles, TurnsOfAdded
  <2>2. Turn(Len(messages))' = Turn(Len(messages))
    <3>1. PICK n \in Nat : n = Len(messages) + 1
      BY <1>5
    <3>2. Turn(n)' = Turn(Len(messages)) /\ n = Len(messages')
      BY <1>5, <2>1, <3>1
    <3>q. QED
      BY <3>2 DEF Turn
  <2>3. /\ Len(executed) = Turn(Len(messages))
        /\ \A n \in 1..Len(messages) : messages[n].role = "tool" =>
               Turn(n) \in 1..Len(executed) /\ messages[n] = Result(executed[Turn(n)])
    BY <1>1, <1>2 DEF ExecInv, Lost
  <2>4. ASSUME NEW n \in 1..Len(messages'), messages'[n].role = "tool"
        PROVE  Turn(n)' \in 1..Len(executed) /\ messages'[n] = Result(executed[Turn(n)'])
    <3>1. n \in 1..Len(messages) /\ messages[n].role = "tool" /\ messages'[n] = messages[n]
      BY <1>5, <2>4, Roles
    <3>q. QED
      BY <2>1, <2>3, <3>1
  <2>q. QED
    BY <1>2, <2>2, <2>3, <2>4 DEF ExecInv
<1>q. QED
  BY <1>6, <1>7, <1>8, <1>9, <1>10 DEF LoopInv

-----------------------------------------------------------------------------
(* The tools of a batch.                                                     *)

LEMMA FirstOfBatch ==
    ASSUME TypeOK, batch # <<>>
    PROVE  /\ 1 \in 1..Len(batch) /\ Head(batch) = batch[1] /\ batch[1] \in CallIds
           /\ Tail(batch) \in Seq(CallIds) /\ Len(Tail(batch)) = Len(batch) - 1
           /\ \A k \in 1..Len(Tail(batch)) : Tail(batch)[k] = batch[k + 1]
<1>1. batch \in Seq(CallIds)
  BY DEF TypeOK
<1>2. Len(batch) \in Nat \ {0}
  BY <1>1, LenProperties, EmptySeq
<1>3. 1 \in 1..Len(batch)
  BY <1>2
<1>4. batch[1] \in CallIds
  BY <1>1, <1>3, ElementOfSeq
<1>5. /\ Head(batch) = batch[1]
      /\ Tail(batch) \in Seq(CallIds) /\ Len(Tail(batch)) = Len(batch) - 1
      /\ \A k \in 1..Len(Tail(batch)) : Tail(batch)[k] = batch[k + 1]
  BY <1>1, HeadTailProperties
<1>q. QED
  BY <1>3, <1>4, <1>5

LEMMA StartToolKeeps ==
    ASSUME LoopInv, StartTool
    PROVE  LoopInv'
<1>1. TypeOK /\ RoundInv /\ OnceInv /\ TranscriptInv /\ ExecInv
  BY DEF LoopInv
<1>2. PICK id \in CallIds :
        /\ id = batch[1] /\ 1 \in 1..Len(batch) /\ at = "tools" /\ at' = "tool" /\ batch # <<>>
        /\ seen' = seen \cup {id} /\ executed' = Append(executed, id)
        /\ UNCHANGED <<iteration, calls, finish, batch, messages>>
  BY <1>1, FirstOfBatch DEF StartTool, stream
<1>3. /\ executed' \in Seq(CallIds) /\ Len(executed') = Len(executed) + 1
      /\ \A n \in 1..Len(executed) : executed'[n] = executed[n]
      /\ executed'[Len(executed) + 1] = id
      /\ DOMAIN executed' = 1..Len(executed')
      /\ Len(executed) \in Nat /\ DOMAIN executed = 1..Len(executed)
      /\ DOMAIN batch = 1..Len(batch)
  BY <1>1, <1>2, AppendProperties, Lengths, LenProperties DEF TypeOK
<1>4. TypeOK'
  BY <1>1, <1>2, <1>3 DEF TypeOK
<1>5. RoundInv'
  BY <1>1, <1>2 DEF RoundInv
<1>6. OnceInv'
  <2>1. id \notin seen
    BY <1>1, <1>2, <1>3 DEF OnceInv
  <2>2. \A n \in 1..Len(executed) : executed[n] \in seen
    BY <1>1, <1>3 DEF OnceInv
  <2>3. ASSUME NEW m \in DOMAIN executed', NEW n \in DOMAIN executed', executed'[m] = executed'[n]
        PROVE  m = n
    <3>1. /\ m \in 1..Len(executed) \/ m = Len(executed) + 1
          /\ n \in 1..Len(executed) \/ n = Len(executed) + 1
      BY <1>3, <2>3
    <3>2. CASE m \in 1..Len(executed) /\ n \in 1..Len(executed)
      BY <1>1, <1>3, <2>3, <3>2 DEF OnceInv, NoCallTwice
    <3>3. CASE m = Len(executed) + 1 /\ n \in 1..Len(executed)
      BY <1>3, <2>1, <2>2, <2>3, <3>3
    <3>4. CASE n = Len(executed) + 1 /\ m \in 1..Len(executed)
      BY <1>3, <2>1, <2>2, <2>3, <3>4
    <3>q. QED
      BY <3>1, <3>2, <3>3, <3>4
  <2>4. \A n \in DOMAIN executed' : executed'[n] \in seen'
    <3> SUFFICES ASSUME NEW n \in DOMAIN executed'
                 PROVE  executed'[n] \in seen'
      OBVIOUS
    <3>1. n \in 1..Len(executed) \/ n = Len(executed) + 1
      BY <1>3
    <3>q. QED
      BY <1>2, <1>3, <2>2, <3>1
  <2>5. \A n \in DOMAIN batch : n # 1 => batch[n] \notin seen'
    BY <1>1, <1>2, <1>3 DEF OnceInv
  <2>q. QED
    BY <1>1, <1>2, <2>3, <2>4, <2>5 DEF OnceInv, NoCallTwice
<1>7. TranscriptInv'
  BY <1>1, <1>2 DEF TranscriptInv, Asks, Kept, Lost
<1>8. ExecInv'
  <2>1. /\ Len(executed) = Turn(Len(messages))
        /\ \A n \in 1..Len(messages) : messages[n].role = "tool" =>
               Turn(n) \in 1..Len(executed) /\ messages[n] = Result(executed[Turn(n)])
    BY <1>1, <1>2 DEF ExecInv, Lost
  <2>2. \A n : Turn(n)' = Turn(n)
    BY <1>2 DEF Turn, AskedUpTo
  <2>3. Turn(Len(messages))' = Turn(Len(messages))
    BY <1>2, <2>2
  <2>4. executed' # <<>>
    BY <1>3, EmptySeq
  <2>5. Len(executed') = Turn(Len(messages)) + 1 /\ executed'[Len(executed')] = batch[1]
    BY <1>2, <1>3, <2>1
  <2>6. ASSUME NEW n \in 1..Len(messages), messages[n].role = "tool"
        PROVE  Turn(n) \in 1..Len(executed') /\ messages[n] = Result(executed'[Turn(n)])
    BY <1>3, <2>1, <2>6
  <2>q. QED
    BY <1>2, <2>2, <2>3, <2>4, <2>5, <2>6 DEF ExecInv
<1>q. QED
  BY <1>4, <1>5, <1>6, <1>7, <1>8 DEF LoopInv

LEMMA ToolReturnsKeeps ==
    ASSUME LoopInv, ToolReturns
    PROVE  LoopInv'
<1>1. TypeOK /\ RoundInv /\ OnceInv /\ TranscriptInv /\ ExecInv
  BY DEF LoopInv
<1>2. batch # <<>>
  BY <1>1 DEF ToolReturns, RoundInv
<1>3. PICK id \in CallIds :
        /\ id = batch[1] /\ at = "tool" /\ at' = "tools"
        /\ batch' = Tail(batch) /\ messages' = Append(messages, Result(id))
        /\ UNCHANGED <<iteration, calls, finish, seen, executed>>
  BY <1>1, <1>2, FirstOfBatch DEF ToolReturns, stream
<1>4. /\ batch' \in Seq(CallIds) /\ Len(batch') = Len(batch) - 1
      /\ \A k \in 1..Len(batch') : batch'[k] = batch[k + 1]
      /\ Len(batch) \in Nat /\ 1 \in 1..Len(batch)
      /\ DOMAIN batch = 1..Len(batch) /\ DOMAIN batch' = 1..Len(batch')
  BY <1>1, <1>2, <1>3, FirstOfBatch, Lengths, LenProperties
<1>5. /\ messages' \in Seq(Message) /\ Len(messages') = Len(messages) + 1
      /\ \A m \in 1..Len(messages) : messages'[m] = messages[m]
      /\ messages'[Len(messages) + 1] = Result(id)
      /\ Result(id) \in Message /\ Len(messages) \in Nat
  <2>1. Result(id) \in Message
    BY Roles
  <2>q. QED
    BY <1>1, <1>3, <2>1, Lengths, AppendProperties DEF TypeOK
<1>6. TypeOK'
  BY <1>1, <1>3, <1>4, <1>5 DEF TypeOK
<1>7. RoundInv'
  BY <1>1, <1>3 DEF RoundInv
<1>8. OnceInv'
  <2>1. \A k \in DOMAIN batch' : k + 1 \in DOMAIN batch /\ k + 1 # 1 /\ batch'[k] = batch[k + 1]
    BY <1>4
  <2>2. \A m, n \in DOMAIN batch' : batch'[m] = batch'[n] => m = n
    <3> SUFFICES ASSUME NEW m \in DOMAIN batch', NEW n \in DOMAIN batch', batch'[m] = batch'[n]
                 PROVE  m = n
      OBVIOUS
    <3>1. m + 1 = n + 1
      BY <1>1, <2>1 DEF OnceInv
    <3>q. QED
      BY <1>4, <3>1
  <2>3. \A n \in DOMAIN batch' : batch'[n] \notin seen
    BY <1>1, <1>3, <2>1 DEF OnceInv
  <2>q. QED
    BY <1>1, <1>3, <2>2, <2>3 DEF OnceInv, NoCallTwice
<1>9. TranscriptInv'
  <2>1. /\ \A m \in 1..Len(messages), n \in Nat : Asks(m, n) => Kept(m, n)
        /\ \A n \in 1..Len(messages) :
               messages[n].role = "tool" => \E m \in 1..Len(messages) : Asks(m, n)
        /\ \A n \in Nat : n - Len(messages) \in 1..Len(batch) =>
               \E m \in 1..Len(messages) : Asks(m, n)
    BY <1>1, <1>3 DEF TranscriptInv, Lost
  <2>2. \A m \in 1..Len(messages), n \in Nat : Asks(m, n)' <=> Asks(m, n)
    BY <1>5 DEF Asks
  <2>3. ASSUME NEW m \in 1..Len(messages'), NEW n \in Nat, Asks(m, n)'
        PROVE  m \in 1..Len(messages) /\ Asks(m, n)
    <3>1. m # Len(messages) + 1
      BY <1>5, <2>3, Roles DEF Asks
    <3>2. m \in 1..Len(messages)
      BY <1>5, <3>1
    <3>q. QED
      BY <2>2, <2>3, <3>2
  <2>4. ASSUME NEW m \in 1..Len(messages'), NEW n \in Nat, Asks(m, n)'
        PROVE  Kept(m, n)'
    <3>1. m \in 1..Len(messages) /\ Asks(m, n) /\ Kept(m, n) /\ messages'[m] = messages[m]
      BY <1>5, <2>1, <2>3, <2>4
    <3>2. n - m >= 1
      BY <1>1, <3>1, MessageAt DEF Asks
    <3> DEFINE it == messages[m].ids[n - m]
    <3>3. CASE n <= Len(messages) /\ messages[n] = Result(it)
      <4>1. n \in 1..Len(messages) /\ n <= Len(messages')
        BY <1>5, <3>2, <3>3
      <4>q. QED
        BY <1>5, <3>1, <3>3, <4>1 DEF Kept
    <3>4. CASE n - Len(messages) \in 1..Len(batch) /\ batch[n - Len(messages)] = it
      <4>1. CASE n = Len(messages) + 1
        <5>1. n - Len(messages) = 1
          BY <1>5, <4>1
        <5>2. it = id
          BY <1>3, <3>4, <5>1
        <5>3. n <= Len(messages') /\ messages'[n] = Result(it)
          BY <1>5, <4>1, <5>2
        <5>q. QED
          BY <3>1, <5>3 DEF Kept
      <4>2. CASE n # Len(messages) + 1
        <5>1. PICK k \in 1..Len(batch') : k = n - Len(messages') /\ k + 1 = n - Len(messages)
          <6>1. PICK j \in 1..Len(batch) : j = n - Len(messages) /\ j # 1
            BY <1>5, <3>4, <4>2
          <6>2. j - 1 \in 1..Len(batch') /\ j - 1 = n - Len(messages') /\ (j - 1) + 1 = j
            BY <1>4, <1>5, <6>1
          <6>q. QED
            BY <6>1, <6>2
        <5>2. batch'[k] = it
          BY <1>4, <3>4, <5>1
        <5>q. QED
          BY <3>1, <5>1, <5>2 DEF Kept
      <4>q. QED
        BY <4>1, <4>2
    <3>q. QED
      BY <3>1, <3>3, <3>4 DEF Kept
  <2>5. ASSUME NEW n \in 1..Len(messages'), messages'[n].role = "tool"
        PROVE  \E m \in 1..Len(messages') : Asks(m, n)'
    <3>1. PICK m \in 1..Len(messages) : Asks(m, n)
      <4>1. CASE n \in 1..Len(messages)
        BY <1>5, <2>1, <2>5, <4>1
      <4>2. CASE n = Len(messages) + 1
        <5>1. n \in Nat /\ n - Len(messages) = 1
          BY <1>5, <4>2
        <5>q. QED
          BY <1>4, <2>1, <5>1
      <4>q. QED
        BY <1>5, <4>1, <4>2
    <3>q. QED
      BY <1>5, <2>2, <3>1
  <2>6. ASSUME NEW n \in Nat, n - Len(messages') \in 1..Len(batch')
        PROVE  \E m \in 1..Len(messages') : Asks(m, n)'
    <3>1. n - Len(messages) \in 1..Len(batch)
      BY <1>4, <1>5, <2>6
    <3>2. PICK m \in 1..Len(messages) : Asks(m, n)
      BY <2>1, <3>1
    <3>q. QED
      BY <1>5, <2>2, <3>2
  <2>q. QED
    BY <2>4, <2>5, <2>6 DEF TranscriptInv
<1>10. ExecInv'
  <2>1. /\ \A n \in 0..Len(messages) : Turn(n)' = Turn(n) /\ Turn(n) \in Int
        /\ \A n \in Nat : n = Len(messages) + 1 => Turn(n)' = Turn(Len(messages)) + 1
    BY <1>1, <1>3, <1>5, Roles, TurnsOfAdded
  <2>2. /\ Len(executed) = Turn(Len(messages)) + 1 /\ executed # <<>>
        /\ executed[Len(executed)] = id
        /\ \A n \in 1..Len(messages) : messages[n].role = "tool" =>
               Turn(n) \in 1..Len(executed) /\ messages[n] = Result(executed[Turn(n)])
    BY <1>1, <1>3 DEF ExecInv, Lost
  <2>3. PICK last \in Nat : last = Len(messages) + 1
    BY <1>5
  <2>4. Turn(last)' = Len(executed)
    BY <2>1, <2>2, <2>3
  <2>5. Turn(Len(messages))' = Len(executed)
    <3>1. last = Len(messages')
      BY <1>5, <2>3
    <3>q. QED
      BY <2>4, <3>1 DEF Turn
  <2>6. Len(executed) \in 1..Len(executed)
    BY <1>1, <2>2, Lengths, EmptySeq DEF TypeOK
  <2>7. ASSUME NEW n \in 1..Len(messages'), messages'[n].role = "tool"
        PROVE  Turn(n)' \in 1..Len(executed) /\ messages'[n] = Result(executed[Turn(n)'])
    <3>1. CASE n \in 1..Len(messages)
      BY <1>5, <2>1, <2>2, <2>7, <3>1
    <3>2. CASE n = last
      BY <1>5, <2>2, <2>3, <2>4, <2>6, <3>2
    <3>q. QED
      BY <1>5, <2>3, <3>1, <3>2
  <2>q. QED
    BY <1>3, <2>5, <2>7 DEF ExecInv
<1>q. QED
  BY <1>6, <1>7, <1>8, <1>9, <1>10 DEF LoopInv

LEMMA LoopStep == LoopInv /\ [Next]_vars => LoopInv'
<1> SUFFICES ASSUME LoopInv, [Next]_vars
             PROVE  LoopInv'
  OBVIOUS
<1>1. CASE Configure \/ Chunk
  BY <1>1, ChunkKeeps
<1>2. CASE Misconfigured \/ StreamRaises \/ Refuse \/ ToolRaises \/ Cancel
  BY <1>2, StopKeeps DEF Misconfigured, StreamRaises, Refuse, ToolRaises, Cancel, Lost
<1>3. CASE Answer
  BY <1>3, StopKeeps DEF Answer
<1>4. CASE Prepare
  BY <1>4, PrepareKeeps
<1>5. CASE StartTool
  BY <1>5, StartToolKeeps
<1>6. CASE ToolReturns
  BY <1>6, ToolReturnsKeeps
<1>7. CASE NextIteration
  BY <1>7, NextIterationKeeps
<1>8. CASE UNCHANGED vars
  <2>1. TypeOK'
    BY <1>8 DEF vars, stream, LoopInv, TypeOK
  <2>q. QED
    BY <1>8, <2>1, IdleKeeps DEF vars
<1>q. QED
  BY <1>1, <1>2, <1>3, <1>4, <1>5, <1>6, <1>7, <1>8 DEF Next, EndOfStream, Tools

-----------------------------------------------------------------------------
(* The theorems.                                                             *)

\* The inductive invariant of the completion and tool loop.
THEOREM LoopInvHolds == Spec => []LoopInv
<1> QED
  BY LoopInit, LoopStep, PTL DEF Spec

\* Calls, batch, transcript and history keep their types, whatever is streamed.
THEOREM TypeCorrect == Spec => []TypeOK
<1>1. LoopInv => TypeOK
  BY DEF LoopInv
<1> QED
  BY <1>1, LoopInvHolds, PTL

\* No tool call is executed twice in a Run, whatever IDs the provider gives and repeats and
\* however many rounds there are.
THEOREM CallsRunOnce == Spec => []NoCallTwice
<1>1. LoopInv => NoCallTwice
  BY DEF LoopInv, OnceInv
<1> QED
  BY <1>1, LoopInvHolds, PTL

\* Between two rounds, and when the loop has answered, no result is missing.
LEMMA NothingMissing ==
    ASSUME LoopInv, at \in {"stream", "answered"}
    PROVE  Whole
<1>1. TypeOK /\ Len(messages) \in Nat /\ DOMAIN messages = 1..Len(messages)
  BY Lengths DEF LoopInv
<1>2. Len(batch) = 0
  BY DEF LoopInv, RoundInv
<1>3. /\ \A m \in 1..Len(messages), n \in Nat :
             Asks(m, n) => n <= Len(messages) /\ messages[n] = Result(messages[m].ids[n - m])
      /\ \A n \in 1..Len(messages) :
             messages[n].role = "tool" => \E m \in 1..Len(messages) : Asks(m, n)
  BY <1>2 DEF LoopInv, TranscriptInv, Kept, Lost
<1>4. ASSUME NEW m \in 1..Len(messages), messages[m].role = "assistant",
             NEW k \in DOMAIN messages[m].ids
      PROVE  m + k \in 1..Len(messages) /\ messages[m + k] = Result(messages[m].ids[k])
  <2>1. k \in 1..Len(messages[m].ids) /\ Len(messages[m].ids) \in Nat
    BY <1>1, <1>4, MessageAt
  <2>2. PICK n \in Nat : n = m + k /\ n >= 1 /\ n - m = k
    BY <1>1, <2>1
  <2>3. Asks(m, n)
    BY <1>4, <2>1, <2>2 DEF Asks
  <2>q. QED
    BY <1>1, <1>3, <2>2, <2>3
<1>5. ASSUME NEW n \in 1..Len(messages), messages[n].role = "tool"
      PROVE  \E m \in 1..Len(messages) :
                 messages[m].role = "assistant" /\ n - m \in DOMAIN messages[m].ids
  <2>1. PICK m \in 1..Len(messages) : Asks(m, n)
    BY <1>3, <1>5
  <2>q. QED
    BY <1>1, <2>1, MessageAt DEF Asks
<1>q. QED
  BY <1>1, <1>4, <1>5 DEF Whole

\* Every request after the first is a whole transcript: each response with calls is followed
\* by exactly their results, in their order, however many calls and rounds there are.
THEOREM RequestsAreWhole == Spec => []RequestWellFormed
<1>1. LoopInv => RequestWellFormed
  BY NothingMissing DEF RequestWellFormed
<1> QED
  BY <1>1, LoopInvHolds, PTL

\* The loop never runs out of iterations with results no completion has seen, and an answer
\* comes after exactly the calls asked for were executed, each in its turn.
THEOREM ToolsSeen == Spec => []ToolsAreSeen
<1>1. LoopInv => ToolsAreSeen
  <2> SUFFICES ASSUME LoopInv
               PROVE  ToolsAreSeen
    OBVIOUS
  <2>1. at # "exhausted"
    BY DEF LoopInv, RoundInv
  <2>2. ASSUME at = "answered"
        PROVE  ResultsAreOfExecuted
    <3>1. /\ Len(messages) \in Nat /\ DOMAIN messages = 1..Len(messages) /\ Len(executed) \in Nat
      BY Lengths DEF LoopInv
    <3>2. /\ Len(executed) = Turn(Len(messages))
          /\ \A n \in 1..Len(messages) : messages[n].role = "tool" =>
                 messages[n] = Result(executed[Turn(n)])
      BY <2>2 DEF LoopInv, ExecInv, Lost
    <3>3. Cardinality(AskedUpTo(Len(messages))) \in Nat
      BY <3>1, AskedFinite
    <3>4. Len(messages) = Len(executed) + Cardinality(AskedUpTo(Len(messages)))
      BY <3>1, <3>2, <3>3 DEF Turn
    <3>q. QED
      BY <3>1, <3>2, <3>4 DEF ResultsAreOfExecuted, Turn
  <2>q. QED
    BY <2>1, <2>2, NothingMissing DEF ToolsAreSeen
<1> QED
  BY <1>1, LoopInvHolds, PTL

=============================================================================
