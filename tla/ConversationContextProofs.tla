---------------------- MODULE ConversationContextProofs ----------------------
(***************************************************************************)
(* ConversationContext for every set of requests: what an Engine is shown  *)
(* is the turns of the conversation, and each context extends the one      *)
(* before.                                                                 *)
(*                                                                         *)
(* The conversation file and the turns are related by InTurn: what is      *)
(* committed or answered is a turn, the order of the turns is the order    *)
(* _ordered computes, and every waiting input comes after them all.  That  *)
(* is inductive only with what the manager knows: QueueInv says that the   *)
(* input it takes next is the first that waits, RunInv where its Run is,   *)
(* OpenInv which answer may be open.  ShownInv relates the last context to *)
(* the turns.  Facts about one file are stated of any file ms, so that     *)
(* they serve the files before and after a step alike.                     *)
(***************************************************************************)
EXTENDS ConversationContext, FiniteSetTheorems, SequenceTheorems, TLAPS

Statuses == {"queued", "committed", "cancelled", "streaming"} \cup Ended
MessageType ==
    [of : Requests, role : {"user", "assistant"}, status : Statuses, run : Requests \cup {None}]
Ids == Requests \X {"user", "assistant"}
Stages == {"idle", "bind", "commit", "open", "mark", "context", "execute", "settle", "down"}

TypeInv ==
    /\ messages \in Seq(MessageType)
    /\ marked \in BOOLEAN
    /\ run \in Requests \cup {None}
    /\ at \in Stages
    /\ queue \in Seq(Requests)
    /\ turns \in Seq(Ids)
    /\ shown \in Seq(Ids)

\* A message is there once; a message with a Run has the Run of its own request; an
\* input that waits or is committed is no answer's, and an answer has its committed input.
Sound(ms) ==
    /\ ms \in Seq(MessageType)
    /\ \A i, j \in DOMAIN ms : Id(ms[i]) = Id(ms[j]) => i = j
    /\ \A i \in DOMAIN ms : ms[i].run \in {None, ms[i].of}
    /\ \A i \in DOMAIN ms : ms[i].role = "user" => ms[i].status \in {"queued", "committed", "cancelled"}
    /\ \A i \in DOMAIN ms : ms[i].role = "assistant" =>
           /\ ms[i].status \in Ended \cup {"streaming"}
           /\ \E j \in DOMAIN ms :
                  /\ ms[j].role = "user" /\ ms[j].of = ms[i].of
                  /\ ms[j].run = ms[i].run /\ ms[j].status = "committed"

Waits(ms, i) == i \in DOMAIN ms /\ ms[i].status = "queued"

\* The turns are the committed inputs and the answers, in the order of the file's turns.
InTurn(ms, ts) ==
    /\ ts \in Seq(Ids)
    /\ \A m, n \in DOMAIN ts : ts[m] = ts[n] => m = n
    /\ \A n \in DOMAIN ts : \E i \in DOMAIN ms : Id(ms[i]) = ts[n]
    /\ \A i \in DOMAIN ms :
           (\E n \in DOMAIN ts : ts[n] = Id(ms[i])) <=> (ms[i].role = "user" => ms[i].status = "committed")
    /\ \A m, n \in DOMAIN ts : \A i, j \in DOMAIN ms :
           m < n /\ Id(ms[i]) = ts[m] /\ Id(ms[j]) = ts[n] => <<i, j>> \in Ordered(ms)
    /\ \A n \in DOMAIN ts : \A i, j \in DOMAIN ms :
           Id(ms[i]) = ts[n] /\ Waits(ms, j) => Place(ms, i) < j

\* The requests of q wait, in the order of the file.
InLine(ms, q) ==
    /\ \A k \in DOMAIN q : \E i \in DOMAIN ms : Id(ms[i]) = User(q[k]) /\ Waits(ms, i)
    /\ \A k, l \in DOMAIN q : \A i, j \in DOMAIN ms :
           k < l /\ Id(ms[i]) = User(q[k]) /\ Id(ms[j]) = User(q[l]) => i < j

\* The queue is in line; the input in hand has left it, and no other waits.
QueueInv ==
    at # "down" =>
        /\ InLine(messages, queue)
        /\ \A i \in DOMAIN messages : Waits(messages, i) =>
               \/ at \in {"bind", "commit"} /\ Id(messages[i]) = User(run)
               \/ \E k \in DOMAIN queue : Id(messages[i]) = User(queue[k])
        /\ at \in {"bind", "commit"} => \A k \in DOMAIN queue : queue[k] # run

\* An input that is claimed and still waits is the first that does.
First(ms, r) == \A i, j \in DOMAIN ms : Id(ms[i]) = User(r) /\ Waits(ms, i) /\ Waits(ms, j) => i <= j

RunInv ==
    /\ at = "idle" => run = None
    /\ First(messages, run)
    /\ at \in {"bind", "commit"} => \E i \in DOMAIN messages : Id(messages[i]) = User(run) /\ Waits(messages, i)
    /\ at \in {"commit", "open", "mark", "context", "execute", "settle"} =>
           \E i \in DOMAIN messages : Id(messages[i]) = User(run) /\ messages[i].run = run
    /\ at = "open" => turns # <<>> /\ turns[Len(turns)] = User(run)
    /\ at \in {"mark", "context", "execute"} =>
           /\ Len(turns) > 1
           /\ turns[Len(turns) - 1] = User(run) /\ turns[Len(turns)] = Assistant(run)

\* No answer is open but that of the Run in progress.
OpenInv ==
    at # "down" => \A i \in DOMAIN messages : messages[i].status = "streaming" =>
        at \in {"mark", "context", "execute"} /\ Id(messages[i]) = Assistant(run)

ShownInv ==
    /\ Len(shown) <= Len(turns)
    /\ \A n \in DOMAIN shown : shown[n] = turns[n]
    /\ at = "open" => Len(shown) < Len(turns)
    /\ at \in {"mark", "context"} => Len(shown) + 1 < Len(turns)

ContextInv ==
    /\ TypeInv /\ Sound(messages) /\ InTurn(messages, turns)
    /\ QueueInv /\ RunInv /\ OpenInv /\ ShownInv

-----------------------------------------------------------------------------
(* Listing a finite set in an order.                                         *)

\* A sequence that goes through the set along the order is the listing of the set.
LEMMA ListedIs ==
    ASSUME NEW S, NEW R, NEW L \in Nat, NEW f \in [1..L -> S],
           \A x \in S : \E n \in 1..L : f[n] = x,
           \A m, n \in 1..L : m < n => <<f[m], f[n]>> \in R,
           \A x, y \in S : <<x, y>> \in R => <<y, x>> \notin R
    PROVE  Listed(S, R) = f
<1> DEFINE P(x) == {j \in S : <<j, x>> \in R}
<1>1. ASSUME NEW m \in 1..L, NEW n \in 1..L, <<f[m], f[n]>> \in R
      PROVE  m < n
  <2>1. f[m] \in S /\ f[n] \in S
    OBVIOUS
  <2>2. ~(n < m)
    BY <1>1, <2>1
  <2>3. n # m
    BY <1>1, <2>1
  <2> QED BY <2>2, <2>3
<1>2. ASSUME NEW m \in 1..L, NEW n \in 1..L, m # n
      PROVE  f[m] # f[n]
  <2>1. f[m] \in S /\ f[n] \in S
    OBVIOUS
  <2>2. <<f[m], f[n]>> \in R \/ <<f[n], f[m]>> \in R
    BY <1>2
  <2> QED BY <2>1, <2>2
<1>3. IsFiniteSet(S) /\ Cardinality(S) = L
  <2>1. f \in Bijection(1..L, S)
    BY <1>2 DEF Bijection, Injection, Surjection, IsInjective
  <2>2. ExistsBijection(1..L, S)
    BY <2>1 DEF ExistsBijection
  <2> QED BY <2>2, FS_NatBijection, FS_CountingElements
<1>4. ASSUME NEW n \in 1..L
      PROVE  Cardinality(P(f[n])) = n - 1
  <2> DEFINE g == [k \in 1..(n - 1) |-> f[k]]
  <2>1. \A k \in 1..(n - 1) : k \in 1..L /\ k < n /\ g[k] = f[k] /\ f[k] \in P(f[n])
    OBVIOUS
  <2>2. g \in [1..(n - 1) -> P(f[n])]
    BY <2>1
  <2>3. \A x \in P(f[n]) : \E k \in 1..(n - 1) : g[k] = x
    <3> TAKE x \in P(f[n])
    <3>1. PICK k \in 1..L : f[k] = x
      OBVIOUS
    <3>2. k < n
      BY <3>1, <1>1
    <3>3. k \in 1..(n - 1)
      BY <3>2
    <3> QED BY <2>1, <3>1, <3>3
  <2>4. \A j, k \in 1..(n - 1) : g[j] = g[k] => j = k
    BY <2>1, <1>2
  <2>5. g \in Bijection(1..(n - 1), P(f[n]))
    <3> HIDE DEF g, P
    <3> QED BY <2>2, <2>3, <2>4 DEF Bijection, Injection, Surjection, IsInjective
  <2>6. ExistsBijection(1..(n - 1), P(f[n]))
    BY <2>5 DEF ExistsBijection
  <2>7. n - 1 \in Nat
    OBVIOUS
  <2> QED BY <2>6, <2>7, FS_CountingElements
<1>5. ASSUME NEW n \in 1..L
      PROVE  (CHOOSE i \in S : Cardinality(P(i)) = n - 1) = f[n]
  <2> HIDE DEF P
  <2>1. f[n] \in S /\ Cardinality(P(f[n])) = n - 1
    BY <1>4
  <2>2. \A i \in S : Cardinality(P(i)) = n - 1 => i = f[n]
    <3> TAKE i \in S
    <3>1. PICK k \in 1..L : f[k] = i
      OBVIOUS
    <3>2. Cardinality(P(i)) = k - 1
      BY <3>1, <1>4
    <3> QED BY <3>1, <3>2
  <2> QED BY <2>1, <2>2
<1>6. Listed(S, R) = [n \in 1..L |-> CHOOSE i \in S : Cardinality(P(i)) = n - 1]
  BY <1>3 DEF Listed
<1>7. Listed(S, R) = [n \in 1..L |-> f[n]]
  <2> HIDE DEF P
  <2> QED BY <1>5, <1>6
<1> QED BY <1>7

\* A total order lists every member of a finite set once, in its order.
LEMMA ListedSorts ==
    ASSUME NEW S, NEW R, IsFiniteSet(S),
           \A x, y \in S : <<x, y>> \in R => <<y, x>> \notin R,
           \A x, y, z \in S : <<x, y>> \in R /\ <<y, z>> \in R => <<x, z>> \in R,
           \A x, y \in S : x = y \/ <<x, y>> \in R \/ <<y, x>> \in R
    PROVE  /\ Listed(S, R) \in [1..Cardinality(S) -> S]
           /\ \A x \in S : \E n \in 1..Cardinality(S) : Listed(S, R)[n] = x
           /\ \A m, n \in 1..Cardinality(S) : m < n => <<Listed(S, R)[m], Listed(S, R)[n]>> \in R
<1> DEFINE c == Cardinality(S)
           P(x) == {j \in S : <<j, x>> \in R}
           rank == [x \in S |-> Cardinality(P(x))]
           g == Listed(S, R)
<1>1. c \in Nat
  BY FS_CardinalityType
<1>2. \A x \in S : x \notin P(x)
  OBVIOUS
<1>3. ASSUME NEW x \in S
      PROVE  IsFiniteSet(P(x)) /\ Cardinality(P(x)) \in 0..(c - 1)
  <2>1. P(x) \in SUBSET S /\ P(x) # S
    BY <1>2
  <2>2. IsFiniteSet(P(x)) /\ Cardinality(P(x)) <= c /\ Cardinality(P(x)) # c
    <3> HIDE DEF P
    <3> QED BY <2>1, FS_Subset
  <2>3. Cardinality(P(x)) \in Nat
    BY <2>2, FS_CardinalityType
  <2> QED BY <1>1, <2>2, <2>3
<1>4. ASSUME NEW x \in S, NEW y \in S, <<x, y>> \in R
      PROVE  Cardinality(P(x)) < Cardinality(P(y))
  <2>1. P(x) \in SUBSET P(y) /\ x \in P(y)
    BY <1>4
  <2>2. P(x) # P(y)
    BY <2>1, <1>2
  <2>3. Cardinality(P(x)) <= Cardinality(P(y)) /\ Cardinality(P(x)) # Cardinality(P(y))
    <3> HIDE DEF P
    <3> QED BY <1>3, <2>1, <2>2, FS_Subset
  <2>4. Cardinality(P(x)) \in Int /\ Cardinality(P(y)) \in Int
    <3> HIDE DEF P, c
    <3> QED BY <1>1, <1>3
  <2> HIDE DEF P
  <2> QED BY <2>3, <2>4
<1>5. \A x, y \in S : Cardinality(P(x)) = Cardinality(P(y)) => x = y
  <2> TAKE x \in S, y \in S
  <2>1. Cardinality(P(x)) \in Int /\ Cardinality(P(y)) \in Int
    <3> HIDE DEF P, c
    <3> QED BY <1>1, <1>3
  <2>2. <<x, y>> \in R => Cardinality(P(x)) < Cardinality(P(y))
    <3> HIDE DEF P
    <3> QED BY <1>4
  <2>3. <<y, x>> \in R => Cardinality(P(y)) < Cardinality(P(x))
    <3> HIDE DEF P
    <3> QED BY <1>4
  <2>4. x = y \/ <<x, y>> \in R \/ <<y, x>> \in R
    OBVIOUS
  <2> HIDE DEF P
  <2> QED BY <2>1, <2>2, <2>3, <2>4
<1>6. \A r \in 0..(c - 1) : \E x \in S : Cardinality(P(x)) = r
  <2>1. rank \in [S -> 0..(c - 1)]
    <3> HIDE DEF P, c
    <3> QED BY <1>3
  <2>2. rank \in Injection(S, 0..(c - 1))
    <3>1. \A x, y \in S : rank[x] = rank[y] => x = y
      <4> HIDE DEF P, c
      <4> QED BY <1>5
    <3> HIDE DEF rank, c
    <3> QED BY <2>1, <3>1 DEF Injection, IsInjective
  <2>3. IsFiniteSet(0..(c - 1)) /\ Cardinality(0..(c - 1)) = c
    <3> HIDE DEF c
    <3>1. 0 \in Int /\ c - 1 \in Int
      BY <1>1
    <3>2. IF 0 > c - 1 THEN c = 0 ELSE c - 1 - 0 + 1 = c
      BY <1>1
    <3> QED BY <3>1, <3>2, FS_Interval
  <2>4. rank \in Surjection(S, 0..(c - 1))
    <3> HIDE DEF rank
    <3> QED BY <2>2, <2>3, FS_Injection
  <2>5. \A r \in 0..(c - 1) : \E x \in S : rank[x] = r
    <3> HIDE DEF rank, c
    <3> QED BY <2>4 DEF Surjection
  <2> HIDE DEF P, c
  <2> QED BY <2>5
<1>7. g = [n \in 1..c |-> CHOOSE i \in S : Cardinality(P(i)) = n - 1]
  BY DEF Listed
<1>8. ASSUME NEW n \in 1..c
      PROVE  g[n] \in S /\ Cardinality(P(g[n])) = n - 1
  <2>1. n - 1 \in 0..(c - 1)
    <3> HIDE DEF c
    <3> QED BY <1>1
  <2>2. \E x \in S : Cardinality(P(x)) = n - 1
    <3> HIDE DEF P, c
    <3> QED BY <2>1, <1>6
  <2>3. g[n] = CHOOSE i \in S : Cardinality(P(i)) = n - 1
    <3> HIDE DEF P, c, g
    <3> QED BY <1>7
  <2> HIDE DEF P, c, g
  <2> QED BY <2>2, <2>3
<1>9. g \in [1..c -> S]
  <2>1. \A n \in 1..c : (CHOOSE i \in S : Cardinality(P(i)) = n - 1) = g[n]
    <3> HIDE DEF P, c, g
    <3> QED BY <1>7
  <2> HIDE DEF P, c, g
  <2> QED BY <1>7, <1>8, <2>1
<1>10. \A x \in S : \E n \in 1..c : g[n] = x
  <2> TAKE x \in S
  <2>1. PICK r \in 0..(c - 1) : Cardinality(P(x)) = r
    <3> HIDE DEF P, c
    <3> QED BY <1>3
  <2>2. r + 1 \in 1..c /\ (r + 1) - 1 = r
    <3> HIDE DEF c
    <3> QED BY <1>1
  <2>3. g[r + 1] \in S /\ Cardinality(P(g[r + 1])) = r
    <3> HIDE DEF P, c, g
    <3> QED BY <1>8, <2>2
  <2> HIDE DEF P, c, g
  <2> QED BY <1>5, <2>1, <2>2, <2>3
<1>11. \A m, n \in 1..c : m < n => <<g[m], g[n]>> \in R
  <2> TAKE m \in 1..c, n \in 1..c
  <2> HAVE m < n
  <2>1. g[m] \in S /\ g[n] \in S /\ Cardinality(P(g[m])) = m - 1 /\ Cardinality(P(g[n])) = n - 1
    <3> HIDE DEF P, c, g
    <3> QED BY <1>8
  <2>2. g[m] # g[n]
    <3> HIDE DEF P, c, g
    <3> QED BY <2>1, <1>1
  <2>3. <<g[n], g[m]>> \notin R
    <3> HIDE DEF P, c, g
    <3> QED BY <2>1, <1>1, <1>4
  <2> HIDE DEF P, c, g
  <2> QED BY <2>1, <2>2, <2>3
<1> HIDE DEF g
<1> QED BY <1>9, <1>10, <1>11 DEF g

-----------------------------------------------------------------------------
(* The order of one file.                                                    *)

LEMMA MessageIs ==
    ASSUME NEW ms, Sound(ms), NEW i \in DOMAIN ms
    PROVE  /\ Len(ms) \in Nat /\ DOMAIN ms = 1..Len(ms) /\ i \in Nat
           /\ ms[i] \in MessageType
           /\ ms[i].of \in Requests /\ ms[i].role \in {"user", "assistant"}
           /\ ms[i].status \in Statuses /\ ms[i].run \in {None, ms[i].of}
           /\ Id(ms[i]) = <<ms[i].of, ms[i].role>> /\ Id(ms[i]) \in Ids
<1>1. ms \in Seq(MessageType)
  BY DEF Sound
<1>2. Len(ms) \in Nat /\ DOMAIN ms = 1..Len(ms)
  BY <1>1, LenProperties
<1>3. ms[i] \in MessageType
  BY <1>1, <1>2, ElementOfSeq
<1>4. ms[i].of \in Requests /\ ms[i].role \in {"user", "assistant"} /\ ms[i].status \in Statuses
  BY <1>3 DEF MessageType
<1>5. ms[i].run \in {None, ms[i].of}
  BY DEF Sound
<1> QED BY <1>2, <1>3, <1>4, <1>5 DEF Id, Ids

\* A request has one message of each role.
LEMMA OneMessage ==
    ASSUME NEW ms, Sound(ms), NEW i \in DOMAIN ms, NEW j \in DOMAIN ms,
           ms[i].of = ms[j].of, ms[i].role = ms[j].role
    PROVE  i = j
BY DEF Sound, Id

\* A message stands at its own index, but an answer with a Run at that of its input.
LEMMA PlaceIs ==
    ASSUME NEW ms, Sound(ms), NEW i \in DOMAIN ms
    PROVE  /\ ms[i].run = None => Place(ms, i) = i
           /\ ms[i].run # None => \A j \in DOMAIN ms :
                  ms[j].role = "user" /\ ms[j].of = ms[i].of /\ ms[j].run = ms[i].run => Place(ms, i) = j
           /\ ms[i].role = "user" => Place(ms, i) = i
           /\ Place(ms, i) \in DOMAIN ms
<1> DEFINE inputs == {j \in DOMAIN ms : ms[j].role = "user" /\ ms[j].run # None /\ ms[j].run = ms[i].run}
<1>1. ms[i].run = None => inputs = {}
  OBVIOUS
<1>2. Place(ms, i) = IF inputs = {} THEN i ELSE Max(inputs)
  BY DEF Place
<1>3. ASSUME NEW j \in DOMAIN ms, ms[i].run # None,
             ms[j].role = "user", ms[j].of = ms[i].of, ms[j].run = ms[i].run
      PROVE  Place(ms, i) = j
  <2>1. \A k \in inputs : k = j
    <3> TAKE k \in inputs
    <3>1. ms[k].run \in {None, ms[k].of} /\ ms[j].run \in {None, ms[j].of}
      BY MessageIs
    <3>2. ms[k].of = ms[j].of
      BY <1>3, <3>1
    <3> QED BY <1>3, <3>2, OneMessage
  <2>2. inputs = {j}
    BY <1>3, <2>1
  <2>3. j \in Nat
    BY MessageIs
  <2>4. Max({j}) = j
    BY <2>3 DEF Max
  <2> HIDE DEF inputs
  <2> QED BY <1>2, <2>2, <2>4
<1>4. ms[i].role = "user" => Place(ms, i) = i
  <2> HIDE DEF inputs
  <2> QED BY <1>1, <1>2, <1>3
<1>5. Place(ms, i) \in DOMAIN ms
  <2>1. CASE ms[i].run = None
    <3> HIDE DEF inputs
    <3> QED BY <2>1, <1>1, <1>2
  <2>2. CASE ms[i].run # None /\ ms[i].role = "user"
    BY <2>2, <1>4
  <2>3. CASE ms[i].run # None /\ ms[i].role = "assistant"
    <3>1. PICK j \in DOMAIN ms : ms[j].role = "user" /\ ms[j].of = ms[i].of /\ ms[j].run = ms[i].run
      BY <2>3 DEF Sound
    <3> QED BY <2>3, <3>1, <1>3
  <2> QED BY <2>1, <2>2, <2>3, MessageIs
<1> HIDE DEF inputs
<1> QED BY <1>1, <1>2, <1>3, <1>4, <1>5

LEMMA OrderedIs ==
    ASSUME NEW ms, Sound(ms), NEW i \in DOMAIN ms, NEW j \in DOMAIN ms
    PROVE  <<i, j>> \in Ordered(ms) <=>
               \/ Place(ms, i) < Place(ms, j)
               \/ /\ Place(ms, i) = Place(ms, j)
                  /\ ms[i].role = "user" /\ ms[j].role = "assistant"
               \/ /\ Place(ms, i) = Place(ms, j)
                  /\ ms[i].role = ms[j].role /\ i < j
<1>1. ms[i].role \in {"user", "assistant"} /\ ms[j].role \in {"user", "assistant"}
  BY MessageIs
<1> DEFINE Late(k) == IF ms[k].role = "assistant" THEN 1 ELSE 0
           Before(k, l) ==
            \/ Place(ms, k) < Place(ms, l)
            \/ (Place(ms, k) = Place(ms, l) /\ Late(k) < Late(l))
            \/ (Place(ms, k) = Place(ms, l) /\ Late(k) = Late(l) /\ k < l)
<1>2. <<i, j>> \in Ordered(ms) <=> Before(i, j)
  BY DEF Ordered
<1>3. Late(i) < Late(j) <=> (ms[i].role = "user" /\ ms[j].role = "assistant")
  BY <1>1
<1>4. Late(i) = Late(j) <=> ms[i].role = ms[j].role
  BY <1>1
<1> HIDE DEF Late
<1> QED BY <1>2, <1>3, <1>4

LEMMA OrderedIsTotal ==
    ASSUME NEW ms, Sound(ms)
    PROVE  /\ \A x, y \in DOMAIN ms : <<x, y>> \in Ordered(ms) => <<y, x>> \notin Ordered(ms)
           /\ \A x, y, z \in DOMAIN ms :
                  <<x, y>> \in Ordered(ms) /\ <<y, z>> \in Ordered(ms) => <<x, z>> \in Ordered(ms)
           /\ \A x, y \in DOMAIN ms : x = y \/ <<x, y>> \in Ordered(ms) \/ <<y, x>> \in Ordered(ms)
<1>1. \A x \in DOMAIN ms : x \in Nat /\ Place(ms, x) \in Nat /\ ms[x].role \in {"user", "assistant"}
  BY MessageIs, PlaceIs
<1>2. ASSUME NEW x \in DOMAIN ms, NEW y \in DOMAIN ms, <<x, y>> \in Ordered(ms)
      PROVE  <<y, x>> \notin Ordered(ms)
  BY <1>1, <1>2, OrderedIs
<1>3. ASSUME NEW x \in DOMAIN ms, NEW y \in DOMAIN ms, NEW z \in DOMAIN ms,
             <<x, y>> \in Ordered(ms), <<y, z>> \in Ordered(ms)
      PROVE  <<x, z>> \in Ordered(ms)
  BY <1>1, <1>3, OrderedIs
<1>4. ASSUME NEW x \in DOMAIN ms, NEW y \in DOMAIN ms
      PROVE  x = y \/ <<x, y>> \in Ordered(ms) \/ <<y, x>> \in Ordered(ms)
  BY <1>1, OrderedIs
<1> QED BY <1>2, <1>3, <1>4

\* The order depends on the places and the roles alone.
LEMMA SameOrder ==
    ASSUME NEW ms, Sound(ms), NEW new, Sound(new), DOMAIN ms \subseteq DOMAIN new,
           \A i \in DOMAIN ms : new[i].role = ms[i].role /\ Place(new, i) = Place(ms, i)
    PROVE  \A i, j \in DOMAIN ms : <<i, j>> \in Ordered(new) <=> <<i, j>> \in Ordered(ms)
<1> TAKE i \in DOMAIN ms, j \in DOMAIN ms
<1>1. i \in DOMAIN new /\ j \in DOMAIN new
  OBVIOUS
<1> QED BY <1>1, OrderedIs

\* A step that keeps the messages it finds, and the Runs of the answers, keeps the order.
LEMMA SamePlaces ==
    ASSUME NEW ms, Sound(ms), NEW new, Sound(new), DOMAIN ms \subseteq DOMAIN new,
           \A i \in DOMAIN ms :
               /\ new[i].of = ms[i].of /\ new[i].role = ms[i].role
               /\ ms[i].role = "assistant" => new[i].run = ms[i].run
    PROVE  /\ \A i \in DOMAIN ms : Place(new, i) = Place(ms, i)
           /\ \A i, j \in DOMAIN ms : <<i, j>> \in Ordered(new) <=> <<i, j>> \in Ordered(ms)
<1>1. ASSUME NEW i \in DOMAIN ms
      PROVE  Place(new, i) = Place(ms, i)
  <2>1. i \in DOMAIN new
    OBVIOUS
  <2>2. CASE ms[i].role = "user"
    BY <2>1, <2>2, PlaceIs
  <2>3. CASE ms[i].role = "assistant" /\ ms[i].run = None
    BY <2>1, <2>3, PlaceIs
  <2>4. CASE ms[i].role = "assistant" /\ ms[i].run # None
    <3>1. PICK j \in DOMAIN ms : ms[j].role = "user" /\ ms[j].of = ms[i].of /\ ms[j].run = ms[i].run
      BY <2>4 DEF Sound
    <3>2. PICK k \in DOMAIN new : new[k].role = "user" /\ new[k].of = new[i].of /\ new[k].run = new[i].run
      BY <2>1, <2>4 DEF Sound
    <3>3. j \in DOMAIN new /\ new[j].of = new[k].of /\ new[j].role = new[k].role
      BY <3>1, <3>2
    <3>4. j = k
      BY <3>3, OneMessage
    <3>5. Place(ms, i) = j
      BY <2>4, <3>1, PlaceIs
    <3>6. Place(new, i) = k
      BY <2>1, <2>4, <3>2, PlaceIs
    <3> QED BY <3>4, <3>5, <3>6
  <2> QED BY <2>2, <2>3, <2>4, MessageIs
<1>2. \A i \in DOMAIN ms : new[i].role = ms[i].role /\ Place(new, i) = Place(ms, i)
  BY <1>1
<1> QED BY <1>1, <1>2, SameOrder

-----------------------------------------------------------------------------
(* The writers, each on a file and its turns.                                *)

LEMMA NoneIsNoRequest == None \notin Requests
BY RequestsAssumption

LEMMA AppendIs ==
    ASSUME NEW S, NEW s \in Seq(S), NEW e \in S
    PROVE  /\ Append(s, e) \in Seq(S) /\ Len(s) \in Nat
           /\ Len(Append(s, e)) = Len(s) + 1
           /\ DOMAIN s = 1..Len(s) /\ DOMAIN Append(s, e) = 1..(Len(s) + 1)
           /\ \A i \in DOMAIN s : Append(s, e)[i] = s[i]
           /\ Append(s, e)[Len(s) + 1] = e
<1>1. Append(s, e) \in Seq(S) /\ Len(Append(s, e)) = Len(s) + 1
  BY AppendProperties
<1>2. Len(s) \in Nat /\ DOMAIN s = 1..Len(s)
  BY LenProperties
<1>3. DOMAIN Append(s, e) = 1..(Len(s) + 1)
  BY <1>1, LenProperties
<1> QED BY <1>1, <1>2, <1>3, AppendProperties

\* A turn of the file is where the file has a message of its name.
LEMMA TurnIs ==
    ASSUME NEW ms, Sound(ms), NEW ts, InTurn(ms, ts), NEW n \in DOMAIN ts
    PROVE  /\ Len(ts) \in Nat /\ DOMAIN ts = 1..Len(ts) /\ n \in Nat
           /\ \E i \in DOMAIN ms : Id(ms[i]) = ts[n]
           /\ \A i \in DOMAIN ms : Id(ms[i]) = ts[n] =>
                  (ms[i].role = "user" => ms[i].status = "committed")
<1>1. ts \in Seq(Ids)
  BY DEF InTurn
<1>2. Len(ts) \in Nat /\ DOMAIN ts = 1..Len(ts)
  BY <1>1, LenProperties
<1> QED BY <1>2 DEF InTurn

\* A new input waits behind everything.
LEMMA SubmitTurn ==
    ASSUME NEW ms, Sound(ms), NEW ts, InTurn(ms, ts), NEW r \in Requests,
           \A m \in ToSet(ms) : m.of # r,
           NEW new, new = Append(ms, Message(r, "user", "queued", None))
    PROVE  Sound(new) /\ InTurn(new, ts)
<1> DEFINE m == Message(r, "user", "queued", None)
           z == Len(ms) + 1
<1>1. ms \in Seq(MessageType)
  BY DEF Sound
<1>2. m \in MessageType
  BY DEF Message, MessageType, Statuses
<1>3. /\ new \in Seq(MessageType) /\ Len(ms) \in Nat
      /\ DOMAIN ms = 1..Len(ms) /\ DOMAIN new = 1..(Len(ms) + 1)
      /\ \A i \in DOMAIN ms : new[i] = ms[i]
      /\ new[z] = m
  <2>1. new = Append(ms, m)
    OBVIOUS
  <2> HIDE DEF m
  <2> QED BY <1>1, <1>2, <2>1, AppendIs
<1>4. m.of = r /\ m.role = "user" /\ m.status = "queued" /\ m.run = None
  BY DEF Message
<1>5. \A i \in DOMAIN ms : ms[i].of # r
  BY <1>1 DEF ToSet
<1>6. \A i \in DOMAIN new : i \in DOMAIN ms \/ i = z
  BY <1>3
<1>7. z \in DOMAIN new /\ z \notin DOMAIN ms /\ DOMAIN ms \subseteq DOMAIN new
  BY <1>3
<1> HIDE DEF m, z
<1>8. Sound(new)
  <2>1. \A i, j \in DOMAIN new : Id(new[i]) = Id(new[j]) => i = j
    BY <1>3, <1>4, <1>5, <1>6 DEF Sound, Id
  <2>2. \A i \in DOMAIN new : new[i].run \in {None, new[i].of}
    BY <1>3, <1>4, <1>6 DEF Sound
  <2>3. \A i \in DOMAIN new : new[i].role = "user" => new[i].status \in {"queued", "committed", "cancelled"}
    BY <1>3, <1>4, <1>6 DEF Sound
  <2>4. ASSUME NEW i \in DOMAIN new, new[i].role = "assistant"
        PROVE  /\ new[i].status \in Ended \cup {"streaming"}
               /\ \E j \in DOMAIN new :
                      /\ new[j].role = "user" /\ new[j].of = new[i].of
                      /\ new[j].run = new[i].run /\ new[j].status = "committed"
    <3>1. i \in DOMAIN ms
      BY <1>3, <1>4, <1>6, <2>4
    <3>2. /\ ms[i].status \in Ended \cup {"streaming"}
          /\ \E j \in DOMAIN ms : /\ ms[j].role = "user" /\ ms[j].of = ms[i].of
                                  /\ ms[j].run = ms[i].run /\ ms[j].status = "committed"
      BY <1>3, <2>4, <3>1 DEF Sound
    <3> QED BY <1>3, <1>7, <3>1, <3>2
  <2> QED BY <1>3, <2>1, <2>2, <2>3, <2>4 DEF Sound
<1>9. /\ \A i \in DOMAIN ms : Place(new, i) = Place(ms, i)
      /\ \A i, j \in DOMAIN ms : <<i, j>> \in Ordered(new) <=> <<i, j>> \in Ordered(ms)
  BY <1>3, <1>7, <1>8, SamePlaces
<1>10. ASSUME NEW n \in DOMAIN ts, NEW i \in DOMAIN new, Id(new[i]) = ts[n]
       PROVE  i \in DOMAIN ms /\ Id(ms[i]) = ts[n]
  <2>1. PICK k \in DOMAIN ms : Id(ms[k]) = ts[n]
    BY DEF InTurn
  <2>2. Id(new[k]) = Id(new[i]) /\ k \in DOMAIN new
    BY <1>3, <1>7, <1>10, <2>1
  <2>3. k = i
    BY <1>8, <2>2 DEF Sound
  <2> QED BY <2>1, <2>3
<1>11. InTurn(new, ts)
  <2>1. ts \in Seq(Ids) /\ \A k, n \in DOMAIN ts : ts[k] = ts[n] => k = n
    BY DEF InTurn
  <2>2. \A n \in DOMAIN ts : \E i \in DOMAIN new : Id(new[i]) = ts[n]
    BY <1>3, <1>7 DEF InTurn
  <2>3. ASSUME NEW i \in DOMAIN new
        PROVE  (\E n \in DOMAIN ts : ts[n] = Id(new[i])) <=> (new[i].role = "user" => new[i].status = "committed")
    <3>1. CASE i \in DOMAIN ms
      BY <1>3, <3>1 DEF InTurn
    <3>2. CASE i = z
      BY <1>3, <1>4, <1>7, <1>10, <3>2
    <3> QED BY <1>6, <3>1, <3>2
  <2>4. \A k, n \in DOMAIN ts : \A i, j \in DOMAIN new :
           k < n /\ Id(new[i]) = ts[k] /\ Id(new[j]) = ts[n] => <<i, j>> \in Ordered(new)
    BY <1>9, <1>10 DEF InTurn
  <2>5. ASSUME NEW n \in DOMAIN ts, NEW i \in DOMAIN new, NEW j \in DOMAIN new,
               Id(new[i]) = ts[n], Waits(new, j)
        PROVE  Place(new, i) < j
    <3>1. i \in DOMAIN ms /\ Id(ms[i]) = ts[n] /\ Place(new, i) = Place(ms, i)
      BY <1>9, <1>10, <2>5
    <3>2. CASE j \in DOMAIN ms
      BY <1>3, <2>5, <3>1, <3>2 DEF InTurn, Waits
    <3>3. CASE j = z
      <4>1. Place(ms, i) \in 1..Len(ms)
        BY <1>3, <3>1, PlaceIs
      <4> QED BY <1>3, <3>1, <3>3, <4>1 DEF z
    <3> QED BY <1>6, <3>2, <3>3
  <2> QED BY <2>1, <2>2, <2>3, <2>4, <2>5 DEF InTurn
<1> QED BY <1>8, <1>11

LEMMA StatusIs ==
    ASSUME NEW ms, Sound(ms), NEW id, NEW status \in Statuses,
           NEW new, new = WithStatus(ms, id, status)
    PROVE  /\ new \in Seq(MessageType) /\ DOMAIN new = DOMAIN ms
           /\ \A i \in DOMAIN ms :
                  /\ new[i].of = ms[i].of /\ new[i].role = ms[i].role /\ new[i].run = ms[i].run
                  /\ Id(new[i]) = Id(ms[i])
                  /\ new[i].status = IF Id(ms[i]) = id THEN status ELSE ms[i].status
<1>1. ms \in Seq(MessageType) /\ Len(ms) \in Nat /\ DOMAIN ms = 1..Len(ms)
  BY LenProperties DEF Sound
<1>2. ASSUME NEW i \in DOMAIN ms
      PROVE  /\ new[i] \in MessageType
             /\ new[i].of = ms[i].of /\ new[i].role = ms[i].role /\ new[i].run = ms[i].run
             /\ new[i].status = IF Id(ms[i]) = id THEN status ELSE ms[i].status
  <2>1. ms[i] \in MessageType
    BY MessageIs
  <2>2. new[i] = IF Id(ms[i]) = id THEN [ms[i] EXCEPT !.status = status] ELSE ms[i]
    BY DEF WithStatus
  <2> QED BY <2>1, <2>2 DEF MessageType
<1>3. new = [i \in 1..Len(ms) |-> new[i]]
  BY <1>1 DEF WithStatus
<1>4. new \in Seq(MessageType)
  BY <1>1, <1>2, <1>3, IsASeq
<1>5. DOMAIN new = DOMAIN ms
  BY <1>1, <1>3
<1> QED BY <1>2, <1>4, <1>5 DEF Id

\* Committing an input that waits, or ending an answer, leaves a sound file in its order.
LEMMA StatusSound ==
    ASSUME NEW ms, Sound(ms), NEW id, NEW status,
           \/ id[2] = "user" /\ status = "committed"
           \/ id[2] = "assistant" /\ status \in Ended,
           NEW new, new = WithStatus(ms, id, status)
    PROVE  /\ Sound(new)
           /\ \A i \in DOMAIN ms : Place(new, i) = Place(ms, i)
           /\ \A i, j \in DOMAIN ms : <<i, j>> \in Ordered(new) <=> <<i, j>> \in Ordered(ms)
<1>1. status \in Statuses
  BY DEF Statuses
<1>2. /\ new \in Seq(MessageType) /\ DOMAIN new = DOMAIN ms
      /\ \A i \in DOMAIN ms :
             /\ new[i].of = ms[i].of /\ new[i].role = ms[i].role /\ new[i].run = ms[i].run
             /\ Id(new[i]) = Id(ms[i])
             /\ new[i].status = IF Id(ms[i]) = id THEN status ELSE ms[i].status
  BY <1>1, StatusIs
<1>3. ASSUME NEW i \in DOMAIN ms, Id(ms[i]) = id
      PROVE  ms[i].role = id[2]
  BY <1>3 DEF Id
<1>4. \A i, j \in DOMAIN new : Id(new[i]) = Id(new[j]) => i = j
  BY <1>2 DEF Sound
<1>5. \A i \in DOMAIN new : new[i].run \in {None, new[i].of}
  BY <1>2 DEF Sound
<1>6. \A i \in DOMAIN new : new[i].role = "user" => new[i].status \in {"queued", "committed", "cancelled"}
  BY <1>2, <1>3 DEF Sound
<1>7. ASSUME NEW i \in DOMAIN new, new[i].role = "assistant"
      PROVE  /\ new[i].status \in Ended \cup {"streaming"}
             /\ \E j \in DOMAIN new :
                    /\ new[j].role = "user" /\ new[j].of = new[i].of
                    /\ new[j].run = new[i].run /\ new[j].status = "committed"
  <2>1. ms[i].role = "assistant"
    BY <1>2, <1>7
  <2>2. PICK j \in DOMAIN ms : ms[j].role = "user" /\ ms[j].of = ms[i].of
                               /\ ms[j].run = ms[i].run /\ ms[j].status = "committed"
    BY <1>2, <2>1 DEF Sound
  <2>3. new[j].status = "committed"
    BY <1>2, <1>3, <2>2
  <2>4. new[i].status \in Ended \cup {"streaming"}
    BY <1>2, <1>3, <2>1 DEF Sound
  <2> QED BY <1>2, <2>2, <2>3, <2>4
<1>8. Sound(new)
  BY <1>2, <1>4, <1>5, <1>6, <1>7 DEF Sound
<1> QED BY <1>2, <1>8, SamePlaces

\* The first input that waits becomes the last turn.
LEMMA CommitTurn ==
    ASSUME NEW ms, Sound(ms), NEW ts, InTurn(ms, ts), NEW r \in Requests,
           First(ms, r), NEW c \in DOMAIN ms, Id(ms[c]) = User(r), Waits(ms, c),
           NEW new, new = WithStatus(ms, User(r), "committed")
    PROVE  Sound(new) /\ InTurn(new, Append(ts, User(r)))
<1> DEFINE id == User(r)
           us == Append(ts, id)
           z == Len(ts) + 1
<1>1. id[2] = "user" /\ id \in Ids /\ "committed" \in Statuses
  BY DEF User, Ids, Statuses
<1>2. /\ Sound(new)
      /\ \A i \in DOMAIN ms : Place(new, i) = Place(ms, i)
      /\ \A i, j \in DOMAIN ms : <<i, j>> \in Ordered(new) <=> <<i, j>> \in Ordered(ms)
  BY <1>1, StatusSound
<1>3. /\ new \in Seq(MessageType) /\ DOMAIN new = DOMAIN ms
      /\ \A i \in DOMAIN ms :
             /\ new[i].of = ms[i].of /\ new[i].role = ms[i].role /\ new[i].run = ms[i].run
             /\ Id(new[i]) = Id(ms[i])
             /\ new[i].status = IF Id(ms[i]) = id THEN "committed" ELSE ms[i].status
  BY <1>1, StatusIs
<1>4. ts \in Seq(Ids)
  BY DEF InTurn
<1>5. /\ us \in Seq(Ids) /\ Len(ts) \in Nat
      /\ DOMAIN ts = 1..Len(ts) /\ DOMAIN us = 1..(Len(ts) + 1)
      /\ \A n \in DOMAIN ts : us[n] = ts[n]
      /\ us[z] = id
  <2> HIDE DEF id
  <2> QED BY <1>1, <1>4, AppendIs
<1>6. \A n \in DOMAIN us : n \in DOMAIN ts \/ n = z
  BY <1>5
<1>7. z \in DOMAIN us /\ z \notin DOMAIN ts /\ \A n \in DOMAIN ts : n \in DOMAIN us /\ n < z
  BY <1>5
<1>8. ms[c].role = "user" /\ ms[c].status = "queued" /\ c \in Nat /\ Place(ms, c) = c
  <2>1. ms[c].role = "user"
    BY DEF User, Id
  <2> QED BY <2>1, PlaceIs, MessageIs DEF Waits
<1>9. \A i \in DOMAIN ms : Id(ms[i]) = id => i = c
  BY DEF Sound
<1>10. \A n \in DOMAIN ts : ts[n] # id
  BY <1>8 DEF InTurn
<1>11. \A j : Waits(new, j) => Waits(ms, j) /\ j # c
  BY <1>3 DEF Waits
<1> HIDE DEF id, us, z
<1>12. \A k, n \in DOMAIN us : us[k] = us[n] => k = n
  BY <1>5, <1>6, <1>10 DEF InTurn
<1>13. \A n \in DOMAIN us : \E i \in DOMAIN new : Id(new[i]) = us[n]
  <2> TAKE n \in DOMAIN us
  <2>1. CASE n \in DOMAIN ts
    BY <1>3, <1>5, <2>1 DEF InTurn
  <2>2. CASE n = z
    BY <1>3, <1>5, <2>2 DEF id
  <2> QED BY <1>6, <2>1, <2>2
<1>14. ASSUME NEW i \in DOMAIN new
       PROVE  (\E n \in DOMAIN us : us[n] = Id(new[i])) <=> (new[i].role = "user" => new[i].status = "committed")
  <2>1. CASE Id(ms[i]) = id
    BY <1>3, <1>5, <1>7, <2>1
  <2>2. CASE Id(ms[i]) # id
    <3>1. (\E n \in DOMAIN us : us[n] = Id(new[i])) <=> (\E n \in DOMAIN ts : ts[n] = Id(ms[i]))
      BY <1>3, <1>5, <1>6, <1>7, <2>2
    <3> QED BY <1>3, <2>2, <3>1 DEF InTurn
  <2> QED BY <2>1, <2>2
<1>15. ASSUME NEW k \in DOMAIN us, NEW n \in DOMAIN us, NEW i \in DOMAIN new, NEW j \in DOMAIN new,
              k < n, Id(new[i]) = us[k], Id(new[j]) = us[n]
       PROVE  <<i, j>> \in Ordered(new)
  <2>1. k \in DOMAIN ts /\ us[k] = ts[k]
    BY <1>5, <1>6, <1>7, <1>15 DEF z
  <2>2. CASE n \in DOMAIN ts
    BY <1>2, <1>3, <1>5, <1>15, <2>1, <2>2 DEF InTurn
  <2>3. CASE n = z
    <3>1. j = c
      BY <1>3, <1>5, <1>9, <1>15, <2>3
    <3>2. Place(ms, i) < c
      BY <1>3, <1>15, <2>1 DEF InTurn
    <3>3. <<i, c>> \in Ordered(ms)
      BY <1>3, <1>8, <3>2, OrderedIs
    <3> QED BY <1>2, <1>3, <3>1, <3>3
  <2> QED BY <1>6, <2>2, <2>3
<1>16. ASSUME NEW n \in DOMAIN us, NEW i \in DOMAIN new, NEW j \in DOMAIN new,
              Id(new[i]) = us[n], Waits(new, j)
       PROVE  Place(new, i) < j
  <2>1. Waits(ms, j) /\ j # c /\ j \in Nat
    BY <1>3, <1>11, <1>16, MessageIs
  <2>2. CASE n \in DOMAIN ts
    BY <1>2, <1>3, <1>5, <1>16, <2>1, <2>2 DEF InTurn
  <2>3. CASE n = z
    <3>1. i = c
      BY <1>3, <1>5, <1>9, <1>16, <2>3
    <3>2. c <= j
      BY <1>3, <2>1 DEF First
    <3> QED BY <1>2, <1>3, <1>8, <2>1, <3>1, <3>2
  <2> QED BY <1>6, <2>2, <2>3
<1>17. InTurn(new, us)
  BY <1>5, <1>12, <1>13, <1>14, <1>15, <1>16 DEF InTurn
<1> QED BY <1>2, <1>17 DEF us, id

\* An answer ends; the turns are what they were.
LEMMA EndTurn ==
    ASSUME NEW ms, Sound(ms), NEW ts, InTurn(ms, ts), NEW id, id[2] = "assistant",
           NEW status \in Ended, NEW new, new = WithStatus(ms, id, status)
    PROVE  Sound(new) /\ InTurn(new, ts)
<1>1. status \in Statuses
  BY DEF Statuses
<1>2. /\ Sound(new)
      /\ \A i \in DOMAIN ms : Place(new, i) = Place(ms, i)
      /\ \A i, j \in DOMAIN ms : <<i, j>> \in Ordered(new) <=> <<i, j>> \in Ordered(ms)
  BY StatusSound
<1>3. /\ DOMAIN new = DOMAIN ms
      /\ \A i \in DOMAIN ms :
             /\ new[i].role = ms[i].role /\ Id(new[i]) = Id(ms[i])
             /\ new[i].status = IF Id(ms[i]) = id THEN status ELSE ms[i].status
  BY <1>1, StatusIs
<1>4. \A i \in DOMAIN ms : Id(ms[i]) = id => ms[i].role = "assistant"
  BY DEF Id
<1>5. \A j : Waits(new, j) => Waits(ms, j)
  BY <1>3 DEF Waits, Ended
<1>6. \A i \in DOMAIN new : (new[i].role = "user" => new[i].status = "committed")
                            <=> (ms[i].role = "user" => ms[i].status = "committed")
  BY <1>3, <1>4
<1>7. \A i \in DOMAIN new :
         (\E n \in DOMAIN ts : ts[n] = Id(new[i])) <=> (new[i].role = "user" => new[i].status = "committed")
  BY <1>3, <1>6 DEF InTurn
<1>8. \A k, n \in DOMAIN ts : \A i, j \in DOMAIN new :
         k < n /\ Id(new[i]) = ts[k] /\ Id(new[j]) = ts[n] => <<i, j>> \in Ordered(new)
  BY <1>2, <1>3 DEF InTurn
<1>9. \A n \in DOMAIN ts : \A i, j \in DOMAIN new :
         Id(new[i]) = ts[n] /\ Waits(new, j) => Place(new, i) < j
  BY <1>2, <1>3, <1>5 DEF InTurn
<1>10. /\ ts \in Seq(Ids) /\ \A k, n \in DOMAIN ts : ts[k] = ts[n] => k = n
       /\ \A n \in DOMAIN ts : \E i \in DOMAIN new : Id(new[i]) = ts[n]
  BY <1>3 DEF InTurn
<1> QED BY <1>2, <1>7, <1>8, <1>9, <1>10 DEF InTurn

LEMMA BoundIs ==
    ASSUME NEW ms, Sound(ms), NEW r \in Requests, NEW new, new = Bound(ms, r)
    PROVE  /\ new \in Seq(MessageType) /\ DOMAIN new = DOMAIN ms
           /\ \A i \in DOMAIN ms :
                  /\ new[i].of = ms[i].of /\ new[i].role = ms[i].role /\ new[i].status = ms[i].status
                  /\ Id(new[i]) = Id(ms[i])
                  /\ new[i].run = IF Id(ms[i]) = User(r) THEN r ELSE ms[i].run
<1>1. ms \in Seq(MessageType) /\ Len(ms) \in Nat /\ DOMAIN ms = 1..Len(ms)
  BY LenProperties DEF Sound
<1>2. ASSUME NEW i \in DOMAIN ms
      PROVE  /\ new[i] \in MessageType
             /\ new[i].of = ms[i].of /\ new[i].role = ms[i].role /\ new[i].status = ms[i].status
             /\ new[i].run = IF Id(ms[i]) = User(r) THEN r ELSE ms[i].run
  <2>1. ms[i] \in MessageType
    BY MessageIs
  <2>2. new[i] = IF Id(ms[i]) = User(r) THEN [ms[i] EXCEPT !.run = r] ELSE ms[i]
    BY DEF Bound
  <2> QED BY <2>1, <2>2 DEF MessageType
<1>3. new = [i \in 1..Len(ms) |-> new[i]]
  BY <1>1 DEF Bound
<1>4. new \in Seq(MessageType)
  BY <1>1, <1>2, <1>3, IsASeq
<1>5. DOMAIN new = DOMAIN ms
  BY <1>1, <1>3
<1> QED BY <1>2, <1>4, <1>5 DEF Id

\* Binding an input that waits to its Run moves nothing.
LEMMA BindTurn ==
    ASSUME NEW ms, Sound(ms), NEW ts, InTurn(ms, ts), NEW r \in Requests,
           NEW c \in DOMAIN ms, Id(ms[c]) = User(r), Waits(ms, c),
           NEW new, new = Bound(ms, r)
    PROVE  Sound(new) /\ InTurn(new, ts)
<1>1. /\ new \in Seq(MessageType) /\ DOMAIN new = DOMAIN ms
      /\ \A i \in DOMAIN ms :
             /\ new[i].of = ms[i].of /\ new[i].role = ms[i].role /\ new[i].status = ms[i].status
             /\ Id(new[i]) = Id(ms[i])
             /\ new[i].run = IF Id(ms[i]) = User(r) THEN r ELSE ms[i].run
  BY BoundIs
<1>2. \A i \in DOMAIN ms : Id(ms[i]) = User(r) => i = c
  BY DEF Sound
<1>3. ms[c].role = "user" /\ ms[c].of = r /\ ms[c].status = "queued"
  BY DEF User, Id, Waits
<1>4. Sound(new)
  <2>1. \A i, j \in DOMAIN new : Id(new[i]) = Id(new[j]) => i = j
    BY <1>1 DEF Sound
  <2>2. \A i \in DOMAIN new : new[i].run \in {None, new[i].of}
    BY <1>1, <1>2, <1>3 DEF Sound
  <2>3. \A i \in DOMAIN new : new[i].role = "user" => new[i].status \in {"queued", "committed", "cancelled"}
    BY <1>1 DEF Sound
  <2>4. ASSUME NEW i \in DOMAIN new, new[i].role = "assistant"
        PROVE  /\ new[i].status \in Ended \cup {"streaming"}
               /\ \E j \in DOMAIN new :
                      /\ new[j].role = "user" /\ new[j].of = new[i].of
                      /\ new[j].run = new[i].run /\ new[j].status = "committed"
    <3>1. ms[i].role = "assistant"
      BY <1>1, <2>4
    <3>2. PICK j \in DOMAIN ms : ms[j].role = "user" /\ ms[j].of = ms[i].of
                                 /\ ms[j].run = ms[i].run /\ ms[j].status = "committed"
      BY <1>1, <3>1 DEF Sound
    <3>3. j # c /\ i # c
      BY <1>3, <3>1, <3>2
    <3>4. new[i].status \in Ended \cup {"streaming"}
      BY <1>1, <3>1 DEF Sound
    <3> QED BY <1>1, <1>2, <3>2, <3>3, <3>4
  <2> QED BY <1>1, <2>1, <2>2, <2>3, <2>4 DEF Sound
<1>5. \A i \in DOMAIN ms : ms[i].role = "assistant" => new[i].run = ms[i].run
  BY <1>1, <1>2, <1>3
<1>6. /\ \A i \in DOMAIN ms : Place(new, i) = Place(ms, i)
      /\ \A i, j \in DOMAIN ms : <<i, j>> \in Ordered(new) <=> <<i, j>> \in Ordered(ms)
  BY <1>1, <1>4, <1>5, SamePlaces
<1>7. \A j : Waits(new, j) => Waits(ms, j)
  BY <1>1 DEF Waits
<1>8. ASSUME NEW i \in DOMAIN new
      PROVE  (\E n \in DOMAIN ts : ts[n] = Id(new[i])) <=> (new[i].role = "user" => new[i].status = "committed")
  <2>1. i \in DOMAIN ms /\ Id(new[i]) = Id(ms[i]) /\ new[i].role = ms[i].role /\ new[i].status = ms[i].status
    BY <1>1
  <2>2. (\E n \in DOMAIN ts : ts[n] = Id(ms[i])) <=> (ms[i].role = "user" => ms[i].status = "committed")
    BY <2>1 DEF InTurn
  <2> QED BY <2>1, <2>2
<1>9. \A k, n \in DOMAIN ts : \A i, j \in DOMAIN new :
         k < n /\ Id(new[i]) = ts[k] /\ Id(new[j]) = ts[n] => <<i, j>> \in Ordered(new)
  BY <1>1, <1>6 DEF InTurn
<1>10. \A n \in DOMAIN ts : \A i, j \in DOMAIN new :
         Id(new[i]) = ts[n] /\ Waits(new, j) => Place(new, i) < j
  BY <1>1, <1>6, <1>7 DEF InTurn
<1>11. /\ ts \in Seq(Ids) /\ \A k, n \in DOMAIN ts : ts[k] = ts[n] => k = n
       /\ \A n \in DOMAIN ts : \E i \in DOMAIN new : Id(new[i]) = ts[n]
  BY <1>1 DEF InTurn
<1> QED BY <1>4, <1>8, <1>9, <1>10, <1>11 DEF InTurn

\* The answer to the last input is written at the end of the file and is the last turn.
LEMMA OpenTurn ==
    ASSUME NEW ms, Sound(ms), NEW ts, InTurn(ms, ts), NEW r \in Requests,
           ts # <<>>, ts[Len(ts)] = User(r),
           NEW c \in DOMAIN ms, Id(ms[c]) = User(r), ms[c].run = r,
           NEW new, new = Append(ms, Message(r, "assistant", "streaming", r))
    PROVE  Sound(new) /\ InTurn(new, Append(ts, Assistant(r)))
<1> DEFINE m == Message(r, "assistant", "streaming", r)
           y == Len(ms) + 1
           id == Assistant(r)
           us == Append(ts, id)
           z == Len(ts) + 1
<1>1. ms \in Seq(MessageType) /\ ts \in Seq(Ids) /\ id \in Ids
  BY DEF Sound, InTurn, Assistant, Ids
<1>2. m \in MessageType
  BY DEF Message, MessageType, Statuses
<1>3. m.of = r /\ m.role = "assistant" /\ m.status = "streaming" /\ m.run = r /\ Id(m) = id
  BY DEF Message, Id, Assistant
<1>4. new = Append(ms, m)
  OBVIOUS
<1> HIDE DEF m, id
<1>5. /\ new \in Seq(MessageType) /\ Len(ms) \in Nat
      /\ DOMAIN ms = 1..Len(ms) /\ DOMAIN new = 1..(Len(ms) + 1)
      /\ \A i \in DOMAIN ms : new[i] = ms[i]
      /\ new[y] = m
  BY <1>1, <1>2, <1>4, AppendIs
<1>6. /\ us \in Seq(Ids) /\ Len(ts) \in Nat
      /\ DOMAIN ts = 1..Len(ts) /\ DOMAIN us = 1..(Len(ts) + 1)
      /\ \A n \in DOMAIN ts : us[n] = ts[n]
      /\ us[z] = id
  BY <1>1, AppendIs
<1>7. /\ y \in DOMAIN new /\ y \notin DOMAIN ms /\ DOMAIN ms \subseteq DOMAIN new
      /\ \A i \in DOMAIN new : i \in DOMAIN ms \/ i = y
      /\ \A i \in DOMAIN ms : i \in Nat /\ i < y
  BY <1>5
<1>8. /\ z \in DOMAIN us /\ z \notin DOMAIN ts
      /\ \A n \in DOMAIN us : n \in DOMAIN ts \/ n = z
      /\ \A n \in DOMAIN ts : n \in DOMAIN us /\ n < z
  BY <1>6
<1> HIDE DEF us, y
<1>9. ms[c].role = "user" /\ ms[c].of = r /\ r # None
  BY RequestsAssumption DEF User, Id
<1>10. Len(ts) \in DOMAIN ts
  BY <1>1, <1>6, EmptySeq
<1>11. ms[c].status = "committed" /\ Place(ms, c) = c
  BY <1>9, <1>10, PlaceIs DEF InTurn
\* No turn comes after the input, so it had no answer.
<1>12. \A n \in DOMAIN ts : \A i \in DOMAIN ms : Id(ms[i]) = ts[n] => i = c \/ <<i, c>> \in Ordered(ms)
  <2> TAKE n \in DOMAIN ts
  <2> TAKE i \in DOMAIN ms
  <2> HAVE Id(ms[i]) = ts[n]
  <2>1. CASE n = Len(ts)
    BY <2>1 DEF Sound
  <2>2. CASE n # Len(ts)
    <3>1. n < Len(ts)
      BY <1>6, <2>2
    <3> QED BY <1>10, <3>1 DEF InTurn
  <2> QED BY <2>1, <2>2
<1>13. \A i \in DOMAIN ms : Id(ms[i]) # id
  <2> SUFFICES ASSUME NEW i \in DOMAIN ms, Id(ms[i]) = id PROVE FALSE
    OBVIOUS
  <2>1. ms[i].role = "assistant" /\ ms[i].of = r
    BY DEF id, Assistant, Id
  <2>2. PICK j \in DOMAIN ms : ms[j].role = "user" /\ ms[j].of = ms[i].of /\ ms[j].run = ms[i].run
    BY <2>1 DEF Sound
  <2>3. j = c
    BY <1>9, <2>1, <2>2, OneMessage
  <2>4. Place(ms, i) = c
    BY <1>9, <2>2, <2>3, PlaceIs
  <2>5. PICK n \in DOMAIN ts : ts[n] = Id(ms[i])
    BY <2>1 DEF InTurn
  <2>6. <<i, c>> \in Ordered(ms)
    BY <1>9, <1>12, <2>1, <2>5
  <2>7. c \in Nat
    BY MessageIs
  <2>8. ~(Place(ms, i) < Place(ms, c)) /\ ms[i].role # "user" /\ ms[i].role # ms[c].role
    BY <1>9, <1>11, <2>1, <2>4, <2>7
  <2> QED BY <2>6, <2>8, OrderedIs
<1>14. Sound(new)
  <2>1. \A i, j \in DOMAIN new : Id(new[i]) = Id(new[j]) => i = j
    BY <1>3, <1>5, <1>7, <1>13 DEF Sound
  <2>2. \A i \in DOMAIN new : new[i].run \in {None, new[i].of}
    BY <1>3, <1>5, <1>7 DEF Sound
  <2>3. \A i \in DOMAIN new : new[i].role = "user" => new[i].status \in {"queued", "committed", "cancelled"}
    BY <1>3, <1>5, <1>7 DEF Sound
  <2>4. ASSUME NEW i \in DOMAIN new, new[i].role = "assistant"
        PROVE  /\ new[i].status \in Ended \cup {"streaming"}
               /\ \E j \in DOMAIN new :
                      /\ new[j].role = "user" /\ new[j].of = new[i].of
                      /\ new[j].run = new[i].run /\ new[j].status = "committed"
    <3>1. CASE i \in DOMAIN ms
      <4>1. /\ ms[i].status \in Ended \cup {"streaming"}
            /\ \E j \in DOMAIN ms : /\ ms[j].role = "user" /\ ms[j].of = ms[i].of
                                    /\ ms[j].run = ms[i].run /\ ms[j].status = "committed"
        BY <1>5, <2>4, <3>1 DEF Sound
      <4> QED BY <1>5, <1>7, <3>1, <4>1
    <3>2. CASE i = y
      <4>1. new[i] = m /\ c \in DOMAIN new /\ new[c] = ms[c]
        BY <1>5, <1>7, <3>2
      <4> QED BY <1>3, <1>9, <1>11, <4>1
    <3> QED BY <1>7, <3>1, <3>2
  <2> QED BY <1>5, <2>1, <2>2, <2>3, <2>4 DEF Sound
<1>15. /\ \A i \in DOMAIN ms : Place(new, i) = Place(ms, i)
       /\ \A i, j \in DOMAIN ms : <<i, j>> \in Ordered(new) <=> <<i, j>> \in Ordered(ms)
  <2>1. \A i \in DOMAIN ms :
           /\ new[i].of = ms[i].of /\ new[i].role = ms[i].role
           /\ ms[i].role = "assistant" => new[i].run = ms[i].run
    BY <1>5
  <2>2. DOMAIN ms \subseteq DOMAIN new
    BY <1>7
  <2>3. ASSUME NEW g, Sound(g), DOMAIN ms \subseteq DOMAIN g,
               \A i \in DOMAIN ms :
                   /\ g[i].of = ms[i].of /\ g[i].role = ms[i].role
                   /\ ms[i].role = "assistant" => g[i].run = ms[i].run
        PROVE  /\ \A i \in DOMAIN ms : Place(g, i) = Place(ms, i)
               /\ \A i, j \in DOMAIN ms : <<i, j>> \in Ordered(g) <=> <<i, j>> \in Ordered(ms)
    BY <2>3, SamePlaces
  <2> QED BY <1>14, <2>1, <2>2, <2>3
<1>16. Place(new, y) = c
  <2>1. c \in DOMAIN new /\ new[c] = ms[c] /\ new[y] = m
    BY <1>5, <1>7
  <2> QED BY <1>3, <1>7, <1>9, <1>14, <2>1, PlaceIs
<1>17. ASSUME NEW n \in DOMAIN ts, NEW i \in DOMAIN new, Id(new[i]) = ts[n]
       PROVE  i \in DOMAIN ms /\ Id(ms[i]) = ts[n] /\ new[i] = ms[i]
  <2>1. PICK k \in DOMAIN ms : Id(ms[k]) = ts[n]
    BY DEF InTurn
  <2>2. Id(new[k]) = Id(new[i]) /\ k \in DOMAIN new
    BY <1>5, <1>7, <1>17, <2>1
  <2>3. k = i
    BY <1>14, <2>2 DEF Sound
  <2> QED BY <1>5, <2>1, <2>3
<1>18. ASSUME NEW i \in DOMAIN new, Id(new[i]) = id
       PROVE  i = y
  BY <1>5, <1>7, <1>13, <1>18
<1>19. \A k, n \in DOMAIN us : us[k] = us[n] => k = n
  <2>1. \A n \in DOMAIN ts : ts[n] # id
    BY <1>13 DEF InTurn
  <2> QED BY <1>6, <1>8, <2>1 DEF InTurn
<1>20. \A n \in DOMAIN us : \E i \in DOMAIN new : Id(new[i]) = us[n]
  <2> TAKE n \in DOMAIN us
  <2>1. CASE n \in DOMAIN ts
    BY <1>5, <1>6, <1>7, <2>1 DEF InTurn
  <2>2. CASE n = z
    BY <1>3, <1>5, <1>6, <1>7, <2>2
  <2> QED BY <1>8, <2>1, <2>2
<1>21. ASSUME NEW i \in DOMAIN new
       PROVE  (\E n \in DOMAIN us : us[n] = Id(new[i])) <=> (new[i].role = "user" => new[i].status = "committed")
  <2>1. CASE i = y
    BY <1>3, <1>5, <1>6, <1>8, <2>1
  <2>2. CASE i \in DOMAIN ms
    <3>1. (\E n \in DOMAIN us : us[n] = Id(new[i])) <=> (\E n \in DOMAIN ts : ts[n] = Id(ms[i]))
      BY <1>5, <1>6, <1>8, <1>13, <2>2
    <3> QED BY <1>5, <2>2, <3>1 DEF InTurn
  <2> QED BY <1>7, <2>1, <2>2
<1>22. ASSUME NEW k \in DOMAIN us, NEW n \in DOMAIN us, NEW i \in DOMAIN new, NEW j \in DOMAIN new,
              k < n, Id(new[i]) = us[k], Id(new[j]) = us[n]
       PROVE  <<i, j>> \in Ordered(new)
  <2>1. k \in DOMAIN ts /\ us[k] = ts[k]
    BY <1>6, <1>8, <1>22
  <2>2. i \in DOMAIN ms /\ Id(ms[i]) = ts[k] /\ new[i] = ms[i]
    BY <1>17, <1>22, <2>1
  <2>3. CASE n \in DOMAIN ts
    <3>1. j \in DOMAIN ms /\ Id(ms[j]) = ts[n]
      BY <1>6, <1>17, <1>22, <2>3
    <3>2. <<i, j>> \in Ordered(ms)
      BY <1>22, <2>1, <2>2, <2>3, <3>1 DEF InTurn
    <3> QED BY <1>15, <2>2, <3>1, <3>2
  <2>4. CASE n = z
    <3>1. j = y
      BY <1>6, <1>18, <1>22, <2>4
    <3>2. <<c, y>> \in Ordered(new)
      <4>1. Place(new, c) = Place(new, y) /\ c \in DOMAIN new
        BY <1>7, <1>11, <1>15, <1>16
      <4>2. new[c].role = "user" /\ new[y].role = "assistant"
        BY <1>3, <1>5, <1>9
      <4> QED BY <1>7, <1>14, <4>1, <4>2, OrderedIs
    <3>3. CASE i = c
      BY <3>1, <3>2, <3>3
    <3>4. CASE i # c
      <4>1. <<i, c>> \in Ordered(new)
        BY <1>12, <1>15, <2>1, <2>2, <3>4
      <4>2. i \in DOMAIN new /\ c \in DOMAIN new /\ y \in DOMAIN new
        BY <1>7
      <4> QED BY <1>14, <3>1, <3>2, <4>1, <4>2, OrderedIsTotal
    <3> QED BY <3>3, <3>4
  <2> QED BY <1>8, <2>3, <2>4
<1>23. ASSUME NEW n \in DOMAIN us, NEW i \in DOMAIN new, NEW j \in DOMAIN new,
              Id(new[i]) = us[n], Waits(new, j)
       PROVE  Place(new, i) < j
  <2>1. j \in DOMAIN ms /\ Waits(ms, j)
    BY <1>3, <1>5, <1>7, <1>23 DEF Waits
  <2>2. CASE n \in DOMAIN ts
    <3>1. i \in DOMAIN ms /\ Id(ms[i]) = ts[n]
      BY <1>6, <1>17, <1>23, <2>2
    <3> QED BY <1>15, <2>1, <2>2, <3>1 DEF InTurn
  <2>3. CASE n = z
    <3>1. i = y
      BY <1>6, <1>18, <1>23, <2>3
    <3>2. Place(ms, c) < j
      BY <1>10, <2>1 DEF InTurn
    <3> QED BY <1>11, <1>16, <3>1, <3>2
  <2> QED BY <1>8, <2>2, <2>3
<1>24. InTurn(new, us)
  <2>1. \A k, n \in DOMAIN us : \A i, j \in DOMAIN new :
           k < n /\ Id(new[i]) = us[k] /\ Id(new[j]) = us[n] => <<i, j>> \in Ordered(new)
    BY <1>22
  <2>2. \A n \in DOMAIN us : \A i, j \in DOMAIN new :
           Id(new[i]) = us[n] /\ Waits(new, j) => Place(new, i) < j
    BY <1>23
  <2>3. \A i \in DOMAIN new :
           (\E n \in DOMAIN us : us[n] = Id(new[i])) <=> (new[i].role = "user" => new[i].status = "committed")
    BY <1>21
  <2> QED BY <1>6, <1>19, <1>20, <2>1, <2>2, <2>3 DEF InTurn
<1> QED BY <1>14, <1>24 DEF us, id

LEMMA CopiedIs ==
    ASSUME NEW m \in MessageType
    PROVE  /\ Copied(m) \in MessageType
           /\ Copied(m).of = m.of /\ Copied(m).role = m.role /\ Copied(m).run = None
           /\ Copied(m).status = IF m.status = "queued" THEN "cancelled"
                                 ELSE IF m.status = "streaming" THEN "interrupted" ELSE m.status
<1> DEFINE st == CASE m.status = "queued" -> "cancelled" [] m.status = "streaming" -> "interrupted"
                   [] OTHER -> m.status
<1>1. st = IF m.status = "queued" THEN "cancelled" ELSE IF m.status = "streaming" THEN "interrupted" ELSE m.status
  OBVIOUS
<1>3. Copied(m) = [of |-> m.of, role |-> m.role, status |-> st, run |-> None]
  BY DEF Copied, Message
<1>4. m.of \in Requests /\ m.role \in {"user", "assistant"} /\ m.status \in Statuses
  BY DEF MessageType
<1>5. st \in Statuses
  BY <1>1, <1>4 DEF Statuses, Ended
<1> HIDE DEF st
<1>6. Copied(m) \in MessageType
  BY <1>3, <1>4, <1>5 DEF MessageType
<1> QED BY <1>1, <1>3, <1>6

\* A clone has the messages in the order of the turns, none with a Run, none waiting
\* and none open: from then on the order of the file is that of the turns.
LEMMA CloneTurn ==
    ASSUME NEW ms, Sound(ms), NEW ts, InTurn(ms, ts), NEW new, new = ForClone(ms)
    PROVE  /\ Sound(new) /\ InTurn(new, ts)
           /\ \A i \in DOMAIN new : new[i].status \notin {"queued", "streaming"}
<1> DEFINE S == DOMAIN ms
           R == Ordered(ms)
           g == Listed(S, R)
           c == Cardinality(S)
<1>1. ms \in Seq(MessageType) /\ Len(ms) \in Nat /\ S = 1..Len(ms)
  BY LenProperties DEF Sound
<1>2. IsFiniteSet(S) /\ c = Len(ms)
  <2>1. 1 \in Int /\ Len(ms) \in Int /\ (IF 1 > Len(ms) THEN 0 ELSE Len(ms) - 1 + 1) = Len(ms)
    BY <1>1
  <2> QED BY <1>1, <2>1, FS_Interval
<1>3. /\ \A x, y \in S : <<x, y>> \in R => <<y, x>> \notin R
      /\ \A x, y, z \in S : <<x, y>> \in R /\ <<y, z>> \in R => <<x, z>> \in R
      /\ \A x, y \in S : x = y \/ <<x, y>> \in R \/ <<y, x>> \in R
  <2> HIDE DEF R
  <2> QED BY OrderedIsTotal DEF R
<1>4. /\ g \in [1..c -> S]
      /\ \A x \in S : \E n \in 1..c : g[n] = x
      /\ \A m, n \in 1..c : m < n => <<g[m], g[n]>> \in R
  <2> HIDE DEF R, S
  <2> QED BY <1>2, <1>3, ListedSorts
<1>5. new = [n \in S |-> Copied(ms[g[n]])]
  BY DEF ForClone
<1> HIDE DEF g, R
<1>6. /\ \A n \in S : g[n] \in S /\ n \in Nat
      /\ \A x \in S : \E n \in S : g[n] = x
      /\ \A m, n \in S : m < n => <<g[m], g[n]>> \in R
  <2>1. 1..c = S /\ \A n \in S : n \in Nat
    BY <1>1, <1>2
  <2> HIDE DEF S, c
  <2> QED BY <1>4, <2>1
<1>7. \A m, n \in S : g[m] = g[n] => m = n
  <2> TAKE m \in S, n \in S
  <2> HAVE g[m] = g[n]
  <2>1. g[m] \in S /\ g[n] \in S /\ m \in Nat /\ n \in Nat
    BY <1>6
  <2>2. <<g[m], g[n]>> \notin R /\ <<g[n], g[m]>> \notin R
    BY <1>3, <2>1
  <2>3. ~(m < n) /\ ~(n < m)
    BY <1>6, <2>2
  <2> QED BY <2>1, <2>3
<1>8. ASSUME NEW n \in S
      PROVE  /\ new[n] \in MessageType /\ g[n] \in S
             /\ new[n].of = ms[g[n]].of /\ new[n].role = ms[g[n]].role /\ new[n].run = None
             /\ Id(new[n]) = Id(ms[g[n]])
             /\ new[n].status = IF ms[g[n]].status = "queued" THEN "cancelled"
                                ELSE IF ms[g[n]].status = "streaming" THEN "interrupted" ELSE ms[g[n]].status
  <2>1. g[n] \in S /\ new[n] = Copied(ms[g[n]])
    BY <1>5, <1>6
  <2>2. ms[g[n]] \in MessageType
    BY <2>1, MessageIs
  <2> QED BY <2>1, <2>2, CopiedIs DEF Id
<1>9. new \in Seq(MessageType) /\ DOMAIN new = S
  <2>1. new = [n \in 1..Len(ms) |-> new[n]]
    BY <1>1, <1>5
  <2>2. \A n \in 1..Len(ms) : new[n] \in MessageType
    BY <1>1, <1>8
  <2>3. DOMAIN new = S
    BY <1>5
  <2> HIDE DEF S
  <2> QED BY <1>1, <2>1, <2>2, <2>3, IsASeq
<1> HIDE DEF S, c
<1>10. \A i \in DOMAIN new : new[i].status \notin {"queued", "streaming"}
  BY <1>8, <1>9
<1>11. S = DOMAIN ms
  BY DEF S
<1>12. Sound(new)
  <2>1. \A i, j \in DOMAIN new : Id(new[i]) = Id(new[j]) => i = j
    <3> TAKE i \in DOMAIN new, j \in DOMAIN new
    <3> HAVE Id(new[i]) = Id(new[j])
    <3>1. Id(ms[g[i]]) = Id(ms[g[j]]) /\ g[i] \in DOMAIN ms /\ g[j] \in DOMAIN ms
      BY <1>8, <1>9, <1>11
    <3>2. g[i] = g[j]
      BY <3>1 DEF Sound
    <3> QED BY <1>7, <1>9, <3>2
  <2>2. \A i \in DOMAIN new : new[i].run \in {None, new[i].of}
    BY <1>8, <1>9
  <2>3. ASSUME NEW i \in DOMAIN new, new[i].role = "user"
        PROVE  new[i].status \in {"queued", "committed", "cancelled"}
    <3>0. g[i] \in DOMAIN ms /\ ms[g[i]].role = "user"
      BY <1>8, <1>9, <1>11, <2>3
    <3>1. ms[g[i]].status \in {"queued", "committed", "cancelled"}
      BY <3>0 DEF Sound
    <3> QED BY <1>8, <1>9, <3>1
  <2>4. ASSUME NEW i \in DOMAIN new, new[i].role = "assistant"
        PROVE  /\ new[i].status \in Ended \cup {"streaming"}
               /\ \E j \in DOMAIN new :
                      /\ new[j].role = "user" /\ new[j].of = new[i].of
                      /\ new[j].run = new[i].run /\ new[j].status = "committed"
    <3>1. i \in S /\ g[i] \in DOMAIN ms /\ ms[g[i]].role = "assistant"
      BY <1>8, <1>9, <1>11, <2>4
    <3>2. ms[g[i]].status \in Ended \cup {"streaming"}
      BY <3>1 DEF Sound
    <3>3. PICK k \in DOMAIN ms : ms[k].role = "user" /\ ms[k].of = ms[g[i]].of /\ ms[k].status = "committed"
      BY <3>1 DEF Sound
    <3>4. PICK j \in S : g[j] = k
      BY <1>6, <1>11
    <3>5. new[j].role = "user" /\ new[j].of = new[i].of /\ new[j].run = new[i].run /\ new[j].status = "committed"
      BY <1>8, <3>1, <3>3, <3>4
    <3>6. new[i].status \in Ended \cup {"streaming"}
      BY <1>8, <3>1, <3>2 DEF Ended
    <3> QED BY <1>9, <3>5, <3>6
  <2> QED BY <1>9, <2>1, <2>2, <2>3, <2>4 DEF Sound
<1>13. \A i \in DOMAIN new : Place(new, i) = i
  BY <1>8, <1>9, <1>12, PlaceIs
<1>14. ts \in Seq(Ids) /\ \A k, n \in DOMAIN ts : ts[k] = ts[n] => k = n
  BY DEF InTurn
<1>15. \A n \in DOMAIN ts : \E i \in DOMAIN new : Id(new[i]) = ts[n]
  <2> TAKE n \in DOMAIN ts
  <2>1. PICK k \in DOMAIN ms : Id(ms[k]) = ts[n]
    BY DEF InTurn
  <2>2. PICK i \in S : g[i] = k
    BY <1>6, <1>11
  <2> QED BY <1>8, <1>9, <2>1, <2>2
<1>16. ASSUME NEW i \in DOMAIN new
       PROVE  (\E n \in DOMAIN ts : ts[n] = Id(new[i])) <=> (new[i].role = "user" => new[i].status = "committed")
  <2>1. g[i] \in DOMAIN ms /\ Id(new[i]) = Id(ms[g[i]]) /\ new[i].role = ms[g[i]].role
    BY <1>8, <1>9, <1>11
  <2>2. (\E n \in DOMAIN ts : ts[n] = Id(ms[g[i]])) <=> (ms[g[i]].role = "user" => ms[g[i]].status = "committed")
    BY <2>1 DEF InTurn
  <2>3. new[i].status = "committed" <=> ms[g[i]].status = "committed"
    BY <1>8, <1>9
  <2> QED BY <2>1, <2>2, <2>3
<1>17. ASSUME NEW k \in DOMAIN ts, NEW n \in DOMAIN ts, NEW i \in DOMAIN new, NEW j \in DOMAIN new,
              k < n, Id(new[i]) = ts[k], Id(new[j]) = ts[n]
       PROVE  <<i, j>> \in Ordered(new)
  <2>1. /\ i \in S /\ j \in S /\ i \in Nat /\ j \in Nat
        /\ g[i] \in DOMAIN ms /\ g[j] \in DOMAIN ms
        /\ Id(ms[g[i]]) = ts[k] /\ Id(ms[g[j]]) = ts[n]
    BY <1>6, <1>8, <1>9, <1>11, <1>17
  <2>2. <<g[i], g[j]>> \in R
    BY <1>17, <2>1 DEF InTurn, R
  <2>3. <<g[j], g[i]>> \notin R
    BY <1>3, <1>11, <2>1, <2>2
  <2>4. i # j
    BY <2>2, <2>3
  <2>5. i < j
    BY <1>6, <2>1, <2>3, <2>4
  <2> QED BY <1>12, <1>13, <2>1, <2>5, OrderedIs
<1>18. \A j : ~Waits(new, j)
  BY <1>10 DEF Waits
<1>19. InTurn(new, ts)
  <2>1. \A k, n \in DOMAIN ts : \A i, j \in DOMAIN new :
           k < n /\ Id(new[i]) = ts[k] /\ Id(new[j]) = ts[n] => <<i, j>> \in Ordered(new)
    BY <1>17
  <2>2. \A i \in DOMAIN new :
           (\E n \in DOMAIN ts : ts[n] = Id(new[i])) <=> (new[i].role = "user" => new[i].status = "committed")
    BY <1>16
  <2> QED BY <1>14, <1>15, <1>18, <2>1, <2>2 DEF InTurn
<1> QED BY <1>10, <1>12, <1>19

-----------------------------------------------------------------------------
(* What an Engine is shown, and the queue an attached manager starts with.   *)

LEMMA ContextIs ==
    ASSUME Sound(messages), InTurn(messages, turns), NEW r \in Requests,
           Len(turns) > 1, turns[Len(turns) - 1] = User(r), turns[Len(turns)] = Assistant(r),
           \A i \in DOMAIN messages : messages[i].status = "streaming" => Id(messages[i]) = Assistant(r)
    PROVE  /\ Context(r) = Front(turns)
           /\ Front(turns) \in Seq(Ids) /\ Len(Front(turns)) = Len(turns) - 1
           /\ \A n \in 1..(Len(turns) - 1) : Front(turns)[n] = turns[n]
<1> DEFINE L == Len(turns) - 1
           D == DOMAIN messages
           pos == [n \in 1..L |-> CHOOSE i \in D : Id(messages[i]) = turns[n]]
           R == Ordered(messages)
           p == CHOOSE i \in D : Id(messages[i]) = User(r)
           S == ForLoop(messages, ForRun(messages, r))
<1>1. turns \in Seq(Ids) /\ Len(turns) \in Nat /\ DOMAIN turns = 1..Len(turns)
  BY LenProperties DEF InTurn
<1>2. L \in Nat /\ L \in 1..L /\ \A n \in 1..L : n \in DOMAIN turns /\ n \in Nat /\ n <= L
  BY <1>1
<1>3. L + 1 \in DOMAIN turns /\ L + 1 = Len(turns) /\ \A n \in DOMAIN turns : n \in 1..L \/ n = L + 1
  BY <1>1
<1>4. turns[L] = User(r) /\ turns[L + 1] = Assistant(r)
  BY <1>3
<1> HIDE DEF L
<1>5. ASSUME NEW n \in 1..L
      PROVE  pos[n] \in D /\ Id(messages[pos[n]]) = turns[n]
  <2>1. \E i \in D : Id(messages[i]) = turns[n]
    BY <1>2 DEF InTurn
  <2>2. pos[n] = CHOOSE i \in D : Id(messages[i]) = turns[n]
    OBVIOUS
  <2> HIDE DEF pos, D
  <2> QED BY <2>1, <2>2
<1> HIDE DEF pos
<1>6. \A i, j \in D : Id(messages[i]) = Id(messages[j]) => i = j
  BY DEF Sound
<1>7. p \in D /\ Id(messages[p]) = User(r)
  <2>1. \E i \in D : Id(messages[i]) = User(r)
    BY <1>2, <1>4, <1>5
  <2> HIDE DEF D
  <2> QED BY <2>1
<1> HIDE DEF p
<1>8. messages[p].role = "user" /\ messages[p].status = "committed"
  <2>1. messages[p].role = "user"
    BY <1>7 DEF Id, User
  <2>2. \E n \in DOMAIN turns : turns[n] = Id(messages[p])
    BY <1>2, <1>4, <1>7
  <2> QED BY <1>7, <2>1, <2>2 DEF InTurn
<1>9. S = {i \in D : /\ i = p \/ (<<i, p>> \in R /\ Selected(messages, messages[i]))
                     /\ IF messages[i].role = "user" THEN messages[i].status = "committed"
                        ELSE messages[i].status \in Ended}
  BY <1>7 DEF ForLoop, ForRun, p
<1>10. ASSUME NEW i \in S
       PROVE  \E n \in 1..L : pos[n] = i
  <2>1. i \in D /\ (messages[i].role = "user" => messages[i].status = "committed")
    BY <1>9
  <2>2. PICK n \in DOMAIN turns : turns[n] = Id(messages[i])
    BY <2>1 DEF InTurn
  <2>3. n # L + 1
    <3> SUFFICES ASSUME n = L + 1 PROVE FALSE
      OBVIOUS
    <3>1. Id(messages[i]) = Assistant(r)
      BY <1>4, <2>2
    <3>2. i # p
      BY <1>8, <3>1 DEF Assistant, Id
    <3>3. <<i, p>> \in R
      BY <1>9, <3>2
    <3>4. <<p, i>> \in R
      <4>1. L \in DOMAIN turns /\ L < L + 1
        BY <1>2
      <4> QED BY <1>3, <1>4, <1>7, <2>1, <2>2, <4>1 DEF InTurn
    <3> QED BY <1>7, <2>1, <3>3, <3>4, OrderedIsTotal
  <2>4. n \in 1..L
    BY <1>3, <2>3
  <2>5. pos[n] = i
    BY <1>5, <1>6, <2>1, <2>2, <2>4
  <2> QED BY <2>4, <2>5
<1>11. ASSUME NEW n \in 1..L
       PROVE  pos[n] \in S
  <2> DEFINE i == pos[n]
  <2>1. i \in D /\ Id(messages[i]) = turns[n] /\ n \in DOMAIN turns
    BY <1>2, <1>5
  <2> HIDE DEF i
  <2>2. messages[i].role = "user" => messages[i].status = "committed"
    BY <2>1 DEF InTurn
  <2>3. i = p \/ <<i, p>> \in R
    <3>1. CASE n = L
      BY <1>4, <1>6, <1>7, <2>1, <3>1
    <3>2. CASE n # L
      <4>1. n < L /\ L \in DOMAIN turns
        BY <1>2, <3>2
      <4> QED BY <1>4, <1>7, <2>1, <4>1 DEF InTurn
    <3> QED BY <3>1, <3>2
  <2>4. messages[i].role = "user" \/ messages[i].role = "assistant"
    BY <2>1, MessageIs
  <2>5. messages[i].role = "assistant" => messages[i].status \in Ended /\ Selected(messages, messages[i])
    <3> SUFFICES ASSUME messages[i].role = "assistant"
                 PROVE  messages[i].status \in Ended /\ Selected(messages, messages[i])
      OBVIOUS
    <3>1. Id(messages[i]) # Assistant(r)
      <4>1. L + 1 \in DOMAIN turns /\ n # L + 1
        BY <1>2, <1>3
      <4> QED BY <1>4, <2>1, <4>1 DEF InTurn
    <3>2. messages[i].status \in Ended \cup {"streaming"}
      BY <2>1 DEF Sound
    <3>3. messages[i].status \in Ended
      BY <2>1, <3>1, <3>2
    <3>4. PICK j \in D : messages[j].role = "user" /\ messages[j].run = messages[i].run
                         /\ messages[j].status = "committed"
      BY <2>1 DEF Sound
    <3>5. messages[j] \in ToSet(messages)
      BY DEF ToSet
    <3> QED BY <3>3, <3>4, <3>5 DEF Selected
  <2>6. messages[i].role = "user" => Selected(messages, messages[i])
    BY <2>2 DEF Selected
  <2>7. i \in S
    BY <1>9, <2>1, <2>2, <2>3, <2>4, <2>5, <2>6
  <2> QED BY <2>7 DEF i
<1>12. ASSUME NEW m \in 1..L, NEW n \in 1..L, m < n
       PROVE  <<pos[m], pos[n]>> \in R
  BY <1>2, <1>5, <1>12 DEF InTurn
<1>13. \A x, y \in S : <<x, y>> \in R => <<y, x>> \notin R
  <2>1. S \subseteq D
    BY <1>9
  <2> QED BY <2>1, OrderedIsTotal
<1>14. pos \in [1..L -> S]
  <2>1. pos = [n \in 1..L |-> pos[n]]
    BY DEF pos
  <2> HIDE DEF S
  <2> QED BY <1>11, <2>1
<1> HIDE DEF S, R
<1>15. Listed(S, R) = pos
  BY <1>2, <1>10, <1>12, <1>13, <1>14, ListedIs
<1>16. Context(r) = [n \in DOMAIN pos |-> Id(messages[pos[n]])]
  BY <1>15 DEF Context, S, R
<1>17. Context(r) = [n \in 1..L |-> turns[n]]
  <2>1. DOMAIN pos = 1..L
    BY <1>14
  <2> QED BY <1>5, <1>16, <2>1
<1>18. /\ Front(turns) \in Seq(Ids) /\ Len(Front(turns)) = L
       /\ \A n \in 1..L : Front(turns)[n] = turns[n]
  <2>1. Front(turns) = SubSeq(turns, 1, L)
    BY DEF Front, L
  <2>2. /\ SubSeq(turns, 1, L) \in Seq(Ids) /\ Len(SubSeq(turns, 1, L)) = L
        /\ \A n \in 1..L : SubSeq(turns, 1, L)[n] = turns[n]
    <3>1. 1 \in 1..(Len(turns) + 1) /\ L \in 0..Len(turns)
      BY <1>1, <1>2, <1>3
    <3> QED BY <1>1, <1>2, <1>3, <3>1, SubSeqProperties
  <2> QED BY <2>1, <2>2
<1>19. Context(r) = Front(turns)
  <2>1. Front(turns) = [n \in 1..L |-> Front(turns)[n]]
    <3>1. Front(turns) \in Seq(Ids)
      BY <1>18
    <3> QED BY <1>18, <3>1, LenProperties
  <2> QED BY <1>17, <1>18, <2>1
<1> QED BY <1>18, <1>19 DEF L

\* The inputs that wait, read from the file, are in line.
LEMMA LineFromFile ==
    ASSUME NEW ms, Sound(ms), NEW q, q = Queued(ms)
    PROVE  /\ q \in Seq(Requests) /\ InLine(ms, q)
           /\ \A i \in DOMAIN ms : Waits(ms, i) => \E k \in DOMAIN q : Id(ms[i]) = User(q[k])
<1> DEFINE S == {i \in DOMAIN ms : ms[i].status = "queued"}
           R == AsWritten(ms)
           g == Listed(S, R)
           c == Cardinality(S)
<1>1. Len(ms) \in Nat /\ DOMAIN ms = 1..Len(ms)
  BY LenProperties DEF Sound
<1>2. IsFiniteSet(S)
  <2>1. IsFiniteSet(1..Len(ms))
    BY <1>1, FS_Interval
  <2>2. S \in SUBSET (1..Len(ms))
    BY <1>1
  <2> HIDE DEF S
  <2> QED BY <2>1, <2>2, FS_Subset
<1>3. \A x, y \in S : x \in Nat /\ y \in Nat /\ (<<x, y>> \in R <=> x < y)
  BY <1>1 DEF AsWritten
<1>4. c \in Nat
  BY <1>2, FS_CardinalityType
<1>5. /\ g \in [1..c -> S]
      /\ \A x \in S : \E n \in 1..c : g[n] = x
      /\ \A m, n \in 1..c : m < n => <<g[m], g[n]>> \in R
  <2> HIDE DEF S, R
  <2>1. \A x, y \in S : <<x, y>> \in R => <<y, x>> \notin R
    BY <1>3
  <2>2. \A x, y, z \in S : <<x, y>> \in R /\ <<y, z>> \in R => <<x, z>> \in R
    BY <1>3
  <2>3. \A x, y \in S : x = y \/ <<x, y>> \in R \/ <<y, x>> \in R
    <3> TAKE x \in S, y \in S
    <3>1. x \in Nat /\ y \in Nat /\ (<<x, y>> \in R <=> x < y) /\ (<<y, x>> \in R <=> y < x)
      BY <1>3
    <3> QED BY <3>1
  <2> QED BY <1>2, <2>1, <2>2, <2>3, ListedSorts
<1>6. q = [n \in DOMAIN g |-> ms[g[n]].of]
  BY DEF Queued
<1>7. \A i \in S : i \in DOMAIN ms /\ Waits(ms, i) /\ Id(ms[i]) = User(ms[i].of) /\ ms[i].of \in Requests
  <2> TAKE i \in S
  <2>1. ms[i].role \in {"user", "assistant"} /\ ms[i].of \in Requests
    BY MessageIs
  <2>2. ms[i].role # "assistant"
    BY DEF Sound, Ended
  <2> QED BY <2>1, <2>2 DEF Waits, Id, User
<1>8. \A i : Waits(ms, i) => i \in S
  BY DEF Waits
<1> HIDE DEF S, R, g, c
<1>9. /\ DOMAIN q = 1..c
      /\ \A k \in 1..c : g[k] \in S /\ k \in Nat /\ q[k] = ms[g[k]].of /\ q[k] \in Requests
  <2>1. DOMAIN g = 1..c
    BY <1>5
  <2>2. DOMAIN q = 1..c
    BY <1>6, <2>1
  <2>3. ASSUME NEW k \in 1..c
        PROVE  g[k] \in S /\ k \in Nat /\ q[k] = ms[g[k]].of /\ q[k] \in Requests
    <3>1. g[k] \in S /\ k \in Nat
      BY <1>5
    <3>2. q[k] = ms[g[k]].of
      BY <1>6, <2>1
    <3> QED BY <1>7, <3>1, <3>2
  <2> QED BY <2>2, <2>3
<1>10. q \in Seq(Requests)
  <2>1. q = [n \in 1..c |-> q[n]]
    <3>1. DOMAIN g = 1..c
      BY <1>5
    <3>2. q = [n \in 1..c |-> ms[g[n]].of]
      BY <1>6, <3>1
    <3> HIDE DEF c
    <3> QED BY <3>2
  <2>2. \A k \in 1..c : q[k] \in Requests
    BY <1>9
  <2>3. ASSUME NEW h, NEW n \in Nat, h = [k \in 1..n |-> h[k]], \A k \in 1..n : h[k] \in Requests
        PROVE  h \in Seq(Requests)
    BY <2>3, IsASeq
  <2> QED BY <1>4, <2>1, <2>2, <2>3
<1>11. InLine(ms, q)
  <2>1. \A k \in DOMAIN q : \E i \in DOMAIN ms : Id(ms[i]) = User(q[k]) /\ Waits(ms, i)
    BY <1>7, <1>9
  <2>2. ASSUME NEW k \in DOMAIN q, NEW l \in DOMAIN q, NEW i \in DOMAIN ms, NEW j \in DOMAIN ms,
               k < l, Id(ms[i]) = User(q[k]), Id(ms[j]) = User(q[l])
        PROVE  i < j
    <3>1. Id(ms[i]) = Id(ms[g[k]]) /\ Id(ms[j]) = Id(ms[g[l]]) /\ g[k] \in DOMAIN ms /\ g[l] \in DOMAIN ms
      BY <1>7, <1>9, <2>2
    <3>2. i = g[k] /\ j = g[l]
      BY <3>1 DEF Sound
    <3>3. <<g[k], g[l]>> \in R
      BY <1>5, <1>9, <2>2
    <3> QED BY <1>3, <1>9, <3>2, <3>3
  <2> QED BY <2>1, <2>2 DEF InLine
<1>12. \A i \in DOMAIN ms : Waits(ms, i) => \E k \in DOMAIN q : Id(ms[i]) = User(q[k])
  <2> TAKE i \in DOMAIN ms
  <2> HAVE Waits(ms, i)
  <2>1. PICK k \in 1..c : g[k] = i
    BY <1>5, <1>8
  <2> QED BY <1>7, <1>8, <1>9, <2>1
<1> QED BY <1>10, <1>11, <1>12

\* A step that leaves the waiting inputs where they are leaves the line in order.
LEMMA LineKeeps ==
    ASSUME NEW ms, NEW q, InLine(ms, q), NEW new, Sound(new), DOMAIN ms \subseteq DOMAIN new,
           \A i \in DOMAIN ms : Id(new[i]) = Id(ms[i]),
           \A k \in DOMAIN q : \A i \in DOMAIN ms :
               Id(ms[i]) = User(q[k]) /\ Waits(ms, i) => new[i].status = "queued"
    PROVE  InLine(new, q)
<1>1. ASSUME NEW k \in DOMAIN q
      PROVE  \E i \in DOMAIN ms : Id(ms[i]) = User(q[k]) /\ i \in DOMAIN new
                                  /\ Id(new[i]) = User(q[k]) /\ Waits(new, i)
  BY DEF InLine, Waits
<1>2. ASSUME NEW k \in DOMAIN q, NEW l \in DOMAIN q, NEW i \in DOMAIN new, NEW j \in DOMAIN new,
             k < l, Id(new[i]) = User(q[k]), Id(new[j]) = User(q[l])
      PROVE  i < j
  <2>1. PICK x \in DOMAIN ms : Id(ms[x]) = User(q[k]) /\ x \in DOMAIN new /\ Id(new[x]) = User(q[k])
    BY <1>1
  <2>2. PICK y \in DOMAIN ms : Id(ms[y]) = User(q[l]) /\ y \in DOMAIN new /\ Id(new[y]) = User(q[l])
    BY <1>1
  <2>3. i = x /\ j = y
    BY <1>2, <2>1, <2>2 DEF Sound
  <2> QED BY <1>2, <2>1, <2>2, <2>3 DEF InLine
<1> QED BY <1>1, <1>2 DEF InLine

-----------------------------------------------------------------------------
(* Each step keeps the invariant.                                            *)

LEMMA InitKeeps == Init => ContextInv
<1> SUFFICES ASSUME Init PROVE ContextInv
  OBVIOUS
<1>1. messages = <<>> /\ queue = <<>> /\ turns = <<>> /\ shown = <<>> /\ at = "idle" /\ run = None /\ marked = FALSE
  BY DEF Init
<1>2. DOMAIN messages = {} /\ DOMAIN queue = {} /\ DOMAIN turns = {} /\ DOMAIN shown = {}
  BY <1>1
<1>3. Len(shown) = 0 /\ Len(turns) = 0
  BY <1>1
<1>4. TypeInv
  <2>1. <<>> \in Seq(MessageType) /\ <<>> \in Seq(Requests) /\ <<>> \in Seq(Ids)
    BY EmptySeq
  <2>2. run \in Requests \cup {None} /\ at \in Stages /\ marked \in BOOLEAN
    BY <1>1 DEF Stages
  <2> QED BY <1>1, <2>1, <2>2 DEF TypeInv
<1>5. Sound(messages)
  BY <1>2, <1>4 DEF Sound, TypeInv
<1>6. InTurn(messages, turns)
  BY <1>2, <1>4 DEF InTurn, TypeInv
<1>7. QueueInv
  BY <1>2 DEF QueueInv, InLine
<1>8. RunInv
  BY <1>1, <1>2 DEF RunInv, First
<1>9. OpenInv /\ ShownInv
  BY <1>1, <1>2, <1>3 DEF OpenInv, ShownInv
<1> QED BY <1>4, <1>5, <1>6, <1>7, <1>8, <1>9 DEF ContextInv

\* The request in hand has its input in the file.
LEMMA RunIs ==
    ASSUME ContextInv, at \in {"bind", "commit", "open", "mark", "context", "execute", "settle"}
    PROVE  run \in Requests /\ \E i \in DOMAIN messages : Id(messages[i]) = User(run)
<1>1. \E i \in DOMAIN messages : Id(messages[i]) = User(run)
  BY DEF ContextInv, RunInv
<1>2. PICK i \in DOMAIN messages : Id(messages[i]) = User(run)
  BY <1>1
<1>3. messages[i].of \in Requests /\ messages[i].of = run
  BY <1>2, MessageIs DEF ContextInv, Id, User
<1> QED BY <1>1, <1>3

LEMMA SubmitKeeps == ASSUME ContextInv, NEW r \in Requests, Submit(r) PROVE ContextInv'
<1> DEFINE m == Message(r, "user", "queued", None)
           y == Len(messages) + 1
           z == Len(queue) + 1
<1>1. Sound(messages) /\ InTurn(messages, turns) /\ TypeInv
  BY DEF ContextInv
<1>2. /\ messages' = Append(messages, m) /\ queue' = Append(queue, r)
      /\ at # "down" /\ at' = at /\ run' = run /\ turns' = turns /\ shown' = shown /\ marked' = marked
      /\ \A e \in ToSet(messages) : e.of # r
  BY DEF Submit
<1>3. Sound(messages') /\ InTurn(messages', turns)
  BY <1>1, <1>2, SubmitTurn
<1>4. m \in MessageType /\ Id(m) = User(r) /\ m.status = "queued"
  BY DEF Message, MessageType, Statuses, Id, User
<1> HIDE DEF m
<1>5. /\ messages' \in Seq(MessageType) /\ Len(messages) \in Nat
      /\ DOMAIN messages = 1..Len(messages) /\ DOMAIN messages' = 1..(Len(messages) + 1)
      /\ \A i \in DOMAIN messages : messages'[i] = messages[i]
      /\ messages'[y] = m
  BY <1>1, <1>2, <1>4, AppendIs DEF TypeInv
<1>6. /\ queue' \in Seq(Requests) /\ Len(queue) \in Nat
      /\ DOMAIN queue = 1..Len(queue) /\ DOMAIN queue' = 1..(Len(queue) + 1)
      /\ \A k \in DOMAIN queue : queue'[k] = queue[k]
      /\ queue'[z] = r
  BY <1>1, <1>2, AppendIs DEF TypeInv
<1>7. /\ y \in DOMAIN messages' /\ DOMAIN messages \subseteq DOMAIN messages'
      /\ \A i \in DOMAIN messages' : i \in DOMAIN messages \/ i = y
      /\ \A i \in DOMAIN messages : i \in Nat /\ i < y
      /\ y \in Nat
  BY <1>5
<1>8. /\ z \in DOMAIN queue'
      /\ \A k \in DOMAIN queue' : k \in DOMAIN queue \/ k = z
      /\ \A k \in DOMAIN queue : k \in DOMAIN queue' /\ k \in Nat /\ k < z
  BY <1>6
<1> HIDE DEF y, z
<1>9. \A i \in DOMAIN messages : Id(messages[i]) # User(r)
  BY <1>1, <1>2 DEF ToSet, Id, User, TypeInv
<1>10. TypeInv'
  BY <1>1, <1>2, <1>5, <1>6 DEF TypeInv
<1>11. QueueInv'
  <2>1. InLine(messages, queue)
    BY <1>2 DEF ContextInv, QueueInv
  <2>2. \A i \in DOMAIN messages : Id(messages'[i]) = Id(messages[i])
    BY <1>5
  <2>3. \A k \in DOMAIN queue : \A i \in DOMAIN messages :
            Id(messages[i]) = User(queue[k]) /\ Waits(messages, i) => messages'[i].status = "queued"
    BY <1>5 DEF Waits
  <2>4. InLine(messages', queue)
    BY <1>3, <1>7, <2>1, <2>2, <2>3, LineKeeps
  <2>5. \A k \in DOMAIN queue' : \E i \in DOMAIN messages' : Id(messages'[i]) = User(queue'[k]) /\ Waits(messages', i)
    <3> TAKE k \in DOMAIN queue'
    <3>1. CASE k \in DOMAIN queue
      BY <1>6, <2>4, <3>1 DEF InLine
    <3>2. CASE k = z
      BY <1>4, <1>5, <1>6, <1>7, <3>2 DEF Waits
    <3> QED BY <1>8, <3>1, <3>2
  <2>6. ASSUME NEW k \in DOMAIN queue', NEW l \in DOMAIN queue', NEW i \in DOMAIN messages', NEW j \in DOMAIN messages',
               k < l, Id(messages'[i]) = User(queue'[k]), Id(messages'[j]) = User(queue'[l])
        PROVE  i < j
    <3>1. k \in DOMAIN queue
      BY <1>6, <1>8, <2>6 DEF z
    <3>2. CASE l \in DOMAIN queue
      BY <1>6, <2>4, <2>6, <3>1, <3>2 DEF InLine
    <3>3. CASE l = z
      <4>1. j = y
        BY <1>5, <1>6, <1>7, <1>9, <2>6, <3>3
      <4>2. PICK x \in DOMAIN messages : Id(messages[x]) = User(queue[k])
        BY <2>1, <3>1 DEF InLine
      <4>3. i # y
        BY <1>4, <1>5, <1>6, <1>9, <2>6, <3>1, <4>2
      <4> QED BY <1>7, <4>1, <4>3
    <3> QED BY <1>8, <3>2, <3>3
  <2>7. InLine(messages', queue')
    BY <2>5, <2>6 DEF InLine
  <2>8. ASSUME NEW i \in DOMAIN messages', Waits(messages', i)
        PROVE  \/ at' \in {"bind", "commit"} /\ Id(messages'[i]) = User(run')
               \/ \E k \in DOMAIN queue' : Id(messages'[i]) = User(queue'[k])
    <3>1. CASE i \in DOMAIN messages
      <4>1. Waits(messages, i) /\ Id(messages'[i]) = Id(messages[i])
        BY <1>5, <2>8, <3>1 DEF Waits
      <4>2. \/ at \in {"bind", "commit"} /\ Id(messages[i]) = User(run)
            \/ \E k \in DOMAIN queue : Id(messages[i]) = User(queue[k])
        BY <1>2, <3>1, <4>1 DEF ContextInv, QueueInv
      <4> QED BY <1>2, <1>6, <1>8, <4>1, <4>2
    <3>2. CASE i = y
      BY <1>4, <1>5, <1>6, <1>8, <3>2
    <3> QED BY <1>7, <3>1, <3>2
  <2>9. (\A i \in DOMAIN messages : Waits(messages, i) =>
               \/ at \in {"bind", "commit"} /\ Id(messages[i]) = User(run)
               \/ \E k \in DOMAIN queue : Id(messages[i]) = User(queue[k]))'
    BY <2>8
  <2>10. at' \in {"bind", "commit"} => \A k \in DOMAIN queue' : queue'[k] # run'
    <3> HAVE at' \in {"bind", "commit"}
    <3>1. r # run
      BY <1>2, <1>9, RunIs
    <3>2. \A k \in DOMAIN queue : queue[k] # run
      BY <1>2 DEF ContextInv, QueueInv
    <3> QED BY <1>2, <1>6, <1>8, <3>1, <3>2
  <2> QED BY <2>7, <2>9, <2>10 DEF QueueInv
<1>12. RunInv'
  <2>1. ASSUME NEW i \in DOMAIN messages', Id(messages'[i]) = User(run)
        PROVE  i \in DOMAIN messages /\ Id(messages[i]) = User(run) /\ run \in Requests
    <3>1. run \in Requests
      BY <1>3, <2>1, MessageIs DEF Id, User
    <3>2. at \in {"bind", "commit", "open", "mark", "context", "execute", "settle"}
      BY <1>1, <1>2, <3>1, NoneIsNoRequest DEF ContextInv, RunInv, TypeInv, Stages
    <3>3. run # r
      BY <1>9, <3>2, RunIs
    <3>4. i # y
      BY <1>4, <1>5, <2>1, <3>3 DEF User
    <3> QED BY <1>5, <1>7, <2>1, <3>1, <3>4
  <2>2. First(messages', run)
    <3> SUFFICES ASSUME NEW i \in DOMAIN messages', NEW j \in DOMAIN messages', Id(messages'[i]) = User(run),
                        Waits(messages', i), Waits(messages', j)
                 PROVE  i <= j
      BY DEF First
    <3>1. i \in DOMAIN messages /\ Id(messages[i]) = User(run) /\ Waits(messages, i)
      BY <1>5, <2>1 DEF Waits
    <3>2. CASE j \in DOMAIN messages
      <4>1. Waits(messages, j)
        BY <1>5, <3>2 DEF Waits
      <4> QED BY <3>1, <3>2, <4>1 DEF ContextInv, RunInv, First
    <3>3. CASE j = y
      BY <1>7, <3>1, <3>3
    <3> QED BY <1>7, <3>2, <3>3
  <2>3. at \in {"bind", "commit"} =>
            \E i \in DOMAIN messages' : Id(messages'[i]) = User(run) /\ Waits(messages', i)
    <3> HAVE at \in {"bind", "commit"}
    <3>1. PICK i \in DOMAIN messages : Id(messages[i]) = User(run) /\ Waits(messages, i)
      BY DEF ContextInv, RunInv
    <3> QED BY <1>5, <1>7, <3>1 DEF Waits
  <2>4. at \in {"commit", "open", "mark", "context", "execute", "settle"} =>
            \E i \in DOMAIN messages' : Id(messages'[i]) = User(run) /\ messages'[i].run = run
    <3> HAVE at \in {"commit", "open", "mark", "context", "execute", "settle"}
    <3>1. PICK i \in DOMAIN messages : Id(messages[i]) = User(run) /\ messages[i].run = run
      BY DEF ContextInv, RunInv
    <3> QED BY <1>5, <1>7, <3>1
  <2>5. /\ at = "idle" => run = None
        /\ at = "open" => turns # <<>> /\ turns[Len(turns)] = User(run)
        /\ at \in {"mark", "context", "execute"} =>
               /\ Len(turns) > 1
               /\ turns[Len(turns) - 1] = User(run) /\ turns[Len(turns)] = Assistant(run)
    BY DEF ContextInv, RunInv
  <2> QED BY <1>2, <2>2, <2>3, <2>4, <2>5 DEF RunInv
<1>13. OpenInv'
  <2> SUFFICES ASSUME NEW i \in DOMAIN messages', messages'[i].status = "streaming"
               PROVE  at' \in {"mark", "context", "execute"} /\ Id(messages'[i]) = Assistant(run')
    BY DEF OpenInv
  <2>1. i \in DOMAIN messages /\ messages'[i] = messages[i]
    BY <1>4, <1>5, <1>7
  <2> QED BY <1>2, <2>1 DEF ContextInv, OpenInv
<1>14. ShownInv'
  BY <1>2 DEF ContextInv, ShownInv
<1> QED BY <1>2, <1>3, <1>10, <1>11, <1>12, <1>13, <1>14 DEF ContextInv

LEMMA SaveRunKeeps == ASSUME ContextInv, SaveRun PROVE ContextInv'
<1>1. Sound(messages) /\ InTurn(messages, turns) /\ TypeInv
  BY DEF ContextInv
<1>2. /\ at = "idle" /\ queue # <<>> /\ at' = "bind" /\ run' = Head(queue) /\ queue' = Tail(queue)
      /\ messages' = messages /\ turns' = turns /\ shown' = shown /\ marked' = marked
  BY DEF SaveRun
<1>3. /\ queue \in Seq(Requests) /\ Len(queue) \in Nat /\ DOMAIN queue = 1..Len(queue)
      /\ Head(queue) = queue[1] /\ Head(queue) \in Requests
      /\ Tail(queue) \in Seq(Requests) /\ Len(Tail(queue)) = Len(queue) - 1
      /\ \A k \in 1..Len(Tail(queue)) : Tail(queue)[k] = queue[k + 1]
      /\ Len(queue) > 0
  <2>1. queue \in Seq(Requests) /\ queue # <<>>
    BY <1>1, <1>2 DEF TypeInv
  <2>2. Len(queue) \in Nat /\ DOMAIN queue = 1..Len(queue)
    BY <2>1, LenProperties
  <2>3. Len(queue) > 0
    BY <2>1, <2>2, EmptySeq
  <2>4. /\ Head(queue) = queue[1] /\ Tail(queue) \in Seq(Requests) /\ Len(Tail(queue)) = Len(queue) - 1
        /\ \A k \in 1..Len(Tail(queue)) : Tail(queue)[k] = queue[k + 1]
    BY <2>1, HeadTailProperties
  <2>5. queue[1] \in Requests
    BY <2>1, <2>2, <2>3, ElementOfSeq
  <2> QED BY <2>1, <2>2, <2>3, <2>4, <2>5
<1>4. /\ DOMAIN queue' = 1..(Len(queue) - 1) /\ 1 \in DOMAIN queue
      /\ \A k \in DOMAIN queue' : k \in Nat /\ k + 1 \in DOMAIN queue /\ queue'[k] = queue[k + 1]
  <2>1. DOMAIN Tail(queue) = 1..Len(Tail(queue))
    BY <1>3, LenProperties
  <2> QED BY <1>2, <1>3, <2>1
<1>5. InLine(messages, queue)
  BY <1>2 DEF ContextInv, QueueInv
<1>6. InLine(messages, queue')
  <2>1. \A k \in DOMAIN queue' : \E i \in DOMAIN messages : Id(messages[i]) = User(queue'[k]) /\ Waits(messages, i)
    BY <1>4, <1>5 DEF InLine
  <2>2. ASSUME NEW k \in DOMAIN queue', NEW l \in DOMAIN queue', NEW i \in DOMAIN messages, NEW j \in DOMAIN messages,
               k < l, Id(messages[i]) = User(queue'[k]), Id(messages[j]) = User(queue'[l])
        PROVE  i < j
    <3>1. k + 1 < l + 1 /\ k + 1 \in DOMAIN queue /\ l + 1 \in DOMAIN queue
      BY <1>4, <2>2
    <3> QED BY <1>4, <1>5, <2>2, <3>1 DEF InLine
  <2> QED BY <2>1, <2>2 DEF InLine
<1>7. ASSUME NEW i \in DOMAIN messages, Waits(messages, i)
      PROVE  Id(messages[i]) = User(run') \/ \E k \in DOMAIN queue' : Id(messages[i]) = User(queue'[k])
  <2>1. PICK k \in DOMAIN queue : Id(messages[i]) = User(queue[k])
    BY <1>2, <1>7 DEF ContextInv, QueueInv
  <2>2. CASE k = 1
    BY <1>2, <1>3, <2>1, <2>2
  <2>3. CASE k # 1
    <3>1. k - 1 \in DOMAIN queue' /\ (k - 1) + 1 = k
      BY <1>3, <1>4, <2>3
    <3> QED BY <1>4, <2>1, <3>1
  <2> QED BY <2>2, <2>3
<1>8. TypeInv'
  BY <1>1, <1>2, <1>3 DEF TypeInv, Stages
<1>9. QueueInv'
  <2>1. ASSUME NEW k \in DOMAIN queue', queue'[k] = run' PROVE FALSE
    <3>1. k + 1 \in DOMAIN queue /\ 1 < k + 1 /\ queue[k + 1] = queue[1]
      BY <1>2, <1>3, <1>4, <2>1
    <3>2. PICK i \in DOMAIN messages : Id(messages[i]) = User(queue[1])
      BY <1>4, <1>5 DEF InLine
    <3>3. i < i /\ i \in Nat
      BY <1>1, <1>4, <1>5, <3>1, <3>2, MessageIs DEF InLine
    <3> QED BY <3>3
  <2> QED BY <1>2, <1>6, <1>7, <2>1 DEF QueueInv
<1>10. PICK h \in DOMAIN messages : Id(messages[h]) = User(run') /\ Waits(messages, h)
  BY <1>2, <1>3, <1>4, <1>5 DEF InLine
<1>11. First(messages, run')
  <2> SUFFICES ASSUME NEW i \in DOMAIN messages, NEW j \in DOMAIN messages, Id(messages[i]) = User(run'),
                      Waits(messages, i), Waits(messages, j)
               PROVE  i <= j
    BY DEF First
  <2>1. i \in Nat /\ j \in Nat
    BY <1>1, MessageIs
  <2>2. PICK k \in DOMAIN queue : Id(messages[j]) = User(queue[k])
    BY <1>2 DEF ContextInv, QueueInv
  <2>3. CASE k = 1
    <3>1. Id(messages[i]) = Id(messages[j])
      BY <1>2, <1>3, <2>2, <2>3
    <3> QED BY <1>1, <2>1, <3>1 DEF Sound
  <2>4. CASE k # 1
    <3>1. 1 < k
      BY <1>3, <2>4
    <3>2. i < j
      BY <1>2, <1>3, <1>4, <1>5, <2>2, <3>1 DEF InLine
    <3> QED BY <2>1, <3>2
  <2> QED BY <2>3, <2>4
<1>12. RunInv'
  BY <1>2, <1>10, <1>11 DEF RunInv
<1>13. OpenInv'
  BY <1>2 DEF ContextInv, OpenInv
<1>14. ShownInv'
  BY <1>2 DEF ContextInv, ShownInv
<1> QED BY <1>1, <1>2, <1>8, <1>9, <1>12, <1>13, <1>14 DEF ContextInv

LEMMA BindInputKeeps == ASSUME ContextInv, BindInput PROVE ContextInv'
<1>1. Sound(messages) /\ InTurn(messages, turns) /\ TypeInv
  BY DEF ContextInv
<1>2. /\ at = "bind" /\ at' = "commit" /\ messages' = Bound(messages, run)
      /\ run' = run /\ queue' = queue /\ turns' = turns /\ shown' = shown /\ marked' = marked
  BY DEF BindInput, Bind
<1>3. PICK c \in DOMAIN messages : Id(messages[c]) = User(run) /\ Waits(messages, c)
  BY <1>2 DEF ContextInv, RunInv
<1>4. run \in Requests
  BY <1>2, RunIs
<1>5. Sound(messages') /\ InTurn(messages', turns)
  BY <1>1, <1>2, <1>3, <1>4, BindTurn
<1>6. /\ messages' \in Seq(MessageType) /\ DOMAIN messages' = DOMAIN messages
      /\ \A i \in DOMAIN messages :
             /\ messages'[i].status = messages[i].status
             /\ Id(messages'[i]) = Id(messages[i])
             /\ messages'[i].run = IF Id(messages[i]) = User(run) THEN run ELSE messages[i].run
  BY <1>1, <1>2, <1>4, BoundIs
<1>7. \A i : Waits(messages', i) <=> Waits(messages, i)
  BY <1>6 DEF Waits
<1>8. TypeInv'
  BY <1>1, <1>2, <1>6 DEF TypeInv, Stages
<1>9. QueueInv'
  <2>1. InLine(messages, queue)
    BY <1>2 DEF ContextInv, QueueInv
  <2>2. InLine(messages', queue)
    BY <1>5, <1>6, <2>1, LineKeeps DEF Waits
  <2>3. \A i \in DOMAIN messages' : Waits(messages', i) =>
               \/ Id(messages'[i]) = User(run)
               \/ \E k \in DOMAIN queue : Id(messages'[i]) = User(queue[k])
    BY <1>2, <1>6, <1>7 DEF ContextInv, QueueInv
  <2>4. \A k \in DOMAIN queue : queue[k] # run
    BY <1>2 DEF ContextInv, QueueInv
  <2> QED BY <1>2, <2>2, <2>3, <2>4 DEF QueueInv
<1>10. RunInv'
  <2>1. First(messages', run)
    BY <1>6, <1>7 DEF ContextInv, RunInv, First
  <2>2. \E i \in DOMAIN messages' : Id(messages'[i]) = User(run) /\ Waits(messages', i)
    BY <1>3, <1>6, <1>7
  <2>3. \E i \in DOMAIN messages' : Id(messages'[i]) = User(run) /\ messages'[i].run = run
    BY <1>3, <1>6
  <2> QED BY <1>2, <2>1, <2>2, <2>3 DEF RunInv
<1>11. OpenInv'
  BY <1>2, <1>6 DEF ContextInv, OpenInv
<1>12. ShownInv'
  BY <1>2 DEF ContextInv, ShownInv
<1> QED BY <1>2, <1>5, <1>8, <1>9, <1>10, <1>11, <1>12 DEF ContextInv

\* The last context is a prefix of the turns, and a further turn leaves it one.
LEMMA ShownKeeps ==
    ASSUME TypeInv, ShownInv, NEW id \in Ids
    PROVE  /\ Append(turns, id) \in Seq(Ids)
           /\ Len(Append(turns, id)) = Len(turns) + 1 /\ Len(turns) \in Nat /\ Len(shown) \in Nat
           /\ Len(shown) < Len(Append(turns, id))
           /\ \A n \in DOMAIN shown : shown[n] = Append(turns, id)[n]
           /\ \A n \in DOMAIN turns : Append(turns, id)[n] = turns[n]
           /\ Append(turns, id)[Len(turns) + 1] = id
<1>1. /\ Append(turns, id) \in Seq(Ids) /\ Len(turns) \in Nat
      /\ Len(Append(turns, id)) = Len(turns) + 1
      /\ DOMAIN turns = 1..Len(turns)
      /\ \A n \in DOMAIN turns : Append(turns, id)[n] = turns[n]
      /\ Append(turns, id)[Len(turns) + 1] = id
  BY AppendIs DEF TypeInv
<1>2. Len(shown) \in Nat /\ DOMAIN shown = 1..Len(shown)
  BY LenProperties DEF TypeInv
<1>3. Len(shown) <= Len(turns) /\ \A n \in DOMAIN shown : shown[n] = turns[n]
  BY DEF ShownInv
<1>4. \A n \in DOMAIN shown : n \in DOMAIN turns
  BY <1>1, <1>2, <1>3
<1> QED BY <1>1, <1>2, <1>3, <1>4

\* What committing the first input that waits does, by _begin as by _recover.
LEMMA CommitIs ==
    ASSUME ContextInv, run \in Requests, Commit(run),
           NEW c \in DOMAIN messages, Id(messages[c]) = User(run), Waits(messages, c)
    PROVE  /\ Sound(messages') /\ InTurn(messages', turns')
           /\ messages' \in Seq(MessageType) /\ DOMAIN messages' = DOMAIN messages
           /\ \A i \in DOMAIN messages :
                  /\ Id(messages'[i]) = Id(messages[i]) /\ messages'[i].run = messages[i].run
                  /\ messages'[i].status = IF Id(messages[i]) = User(run) THEN "committed" ELSE messages[i].status
           /\ \A i : Waits(messages', i) <=> Waits(messages, i) /\ Id(messages[i]) # User(run)
           /\ turns' \in Seq(Ids) /\ Len(turns') = Len(turns) + 1 /\ turns' # <<>>
           /\ turns'[Len(turns')] = User(run)
           /\ shown' = shown => Len(shown') < Len(turns') /\ \A n \in DOMAIN shown' : shown'[n] = turns'[n]
<1>1. Sound(messages) /\ InTurn(messages, turns) /\ TypeInv /\ ShownInv /\ First(messages, run)
  BY DEF ContextInv, RunInv
<1>2. messages' = WithStatus(messages, User(run), "committed") /\ turns' = Append(turns, User(run))
  BY DEF Commit
<1>3. Sound(messages') /\ InTurn(messages', turns')
  BY <1>1, <1>2, CommitTurn
<1>4. "committed" \in Statuses /\ User(run) \in Ids
  BY DEF Statuses, Ids, User
<1>5. /\ messages' \in Seq(MessageType) /\ DOMAIN messages' = DOMAIN messages
      /\ \A i \in DOMAIN messages :
             /\ messages'[i].run = messages[i].run
             /\ Id(messages'[i]) = Id(messages[i])
             /\ messages'[i].status = IF Id(messages[i]) = User(run) THEN "committed" ELSE messages[i].status
  BY <1>1, <1>2, <1>4, StatusIs
<1>6. \A i : Waits(messages', i) <=> Waits(messages, i) /\ Id(messages[i]) # User(run)
  BY <1>5 DEF Waits
<1>7. /\ turns' \in Seq(Ids) /\ Len(turns') = Len(turns) + 1 /\ Len(turns) \in Nat
      /\ turns'[Len(turns')] = User(run)
      /\ Len(shown) < Len(turns') /\ \A n \in DOMAIN shown : shown[n] = turns'[n]
  BY <1>1, <1>2, <1>4, ShownKeeps
<1>8. turns' # <<>>
  <2>1. Len(turns') # 0
    BY <1>7
  <2> QED BY <2>1
<1> QED BY <1>3, <1>5, <1>6, <1>7, <1>8

LEMMA CommitInputKeeps == ASSUME ContextInv, CommitInput PROVE ContextInv'
<1>1. Sound(messages) /\ InTurn(messages, turns) /\ TypeInv
  BY DEF ContextInv
<1>2. /\ at = "commit" /\ at' = "open" /\ Commit(run)
      /\ run' = run /\ queue' = queue /\ shown' = shown /\ marked' = marked
  BY DEF CommitInput
<1>3. PICK c \in DOMAIN messages : Id(messages[c]) = User(run) /\ Waits(messages, c)
  BY <1>2 DEF ContextInv, RunInv
<1>4. run \in Requests
  BY <1>2, RunIs
<1>5. /\ Sound(messages') /\ InTurn(messages', turns')
      /\ messages' \in Seq(MessageType) /\ DOMAIN messages' = DOMAIN messages
      /\ \A i \in DOMAIN messages :
             /\ Id(messages'[i]) = Id(messages[i]) /\ messages'[i].run = messages[i].run
             /\ messages'[i].status = IF Id(messages[i]) = User(run) THEN "committed" ELSE messages[i].status
      /\ \A i : Waits(messages', i) <=> Waits(messages, i) /\ Id(messages[i]) # User(run)
      /\ turns' \in Seq(Ids) /\ Len(turns') = Len(turns) + 1 /\ turns' # <<>>
      /\ turns'[Len(turns')] = User(run)
      /\ Len(shown') < Len(turns') /\ \A n \in DOMAIN shown' : shown'[n] = turns'[n]
  BY <1>2, <1>3, <1>4, CommitIs
<1>6. TypeInv'
  BY <1>1, <1>2, <1>5 DEF TypeInv, Stages
<1>7. QueueInv'
  <2>1. InLine(messages, queue) /\ \A k \in DOMAIN queue : queue[k] # run
    BY <1>2 DEF ContextInv, QueueInv
  <2>2. \A k \in DOMAIN queue : \A i \in DOMAIN messages :
            Id(messages[i]) = User(queue[k]) /\ Waits(messages, i) => messages'[i].status = "queued"
    BY <1>5, <2>1 DEF Waits, User
  <2>3. InLine(messages', queue)
    BY <1>5, <2>1, <2>2, LineKeeps
  <2>4. \A i \in DOMAIN messages' : Waits(messages', i) => \E k \in DOMAIN queue : Id(messages'[i]) = User(queue[k])
    BY <1>2, <1>5 DEF ContextInv, QueueInv
  <2> QED BY <1>2, <2>3, <2>4 DEF QueueInv
<1>8. RunInv'
  <2>1. First(messages', run)
    BY <1>5 DEF First
  <2>2. PICK i \in DOMAIN messages : Id(messages[i]) = User(run) /\ messages[i].run = run
    BY <1>2 DEF ContextInv, RunInv
  <2>3. \E j \in DOMAIN messages' : Id(messages'[j]) = User(run) /\ messages'[j].run = run
    BY <1>5, <2>2
  <2> QED BY <1>2, <1>5, <2>1, <2>3 DEF RunInv
<1>9. OpenInv'
  BY <1>2, <1>5 DEF ContextInv, OpenInv
<1>10. ShownInv'
  <2>1. Len(shown') <= Len(turns')
    <3>1. Len(shown') \in Nat /\ Len(turns') \in Nat
      BY <1>6, LenProperties DEF TypeInv
    <3> QED BY <1>5, <3>1
  <2> QED BY <1>2, <1>5, <2>1 DEF ShownInv
<1> QED BY <1>5, <1>6, <1>7, <1>8, <1>9, <1>10 DEF ContextInv

LEMMA OpenAnswerKeeps == ASSUME ContextInv, OpenAnswer PROVE ContextInv'
<1> DEFINE m == Message(run, "assistant", "streaming", run)
           y == Len(messages) + 1
<1>1. Sound(messages) /\ InTurn(messages, turns) /\ TypeInv /\ ShownInv
  BY DEF ContextInv
<1>2. /\ at = "open" /\ at' = "mark" /\ messages' = Append(messages, m) /\ turns' = Append(turns, Assistant(run))
      /\ run' = run /\ queue' = queue /\ shown' = shown /\ marked' = marked
  BY DEF OpenAnswer
<1>3. PICK c \in DOMAIN messages : Id(messages[c]) = User(run) /\ messages[c].run = run
  BY <1>2 DEF ContextInv, RunInv
<1>4. run \in Requests /\ turns # <<>> /\ turns[Len(turns)] = User(run)
  BY <1>2, RunIs DEF ContextInv, RunInv
<1>5. Sound(messages') /\ InTurn(messages', turns')
  BY <1>1, <1>2, <1>3, <1>4, OpenTurn
<1>6. /\ m \in MessageType /\ Id(m) = Assistant(run) /\ m.status = "streaming"
      /\ Assistant(run) \in Ids
  BY <1>4 DEF Message, MessageType, Statuses, Id, Assistant, Ids
<1> HIDE DEF m
<1>7. /\ messages' \in Seq(MessageType) /\ Len(messages) \in Nat
      /\ DOMAIN messages = 1..Len(messages) /\ DOMAIN messages' = 1..(Len(messages) + 1)
      /\ \A i \in DOMAIN messages : messages'[i] = messages[i]
      /\ messages'[y] = m
  BY <1>1, <1>2, <1>6, AppendIs DEF TypeInv
<1>8. /\ DOMAIN messages \subseteq DOMAIN messages'
      /\ \A i \in DOMAIN messages' : i \in DOMAIN messages \/ i = y
  BY <1>7
<1> HIDE DEF y
<1>9. \A i : Waits(messages', i) <=> Waits(messages, i)
  BY <1>6, <1>7, <1>8 DEF Waits
<1>10. /\ turns' \in Seq(Ids) /\ Len(turns') = Len(turns) + 1 /\ Len(turns) \in Nat /\ Len(shown) \in Nat
       /\ \A n \in DOMAIN shown : shown[n] = turns'[n]
       /\ \A n \in DOMAIN turns : turns'[n] = turns[n]
       /\ turns'[Len(turns) + 1] = Assistant(run)
  BY <1>1, <1>2, <1>6, ShownKeeps
<1>11. Len(turns) \in DOMAIN turns /\ Len(turns) > 0
  <2>1. turns \in Seq(Ids) /\ DOMAIN turns = 1..Len(turns)
    BY <1>1, LenProperties DEF TypeInv
  <2>2. Len(turns) # 0
    BY <1>4, <2>1, EmptySeq
  <2> QED BY <1>10, <2>1, <2>2
<1>12. TypeInv'
  BY <1>1, <1>2, <1>7, <1>10 DEF TypeInv, Stages
<1>13. QueueInv'
  <2>1. InLine(messages, queue)
    BY <1>2 DEF ContextInv, QueueInv
  <2>2. \A i \in DOMAIN messages : Id(messages'[i]) = Id(messages[i]) /\ (Waits(messages, i) => messages'[i].status = "queued")
    BY <1>7 DEF Waits
  <2>3. InLine(messages', queue)
    BY <1>5, <1>8, <2>1, <2>2, LineKeeps
  <2>4. ASSUME NEW i \in DOMAIN messages', Waits(messages', i)
        PROVE  \E k \in DOMAIN queue : Id(messages'[i]) = User(queue[k])
    <3>1. i \in DOMAIN messages /\ Waits(messages, i)
      BY <1>9, <2>4 DEF Waits
    <3>2. \E k \in DOMAIN queue : Id(messages[i]) = User(queue[k])
      BY <1>2, <3>1 DEF ContextInv, QueueInv
    <3> QED BY <2>2, <3>1, <3>2
  <2> QED BY <1>2, <2>3, <2>4 DEF QueueInv
<1>14. RunInv'
  <2>1. First(messages', run)
    <3> SUFFICES ASSUME NEW i \in DOMAIN messages', NEW j \in DOMAIN messages', Id(messages'[i]) = User(run),
                        Waits(messages', i), Waits(messages', j)
                 PROVE  i <= j
      BY DEF First
    <3>1. Waits(messages, i) /\ Waits(messages, j) /\ i \in DOMAIN messages /\ j \in DOMAIN messages
      BY <1>9 DEF Waits
    <3>2. Id(messages[i]) = User(run)
      BY <1>7, <3>1
    <3> QED BY <3>1, <3>2 DEF ContextInv, RunInv, First
  <2>2. \E i \in DOMAIN messages' : Id(messages'[i]) = User(run) /\ messages'[i].run = run
    BY <1>3, <1>7, <1>8
  <2>3. /\ Len(turns') > 1 /\ turns'[Len(turns') - 1] = User(run) /\ turns'[Len(turns')] = Assistant(run)
    <3>1. Len(turns') - 1 = Len(turns)
      BY <1>10
    <3> QED BY <1>4, <1>10, <1>11, <3>1
  <2> QED BY <1>2, <2>1, <2>2, <2>3 DEF RunInv
<1>15. OpenInv'
  <2> SUFFICES ASSUME NEW i \in DOMAIN messages', messages'[i].status = "streaming"
               PROVE  Id(messages'[i]) = Assistant(run)
    BY <1>2 DEF OpenInv
  <2>1. i \notin DOMAIN messages
    BY <1>2, <1>7 DEF ContextInv, OpenInv
  <2> QED BY <1>6, <1>7, <1>8, <2>1
<1>16. ShownInv'
  <2>1. Len(shown) < Len(turns)
    BY <1>2 DEF ContextInv, ShownInv
  <2>2. Len(shown) <= Len(turns') /\ Len(shown) + 1 < Len(turns')
    BY <1>10, <2>1
  <2> QED BY <1>2, <1>10, <2>2 DEF ShownInv
<1> QED BY <1>5, <1>12, <1>13, <1>14, <1>15, <1>16 DEF ContextInv

LEMMA MarkTaskKeeps == ASSUME ContextInv, MarkTask PROVE ContextInv'
<1>1. /\ at = "mark" /\ at' = "context" /\ marked' = TRUE
      /\ messages' = messages /\ run' = run /\ queue' = queue /\ turns' = turns /\ shown' = shown
  BY DEF MarkTask
<1>2. TypeInv'
  BY <1>1 DEF ContextInv, TypeInv, Stages
<1>3. QueueInv'
  BY <1>1 DEF ContextInv, QueueInv
<1>4. RunInv'
  BY <1>1 DEF ContextInv, RunInv
<1>5. OpenInv' /\ ShownInv'
  BY <1>1 DEF ContextInv, OpenInv, ShownInv
<1> QED BY <1>1, <1>2, <1>3, <1>4, <1>5 DEF ContextInv

\* ContextIs, wherever an Engine may be given its context.
LEMMA ContextNow ==
    ASSUME ContextInv, at \in {"context", "execute"}
    PROVE  /\ Context(run) = Front(turns)
           /\ Front(turns) \in Seq(Ids) /\ Len(Front(turns)) = Len(turns) - 1
           /\ \A n \in 1..(Len(turns) - 1) : Front(turns)[n] = turns[n]
<1>1. run \in Requests
  BY RunIs
<1>2. Len(turns) > 1 /\ turns[Len(turns) - 1] = User(run) /\ turns[Len(turns)] = Assistant(run)
  BY DEF ContextInv, RunInv
<1>3. \A i \in DOMAIN messages : messages[i].status = "streaming" => Id(messages[i]) = Assistant(run)
  BY DEF ContextInv, OpenInv
<1> QED BY <1>1, <1>2, <1>3, ContextIs DEF ContextInv

LEMMA ShowContextKeeps == ASSUME ContextInv, ShowContext PROVE ContextInv'
<1>1. /\ at = "context" /\ at' = "execute" /\ shown' = Context(run)
      /\ messages' = messages /\ run' = run /\ queue' = queue /\ turns' = turns /\ marked' = marked
  BY DEF ShowContext
<1>2. /\ shown' \in Seq(Ids) /\ Len(shown') = Len(turns) - 1
      /\ \A n \in 1..(Len(turns) - 1) : shown'[n] = turns[n]
  BY <1>1, ContextNow
<1>3. TypeInv'
  BY <1>1, <1>2 DEF ContextInv, TypeInv, Stages
<1>4. QueueInv'
  BY <1>1 DEF ContextInv, QueueInv
<1>5. RunInv'
  BY <1>1 DEF ContextInv, RunInv
<1>6. ShownInv'
  <2>1. DOMAIN shown' = 1..(Len(turns) - 1) /\ Len(turns) \in Nat
    BY <1>2, LenProperties DEF ContextInv, TypeInv
  <2> QED BY <1>1, <1>2, <2>1 DEF ShownInv
<1>7. OpenInv'
  BY <1>1 DEF ContextInv, OpenInv
<1> QED BY <1>1, <1>3, <1>4, <1>5, <1>6, <1>7 DEF ContextInv

\* What ending an answer does, by _finish as by _recover.
LEMMA EndIs ==
    ASSUME ContextInv, NEW id, id[2] = "assistant", NEW status \in Ended,
           messages' = WithStatus(messages, id, status)
    PROVE  /\ Sound(messages') /\ InTurn(messages', turns)
           /\ messages' \in Seq(MessageType) /\ DOMAIN messages' = DOMAIN messages
           /\ \A i \in DOMAIN messages :
                  /\ Id(messages'[i]) = Id(messages[i]) /\ messages'[i].run = messages[i].run
                  /\ messages'[i].status = IF Id(messages[i]) = id THEN status ELSE messages[i].status
           /\ \A i : Waits(messages', i) <=> Waits(messages, i)
<1>1. Sound(messages) /\ InTurn(messages, turns)
  BY DEF ContextInv
<1>2. Sound(messages') /\ InTurn(messages', turns)
  BY <1>1, EndTurn
<1>3. status \in Statuses
  BY DEF Statuses
<1>4. /\ messages' \in Seq(MessageType) /\ DOMAIN messages' = DOMAIN messages
      /\ \A i \in DOMAIN messages :
             /\ Id(messages'[i]) = Id(messages[i]) /\ messages'[i].run = messages[i].run
             /\ messages'[i].status = IF Id(messages[i]) = id THEN status ELSE messages[i].status
  BY <1>1, <1>3, StatusIs
<1>5. \A i \in DOMAIN messages : Id(messages[i]) = id => messages[i].status # "queued"
  BY <1>1 DEF Sound, Id, Ended
<1>6. \A i : Waits(messages', i) <=> Waits(messages, i)
  BY <1>4, <1>5 DEF Waits, Ended
<1> QED BY <1>2, <1>4, <1>6

LEMMA EndAnswerKeeps == ASSUME ContextInv, NEW status \in Ended, EndAnswer(status) PROVE ContextInv'
<1>1. /\ at \in {"context", "execute"} /\ at' = "settle" /\ messages' = WithStatus(messages, Assistant(run), status)
      /\ run' = run /\ queue' = queue /\ turns' = turns /\ shown' = shown /\ marked' = marked
  BY DEF EndAnswer
<1>2. Assistant(run)[2] = "assistant"
  BY DEF Assistant
<1>3. /\ Sound(messages') /\ InTurn(messages', turns)
      /\ messages' \in Seq(MessageType) /\ DOMAIN messages' = DOMAIN messages
      /\ \A i \in DOMAIN messages :
             /\ Id(messages'[i]) = Id(messages[i]) /\ messages'[i].run = messages[i].run
             /\ messages'[i].status = IF Id(messages[i]) = Assistant(run) THEN status ELSE messages[i].status
      /\ \A i : Waits(messages', i) <=> Waits(messages, i)
  BY <1>1, <1>2, EndIs
<1>4. TypeInv'
  BY <1>1, <1>3 DEF ContextInv, TypeInv, Stages
<1>5. QueueInv'
  <2>1. InLine(messages, queue)
    BY <1>1 DEF ContextInv, QueueInv
  <2>2. InLine(messages', queue)
    BY <1>3, <2>1, LineKeeps DEF Waits
  <2>3. \A i \in DOMAIN messages' : Waits(messages', i) => \E k \in DOMAIN queue : Id(messages'[i]) = User(queue[k])
    BY <1>1, <1>3 DEF ContextInv, QueueInv
  <2> QED BY <1>1, <2>2, <2>3 DEF QueueInv
<1>6. RunInv'
  <2>1. First(messages', run)
    BY <1>3 DEF ContextInv, RunInv, First
  <2>2. PICK i \in DOMAIN messages : Id(messages[i]) = User(run) /\ messages[i].run = run
    BY <1>1 DEF ContextInv, RunInv
  <2>3. \E j \in DOMAIN messages' : Id(messages'[j]) = User(run) /\ messages'[j].run = run
    BY <1>3, <2>2
  <2> QED BY <1>1, <2>1, <2>3 DEF RunInv
<1>7. OpenInv'
  <2>1. \A i \in DOMAIN messages' : messages'[i].status # "streaming"
    BY <1>1, <1>3 DEF ContextInv, OpenInv, Ended
  <2> QED BY <2>1 DEF OpenInv
<1>8. ShownInv'
  BY <1>1 DEF ContextInv, ShownInv
<1> QED BY <1>1, <1>3, <1>4, <1>5, <1>6, <1>7, <1>8 DEF ContextInv

\* No message is the input of no Run.
LEMMA NoneHasNone == ASSUME NEW ms, Sound(ms) PROVE \A i \in DOMAIN ms : Id(ms[i]) # User(None)
<1>1. \A i \in DOMAIN ms : ms[i].of # None
  BY MessageIs, NoneIsNoRequest
<1> QED BY <1>1 DEF Id, User

LEMMA SettleKeeps == ASSUME ContextInv, Settle PROVE ContextInv'
<1>1. /\ at = "settle" /\ at' = "idle" /\ run' = None /\ marked' = FALSE
      /\ messages' = messages /\ queue' = queue /\ turns' = turns /\ shown' = shown
  BY DEF Settle
<1>2. TypeInv'
  BY <1>1 DEF ContextInv, TypeInv, Stages
<1>3. QueueInv'
  BY <1>1 DEF ContextInv, QueueInv
<1>4. First(messages, None)
  BY NoneHasNone DEF ContextInv, First
<1>5. RunInv'
  BY <1>1, <1>4 DEF RunInv
<1>6. OpenInv' /\ ShownInv'
  BY <1>1 DEF ContextInv, OpenInv, ShownInv
<1> QED BY <1>1, <1>2, <1>3, <1>5, <1>6 DEF ContextInv

LEMMA DownKeeps == ASSUME ContextInv, Down PROVE ContextInv'
<1>1. /\ at' = "down" /\ queue' = <<>> /\ run' = run /\ marked' = marked
      /\ messages' = messages /\ turns' = turns /\ shown' = shown
  BY DEF Down
<1>2. <<>> \in Seq(Requests)
  BY EmptySeq
<1>3. TypeInv'
  BY <1>1, <1>2 DEF ContextInv, TypeInv, Stages
<1>4. QueueInv' /\ OpenInv'
  BY <1>1 DEF QueueInv, OpenInv
<1>5. RunInv'
  BY <1>1 DEF ContextInv, RunInv
<1>6. ShownInv'
  BY <1>1 DEF ContextInv, ShownInv
<1> QED BY <1>1, <1>3, <1>4, <1>5, <1>6 DEF ContextInv

\* While nothing is attached, little has to hold of the next state.
LEMMA DownIs ==
    ASSUME TypeInv', Sound(messages'), InTurn(messages', turns'), at' = "down", First(messages', run'), ShownInv'
    PROVE  ContextInv'
<1>1. QueueInv' /\ OpenInv'
  BY DEF QueueInv, OpenInv
<1>2. RunInv'
  BY DEF RunInv
<1> QED BY <1>1, <1>2 DEF ContextInv

LEMMA RecoverBindKeeps == ASSUME ContextInv, RecoverBind PROVE ContextInv'
<1>1. Sound(messages) /\ InTurn(messages, turns) /\ TypeInv
  BY DEF ContextInv
<1>2. /\ at = "down" /\ at' = at /\ messages' = Bound(messages, run)
      /\ run' = run /\ queue' = queue /\ turns' = turns /\ shown' = shown /\ marked' = marked
      /\ \E m \in ToSet(messages) : Id(m) = User(run) /\ m.status = "queued"
  BY DEF RecoverBind, Bind
<1>3. PICK c \in DOMAIN messages : Id(messages[c]) = User(run) /\ Waits(messages, c)
  BY <1>1, <1>2 DEF ToSet, Waits, TypeInv
<1>4. run \in Requests
  BY <1>1, <1>3, MessageIs DEF Id, User
<1>5. Sound(messages') /\ InTurn(messages', turns)
  BY <1>1, <1>2, <1>3, <1>4, BindTurn
<1>6. /\ messages' \in Seq(MessageType) /\ DOMAIN messages' = DOMAIN messages
      /\ \A i \in DOMAIN messages :
             /\ messages'[i].status = messages[i].status
             /\ Id(messages'[i]) = Id(messages[i])
  BY <1>1, <1>2, <1>4, BoundIs
<1>7. First(messages', run)
  BY <1>6 DEF ContextInv, RunInv, First, Waits
<1>8. TypeInv'
  BY <1>1, <1>2, <1>6 DEF TypeInv
<1>9. ShownInv'
  BY <1>2 DEF ContextInv, ShownInv
<1> QED BY <1>2, <1>5, <1>7, <1>8, <1>9, DownIs

LEMMA RecoverCommitKeeps == ASSUME ContextInv, RecoverCommit PROVE ContextInv'
<1>1. Sound(messages) /\ InTurn(messages, turns) /\ TypeInv
  BY DEF ContextInv
<1>2. /\ at = "down" /\ at' = at /\ Commit(run)
      /\ run' = run /\ queue' = queue /\ shown' = shown /\ marked' = marked
      /\ \E m \in ToSet(messages) : Id(m) = User(run) /\ m.status = "queued"
  BY DEF RecoverCommit
<1>3. PICK c \in DOMAIN messages : Id(messages[c]) = User(run) /\ Waits(messages, c)
  BY <1>1, <1>2 DEF ToSet, Waits, TypeInv
<1>4. run \in Requests
  BY <1>1, <1>3, MessageIs DEF Id, User
<1>5. /\ Sound(messages') /\ InTurn(messages', turns')
      /\ messages' \in Seq(MessageType) /\ DOMAIN messages' = DOMAIN messages
      /\ \A i \in DOMAIN messages :
             /\ Id(messages'[i]) = Id(messages[i])
             /\ messages'[i].status = IF Id(messages[i]) = User(run) THEN "committed" ELSE messages[i].status
      /\ turns' \in Seq(Ids)
      /\ Len(shown') < Len(turns') /\ \A n \in DOMAIN shown' : shown'[n] = turns'[n]
  BY <1>2, <1>3, <1>4, CommitIs
<1>6. First(messages', run)
  BY <1>5 DEF First, Waits
<1>7. TypeInv'
  BY <1>1, <1>2, <1>5 DEF TypeInv
<1>8. ShownInv'
  <2>1. Len(shown') <= Len(turns')
    <3>1. Len(shown') \in Nat /\ Len(turns') \in Nat
      BY <1>7, LenProperties DEF TypeInv
    <3> QED BY <1>5, <3>1
  <2> QED BY <1>2, <1>5, <2>1 DEF ShownInv
<1> QED BY <1>2, <1>5, <1>6, <1>7, <1>8, DownIs

LEMMA RecoverAnswerKeeps == ASSUME ContextInv, RecoverAnswer PROVE ContextInv'
<1>1. Sound(messages) /\ InTurn(messages, turns) /\ TypeInv
  BY DEF ContextInv
<1>2. /\ at = "down" /\ at' = at
      /\ run' = run /\ queue' = queue /\ turns' = turns /\ shown' = shown /\ marked' = marked
      /\ \E m \in ToSet(messages) : m.status = "streaming" /\ messages' = WithStatus(messages, Id(m), "interrupted")
  BY DEF RecoverAnswer
<1>3. PICK c \in DOMAIN messages :
          messages[c].status = "streaming" /\ messages' = WithStatus(messages, Id(messages[c]), "interrupted")
  BY <1>1, <1>2 DEF ToSet, TypeInv
<1>4. Id(messages[c])[2] = "assistant"
  BY <1>1, <1>3, MessageIs DEF Sound
<1>5. "interrupted" \in Ended
  BY DEF Ended
<1>6. /\ Sound(messages') /\ InTurn(messages', turns)
      /\ messages' \in Seq(MessageType) /\ DOMAIN messages' = DOMAIN messages
      /\ \A i \in DOMAIN messages : Id(messages'[i]) = Id(messages[i])
      /\ \A i : Waits(messages', i) <=> Waits(messages, i)
  BY <1>3, <1>4, <1>5, EndIs
<1>7. First(messages', run)
  BY <1>6 DEF ContextInv, RunInv, First
<1>8. TypeInv'
  BY <1>1, <1>2, <1>6 DEF TypeInv
<1>9. ShownInv'
  BY <1>2 DEF ContextInv, ShownInv
<1> QED BY <1>2, <1>6, <1>7, <1>8, <1>9, DownIs

LEMMA AttachKeeps == ASSUME ContextInv, Attach PROVE ContextInv'
<1>1. Sound(messages) /\ InTurn(messages, turns) /\ TypeInv
  BY DEF ContextInv
<1>2. /\ at' = "idle" /\ run' = None /\ marked' = FALSE
      /\ messages' = messages /\ turns' = turns /\ shown' = shown
      /\ queue' = Queued(messages)
      /\ \A m \in ToSet(messages) : m.status # "streaming"
  BY DEF Attach
<1>3. /\ queue' \in Seq(Requests) /\ InLine(messages, queue')
      /\ \A i \in DOMAIN messages : Waits(messages, i) => \E k \in DOMAIN queue' : Id(messages[i]) = User(queue'[k])
  BY <1>1, <1>2, LineFromFile
<1>4. TypeInv'
  BY <1>1, <1>2, <1>3 DEF TypeInv, Stages
<1>5. QueueInv'
  BY <1>2, <1>3 DEF QueueInv
<1>6. First(messages, None)
  BY <1>1, NoneHasNone DEF First
<1>7. RunInv'
  BY <1>2, <1>6 DEF RunInv
<1>8. \A i \in DOMAIN messages : messages[i].status # "streaming"
  BY <1>1, <1>2 DEF ToSet, TypeInv
<1>9. OpenInv'
  BY <1>2, <1>8 DEF OpenInv
<1>10. ShownInv'
  BY <1>2 DEF ContextInv, ShownInv
<1> QED BY <1>1, <1>2, <1>4, <1>5, <1>7, <1>9, <1>10 DEF ContextInv

LEMMA CloneTaskKeeps == ASSUME ContextInv, CloneTask PROVE ContextInv'
<1>1. Sound(messages) /\ InTurn(messages, turns) /\ TypeInv
  BY DEF ContextInv
<1>2. /\ at = "down" /\ at' = at /\ messages' = ForClone(messages) /\ run' = None
      /\ queue' = queue /\ turns' = turns /\ shown' = shown /\ marked' = marked
  BY DEF CloneTask
<1>3. Sound(messages') /\ InTurn(messages', turns)
  BY <1>1, <1>2, CloneTurn
<1>4. First(messages', None)
  BY <1>3, NoneHasNone DEF First
<1>5. TypeInv'
  BY <1>1, <1>2, <1>3 DEF TypeInv, Sound
<1>6. ShownInv'
  BY <1>2 DEF ContextInv, ShownInv
<1> QED BY <1>2, <1>3, <1>4, <1>5, <1>6, DownIs

LEMMA StutterKeeps == ASSUME ContextInv, UNCHANGED vars PROVE ContextInv'
<1>1. /\ messages' = messages /\ marked' = marked /\ run' = run /\ at' = at
      /\ queue' = queue /\ turns' = turns /\ shown' = shown
  BY DEF vars
<1>2. TypeInv' /\ QueueInv' /\ OpenInv'
  BY <1>1 DEF ContextInv, TypeInv, QueueInv, OpenInv
<1>3. RunInv'
  BY <1>1 DEF ContextInv, RunInv
<1>4. ShownInv'
  BY <1>1 DEF ContextInv, ShownInv
<1> QED BY <1>1, <1>2, <1>3, <1>4 DEF ContextInv

LEMMA ContextStep == ContextInv /\ [Next]_vars => ContextInv'
<1> SUFFICES ASSUME ContextInv, [Next]_vars PROVE ContextInv'
  OBVIOUS
<1>1. CASE \E r \in Requests : Submit(r)
  BY <1>1, SubmitKeeps
<1>2. CASE SaveRun
  BY <1>2, SaveRunKeeps
<1>3. CASE BindInput
  BY <1>3, BindInputKeeps
<1>4. CASE CommitInput
  BY <1>4, CommitInputKeeps
<1>5. CASE OpenAnswer
  BY <1>5, OpenAnswerKeeps
<1>6. CASE MarkTask
  BY <1>6, MarkTaskKeeps
<1>7. CASE ShowContext
  BY <1>7, ShowContextKeeps
<1>8. CASE \E status \in Ended : EndAnswer(status)
  BY <1>8, EndAnswerKeeps
<1>9. CASE Settle
  BY <1>9, SettleKeeps
<1>10. CASE Down
  BY <1>10, DownKeeps
<1>11. CASE RecoverBind
  BY <1>11, RecoverBindKeeps
<1>12. CASE RecoverCommit
  BY <1>12, RecoverCommitKeeps
<1>13. CASE RecoverAnswer
  BY <1>13, RecoverAnswerKeeps
<1>14. CASE Attach
  BY <1>14, AttachKeeps
<1>15. CASE CloneTask
  BY <1>15, CloneTaskKeeps
<1>16. CASE UNCHANGED vars
  BY <1>16, StutterKeeps
<1> QED BY <1>1, <1>2, <1>3, <1>4, <1>5, <1>6, <1>7, <1>8, <1>9, <1>10, <1>11, <1>12, <1>13, <1>14, <1>15, <1>16 DEF Next

-----------------------------------------------------------------------------
(* The theorems.                                                             *)

\* The invariant of ConversationContext: the file, the turns, the queue, the Run in
\* hand and the last context shown agree in every reachable state.
THEOREM ContextInvHolds == Spec => []ContextInv
BY InitKeeps, ContextStep, PTL DEF Spec

\* for_run and the Loop's own selection give an Engine exactly the committed turns in
\* their order, whatever the order of the file, for every set of requests.
THEOREM ContextAlwaysIsTurns == Spec => []ContextIsTurns
<1>1. ContextInv => ContextIsTurns
  BY ContextNow DEF ContextIsTurns
<1> QED BY <1>1, ContextInvHolds, PTL

\* Each context _consume builds extends the one before it, across restarts and clones.
THEOREM ContextAlwaysGrows == Spec => ContextGrows
<1>1. ContextInv /\ [Next]_vars => [shown' # shown => IsStrictPrefix(shown, shown')]_vars
  <2> SUFFICES ASSUME ContextInv, [Next]_vars, shown' # shown PROVE IsStrictPrefix(shown, shown')
    OBVIOUS
  <2>1. ShowContext
    BY DEF Next, vars, Submit, SaveRun, BindInput, CommitInput, OpenAnswer, MarkTask, EndAnswer, Settle, Down,
           RecoverBind, RecoverCommit, RecoverAnswer, Attach, CloneTask
  <2>2. at = "context" /\ shown' = Context(run)
    BY <2>1 DEF ShowContext
  <2>3. /\ shown' \in Seq(Ids) /\ Len(shown') = Len(turns) - 1
        /\ \A n \in 1..(Len(turns) - 1) : shown'[n] = turns[n]
    BY <2>2, ContextNow
  <2>4. /\ shown \in Seq(Ids) /\ Len(turns) \in Nat /\ Len(shown) \in Nat /\ DOMAIN shown = 1..Len(shown)
        /\ Len(shown) + 1 < Len(turns)
        /\ \A n \in DOMAIN shown : shown[n] = turns[n]
    BY <2>2, LenProperties DEF ContextInv, TypeInv, ShownInv
  <2>5. Len(shown) < Len(shown') /\ \A n \in 1..Len(shown) : shown'[n] = shown[n]
    BY <2>3, <2>4
  <2>6. /\ SubSeq(shown, 1, Len(shown)) \in Seq(Ids) /\ Len(SubSeq(shown, 1, Len(shown))) = Len(shown)
        /\ \A n \in 1..Len(shown) : SubSeq(shown, 1, Len(shown))[n] = shown[n]
    BY <2>4, SubSeqProperties
  <2>7. /\ SubSeq(shown', 1, Len(shown)) \in Seq(Ids) /\ Len(SubSeq(shown', 1, Len(shown))) = Len(shown)
        /\ \A n \in 1..Len(shown) : SubSeq(shown', 1, Len(shown))[n] = shown'[n]
    BY <2>3, <2>4, <2>5, SubSeqProperties
  <2>8. SubSeq(shown, 1, Len(shown)) = SubSeq(shown', 1, Len(shown))
    BY <2>5, <2>6, <2>7, SeqEqual
  <2> QED BY <2>4, <2>5, <2>8 DEF IsStrictPrefix, IsPrefix
<1> QED BY <1>1, ContextInvHolds, PTL DEF Spec, ContextGrows

=============================================================================
