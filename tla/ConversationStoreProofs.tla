------------------------ MODULE ConversationStoreProofs ------------------------
(***************************************************************************)
(* The properties of ConversationStore for any number of stores, records   *)
(* and record sizes: RecordsDecode, CacheIsFile and NoDeltaAfterEnd under  *)
(* every fault, AcknowledgedStays as long as no power loss takes a file    *)
(* whose directory entry was not synced.                                   *)
(*                                                                         *)
(* None is inductive.  What a store has applied is the beginning of the    *)
(* file and its offset the position after it, however stale its stamp is   *)
(* (CacheInv), so that reading on from there yields what is missing; and   *)
(* an appending operation holds what its refresh found until it writes,    *)
(* and what it wrote until it applies (OpInv).  A store that a failing     *)
(* stat left ahead of its offset still covers what comes before the        *)
(* offset, and nothing that is not in the file: enough to admit or refuse  *)
(* an event as the file would.                                             *)
(***************************************************************************)
EXTENDS ConversationStoreRefines, SequenceTheorems, TLAPS

\* s is the beginning of t.
Begins(s, t) == Len(s) <= Len(t) /\ \A i \in 1..Len(s) : s[i] = t[i]

\* The first n members of t are in s, and s has nothing that t has not.
Covers(s, t, n) ==
    /\ \A i \in 1..n : \E k \in DOMAIN s : s[k] = t[i]
    /\ \A k \in DOMAIN s : \E i \in DOMAIN t : t[i] = s[k]

Ops == {Idle} \cup
    [at : {"repair", "write", "sync", "syncDirectory", "apply"}, store : Stores, event : Event]

FileOK ==
    /\ lines \in Seq(Record) /\ torn \in Nat /\ exists \in BOOLEAN
    /\ synced \in 0..Len(lines) /\ entry \in BOOLEAN
CacheOK ==
    /\ seen \in [Stores -> Seq(Record)] /\ offset \in [Stores -> Nat]
    /\ size \in [Stores -> Nat \cup {Unknown}]
    /\ stamp \in [Stores -> {"same", "changed", "replaced"}]
    /\ ahead \subseteq Stores
TypeOK == FileOK /\ CacheOK /\ op \in Ops /\ acked \in Seq(Record)

\* Records end one after the other.
Rising == \A i, j \in 0..Len(lines) : i < j => Bytes(i) < Bytes(j)

FileInv ==
    /\ Rising
    /\ ~exists => lines = <<>> /\ torn = 0
    /\ RecordsDecode /\ NoDeltaAfterEnd

\* What a store has, whether or not its stamp is the file's.
StoreKnows(s) ==
    /\ size[s] = Unknown => seen[s] = <<>> /\ offset[s] = 0
    /\ size[s] # Unknown /\ stamp[s] # "replaced" =>
           Begins(seen[s], lines) /\ offset[s] = Bytes(Len(seen[s]))
    /\ size[s] # Unknown /\ stamp[s] = "same" =>
           Len(seen[s]) = Len(lines) /\ size[s] = FileSize /\ exists

\* What a store has that is ahead of its offset.
AheadKnows(s) ==
    size[s] # Unknown /\ stamp[s] # "replaced" =>
        \E n \in 0..Len(lines) :
            /\ offset[s] = Bytes(n) /\ Covers(seen[s], lines, n)
            /\ stamp[s] = "same" => n = Len(lines) /\ size[s] = FileSize /\ exists

Knows(s) == IF s \in ahead THEN AheadKnows(s) ELSE StoreKnows(s)
CacheInv == \A s \in Stores : Knows(s)

\* The operation in progress, until it writes and until it applies.
BeforeWrite(s, e) ==
    /\ Covers(seen[s], lines, Len(lines))
    /\ s \notin ahead => seen[s] = lines
    /\ e.kind = "delta" => ~Has(lines, "status")
AfterWrite(s, e) ==
    /\ exists /\ Len(lines) > 0 /\ lines[Len(lines)].kind = e.kind
    /\ Covers(seen[s], lines, Len(lines) - 1)
    /\ s \notin ahead => Len(lines) = Len(seen[s]) + 1 /\ Begins(seen[s], lines)
OpInv ==
    /\ op.at \in {"repair", "write"} => BeforeWrite(op.store, op.event)
    /\ op.at \in {"sync", "syncDirectory", "apply"} => AfterWrite(op.store, op.event)
    /\ op.at \in {"write", "sync", "syncDirectory", "apply"} => torn = 0
    /\ op.at \in {"syncDirectory", "apply"} => synced = Len(lines)

StoreInv == TypeOK /\ FileInv /\ CacheInv /\ OpInv

\* Acknowledged records are on stable storage.
AckInv == Len(acked) <= synced /\ Begins(acked, lines)

-----------------------------------------------------------------------------
(* Beginnings of sequences, and positions in the file.                       *)

LEMMA WholeBegins ==
    ASSUME NEW S, NEW s \in Seq(S), NEW t \in Seq(S), Begins(s, t), Len(s) = Len(t)
    PROVE  s = t
BY SeqEqual DEF Begins

LEMMA BeginsAppended ==
    ASSUME NEW S, NEW s \in Seq(S), NEW t \in Seq(S), NEW e \in S, Begins(s, t)
    PROVE  Begins(s, Append(t, e))
<1>1. Len(s) \in Nat /\ Len(t) \in Nat
  BY LenProperties
<1>q. QED
  BY <1>1, AppendProperties DEF Begins

LEMMA BeginsAppend ==
    ASSUME NEW S, NEW t \in Seq(S), NEW e \in S
    PROVE  Begins(t, Append(t, e))
<1>1. Len(t) \in Nat
  BY LenProperties
<1>q. QED
  BY <1>1, AppendProperties DEF Begins

LEMMA Cut ==
    ASSUME NEW S, NEW t \in Seq(S), NEW n \in 0..Len(t)
    PROVE  /\ SubSeq(t, 1, n) \in Seq(S) /\ Len(SubSeq(t, 1, n)) = n
           /\ \A i \in 1..n : SubSeq(t, 1, n)[i] = t[i]
<1>1. Len(t) \in Nat /\ \A i \in 1..n : t[i] \in S
  BY LenProperties, ElementOfSeq
<1>2. n \in Int /\ 1 \in Int /\ n - 1 + 1 = n
  BY <1>1
<1>3. /\ SubSeq(t, 1, n) \in Seq(S) /\ Len(SubSeq(t, 1, n)) = IF 1 <= n THEN n - 1 + 1 ELSE 0
      /\ \A i \in 1 .. n - 1 + 1 : SubSeq(t, 1, n)[i] = t[1 + i - 1]
  BY <1>1, <1>2, SubSeqProperties
<1>q. QED
  BY <1>1, <1>2, <1>3

\* What is missing completes a beginning.
LEMMA BeginsCompleted ==
    ASSUME NEW S, NEW s \in Seq(S), NEW t \in Seq(S), Begins(s, t)
    PROVE  s \o SubSeq(t, Len(s) + 1, Len(t)) = t
<1> DEFINE r == SubSeq(t, Len(s) + 1, Len(t))
<1>1. Len(s) \in Nat /\ Len(t) \in Nat /\ Len(s) <= Len(t)
  BY LenProperties DEF Begins
<1>2. \A i \in Len(s) + 1 .. Len(t) : t[i] \in S
  BY <1>1, ElementOfSeq
<1>3. /\ r \in Seq(S) /\ Len(r) = IF Len(s) + 1 <= Len(t) THEN Len(t) - (Len(s) + 1) + 1 ELSE 0
      /\ \A i \in 1 .. Len(t) - (Len(s) + 1) + 1 : r[i] = t[Len(s) + 1 + i - 1]
  BY <1>1, <1>2, SubSeqProperties
<1>4. Len(r) = Len(t) - Len(s) /\ \A i \in 1 .. Len(r) : r[i] = t[Len(s) + i]
  BY <1>1, <1>3
<1> HIDE DEF r
<1>5. /\ s \o r \in Seq(S) /\ Len(s \o r) = Len(t)
      /\ \A i \in 1 .. Len(s) + Len(r) : (s \o r)[i] = IF i <= Len(s) THEN s[i] ELSE r[i - Len(s)]
  BY <1>1, <1>3, <1>4, ConcatProperties
<1>6. ASSUME NEW i \in 1 .. Len(s \o r) PROVE (s \o r)[i] = t[i]
  <2>1. CASE i <= Len(s)
    BY <2>1, <1>1, <1>4, <1>5 DEF Begins
  <2>2. CASE i > Len(s)
    <3>1. i - Len(s) \in 1 .. Len(r) /\ Len(s) + (i - Len(s)) = i
      BY <2>2, <1>1, <1>4, <1>5
    <3>q. QED
      BY <2>2, <3>1, <1>1, <1>4, <1>5
  <2>q. QED
    BY <2>1, <2>2, <1>1, <1>5
<1>7. s \o r = t
  BY <1>5, <1>6, SeqEqual
<1>q. QED
  BY <1>7 DEF r

LEMMA Positions ==
    ASSUME FileOK
    PROVE  /\ Len(lines) \in Nat /\ DOMAIN lines = 1..Len(lines)
           /\ \A i \in 1..Len(lines) : lines[i] \in Record /\ lines[i].end \in Nat
           /\ \A n \in 0..Len(lines) : Bytes(n) \in Nat
           /\ FileSize \in Nat
<1>1. Len(lines) \in Nat /\ DOMAIN lines = 1..Len(lines) /\ torn \in Nat
  BY LenProperties DEF FileOK
<1>2. \A i \in 1..Len(lines) : lines[i] \in Record
  BY ElementOfSeq DEF FileOK
<1>3. \A i \in 1..Len(lines) : lines[i].end \in Nat
  BY <1>2 DEF Record
<1>4. \A n \in 0..Len(lines) : Bytes(n) \in Nat
  BY <1>1, <1>3 DEF Bytes
<1>q. QED
  BY <1>1, <1>2, <1>3, <1>4 DEF FileSize

\* Reading on from the end of a record yields the records after it.
LEMMA RecordsAfter ==
    ASSUME FileOK, Rising, NEW n \in 0..Len(lines)
    PROVE  RecordsFrom(Bytes(n)) = SubSeq(lines, n + 1, Len(lines))
<1>1. Len(lines) \in Nat /\ \A k \in 0..Len(lines) : Bytes(k) \in Nat
  BY Positions
<1>2. \A k \in 0..Len(lines) : Bytes(k) = Bytes(n) => k = n
  BY <1>1 DEF Rising
<1>3. (CHOOSE k \in 0..Len(lines) : Bytes(k) = Bytes(n)) = n
  BY <1>2
<1>q. QED
  BY <1>3 DEF RecordsFrom

LEMMA EventTyped ==
    ASSUME NEW e \in Event
    PROVE  e.size \in Nat /\ e.size > 1 /\ e.kind \in {"create", "delta", "status"}
<1>1. e.kind \in {"create", "delta", "status"} /\ e.size \in LineSizes[e.kind]
  BY DEF Event
<1>2. e.size \in Nat /\ e.size # 0 /\ e.size # 1
  BY <1>1, SizesAssumption
<1>q. QED
  BY <1>1, <1>2

-----------------------------------------------------------------------------
(* What covers a sequence.                                                   *)

LEMMA BeginningCovers ==
    ASSUME NEW S, NEW s \in Seq(S), NEW t \in Seq(S), Begins(s, t)
    PROVE  Covers(s, t, Len(s))
<1>1. Len(s) \in Nat /\ Len(t) \in Nat /\ DOMAIN s = 1..Len(s) /\ DOMAIN t = 1..Len(t)
  BY LenProperties
<1>q. QED
  BY <1>1 DEF Begins, Covers

LEMMA WholeCovers == ASSUME NEW S, NEW s \in Seq(S) PROVE Covers(s, s, Len(s))
<1>1. Len(s) \in Nat
  BY LenProperties
<1>q. QED
  BY <1>1, BeginningCovers DEF Begins

LEMMA CoversAppended ==
    ASSUME NEW S, NEW s \in Seq(S), NEW t \in Seq(S), NEW e \in S, NEW n \in 0..Len(t),
           Covers(s, t, n)
    PROVE  Covers(s, Append(t, e), n)
<1>1. Len(t) \in Nat /\ DOMAIN t = 1..Len(t)
  BY LenProperties
<1>2. /\ Append(t, e) \in Seq(S) /\ Len(Append(t, e)) = Len(t) + 1
      /\ \A i \in 1..Len(t) : Append(t, e)[i] = t[i]
  BY AppendProperties
<1>3. DOMAIN Append(t, e) = 1..(Len(t) + 1)
  BY <1>2, LenProperties
<1>q. QED
  BY <1>1, <1>2, <1>3 DEF Covers

\* A member of t is added: it is covered, and nothing else is.
LEMMA CoversLearned ==
    ASSUME NEW S, NEW s \in Seq(S), NEW t \in Seq(S), NEW m \in DOMAIN t, NEW n \in 0..Len(t),
           Covers(s, t, n)
    PROVE  /\ Covers(Append(s, t[m]), t, n)
           /\ m = n + 1 => Covers(Append(s, t[m]), t, m)
<1>1. Len(s) \in Nat /\ DOMAIN s = 1..Len(s) /\ DOMAIN t = 1..Len(t) /\ t[m] \in S
  BY LenProperties, ElementOfSeq
<1> DEFINE u == Append(s, t[m])
<1>2. /\ u \in Seq(S) /\ Len(u) = Len(s) + 1 /\ u[Len(s) + 1] = t[m]
      /\ \A i \in 1..Len(s) : u[i] = s[i]
  BY <1>1, AppendProperties
<1>3. DOMAIN u = 1..(Len(s) + 1)
  BY <1>2, LenProperties
<1> HIDE DEF u
<1>s. \A k \in DOMAIN s : k \in DOMAIN u /\ u[k] = s[k]
  BY <1>1, <1>2, <1>3
<1>l. Len(s) + 1 \in DOMAIN u /\ u[Len(s) + 1] = t[m]
  BY <1>1, <1>2, <1>3
<1>4. \A k \in DOMAIN u : \E i \in DOMAIN t : t[i] = u[k]
  <2> SUFFICES ASSUME NEW k \in DOMAIN u PROVE \E i \in DOMAIN t : t[i] = u[k]
    OBVIOUS
  <2>1. CASE k \in DOMAIN s
    <3>1. \E i \in DOMAIN t : t[i] = s[k]
      BY <2>1 DEF Covers
    <3>q. QED
      BY <2>1, <3>1, <1>s
  <2>2. CASE k = Len(s) + 1
    BY <2>2, <1>l
  <2>q. QED
    BY <2>1, <2>2, <1>1, <1>3
<1>5. \A i \in 1..n : \E k \in DOMAIN u : u[k] = t[i]
  <2> SUFFICES ASSUME NEW i \in 1..n PROVE \E k \in DOMAIN u : u[k] = t[i]
    OBVIOUS
  <2>1. PICK k \in DOMAIN s : s[k] = t[i]
    BY DEF Covers
  <2>q. QED
    BY <2>1, <1>s
<1>6. \E k \in DOMAIN u : u[k] = t[m]
  BY <1>l
<1>7. Covers(u, t, n) /\ (m = n + 1 => Covers(u, t, m))
  BY <1>1, <1>4, <1>5, <1>6 DEF Covers
<1>q. QED
  BY <1>7 DEF u

\* What comes after the first n is added.
LEMMA CoversCompleted ==
    ASSUME NEW S, NEW s \in Seq(S), NEW t \in Seq(S), NEW n \in 0..Len(t), Covers(s, t, n)
    PROVE  /\ s \o SubSeq(t, n + 1, Len(t)) \in Seq(S)
           /\ Covers(s \o SubSeq(t, n + 1, Len(t)), t, Len(t))
<1> DEFINE r == SubSeq(t, n + 1, Len(t))
           u == s \o r
<1>1. /\ Len(s) \in Nat /\ Len(t) \in Nat /\ n \in Nat /\ n <= Len(t)
      /\ DOMAIN s = 1..Len(s) /\ DOMAIN t = 1..Len(t)
  BY LenProperties
<1>2. \A i \in n + 1 .. Len(t) : t[i] \in S
  BY <1>1, ElementOfSeq
<1>3. /\ r \in Seq(S) /\ Len(r) = IF n + 1 <= Len(t) THEN Len(t) - (n + 1) + 1 ELSE 0
      /\ \A i \in 1 .. Len(t) - (n + 1) + 1 : r[i] = t[n + 1 + i - 1]
  BY <1>1, <1>2, SubSeqProperties
<1> HIDE DEF r, u
<1>l. Len(r) = Len(t) - n /\ Len(t) - (n + 1) + 1 = Len(r) /\ Len(r) \in Nat
  <2>1. Len(r) = IF n + 1 <= Len(t) THEN Len(t) - (n + 1) + 1 ELSE 0
    BY <1>3
  <2>2. CASE n + 1 <= Len(t)
    BY <2>1, <2>2, <1>1
  <2>3. CASE ~(n + 1 <= Len(t))
    <3>1. Len(r) = 0
      BY <2>1, <2>3
    <3>2. \A a, b \in Nat : a <= b /\ ~(a + 1 <= b) => a = b
      OBVIOUS
    <3>3. n = Len(t)
      BY <2>3, <1>1, <3>2
    <3>q. QED
      BY <3>1, <3>3, <1>1
  <2>q. QED
    BY <2>2, <2>3
<1>4. Len(r) = Len(t) - n /\ \A i \in 1 .. Len(r) : r[i] = t[n + i]
  <2> SUFFICES ASSUME NEW i \in 1 .. Len(r) PROVE r[i] = t[n + i]
    BY <1>l
  <2>1. i \in 1 .. Len(t) - (n + 1) + 1 /\ n + 1 + i - 1 = n + i
    BY <1>1, <1>l
  <2>q. QED
    BY <2>1, <1>3
<1>5. /\ u \in Seq(S) /\ Len(u) = Len(s) + Len(r)
      /\ \A i \in 1 .. Len(s) + Len(r) : u[i] = IF i <= Len(s) THEN s[i] ELSE r[i - Len(s)]
  BY <1>3, ConcatProperties DEF u
<1>6. DOMAIN u = 1 .. Len(s) + Len(r)
  BY <1>5, LenProperties
<1>7. \A k \in 1 .. Len(s) : k \in DOMAIN u /\ u[k] = s[k]
  BY <1>1, <1>4, <1>5, <1>6
<1>8. \A i \in 1 .. Len(r) : Len(s) + i \in DOMAIN u /\ u[Len(s) + i] = t[n + i]
  <2> SUFFICES ASSUME NEW i \in 1 .. Len(r)
               PROVE  Len(s) + i \in DOMAIN u /\ u[Len(s) + i] = t[n + i]
    OBVIOUS
  <2>1. Len(s) + i \in 1 .. Len(s) + Len(r) /\ ~(Len(s) + i <= Len(s)) /\ Len(s) + i - Len(s) = i
    BY <1>1, <1>4
  <2>2. u[Len(s) + i] = r[i]
    BY <2>1, <1>5
  <2>q. QED
    BY <2>1, <2>2, <1>4, <1>6
<1>9. \A i \in 1 .. Len(t) : \E k \in DOMAIN u : u[k] = t[i]
  <2> SUFFICES ASSUME NEW i \in 1 .. Len(t) PROVE \E k \in DOMAIN u : u[k] = t[i]
    OBVIOUS
  <2>1. CASE i <= n
    <3>1. PICK k \in DOMAIN s : s[k] = t[i]
      BY <2>1, <1>1 DEF Covers
    <3>q. QED
      BY <3>1, <1>1, <1>7
  <2>2. CASE i > n
    <3>1. i - n \in 1 .. Len(r) /\ n + (i - n) = i
      BY <2>2, <1>1, <1>4
    <3>2. Len(s) + (i - n) \in DOMAIN u /\ u[Len(s) + (i - n)] = t[i]
      BY <3>1, <1>8
    <3>q. QED
      BY <3>2
  <2>q. QED
    BY <2>1, <2>2, <1>1
<1>10. \A k \in DOMAIN u : \E i \in DOMAIN t : t[i] = u[k]
  <2> SUFFICES ASSUME NEW k \in DOMAIN u PROVE \E i \in DOMAIN t : t[i] = u[k]
    OBVIOUS
  <2>1. CASE k <= Len(s)
    <3>1. k \in 1 .. Len(s)
      BY <2>1, <1>1, <1>4, <1>6
    <3>q. QED
      BY <3>1, <1>1, <1>7 DEF Covers
  <2>2. CASE k > Len(s)
    <3>1. k - Len(s) \in 1 .. Len(r) /\ Len(s) + (k - Len(s)) = k
      BY <2>2, <1>1, <1>4, <1>6
    <3>2. u[k] = t[n + (k - Len(s))]
      BY <3>1, <1>8
    <3>3. n + (k - Len(s)) \in DOMAIN t
      BY <3>1, <1>1, <1>4
    <3>q. QED
      BY <3>2, <3>3
  <2>q. QED
    BY <2>1, <2>2, <1>1, <1>4, <1>6
<1>11. u \in Seq(S) /\ Covers(u, t, Len(t))
  BY <1>5, <1>9, <1>10 DEF Covers
<1>q. QED
  BY <1>11 DEF r, u

-----------------------------------------------------------------------------
(* Init, and a store that reads.                                             *)

LEMMA StoreInit == Init => StoreInv /\ AckInv
<1> SUFFICES ASSUME Init
             PROVE  StoreInv /\ AckInv
  OBVIOUS
<1>1. <<>> \in Seq(Record) /\ Len(<<>>) = 0
  BY EmptySeq
<1>2. FileOK
  <2>1. lines = <<>> /\ torn = 0 /\ synced = 0 /\ exists = FALSE /\ entry = FALSE
    BY DEF Init
  <2>2. lines \in Seq(Record) /\ Len(lines) = 0
    BY <1>1, <2>1
  <2>3. exists \in BOOLEAN /\ entry \in BOOLEAN
    BY <2>1
  <2>4. torn \in Nat /\ synced \in 0..Len(lines)
    BY <2>1, <2>2
  <2>q. QED
    BY <2>2, <2>3, <2>4 DEF FileOK
<1>3. CacheOK
  BY <1>1 DEF Init, CacheOK
<1>4. TypeOK
  BY <1>1, <1>2, <1>3 DEF Init, TypeOK, Ops
<1>5. FileInv
  <2>1. DOMAIN lines = {} /\ lines = <<>> /\ torn = 0
    BY <1>1, <1>2, Positions DEF Init
  <2>2. Rising
    BY <1>1, <2>1 DEF Rising
  <2>q. QED
    BY <2>1, <2>2 DEF FileInv, RecordsDecode, NoDeltaAfterEnd, Has
<1>6. CacheInv
  BY DEF Init, CacheInv, Knows, StoreKnows
<1>7. OpInv
  BY DEF Init, OpInv, Idle
<1>8. AckInv
  BY <1>1 DEF Init, AckInv, Begins
<1>q. QED
  BY <1>4, <1>5, <1>6, <1>7, <1>8 DEF StoreInv

LEMMA FileFrame ==
    ASSUME UNCHANGED file
    PROVE  /\ FileOK => FileOK'
           /\ FileInv => FileInv'
           /\ \A n : Bytes(n)' = Bytes(n)
           /\ FileSize' = FileSize
<1>1. \A n : Bytes(n)' = Bytes(n)
  BY DEF file, Bytes
<1>2. FileSize' = FileSize
  BY DEF file, FileSize, Bytes
<1>3. Rising => Rising'
  BY <1>1 DEF file, Rising
<1>4. RecordsDecode => RecordsDecode'
  BY DEF file, RecordsDecode, Has
<1>5. NoDeltaAfterEnd => NoDeltaAfterEnd'
  BY DEF file, NoDeltaAfterEnd
<1>q. QED
  BY <1>1, <1>2, <1>3, <1>4, <1>5 DEF file, FileOK, FileInv

\* What the other stores know, nobody has touched.
LEMMA OthersKnow ==
    ASSUME StoreInv, UNCHANGED file, NEW r \in Stores,
           seen'[r] = seen[r], offset'[r] = offset[r], size'[r] = size[r], stamp'[r] = stamp[r],
           r \in ahead' <=> r \in ahead
    PROVE  Knows(r)'
<1>1. /\ \A n : Bytes(n)' = Bytes(n)
      /\ FileSize' = FileSize /\ lines' = lines /\ exists' = exists
  BY FileFrame DEF file
<1>2. Knows(r)
  BY DEF StoreInv, CacheInv
<1>3. CASE r \in ahead
  BY <1>1, <1>2, <1>3 DEF Knows, AheadKnows
<1>4. CASE r \notin ahead
  BY <1>1, <1>2, <1>4 DEF Knows, StoreKnows
<1>q. QED
  BY <1>3, <1>4

\* A store that starts over.
LEMMA ResetKnows ==
    ASSUME StoreInv, NEW s \in Stores, Reset(s), UNCHANGED file
    PROVE  /\ CacheOK' /\ CacheInv'
           /\ seen'[s] = <<>> /\ size'[s] = Unknown /\ s \notin ahead'
           /\ \A r \in Stores \ {s} : seen'[r] = seen[r] /\ (r \in ahead' <=> r \in ahead)
<1>1. CacheOK /\ <<>> \in Seq(Record)
  BY EmptySeq DEF StoreInv, TypeOK
<1>2. /\ seen' = [seen EXCEPT ![s] = <<>>] /\ offset' = [offset EXCEPT ![s] = 0]
      /\ size' = [size EXCEPT ![s] = Unknown] /\ stamp' = stamp /\ ahead' = ahead \ {s}
  BY DEF Reset
<1>3. CacheOK'
  BY <1>1, <1>2 DEF CacheOK
<1>4. seen'[s] = <<>> /\ offset'[s] = 0 /\ size'[s] = Unknown /\ s \notin ahead'
  BY <1>1, <1>2 DEF CacheOK
<1>5. \A r \in Stores \ {s} :
         /\ seen'[r] = seen[r] /\ offset'[r] = offset[r]
         /\ size'[r] = size[r] /\ stamp'[r] = stamp[r]
         /\ r \in ahead' <=> r \in ahead
  BY <1>1, <1>2 DEF CacheOK
<1>6. Knows(s)'
  BY <1>4 DEF Knows, StoreKnows
<1>7. CacheInv'
  BY <1>5, <1>6, OthersKnow DEF CacheInv
<1>q. QED
  BY <1>3, <1>4, <1>5, <1>7

\* Whatever a store knew, after a refresh that does not raise it covers the file, and has
\* it exactly unless it is ahead; and the difference between its size and its offset is
\* the torn tail.
LEMMA Refreshed ==
    ASSUME StoreInv, NEW s \in Stores, Refresh(s), ~RefreshRaises(s), UNCHANGED file
    PROVE  /\ CacheOK' /\ CacheInv'
           /\ Covers(seen'[s], lines, Len(lines))
           /\ s \notin ahead' => seen'[s] = lines
           /\ s \in ahead' => s \in ahead
           /\ \A r \in Stores \ {s} : seen'[r] = seen[r] /\ (r \in ahead' <=> r \in ahead)
           /\ (size'[s] # Unknown /\ offset'[s] < size'[s]) <=> torn > 0
<1>1. TypeOK /\ FileOK /\ CacheOK /\ FileInv /\ Rising /\ Knows(s)
  BY DEF StoreInv, TypeOK, FileInv, CacheInv
<1>2. /\ Len(lines) \in Nat /\ FileSize \in Nat /\ \A n \in 0..Len(lines) : Bytes(n) \in Nat
      /\ FileSize = Bytes(Len(lines)) + torn /\ torn \in Nat
  BY <1>1, Positions DEF FileSize, FileOK
<1>3. lines \in Seq(Record) /\ seen[s] \in Seq(Record) /\ <<>> \in Seq(Record) /\ Len(<<>>) = 0
  BY <1>1, EmptySeq DEF FileOK, CacheOK
<1>4. /\ \A n : Bytes(n)' = Bytes(n)
      /\ FileSize' = FileSize /\ lines' = lines /\ exists' = exists
  BY FileFrame DEF file
<1>5. Unknown \notin Nat /\ FileSize # Unknown
  BY <1>2, SizesAssumption
<1>6. Covers(lines, lines, Len(lines))
  BY <1>3, WholeCovers
<1>7. CASE ~exists
  <2>1. Reset(s)
    BY <1>7 DEF Refresh
  <2>2. lines = <<>> /\ torn = 0
    BY <1>1, <1>7 DEF FileInv
  <2>q. QED
    BY <1>6, <2>1, <2>2, ResetKnows
<1>8. CASE exists /\ UpToDate(s)
  <2>1. seen' = seen /\ offset' = offset /\ size' = size /\ stamp' = stamp /\ ahead' = ahead
    BY <1>8 DEF Refresh, cache
  <2>2. CacheOK'
    BY <1>1, <2>1 DEF CacheOK
  <2>3. CacheInv'
    BY <2>1, OthersKnow DEF CacheInv
  <2>4. CASE s \in ahead
    <3>1. /\ offset[s] = Bytes(Len(lines)) /\ size[s] = FileSize
          /\ Covers(seen[s], lines, Len(lines))
      BY <1>1, <1>8, <2>4 DEF Knows, AheadKnows, UpToDate
    <3>2. offset[s] \in Nat /\ (offset[s] < size[s] <=> torn > 0)
      BY <1>2, <3>1
    <3>q. QED
      BY <1>8, <2>1, <2>2, <2>3, <2>4, <3>1, <3>2 DEF UpToDate
  <2>5. CASE s \notin ahead
    <3>1. /\ Begins(seen[s], lines) /\ offset[s] = Bytes(Len(seen[s]))
          /\ Len(seen[s]) = Len(lines) /\ size[s] = FileSize
      BY <1>1, <1>8, <2>5 DEF Knows, StoreKnows, UpToDate
    <3>2. seen[s] = lines
      BY <1>3, <3>1, WholeBegins
    <3>3. offset[s] = Bytes(Len(lines)) /\ Bytes(Len(lines)) \in Nat
      BY <1>2, <3>1
    <3>4. offset[s] < size[s] <=> torn > 0
      BY <1>2, <3>1, <3>3
    <3>q. QED
      BY <1>6, <1>8, <2>1, <2>2, <2>3, <2>5, <3>2, <3>4 DEF UpToDate
  <2>q. QED
    BY <2>4, <2>5
<1>9. CASE exists /\ ~UpToDate(s)
  <2> DEFINE known == IF Replay(s) THEN <<>> ELSE seen[s]
             from == IF Replay(s) THEN 0 ELSE offset[s]
             new == known \o RecordsFrom(from)
  <2>1. /\ seen' = [seen EXCEPT ![s] = new]
        /\ offset' = [offset EXCEPT ![s] = Bytes(Len(lines))]
        /\ size' = [size EXCEPT ![s] = FileSize]
        /\ stamp' = [stamp EXCEPT ![s] = "same"]
        /\ ahead' = IF Replay(s) THEN ahead \ {s} ELSE ahead
    BY <1>9 DEF Refresh, CatchUp
  <2>2. /\ new \in Seq(Record) /\ Covers(new, lines, Len(lines))
        /\ Replay(s) \/ s \notin ahead => new = lines
    <3>1. PICK n \in 0..Len(lines) :
              /\ known \in Seq(Record) /\ Covers(known, lines, n) /\ from = Bytes(n)
              /\ Replay(s) \/ s \notin ahead => Begins(known, lines) /\ n = Len(known)
      <4>1. CASE Replay(s)
        <5>1. known = <<>> /\ from = Bytes(0) /\ Begins(<<>>, lines) /\ 0 \in 0..Len(lines)
          BY <1>2, <1>3, <4>1 DEF Begins, Bytes
        <5>2. Covers(<<>>, lines, 0)
          BY <1>3, <5>1, BeginningCovers
        <5>q. QED
          BY <1>3, <4>1, <5>1, <5>2
      <4>2. CASE ~Replay(s) /\ s \notin ahead
        <5>1. known = seen[s] /\ from = Bytes(Len(seen[s])) /\ Begins(seen[s], lines)
          BY <1>1, <4>2 DEF Knows, StoreKnows, Replay
        <5>2. Len(seen[s]) \in 0..Len(lines)
          BY <1>2, <1>3, <5>1, LenProperties DEF Begins
        <5>q. QED
          BY <1>3, <4>2, <5>1, <5>2, BeginningCovers
      <4>3. CASE ~Replay(s) /\ s \in ahead
        BY <1>1, <1>3, <4>3 DEF Knows, AheadKnows, Replay
      <4>q. QED
        BY <4>1, <4>2, <4>3
    <3> HIDE DEF known, from
    <3>2. RecordsFrom(from) = SubSeq(lines, n + 1, Len(lines))
      BY <1>1, <3>1, RecordsAfter
    <3>3. new \in Seq(Record) /\ Covers(new, lines, Len(lines))
      BY <1>3, <3>1, <3>2, CoversCompleted
    <3>4. Replay(s) \/ s \notin ahead => new = lines
      BY <1>3, <3>1, <3>2, BeginsCompleted
    <3>q. QED
      BY <3>3, <3>4
  <2> HIDE DEF new
  <2>3. CacheOK'
    BY <1>1, <1>2, <2>1, <2>2 DEF CacheOK
  <2>4. /\ seen'[s] = new /\ offset'[s] = Bytes(Len(lines))
        /\ size'[s] = FileSize /\ stamp'[s] = "same"
    BY <1>1, <2>1 DEF CacheOK
  <2>5. \A r \in Stores \ {s} :
           /\ seen'[r] = seen[r] /\ offset'[r] = offset[r]
           /\ size'[r] = size[r] /\ stamp'[r] = stamp[r]
           /\ r \in ahead' <=> r \in ahead
    BY <1>1, <2>1 DEF CacheOK
  <2>6. (s \in ahead' => s \in ahead) /\ (s \notin ahead' => new = lines)
    BY <2>1, <2>2
  <2>7. Knows(s)'
    <3>1. CASE s \in ahead'
      <4>1. Len(lines') \in 0..Len(lines')
        BY <1>2, <1>4
      <4>q. QED
        BY <1>4, <1>9, <2>2, <2>4, <3>1, <4>1 DEF Knows, AheadKnows
    <3>2. CASE s \notin ahead'
      <4>1. Begins(lines, lines)
        BY <1>2 DEF Begins
      <4>q. QED
        BY <1>4, <1>5, <1>9, <2>4, <2>6, <3>2, <4>1 DEF Knows, StoreKnows
    <3>q. QED
      BY <3>1, <3>2
  <2>8. CacheInv'
    BY <2>5, <2>7, OthersKnow DEF CacheInv
  <2>9. offset'[s] < size'[s] <=> torn > 0
    BY <1>2, <2>4
  <2>q. QED
    BY <1>5, <2>2, <2>3, <2>4, <2>5, <2>6, <2>8, <2>9
<1>q. QED
  BY <1>7, <1>8, <1>9

\* op changes and the file does not.
LEMMA ReadKeeps == ASSUME StoreInv, NEW s \in Stores, Read(s) PROVE StoreInv'
<1>1. op = Idle /\ Refresh(s) /\ UNCHANGED file /\ op' = op /\ acked' = acked
  BY DEF Read, file
<1>2. CacheOK' /\ CacheInv'
  <2>1. CASE RefreshRaises(s)
    BY <1>1, <2>1, ResetKnows DEF Refresh
  <2>2. CASE ~RefreshRaises(s)
    BY <1>1, <2>2, Refreshed
  <2>q. QED
    BY <2>1, <2>2
<1>3. FileOK' /\ FileInv'
  BY <1>1, FileFrame DEF StoreInv, TypeOK
<1>4. op' \in Ops /\ acked' \in Seq(Record)
  BY <1>1 DEF StoreInv, TypeOK
<1>5. OpInv'
  BY <1>1 DEF OpInv, Idle
<1>q. QED
  BY <1>2, <1>3, <1>4, <1>5 DEF StoreInv, TypeOK

\* What a store that covers the file finds in itself is in the file.
LEMMA SameKinds ==
    ASSUME NEW s \in Seq(Record), NEW t \in Seq(Record), Covers(s, t, Len(t)), NEW kind
    PROVE  Has(s, kind) <=> Has(t, kind)
<1>1. DOMAIN t = 1..Len(t)
  BY LenProperties
<1>q. QED
  BY <1>1 DEF Covers, Has

LEMMA BeginKeeps ==
    ASSUME StoreInv, NEW s \in Stores, NEW e \in Event, Begin(s, e)
    PROVE  StoreInv'
<1>1. Refresh(s) /\ ~RefreshRaises(s) /\ UNCHANGED file /\ acked' = acked /\ Admitted(s, e)
  BY DEF Begin
<1>2. /\ CacheOK' /\ CacheInv' /\ Covers(seen'[s], lines, Len(lines))
      /\ s \notin ahead' => seen'[s] = lines
      /\ Torn(s, e) <=> torn > 0
  BY <1>1, Refreshed DEF Torn
<1>3. FileOK' /\ FileInv'
  BY <1>1, FileFrame DEF StoreInv, TypeOK
<1>4. PICK at \in {"repair", "write"} :
          op' = [at |-> at, store |-> s, event |-> e] /\ (at = "write" => ~Torn(s, e))
  BY DEF Begin
<1>5. op'.at = at /\ op'.store = s /\ op'.event = e
  BY <1>4
<1>6. op' \in Ops
  BY <1>4 DEF Ops
<1>7. acked' \in Seq(Record)
  BY <1>1 DEF StoreInv, TypeOK
<1>8. torn' = torn /\ lines' = lines
  BY <1>1 DEF file
<1>9. at = "write" => torn' = 0
  BY <1>2, <1>4, <1>8 DEF StoreInv, TypeOK, FileOK
<1>10. seen'[s] \in Seq(Record) /\ lines \in Seq(Record)
  BY <1>2, <1>3, <1>8 DEF CacheOK, FileOK
<1>11. e.kind = "delta" => ~Has(lines, "status")
  BY <1>1, <1>2, <1>10, SameKinds DEF Admitted
<1>12. BeforeWrite(op.store, op.event)'
  BY <1>2, <1>5, <1>8, <1>11 DEF BeforeWrite, Has
<1>13. OpInv'
  BY <1>5, <1>9, <1>12 DEF OpInv
<1>q. QED
  BY <1>2, <1>3, <1>6, <1>7, <1>13 DEF StoreInv, TypeOK

-----------------------------------------------------------------------------
(* The appending operations.                                                 *)

\* The file changes and the stores take notice.
LEMMA StaleKnows ==
    ASSUME StoreInv, UNCHANGED <<seen, offset, size, ahead>>, Changed("changed"),
           \A t \in Seq(Record) : Begins(t, lines) => Begins(t, lines'),
           \A n \in 0..Len(lines) :
               /\ Bytes(n)' = Bytes(n) /\ n \in 0..Len(lines')
               /\ \A t \in Seq(Record) : Covers(t, lines, n) => Covers(t, lines', n)
    PROVE  CacheOK' /\ CacheInv'
<1>1. CacheOK /\ FileOK
  BY DEF StoreInv, TypeOK
<1>2. stamp' = [s \in Stores |-> IF stamp[s] = "replaced" THEN "replaced" ELSE "changed"]
  BY DEF Changed
<1>3. CacheOK'
  BY <1>1, <1>2 DEF CacheOK
<1>4. ASSUME NEW s \in Stores PROVE Knows(s)'
  <2>1. seen[s] \in Seq(Record) /\ Len(seen[s]) \in Nat /\ Len(lines) \in Nat
    BY <1>1, LenProperties DEF CacheOK, FileOK
  <2>2. stamp'[s] # "same" /\ (stamp'[s] # "replaced" => stamp[s] # "replaced")
    BY <1>2
  <2>3. Knows(s)
    BY DEF StoreInv, CacheInv
  <2>4. Begins(seen[s], lines) => Len(seen[s]) \in 0..Len(lines)
    BY <2>1 DEF Begins
  <2>5. CASE s \in ahead
    BY <2>1, <2>2, <2>3, <2>5 DEF Knows, AheadKnows
  <2>6. CASE s \notin ahead
    BY <2>1, <2>2, <2>3, <2>4, <2>6 DEF Knows, StoreKnows
  <2>q. QED
    BY <2>5, <2>6
<1>q. QED
  BY <1>3, <1>4 DEF CacheInv

LEMMA Went ==
    ASSUME NEW at \in {"repair", "write", "sync", "syncDirectory", "apply"},
           op \in Ops, op # Idle, op' = [op EXCEPT !.at = at]
    PROVE  op' \in Ops /\ op'.at = at /\ op'.store = op.store /\ op'.event = op.event
BY DEF Ops

LEMMA OpTyped ==
    ASSUME TypeOK, op # Idle
    PROVE  op.store \in Stores /\ op.event \in Event
BY DEF TypeOK, Ops

LEMMA RepairKeeps == ASSUME StoreInv, Repair PROVE StoreInv'
<1>1. /\ op.at = "repair" /\ torn' = 0 /\ synced' = Len(lines) /\ Changed("changed")
      /\ op' = [op EXCEPT !.at = "write"]
      /\ lines' = lines /\ exists' = exists /\ entry' = entry
      /\ UNCHANGED <<seen, offset, size, ahead>> /\ acked' = acked
  BY DEF Repair, Goto
<1>2. op # Idle /\ TypeOK
  BY <1>1 DEF Idle, StoreInv
<1>3. op' \in Ops /\ op'.at = "write" /\ op'.store = op.store /\ op'.event = op.event
  BY <1>1, <1>2, Went DEF TypeOK
<1>4. Len(lines) \in Nat
  BY <1>2, Positions DEF TypeOK
<1>5. FileOK'
  BY <1>1, <1>2, <1>4 DEF TypeOK, FileOK
<1>6. \A n : Bytes(n)' = Bytes(n)
  BY <1>1 DEF Bytes
<1>7. FileInv'
  BY <1>1, <1>6 DEF StoreInv, FileInv, Rising, RecordsDecode, NoDeltaAfterEnd, Has
<1>8. CacheOK' /\ CacheInv'
  BY <1>1, <1>6, StaleKnows
<1>9. OpInv'
  BY <1>1, <1>3 DEF StoreInv, OpInv, BeforeWrite, Has
<1>q. QED
  BY <1>1, <1>2, <1>3, <1>5, <1>7, <1>8, <1>9 DEF StoreInv, TypeOK

LEMMA WriteKeeps ==
    ASSUME StoreInv, Write
    PROVE  StoreInv' /\ Begins(lines, lines')
<1> DEFINE rec == [kind |-> op.event.kind, end |-> FileSize + op.event.size]
<1>1. /\ op.at = "write" /\ torn' = 0 /\ exists' = TRUE /\ Changed("changed")
      /\ op' = [op EXCEPT !.at = "sync"]
      /\ synced' = synced /\ entry' = entry
      /\ UNCHANGED <<seen, offset, size, ahead>> /\ acked' = acked
  BY DEF Write, Goto
<1>2. op # Idle /\ TypeOK /\ FileOK /\ torn = 0 /\ FileInv /\ Rising
  BY <1>1 DEF Idle, StoreInv, TypeOK, OpInv, FileInv
<1>3. lines' = Append(lines, rec)
  BY <1>1, <1>2 DEF Write
<1>4. op.event \in Event /\ op.store \in Stores
  BY <1>2, OpTyped
<1>5. op.event.size \in Nat /\ op.event.size > 1 /\ op.event.kind \in {"create", "delta", "status"}
  BY <1>4, EventTyped
<1>6. /\ Len(lines) \in Nat /\ FileSize = Bytes(Len(lines)) /\ FileSize \in Nat
      /\ DOMAIN lines = 1..Len(lines)
      /\ \A n \in 0..Len(lines) : Bytes(n) \in Nat
      /\ lines \in Seq(Record)
  BY <1>2, Positions DEF FileSize, FileOK
<1>7. rec \in Record /\ rec.end > Bytes(Len(lines)) /\ rec.end \in Nat /\ rec.kind = op.event.kind
  BY <1>5, <1>6 DEF Record
<1> HIDE DEF rec
<1>8. /\ lines' \in Seq(Record) /\ Len(lines') = Len(lines) + 1
      /\ \A i \in 1..Len(lines) : lines'[i] = lines[i]
      /\ lines'[Len(lines) + 1] = rec
  BY <1>3, <1>6, <1>7, AppendProperties
<1>9. DOMAIN lines' = 1..Len(lines) + 1
  BY <1>8, LenProperties
<1>10. /\ Begins(lines, lines') /\ \A t \in Seq(Record) : Begins(t, lines) => Begins(t, lines')
       /\ \A n \in 0..Len(lines), t \in Seq(Record) : Covers(t, lines, n) => Covers(t, lines', n)
       /\ \A n \in 0..Len(lines) : n \in 0..Len(lines')
  BY <1>3, <1>6, <1>7, <1>8, BeginsAppended, BeginsAppend, CoversAppended
<1>11. FileOK'
  BY <1>1, <1>2, <1>6, <1>8 DEF FileOK
<1>12. /\ \A n \in 0..Len(lines) : Bytes(n)' = Bytes(n)
       /\ \A n : n = Len(lines) + 1 => Bytes(n)' = rec.end
  BY <1>6, <1>8 DEF Bytes
<1>13. FileInv'
  <2>1. Rising'
    <3> SUFFICES ASSUME NEW i \in 0..Len(lines) + 1, NEW j \in 0..Len(lines) + 1, i < j
                 PROVE  Bytes(i)' < Bytes(j)'
      BY <1>6, <1>8 DEF Rising
    <3>1. CASE j <= Len(lines)
      <4>1. i \in 0..Len(lines) /\ j \in 0..Len(lines)
        BY <3>1, <1>6
      <4>2. Bytes(i) < Bytes(j)
        BY <4>1, <1>2 DEF Rising
      <4>q. QED
        BY <4>1, <4>2, <1>12
    <3>2. CASE j = Len(lines) + 1
      <4>1. i \in 0..Len(lines) /\ Len(lines) \in 0..Len(lines)
        BY <3>2, <1>6
      <4>2. Bytes(i) <= Bytes(Len(lines)) /\ Bytes(i) \in Nat /\ Bytes(Len(lines)) \in Nat
        BY <4>1, <1>2, <1>6 DEF Rising
      <4>3. Bytes(i)' = Bytes(i) /\ Bytes(j)' = rec.end
        BY <3>2, <4>1, <1>12
      <4>q. QED
        BY <4>2, <4>3, <1>7
    <3>q. QED
      BY <3>1, <3>2, <1>6
  <2>2. RecordsDecode'
    BY <1>2, <1>5, <1>6, <1>7, <1>8, <1>9 DEF FileInv, RecordsDecode, Has
  <2>3. NoDeltaAfterEnd'
    <3> SUFFICES ASSUME NEW i \in 1..Len(lines) + 1, NEW j \in 1..Len(lines) + 1, i < j,
                        lines'[i].kind = "status", lines'[j].kind = "delta"
                 PROVE  FALSE
      BY <1>9 DEF NoDeltaAfterEnd
    <3>1. i \in 1..Len(lines) /\ lines[i].kind = "status"
      BY <1>6, <1>8
    <3>2. CASE j \in 1..Len(lines)
      BY <3>1, <3>2, <1>2, <1>6, <1>8 DEF FileInv, NoDeltaAfterEnd
    <3>3. CASE j = Len(lines) + 1
      <4>1. op.event.kind = "delta"
        BY <3>3, <1>7, <1>8
      <4>2. ~Has(lines, "status")
        BY <4>1, <1>1 DEF StoreInv, OpInv, BeforeWrite
      <4>q. QED
        BY <4>2, <3>1, <1>6 DEF Has
    <3>q. QED
      BY <3>2, <3>3, <1>6
  <2>q. QED
    BY <2>1, <2>2, <2>3, <1>1 DEF FileInv
<1>14. CacheOK' /\ CacheInv'
  BY <1>1, <1>10, <1>12, StaleKnows
<1>15. op' \in Ops /\ op'.at = "sync" /\ op'.store = op.store /\ op'.event = op.event
  BY <1>1, <1>2, Went DEF TypeOK
<1>16. OpInv'
  <2>1. /\ Covers(seen[op.store], lines, Len(lines))
        /\ op.store \notin ahead => seen[op.store] = lines
    BY <1>1 DEF StoreInv, OpInv, BeforeWrite
  <2>2. seen[op.store] \in Seq(Record) /\ Len(lines) \in 0..Len(lines)
    BY <1>2, <1>4, <1>6 DEF TypeOK, CacheOK
  <2>3. Covers(seen[op.store], lines', Len(lines))
    BY <1>10, <2>1, <2>2
  <2>4. Len(lines') - 1 = Len(lines) /\ Len(lines') > 0
    BY <1>6, <1>8
  <2>5. AfterWrite(op.store, op.event)'
    BY <1>1, <1>7, <1>8, <1>10, <1>15, <2>1, <2>3, <2>4 DEF AfterWrite
  <2>q. QED
    BY <1>1, <1>15, <2>5 DEF OpInv
<1>q. QED
  BY <1>1, <1>2, <1>10, <1>11, <1>13, <1>14, <1>15, <1>16 DEF StoreInv, TypeOK

LEMMA SyncKeeps == ASSUME StoreInv, Sync \/ SyncDirectory PROVE StoreInv'
<1>1. /\ op.at \in {"sync", "syncDirectory"} /\ UNCHANGED cache /\ acked' = acked
      /\ lines' = lines /\ torn' = torn /\ exists' = exists
  BY DEF Sync, SyncDirectory
<1>2. op # Idle /\ TypeOK
  BY <1>1 DEF Idle, StoreInv
<1>3. /\ synced' \in {synced, Len(lines)}
      /\ op.at = "sync" => synced' = Len(lines)
      /\ op.at = "syncDirectory" => synced' = synced
      /\ entry' \in BOOLEAN
  BY <1>1, <1>2 DEF Sync, SyncDirectory, TypeOK, FileOK
<1>4. PICK at \in {"syncDirectory", "apply"} : op' = [op EXCEPT !.at = at]
  BY DEF Sync, SyncDirectory, Goto
<1>5. op' \in Ops /\ op'.at = at /\ op'.store = op.store /\ op'.event = op.event
  BY <1>2, <1>4, Went DEF TypeOK
<1>6. FileOK'
  BY <1>1, <1>2, <1>3, Positions DEF TypeOK, FileOK
<1>7. \A n : Bytes(n)' = Bytes(n)
  BY <1>1 DEF Bytes
<1>8. FileSize' = FileSize
  BY <1>1 DEF FileSize, Bytes
<1>9. FileInv'
  BY <1>1, <1>7 DEF StoreInv, FileInv, Rising, RecordsDecode, NoDeltaAfterEnd, Has
<1>10. CacheOK' /\ CacheInv'
  <2>1. CacheOK'
    BY <1>1, <1>2 DEF cache, TypeOK, CacheOK
  <2>2. ASSUME NEW r \in Stores PROVE Knows(r)'
    BY <1>1, <1>7, <1>8 DEF cache, StoreInv, CacheInv, Knows, AheadKnows, StoreKnows
  <2>q. QED
    BY <2>1, <2>2 DEF CacheInv
<1>11. OpInv'
  BY <1>1, <1>3, <1>5 DEF cache, StoreInv, OpInv, AfterWrite
<1>q. QED
  BY <1>1, <1>2, <1>5, <1>6, <1>9, <1>10, <1>11 DEF StoreInv, TypeOK

\* The record an operation has written, and what its store has without it.
LEMMA Written ==
    ASSUME StoreInv, op.at = "apply"
    PROVE  /\ op.store \in Stores /\ exists /\ torn = 0
           /\ Len(lines) \in DOMAIN lines
           /\ lines[Len(lines)] = [kind |-> op.event.kind, end |-> FileSize]
           /\ FileSize = Bytes(Len(lines)) /\ FileSize \in Nat
           /\ lines \in Seq(Record) /\ seen[op.store] \in Seq(Record)
           /\ Covers(seen[op.store], lines, Len(lines) - 1)
           /\ op.store \notin ahead =>
                  Len(lines) = Len(seen[op.store]) + 1 /\ Begins(seen[op.store], lines)
<1>1. op # Idle /\ TypeOK /\ FileOK /\ CacheOK
  BY DEF Idle, StoreInv, TypeOK
<1>2. op.store \in Stores
  BY <1>1, OpTyped
<1>3. AfterWrite(op.store, op.event) /\ torn = 0
  BY DEF StoreInv, OpInv
<1>4. exists /\ Len(lines) > 0 /\ lines[Len(lines)].kind = op.event.kind
  BY <1>3 DEF AfterWrite
<1>5. lines \in Seq(Record) /\ seen[op.store] \in Seq(Record)
  BY <1>1, <1>2 DEF FileOK, CacheOK
<1>6. /\ Len(lines) \in Nat /\ DOMAIN lines = 1..Len(lines) /\ FileSize \in Nat
      /\ \A n \in 0..Len(lines) : Bytes(n) \in Nat
  BY <1>1, Positions
<1>7. Len(lines) \in DOMAIN lines /\ Len(lines) # 0 /\ Len(lines) \in 0..Len(lines)
  BY <1>4, <1>6
<1>8. FileSize = Bytes(Len(lines))
  <2>1. Bytes(Len(lines)) \in Nat
    BY <1>6, <1>7
  <2>q. QED
    BY <2>1, <1>3 DEF FileSize
<1>9. lines[Len(lines)] = [kind |-> op.event.kind, end |-> FileSize]
  <2>1. lines[Len(lines)] \in Record
    BY <1>5, <1>6, <1>7, ElementOfSeq
  <2>2. lines[Len(lines)].end = FileSize
    BY <1>7, <1>8 DEF Bytes
  <2>q. QED
    BY <2>1, <2>2, <1>4 DEF Record
<1>q. QED
  BY <1>2, <1>3, <1>4, <1>5, <1>6, <1>7, <1>8, <1>9 DEF AfterWrite

\* The last member of a sequence completes the beginning that lacks only it.
LEMMA BeginsLast ==
    ASSUME NEW S, NEW s \in Seq(S), NEW t \in Seq(S), Begins(s, t), Len(t) = Len(s) + 1
    PROVE  Append(s, t[Len(t)]) = t
<1>1. Len(s) \in Nat /\ Len(t) \in Nat /\ Len(t) \in 1..Len(t)
  BY LenProperties
<1>2. t[Len(t)] \in S
  BY <1>1, ElementOfSeq
<1> DEFINE u == Append(s, t[Len(t)])
<1>3. /\ u \in Seq(S) /\ Len(u) = Len(s) + 1 /\ u[Len(s) + 1] = t[Len(t)]
      /\ \A i \in 1..Len(s) : u[i] = s[i]
  BY <1>2, AppendProperties
<1> HIDE DEF u
<1>4. \A i \in 1..Len(t) : u[i] = t[i]
  <2> SUFFICES ASSUME NEW i \in 1..Len(t) PROVE u[i] = t[i]
    OBVIOUS
  <2>1. CASE i \in 1..Len(s)
    BY <2>1, <1>3 DEF Begins
  <2>2. CASE i = Len(s) + 1
    BY <2>2, <1>3
  <2>q. QED
    BY <2>1, <2>2, <1>1
<1>5. u = t
  BY <1>3, <1>4, SeqEqual
<1>q. QED
  BY <1>5 DEF u

LEMMA ApplyKeeps ==
    ASSUME StoreInv, Apply
    PROVE  StoreInv' /\ \A s \in Stores : s = op.store /\ s \notin ahead => seen'[s] = lines
<1> DEFINE last == lines[Len(lines)]
<1>0. PICK s \in Stores : s = op.store
  BY Written DEF Apply
<1>3. /\ exists /\ Len(lines) \in DOMAIN lines
      /\ FileSize = Bytes(Len(lines)) /\ FileSize \in Nat
      /\ lines \in Seq(Record) /\ seen[s] \in Seq(Record)
      /\ Covers(seen[s], lines, Len(lines) - 1)
      /\ s \notin ahead => Len(lines) = Len(seen[s]) + 1 /\ Begins(seen[s], lines)
  BY <1>0, Written DEF Apply
<1>w. last = [kind |-> op.event.kind, end |-> FileSize]
  BY Written DEF Apply
<1>1. /\ op.at = "apply" /\ op' = Idle /\ acked' = lines /\ UNCHANGED file /\ ahead' = ahead
      /\ seen' = [seen EXCEPT ![s] = Append(seen[s], last)]
      /\ offset' = [offset EXCEPT ![s] = FileSize]
      /\ size' = [size EXCEPT ![s] = FileSize]
      /\ stamp' = [stamp EXCEPT ![s] = "same"]
  BY <1>0, <1>w DEF Apply
<1>2. TypeOK /\ FileOK /\ CacheOK
  BY DEF StoreInv, TypeOK
<1>4. Len(lines) \in Nat /\ Len(lines) - 1 \in 0..Len(lines) /\ Len(lines) = Len(lines) - 1 + 1
  BY <1>3, LenProperties
<1> HIDE DEF last
<1>l. last \in Record
  BY <1>3, <1>4, ElementOfSeq, LenProperties DEF last
<1> DEFINE new == Append(seen[s], last)
<1>5. Covers(new, lines, Len(lines))
  BY <1>3, <1>4, CoversLearned DEF last
<1>n. new \in Seq(Record)
  BY <1>3, <1>l, AppendProperties
<1>b. s \notin ahead => new = lines
  BY <1>3, BeginsLast DEF last
<1>s. seen' = [seen EXCEPT ![s] = new]
  BY <1>1
<1> HIDE DEF new
<1>6. CacheOK'
  BY <1>1, <1>2, <1>3, <1>n, <1>s DEF CacheOK
<1>7. FileOK' /\ FileInv'
  BY <1>1, <1>2, FileFrame DEF StoreInv
<1>8. /\ \A n : Bytes(n)' = Bytes(n)
      /\ FileSize' = FileSize /\ lines' = lines /\ exists' = exists
  BY <1>1, FileFrame DEF file
<1>9. /\ seen'[s] = new /\ offset'[s] = Bytes(Len(lines))
      /\ size'[s] = FileSize /\ stamp'[s] = "same"
  BY <1>1, <1>2, <1>3, <1>s DEF CacheOK
<1>10. Knows(s)'
  <2>1. CASE s \in ahead'
    <3>1. Len(lines') \in 0..Len(lines')
      BY <1>4, <1>8
    <3>q. QED
      BY <2>1, <3>1, <1>3, <1>5, <1>8, <1>9 DEF Knows, AheadKnows
  <2>2. CASE s \notin ahead'
    <3>1. Begins(lines, lines)
      BY <1>4 DEF Begins
    <3>2. FileSize # Unknown
      BY <1>3, SizesAssumption
    <3>3. new = lines
      BY <2>2, <1>1, <1>b
    <3>q. QED
      BY <2>2, <3>1, <3>2, <3>3, <1>3, <1>8, <1>9 DEF Knows, StoreKnows
  <2>q. QED
    BY <2>1, <2>2
<1>11. ASSUME NEW r \in Stores, r # s PROVE Knows(r)'
  <2>1. seen'[r] = seen[r] /\ offset'[r] = offset[r] /\ size'[r] = size[r] /\ stamp'[r] = stamp[r]
    BY <1>1, <1>2, <1>s, <1>11 DEF CacheOK
  <2>q. QED
    BY <2>1, <1>1, OthersKnow
<1>12. OpInv'
  BY <1>1 DEF OpInv, Idle
<1>13. CacheInv'
  BY <1>10, <1>11 DEF CacheInv
<1>14. TypeOK'
  BY <1>1, <1>3, <1>6, <1>7 DEF TypeOK, Ops
<1>q. QED
  BY <1>0, <1>b, <1>7, <1>9, <1>12, <1>13, <1>14 DEF StoreInv

-----------------------------------------------------------------------------
(* Faults.                                                                   *)

LEMMA CallFailsKeeps ==
    ASSUME StoreInv, CallFails, op # Idle, op' = Idle, acked' = acked
    PROVE  StoreInv'
<1>1. /\ op # Idle /\ op' = Idle /\ acked' = acked /\ UNCHANGED <<seen, offset, size, ahead>>
      /\ lines' = lines /\ synced' = synced /\ entry' = entry
  BY DEF CallFails, file
<1>2. TypeOK /\ FileOK /\ CacheOK /\ op.event \in Event
  BY <1>1, OpTyped DEF StoreInv, TypeOK
<1>3. torn \in Nat /\ op.event.size \in Nat
  BY <1>2, EventTyped DEF FileOK
<1>4. /\ torn' \in Nat /\ exists' \in BOOLEAN
      /\ ~exists' => ~exists /\ (torn' = torn \/ torn' = 0)
      /\ \/ stamp' = stamp /\ torn' = torn /\ exists' = exists
         \/ Changed("changed")
  <2>1. CASE op.at # "apply" /\ UNCHANGED <<file, stamp>>
    <3>1. stamp' = stamp /\ torn' = torn /\ exists' = exists
      BY <2>1 DEF file
    <3>2. exists \in BOOLEAN
      BY <1>2 DEF FileOK
    <3>q. QED
      BY <3>1, <3>2, <1>3
  <2>2. CASE /\ op.at = "write"
             /\ \E n \in 0..(op.event.size - 1) : torn' = torn + n
             /\ exists' = TRUE /\ Changed("changed")
    <3>1. PICK n \in 0..(op.event.size - 1) : torn' = torn + n
      BY <2>2
    <3>2. torn' \in Nat
      BY <3>1, <1>3
    <3>q. QED
      BY <3>2, <2>2
  <2>3. CASE op.at = "repair" /\ torn' = 0 /\ Changed("changed") /\ exists' = exists
    BY <2>3, <1>2, <1>3 DEF FileOK
  <2>q. QED
    BY <2>1, <2>2, <2>3 DEF CallFails
<1>5. FileOK'
  BY <1>1, <1>2, <1>4 DEF FileOK
<1>6. \A n : Bytes(n)' = Bytes(n)
  BY <1>1 DEF Bytes
<1>7. FileInv'
  <2>1. ~exists' => lines' = <<>> /\ torn' = 0
    BY <1>1, <1>4 DEF StoreInv, FileInv
  <2>q. QED
    BY <2>1, <1>1, <1>6 DEF StoreInv, FileInv, Rising, RecordsDecode, NoDeltaAfterEnd, Has
<1>8. CacheOK' /\ CacheInv'
  <2>1. CASE stamp' = stamp /\ torn' = torn /\ exists' = exists
    <3>1. FileSize' = FileSize
      BY <2>1, <1>1 DEF FileSize, Bytes
    <3>q. QED
      <4>1. CacheOK'
        BY <2>1, <1>1, <1>2 DEF CacheOK
      <4>2. ASSUME NEW r \in Stores PROVE Knows(r)'
        BY <2>1, <3>1, <1>1, <1>6 DEF StoreInv, CacheInv, Knows, AheadKnows, StoreKnows
      <4>q. QED
        BY <4>1, <4>2 DEF CacheInv
  <2>2. CASE Changed("changed")
    BY <2>2, <1>1, <1>6, StaleKnows
  <2>q. QED
    BY <2>1, <2>2, <1>4
<1>9. OpInv'
  BY <1>1 DEF OpInv, Idle
<1>q. QED
  BY <1>1, <1>2, <1>5, <1>7, <1>8, <1>9 DEF StoreInv, TypeOK, Ops

\* The record is applied and the offset is not moved: what the store knew of the file up
\* to its offset it still knows.
LEMMA StatFailsKeeps ==
    ASSUME StoreInv, StatFails, op' = Idle, acked' = acked
    PROVE  StoreInv'
<1> DEFINE last == lines[Len(lines)]
<1>0. PICK s \in Stores : s = op.store
  BY Written DEF StatFails
<1>3. /\ exists /\ Len(lines) \in DOMAIN lines
      /\ lines \in Seq(Record) /\ seen[s] \in Seq(Record)
      /\ s \notin ahead => Len(lines) = Len(seen[s]) + 1 /\ Begins(seen[s], lines)
  BY <1>0, Written DEF StatFails
<1>w. last = [kind |-> op.event.kind, end |-> FileSize]
  BY Written DEF StatFails
<1>1. /\ op.at = "apply" /\ UNCHANGED file /\ UNCHANGED <<offset, size, stamp>>
      /\ seen' = [seen EXCEPT ![s] = Append(seen[s], last)] /\ ahead' = ahead \cup {s}
  BY <1>0, <1>w DEF StatFails
<1>2. TypeOK /\ FileOK /\ CacheOK
  BY DEF StoreInv, TypeOK
<1>4. Len(lines) \in Nat /\ Len(seen[s]) \in Nat
  BY <1>3, LenProperties
<1> HIDE DEF last
<1>l. last \in Record
  BY <1>3, <1>4, ElementOfSeq, LenProperties DEF last
<1> DEFINE new == Append(seen[s], last)
<1>5. \A n \in 0..Len(lines) : Covers(seen[s], lines, n) => Covers(new, lines, n)
  BY <1>3, CoversLearned DEF last
<1>n. new \in Seq(Record)
  BY <1>3, <1>l, AppendProperties
<1>s. seen' = [seen EXCEPT ![s] = new]
  BY <1>1
<1> HIDE DEF new
<1>6. CacheOK'
  BY <1>1, <1>2, <1>n, <1>s DEF CacheOK
<1>7. FileOK' /\ FileInv'
  BY <1>1, <1>2, FileFrame DEF StoreInv
<1>8. /\ \A n : Bytes(n)' = Bytes(n)
      /\ FileSize' = FileSize /\ lines' = lines /\ exists' = exists
  BY <1>1, FileFrame DEF file
<1>9. /\ seen'[s] = new /\ s \in ahead'
      /\ offset'[s] = offset[s] /\ size'[s] = size[s] /\ stamp'[s] = stamp[s]
  BY <1>1, <1>2, <1>s DEF CacheOK
<1>10. Knows(s)'
  <2>1. CASE s \in ahead
    <3>1. AheadKnows(s)
      BY <2>1, <1>3 DEF StoreInv, CacheInv, Knows
    <3>q. QED
      BY <3>1, <1>5, <1>8, <1>9 DEF Knows, AheadKnows
  <2>2. CASE s \notin ahead
    <3>1. StoreKnows(s)
      BY <2>2, <1>3 DEF StoreInv, CacheInv, Knows
    <3>2. Len(seen[s]) \in 0..Len(lines) /\ Len(seen[s]) # Len(lines)
      BY <2>2, <1>3, <1>4
    <3>3. Covers(seen[s], lines, Len(seen[s]))
      BY <2>2, <1>3, BeginningCovers
    <3>q. QED
      BY <3>1, <3>2, <3>3, <1>5, <1>8, <1>9 DEF Knows, AheadKnows, StoreKnows
  <2>q. QED
    BY <2>1, <2>2
<1>11. ASSUME NEW r \in Stores, r # s PROVE Knows(r)'
  <2>1. /\ seen'[r] = seen[r] /\ offset'[r] = offset[r] /\ size'[r] = size[r] /\ stamp'[r] = stamp[r]
        /\ r \in ahead' <=> r \in ahead
    BY <1>1, <1>2, <1>s, <1>11 DEF CacheOK
  <2>q. QED
    BY <2>1, <1>1, OthersKnow
<1>12. OpInv'
  BY DEF OpInv, Idle
<1>13. CacheInv'
  BY <1>10, <1>11 DEF CacheInv
<1>14. TypeOK'
  BY <1>2, <1>6, <1>7 DEF TypeOK, Ops
<1>q. QED
  BY <1>7, <1>12, <1>13, <1>14 DEF StoreInv

LEMMA FailKeeps == ASSUME StoreInv, OperationFails PROVE StoreInv'
BY CallFailsKeeps, StatFailsKeeps DEF OperationFails

LEMMA ReadFailsKeeps == ASSUME StoreInv, NEW s \in Stores, ReadFails(s) PROVE StoreInv'
<1>1. op' = op /\ op = Idle /\ acked' = acked /\ UNCHANGED file /\ Reset(s)
  BY DEF ReadFails
<1>2. CacheOK' /\ CacheInv'
  BY <1>1, ResetKnows
<1>3. FileOK' /\ FileInv'
  BY <1>1, FileFrame DEF StoreInv, TypeOK
<1>4. OpInv'
  BY <1>1 DEF OpInv, Idle
<1>q. QED
  BY <1>1, <1>2, <1>3, <1>4 DEF StoreInv, TypeOK, Ops

\* A new process knows nothing.
LEMMA NewStoresKnow ==
    ASSUME NewStores
    PROVE  CacheOK' /\ CacheInv' /\ OpInv' /\ op' \in Ops
<1>1. /\ seen' = [s \in Stores |-> <<>>] /\ offset' = [s \in Stores |-> 0]
      /\ size' = [s \in Stores |-> Unknown] /\ stamp' = [s \in Stores |-> "changed"]
      /\ op' = Idle /\ ahead' = {}
  BY DEF NewStores
<1>2. CacheOK'
  BY <1>1, EmptySeq DEF CacheOK
<1>3. CacheInv'
  BY <1>1 DEF CacheInv, Knows, StoreKnows
<1>q. QED
  BY <1>1, <1>2, <1>3 DEF OpInv, Idle, Ops

LEMMA CrashKeeps == ASSUME StoreInv, Crash PROVE StoreInv'
<1>1. NewStores /\ UNCHANGED file /\ acked' = acked
  BY DEF Crash
<1>2. FileOK' /\ FileInv'
  BY <1>1, FileFrame DEF StoreInv, TypeOK
<1>q. QED
  BY <1>1, <1>2, NewStoresKnow DEF StoreInv, TypeOK

\* The file is cut after one of its records.
LEMMA CutKeeps ==
    ASSUME FileOK, FileInv, exists, NEW n \in 0..Len(lines), lines' = SubSeq(lines, 1, n),
           exists' = exists, torn' \in Nat, synced' = n, entry' \in BOOLEAN
    PROVE  FileOK' /\ FileInv' /\ Len(lines') = n /\ \A i \in 1..n : lines'[i] = lines[i]
<1>1. lines \in Seq(Record) /\ Len(lines) \in Nat /\ DOMAIN lines = 1..Len(lines)
  BY Positions DEF FileOK
<1>2. lines' \in Seq(Record) /\ Len(lines') = n /\ \A i \in 1..n : lines'[i] = lines[i]
  BY <1>1, Cut
<1>3. DOMAIN lines' = 1..n
  BY <1>2, LenProperties
<1>4. FileOK'
  BY <1>1, <1>2 DEF FileOK
<1>5. \A k \in 0..n : Bytes(k)' = Bytes(k)
  BY <1>1, <1>2 DEF Bytes
<1>6. Rising'
  BY <1>1, <1>2, <1>5 DEF FileInv, Rising
<1>7. RecordsDecode'
  BY <1>1, <1>2, <1>3 DEF FileInv, RecordsDecode, Has
<1>8. NoDeltaAfterEnd'
  BY <1>1, <1>2, <1>3 DEF FileInv, NoDeltaAfterEnd
<1>q. QED
  BY <1>2, <1>4, <1>6, <1>7, <1>8 DEF FileInv

LEMMA PowerLossKeeps == ASSUME StoreInv, PowerLoss PROVE StoreInv'
<1>1. NewStores /\ exists /\ acked' = acked
  BY DEF PowerLoss
<1>2. FileOK /\ FileInv /\ acked \in Seq(Record)
  BY DEF StoreInv, TypeOK
<1>3. FileOK' /\ FileInv'
  <2>1. ASSUME NEW n \in synced..Len(lines), lines' = SubSeq(lines, 1, n), synced' = n,
               torn' \in 0..(IF n = Len(lines) THEN torn ELSE Bytes(n + 1) - Bytes(n) - 1),
               entry' = TRUE, exists' = exists
        PROVE  FileOK' /\ FileInv'
    <3>1. n \in 0..Len(lines) /\ torn \in Nat /\ Len(lines) \in Nat
      BY <1>2, Positions DEF FileOK
    <3>2. n # Len(lines) => Bytes(n + 1) \in Nat /\ Bytes(n) \in Nat
      <4>1. n # Len(lines) => n + 1 \in 0..Len(lines)
        BY <3>1
      <4>2. \A k \in 0..Len(lines) : Bytes(k) \in Nat
        BY <1>2, Positions
      <4>q. QED
        BY <4>1, <4>2, <3>1
    <3>3. torn' \in Nat
      BY <2>1, <3>1, <3>2
    <3>q. QED
      BY <1>1, <1>2, <2>1, <3>1, <3>3, CutKeeps
  <2>2. CASE lines' = <<>> /\ torn' = 0 /\ exists' = FALSE /\ synced' = 0 /\ entry' = entry
    <3>1. <<>> \in Seq(Record) /\ Len(<<>>) = 0
      BY EmptySeq
    <3>2. DOMAIN lines' = {}
      BY <2>2, <3>1, LenProperties
    <3>3. FileOK'
      <4>1. lines' \in Seq(Record) /\ torn' \in Nat /\ synced' \in 0..Len(lines')
        BY <2>2, <3>1
      <4>2. exists' \in BOOLEAN /\ entry' \in BOOLEAN
        BY <1>2, <2>2 DEF FileOK
      <4>q. QED
        BY <4>1, <4>2 DEF FileOK
    <3>4. Rising'
      BY <2>2, <3>1 DEF Rising
    <3>5. RecordsDecode' /\ NoDeltaAfterEnd'
      BY <3>2 DEF RecordsDecode, NoDeltaAfterEnd, Has
    <3>q. QED
      BY <2>2, <3>3, <3>4, <3>5 DEF FileInv
  <2>q. QED
    BY <2>1, <2>2 DEF PowerLoss
<1>q. QED
  BY <1>1, <1>2, <1>3, NewStoresKnow DEF StoreInv, TypeOK

LEMMA ReplacedKeeps == ASSUME StoreInv, Replaced PROVE StoreInv'
<1>1. /\ op = Idle /\ op' = op /\ exists /\ exists' = exists /\ entry' = entry /\ torn' = 0
      /\ Changed("replaced") /\ acked' = lines' /\ UNCHANGED <<seen, offset, size, ahead>>
  BY DEF Replaced
<1>2. TypeOK /\ FileOK /\ CacheOK /\ FileInv
  BY DEF StoreInv, TypeOK
<1>3. PICK n \in 0..(Len(lines) - 1) : lines' = SubSeq(lines, 1, n) /\ synced' = n
  BY DEF Replaced
<1>4. n \in 0..Len(lines) /\ torn' \in Nat /\ entry' \in BOOLEAN
  BY <1>1, <1>2, Positions DEF FileOK
<1>5. FileOK' /\ FileInv'
  BY <1>1, <1>2, <1>3, <1>4, CutKeeps
<1>6. stamp' = [s \in Stores |-> "replaced"]
  BY <1>1 DEF Changed
<1>7. CacheOK'
  BY <1>1, <1>2, <1>6 DEF CacheOK
<1>8. CacheInv'
  BY <1>1, <1>6 DEF StoreInv, CacheInv, Knows, AheadKnows, StoreKnows
<1>9. OpInv'
  BY <1>1 DEF OpInv, Idle
<1>10. acked' \in Seq(Record) /\ op' \in Ops
  BY <1>1, <1>2, <1>5 DEF TypeOK, FileOK
<1>q. QED
  BY <1>5, <1>7, <1>8, <1>9, <1>10 DEF StoreInv, TypeOK

LEMMA StoreStep == StoreInv /\ [Next]_vars => StoreInv'
<1> SUFFICES ASSUME StoreInv, [Next]_vars
             PROVE  StoreInv'
  OBVIOUS
<1>1. ASSUME NEW s \in Stores, NEW e \in Event, Begin(s, e) PROVE StoreInv'
  BY <1>1, BeginKeeps
<1>2. CASE UNCHANGED vars
  <2>1. UNCHANGED file /\ UNCHANGED cache /\ op' = op /\ acked' = acked
    BY <1>2 DEF vars
  <2>2. FileOK' /\ FileInv' /\ FileSize' = FileSize /\ \A n : Bytes(n)' = Bytes(n)
    BY <2>1, FileFrame DEF StoreInv, TypeOK
  <2>3. CacheOK'
    BY <2>1 DEF cache, StoreInv, TypeOK, CacheOK
  <2>5. CacheInv'
    BY <2>1, OthersKnow DEF cache, CacheInv
  <2>4. OpInv'
    BY <2>1 DEF file, cache, StoreInv, OpInv, BeforeWrite, AfterWrite, Has
  <2>q. QED
    BY <2>1, <2>2, <2>3, <2>4, <2>5 DEF StoreInv, TypeOK
<1>q. QED
  BY <1>1, <1>2, ReadKeeps, ReadFailsKeeps, RepairKeeps, WriteKeeps, SyncKeeps, ApplyKeeps,
     FailKeeps, CrashKeeps, PowerLossKeeps, ReplacedKeeps DEF Next

\* The inductive invariant: types, the file, what each store knows of it, and what the
\* operation in progress holds.
THEOREM StoreInvHolds == Spec => []StoreInv
<1>1. Init => StoreInv
  BY StoreInit
<1>q. QED
  BY <1>1, StoreStep, PTL DEF Spec

\* Every variable keeps its type; the synced records are among those of the file.
THEOREM TypeCorrect == Spec => []TypeOK
<1>1. StoreInv => TypeOK
  BY DEF StoreInv
<1>q. QED
  BY <1>1, StoreInvHolds, PTL

\* Whatever crash, failing call or power loss left a torn tail, the next append of any
\* store cuts it first: every complete record decodes (_append, _repair_tail).
THEOREM RecordsAlwaysDecode == Spec => []RecordsDecode
<1>1. StoreInv => RecordsDecode
  BY DEF StoreInv, FileInv
<1>q. QED
  BY <1>1, StoreInvHolds, PTL

\* A store whose stamp is the file's has applied its records, no other, and goes on after
\* them, whoever wrote, repaired or replaced the file meanwhile; each of them once, unless
\* a stat failed after one of its own appends (_refresh, _append).
THEOREM CacheIsTheFile == Spec => []CacheIsFile
<1>1. StoreInv => CacheIsFile
  <2> SUFFICES ASSUME StoreInv, NEW s \in Stores, size[s] # Unknown, stamp[s] = "same"
               PROVE  /\ Range(seen[s]) = Range(lines) /\ offset[s] = Bytes(Len(lines))
                      /\ s \notin ahead => seen[s] = lines
    BY DEF CacheIsFile, UpToDate
  <2>1. lines \in Seq(Record) /\ seen[s] \in Seq(Record) /\ Knows(s)
    BY DEF StoreInv, TypeOK, FileOK, CacheOK, CacheInv
  <2>2. CASE s \in ahead
    <3>1. offset[s] = Bytes(Len(lines)) /\ Covers(seen[s], lines, Len(lines))
      BY <2>1, <2>2 DEF Knows, AheadKnows
    <3>2. DOMAIN lines = 1..Len(lines)
      BY <2>1, LenProperties
    <3>3. Range(seen[s]) = Range(lines)
      BY <3>1, <3>2 DEF Covers, Range
    <3>q. QED
      BY <2>2, <3>1, <3>3
  <2>3. CASE s \notin ahead
    <3>1. /\ Begins(seen[s], lines) /\ offset[s] = Bytes(Len(seen[s]))
          /\ Len(seen[s]) = Len(lines)
      BY <2>1, <2>3 DEF Knows, StoreKnows
    <3>q. QED
      BY <2>1, <3>1, WholeBegins
  <2>q. QED
    BY <2>2, <2>3
<1>q. QED
  BY <1>1, StoreInvHolds, PTL

\* No store appends text to a message that any store has ended: delta is checked against
\* the file as it is when the record is written (delta, _refresh).
THEOREM DeltasPrecedeTheEnd == Spec => []NoDeltaAfterEnd
<1>1. StoreInv => NoDeltaAfterEnd
  BY DEF StoreInv, FileInv
<1>q. QED
  BY <1>1, StoreInvHolds, PTL

-----------------------------------------------------------------------------
(* What was acknowledged.                                                    *)

LEMMA AckStep ==
    ASSUME "entry" \notin Faults
    PROVE  StoreInv /\ AckInv /\ [Next]_vars => AckInv'
<1> SUFFICES ASSUME StoreInv, AckInv, [Next]_vars
             PROVE  AckInv'
  OBVIOUS
<1>1. /\ lines \in Seq(Record) /\ acked \in Seq(Record) /\ Len(lines) \in Nat /\ Len(acked) \in Nat
      /\ synced \in 0..Len(lines) /\ FileOK /\ FileInv
  BY Positions, LenProperties DEF StoreInv, TypeOK, FileOK
<1>2. ASSUME acked' = acked, lines' = lines, synced' \in {synced, Len(lines)} PROVE AckInv'
  BY <1>1, <1>2 DEF AckInv, Begins
<1>3. CASE Write
  <2>1. Begins(lines, lines') /\ synced' = synced /\ acked' = acked
    BY <1>3, WriteKeeps DEF Write
  <2>2. Len(lines') \in Nat
    BY <1>3, WriteKeeps, LenProperties DEF StoreInv, TypeOK, FileOK
  <2>q. QED
    BY <1>1, <2>1, <2>2 DEF AckInv, Begins
<1>4. CASE Apply
  <2>1. acked' = lines /\ lines' = lines /\ synced' = synced /\ synced = Len(lines)
    BY <1>4 DEF Apply, file, StoreInv, OpInv
  <2>q. QED
    BY <1>1, <2>1 DEF AckInv, Begins
<1>5. CASE PowerLoss
  <2>1. PICK n \in synced..Len(lines) : /\ lines' = SubSeq(lines, 1, n) /\ synced' = n
                                        /\ acked' = acked
    BY <1>5 DEF PowerLoss
  <2>2. n \in 0..Len(lines) /\ Len(acked) <= n
    BY <1>1 DEF AckInv
  <2>3. Len(lines') = n /\ \A i \in 1..n : lines'[i] = lines[i]
    BY <1>1, <2>1, <2>2, Cut
  <2>q. QED
    BY <1>1, <2>1, <2>2, <2>3 DEF AckInv, Begins
<1>6. CASE Replaced
  <2>1. /\ acked' = lines'
        /\ \E n \in 0..(Len(lines) - 1) : lines' = SubSeq(lines, 1, n) /\ synced' = n
    BY <1>6 DEF Replaced
  <2>2. PICK n \in 0..(Len(lines) - 1) : lines' = SubSeq(lines, 1, n) /\ synced' = n
    BY <2>1
  <2>3. n \in 0..Len(lines)
    BY <1>1
  <2>4. Len(lines') = n
    BY <1>1, <2>2, <2>3, Cut
  <2>q. QED
    BY <1>1, <2>1, <2>2, <2>3, <2>4 DEF AckInv, Begins
<1>7. CASE \E s \in Stores : Read(s) \/ ReadFails(s) \/ \E e \in Event : Begin(s, e)
  BY <1>2, <1>7 DEF Read, ReadFails, Begin, file
<1>8. CASE Repair \/ Sync \/ SyncDirectory \/ OperationFails \/ Crash \/ UNCHANGED vars
  BY <1>2, <1>8 DEF Repair, Sync, SyncDirectory, OperationFails, CallFails, StatFails, Crash,
     file, vars
<1>q. QED
  BY <1>3, <1>4, <1>5, <1>6, <1>7, <1>8 DEF Next

\* What an append has acknowledged stays in the file at its place, through crashes,
\* failing calls, power losses and repairs, as long as no power loss takes a file whose
\* directory entry nobody has synced: the one way out, which the run conversation_entry
\* shows (_append).
THEOREM AcknowledgedRecordsStay == ASSUME "entry" \notin Faults PROVE Spec => []AcknowledgedStays
<1>1. Init => AckInv
  BY StoreInit
<1>2. StoreInv /\ AckInv /\ [Next]_vars => AckInv'
  BY AckStep
<1>3. StoreInv /\ AckInv => AcknowledgedStays
  <2> SUFFICES ASSUME StoreInv, AckInv
               PROVE  AcknowledgedStays
    OBVIOUS
  <2>1. /\ lines \in Seq(Record) /\ acked \in Seq(Record)
        /\ Len(lines) \in Nat /\ Len(acked) \in Nat
        /\ Len(acked) \in 0..Len(lines) /\ Begins(acked, lines)
    BY Positions, LenProperties DEF StoreInv, TypeOK, FileOK, AckInv
  <2>2. /\ SubSeq(lines, 1, Len(acked)) \in Seq(Record)
        /\ Len(SubSeq(lines, 1, Len(acked))) = Len(acked)
        /\ \A i \in 1..Len(acked) : SubSeq(lines, 1, Len(acked))[i] = lines[i]
    BY <2>1, Cut
  <2>3. SubSeq(lines, 1, Len(acked)) = acked
    BY <2>1, <2>2, SeqEqual DEF Begins
  <2>4. SubSeq(acked, 1, Len(acked)) = acked
    BY <2>1, SubSeqFull
  <2>q. QED
    BY <2>1, <2>3, <2>4 DEF AcknowledgedStays, IsPrefix
<1>q. QED
  BY <1>1, <1>2, <1>3, StoreInvHolds, PTL DEF Spec

-----------------------------------------------------------------------------
(* The steps of the log.                                                     *)

views == [s \in Stores |-> View(s)]
shown == <<Kinds(lines), Kinds(acked), Appending, views>>

EventKinds == {"create", "delta", "status", "garbage"}

LEMMA KindsOf ==
    ASSUME NEW s \in Seq(Record)
    PROVE  /\ Kinds(s) \in Seq(EventKinds) /\ Len(Kinds(s)) = Len(s) /\ Len(s) \in Nat
           /\ DOMAIN Kinds(s) = DOMAIN s /\ DOMAIN s = 1..Len(s)
           /\ \A n \in DOMAIN s : Kinds(s)[n] = s[n].kind
<1>1. Len(s) \in Nat /\ DOMAIN s = 1..Len(s) /\ \A n \in 1..Len(s) : s[n] \in Record
  BY LenProperties, ElementOfSeq
<1>2. DOMAIN Kinds(s) = DOMAIN s /\ \A n \in DOMAIN s : Kinds(s)[n] = s[n].kind
  BY DEF Kinds
<1>3. \A n \in DOMAIN s : s[n].kind \in EventKinds
  BY <1>1 DEF Record, EventKinds
<1>4. Kinds(s) \in [1..Len(s) -> EventKinds]
  BY <1>1, <1>3 DEF Kinds
<1>5. Kinds(s) \in Seq(EventKinds) /\ Len(Kinds(s)) = Len(s)
  BY <1>1, <1>4, LenProperties
<1>q. QED
  BY <1>1, <1>2, <1>5

LEMMA KindsOfNone == Kinds(<<>>) = <<>>
<1>1. <<>> \in Seq(Record) /\ Len(<<>>) = 0
  BY EmptySeq
<1>2. Kinds(<<>>) \in Seq(EventKinds) /\ Len(Kinds(<<>>)) = 0
  BY <1>1, KindsOf
<1>q. QED
  BY <1>2, EmptySeq

LEMMA KindsAppend ==
    ASSUME NEW s \in Seq(Record), NEW r \in Record
    PROVE  Kinds(Append(s, r)) = Append(Kinds(s), r.kind)
<1> DEFINE t == Append(s, r)
           k == Append(Kinds(s), r.kind)
<1>1. r.kind \in EventKinds
  BY DEF Record, EventKinds
<1>2. /\ t \in Seq(Record) /\ Len(t) = Len(s) + 1 /\ t[Len(s) + 1] = r
      /\ \A n \in 1..Len(s) : t[n] = s[n]
  BY AppendProperties
<1>3. /\ k \in Seq(EventKinds) /\ Len(k) = Len(s) + 1 /\ k[Len(s) + 1] = r.kind
      /\ \A n \in 1..Len(s) : k[n] = Kinds(s)[n]
  BY <1>1, KindsOf, AppendProperties
<1> HIDE DEF t, k
<1>4. /\ Kinds(t) \in Seq(EventKinds) /\ Len(Kinds(t)) = Len(t) /\ DOMAIN t = 1..Len(t)
      /\ \A n \in DOMAIN t : Kinds(t)[n] = t[n].kind
  BY <1>2, KindsOf
<1>5. /\ Len(s) \in Nat /\ DOMAIN s = 1..Len(s)
      /\ \A n \in DOMAIN s : Kinds(s)[n] = s[n].kind
  BY KindsOf
<1>6. \A n \in 1..(Len(s) + 1) : Kinds(t)[n] = k[n]
  BY <1>2, <1>3, <1>4, <1>5
<1>7. Kinds(t) = k
  BY <1>2, <1>3, <1>4, <1>6, SeqEqual
<1>q. QED
  BY <1>7 DEF t, k

LEMMA KindsCut ==
    ASSUME NEW s \in Seq(Record), NEW n \in 0..Len(s)
    PROVE  Kinds(SubSeq(s, 1, n)) = SubSeq(Kinds(s), 1, n)
<1>1. /\ SubSeq(s, 1, n) \in Seq(Record) /\ Len(SubSeq(s, 1, n)) = n
      /\ \A i \in 1..n : SubSeq(s, 1, n)[i] = s[i]
  BY Cut
<1>2. /\ Kinds(s) \in Seq(EventKinds) /\ Len(Kinds(s)) = Len(s) /\ Len(s) \in Nat
      /\ DOMAIN s = 1..Len(s) /\ \A i \in DOMAIN s : Kinds(s)[i] = s[i].kind
  BY KindsOf
<1>3. /\ SubSeq(Kinds(s), 1, n) \in Seq(EventKinds) /\ Len(SubSeq(Kinds(s), 1, n)) = n
      /\ \A i \in 1..n : SubSeq(Kinds(s), 1, n)[i] = Kinds(s)[i]
  BY <1>2, Cut
<1>4. /\ Kinds(SubSeq(s, 1, n)) \in Seq(EventKinds) /\ Len(Kinds(SubSeq(s, 1, n))) = n
      /\ DOMAIN SubSeq(s, 1, n) = 1..n
      /\ \A i \in 1..n : Kinds(SubSeq(s, 1, n))[i] = SubSeq(s, 1, n)[i].kind
  BY <1>1, KindsOf
<1>5. \A i \in 1..n : Kinds(SubSeq(s, 1, n))[i] = SubSeq(Kinds(s), 1, n)[i]
  BY <1>1, <1>2, <1>3, <1>4
<1>q. QED
  BY <1>3, <1>4, <1>5, SeqEqual

\* One store has learned something and the others have not.
LEMMA OneLearns ==
    ASSUME NEW s \in Stores, NEW k, View(s)' = k,
           \A r \in Stores \ {s} : seen'[r] = seen[r] /\ (r \in ahead' <=> r \in ahead)
    PROVE  views' = [views EXCEPT ![s] = k]
BY DEF views, View

LEMMA NothingLearned ==
    ASSUME UNCHANGED <<seen, ahead>>
    PROVE  views' = views
BY DEF views, View

LEMMA RefreshLearns ==
    ASSUME StoreInv, NEW s \in Stores, Refresh(s), ~RefreshRaises(s), UNCHANGED file
    PROVE  \/ views' = [views EXCEPT ![s] = Kinds(lines)]
           \/ views[s] = Log!Unsure /\ views' = views
<1>1. /\ s \notin ahead' => seen'[s] = lines
      /\ s \in ahead' => s \in ahead
      /\ \A r \in Stores \ {s} : seen'[r] = seen[r] /\ (r \in ahead' <=> r \in ahead)
  BY Refreshed
<1>2. CASE s \notin ahead'
  <2>1. View(s)' = Kinds(lines)
    BY <1>1, <1>2 DEF View, Kinds
  <2>q. QED
    BY <1>1, <2>1, OneLearns
<1>3. CASE s \in ahead'
  <2>1. views[s] = <<"unsure">> /\ View(s)' = views[s]
    BY <1>1, <1>3 DEF views, View
  <2>2. views' = [views EXCEPT ![s] = views[s]]
    BY <1>1, <2>1, OneLearns
  <2>q. QED
    BY <2>1, <2>2 DEF Log!Unsure, views
<1>q. QED
  BY <1>2, <1>3

LEMMA ResetForgets ==
    ASSUME StoreInv, NEW s \in Stores, Reset(s), UNCHANGED file
    PROVE  views' = [views EXCEPT ![s] = <<>>]
<1>1. /\ seen'[s] = <<>> /\ s \notin ahead'
      /\ \A r \in Stores \ {s} : seen'[r] = seen[r] /\ (r \in ahead' <=> r \in ahead)
  BY ResetKnows
<1>2. View(s)' = <<>>
  BY <1>1, KindsOfNone DEF View, Kinds
<1>q. QED
  BY <1>1, <1>2, OneLearns

LEMMA NewStoresForget ==
    ASSUME NewStores
    PROVE  views' = [s \in Stores |-> <<>>] /\ Appending' = [state |-> "none"]
<1>1. \A s \in Stores : seen'[s] = <<>> /\ s \notin ahead'
  BY DEF NewStores
<1>2. \A s \in Stores : View(s)' = <<>>
  BY <1>1, KindsOfNone DEF View, Kinds
<1>3. Appending' = [state |-> "none"]
  BY DEF NewStores, Appending
<1>q. QED
  BY <1>2, <1>3 DEF views

\* An append in progress, before and after its effect.
LEMMA Called ==
    ASSUME op.at \in {"repair", "write"}
    PROVE  Appending = [state |-> "called", by |-> op.store, event |-> op.event.kind]
BY DEF Appending, Idle

LEMMA Effective ==
    ASSUME op.at \in {"sync", "syncDirectory", "apply"}
    PROVE  Appending = [state |-> "effective", by |-> op.store, event |-> op.event.kind]
BY DEF Appending, Idle

LEMMA NoneAppends == ASSUME op = Idle PROVE Appending = [state |-> "none"]
BY DEF Appending

LEMMA BeginCalls ==
    ASSUME StoreInv, NEW s \in Stores, NEW e \in Event, Begin(s, e)
    PROVE  Log!Call(s, e.kind) /\ e.kind \in Log!Events
<1>1. /\ op = Idle /\ Refresh(s) /\ ~RefreshRaises(s) /\ UNCHANGED file
      /\ acked' = acked /\ Admitted(s, e)
  BY DEF Begin
<1>2. Appending = [state |-> "none"]
  BY <1>1, NoneAppends
<1>3. PICK at \in {"repair", "write"} : op' = [at |-> at, store |-> s, event |-> e]
  BY DEF Begin
<1>4. Appending' = [state |-> "called", by |-> s, event |-> e.kind]
  BY <1>3 DEF Appending, Idle
<1>5. \/ views' = [views EXCEPT ![s] = Kinds(lines)]
      \/ views[s] = Log!Unsure /\ views' = views
  BY <1>1, RefreshLearns
<1>6. Covers(seen'[s], lines, Len(lines)) /\ CacheOK' /\ lines' = lines
  BY <1>1, Refreshed DEF file
<1>7. lines \in Seq(Record) /\ seen'[s] \in Seq(Record)
  BY <1>6 DEF StoreInv, TypeOK, FileOK, CacheOK
<1>8. \A kind : Has(seen'[s], kind) <=> \E n \in DOMAIN Kinds(lines) : Kinds(lines)[n] = kind
  <2> SUFFICES ASSUME NEW kind
               PROVE  Has(seen'[s], kind) <=> \E n \in DOMAIN Kinds(lines) : Kinds(lines)[n] = kind
    OBVIOUS
  <2>1. Has(seen'[s], kind) <=> Has(lines, kind)
    BY <1>6, <1>7, SameKinds
  <2>q. QED
    BY <1>7, <2>1, KindsOf DEF Has
<1>9. Log!Allowed(e.kind)
  BY <1>1, <1>8, EventTyped DEF Admitted, Log!Allowed
<1>10. e.kind \in Log!Events
  BY EventTyped DEF Log!Events
<1>q. QED
  BY <1>1, <1>2, <1>4, <1>5, <1>6, <1>9, <1>10 DEF Log!Call, Log!None, Log!Learn, views

LEMMA WriteTakesEffect == ASSUME StoreInv, Write PROVE Log!TakeEffect
<1>1. /\ op.at = "write" /\ op' = [op EXCEPT !.at = "sync"] /\ torn = 0
      /\ UNCHANGED <<seen, ahead>> /\ acked' = acked
      /\ lines' = Append(lines, [kind |-> op.event.kind, end |-> FileSize + op.event.size])
  BY DEF Write, Goto, StoreInv, OpInv
<1>2. op # Idle /\ op.event \in Event /\ op \in Ops
  BY <1>1, OpTyped DEF Idle, StoreInv, TypeOK
<1>3. op'.at = "sync" /\ op'.store = op.store /\ op'.event = op.event
  BY <1>1, <1>2, Went
<1>4. lines \in Seq(Record) /\ FileSize \in Nat
  BY Positions DEF StoreInv, TypeOK, FileOK
<1>5. FileSize + op.event.size \in Nat /\ op.event.kind \in {"create", "delta", "status", "garbage"}
  BY <1>2, <1>4, EventTyped
<1>6. [kind |-> op.event.kind, end |-> FileSize + op.event.size] \in Record
  BY <1>5 DEF Record
<1>7. Kinds(lines') = Append(Kinds(lines), op.event.kind)
  BY <1>1, <1>4, <1>6, KindsAppend
<1>8. Appending = [state |-> "called", by |-> op.store, event |-> op.event.kind]
  BY <1>1, Called
<1>9. Appending' = [state |-> "effective", by |-> op.store, event |-> op.event.kind]
  BY <1>3 DEF Appending, Idle
<1>10. Appending' = [Appending EXCEPT !.state = "effective"]
  BY <1>8, <1>9
<1>11. Kinds(lines') = Append(Kinds(lines), Appending.event) /\ Appending.state = "called"
  BY <1>7, <1>8
<1>12. views' = views /\ Kinds(acked') = Kinds(acked)
  BY <1>1, NothingLearned
<1>q. QED
  BY <1>10, <1>11, <1>12 DEF Log!TakeEffect, views

LEMMA ApplyAcknowledges == ASSUME StoreInv, Apply PROVE Log!Acknowledge
<1>1. /\ op.at = "apply" /\ op' = Idle /\ acked' = lines /\ lines' = lines /\ ahead' = ahead
  BY DEF Apply, file
<1>2. op # Idle /\ op.store \in Stores /\ CacheOK
  BY <1>1, OpTyped DEF Idle, StoreInv, TypeOK
<1>s. PICK s \in Stores : s = op.store
  BY <1>2
<1>3. /\ seen \in [Stores -> Seq(Record)]
      /\ \A r \in Stores \ {s} : seen'[r] = seen[r] /\ (r \in ahead' <=> r \in ahead)
  BY <1>1, <1>2, <1>s DEF Apply, CacheOK
<1>4. Appending = [state |-> "effective", by |-> s, event |-> op.event.kind]
  BY <1>1, <1>s, Effective
<1>5. Appending' = [state |-> "none"]
  BY <1>1 DEF Appending
<1>6. Appending.by = s /\ Appending.state = "effective"
  BY <1>4
<1>7. \/ views' = [views EXCEPT ![s] = Kinds(lines)]
      \/ views[s] = Log!Unsure /\ views' = views
  <2>1. CASE s \notin ahead
    <3>1. seen'[s] = lines
      BY <2>1, <1>s, ApplyKeeps
    <3>2. View(s)' = Kinds(lines)
      BY <1>1, <2>1, <3>1 DEF View, Kinds
    <3>q. QED
      BY <1>3, <3>2, OneLearns
  <2>2. CASE s \in ahead
    <3>1. views[s] = Log!Unsure /\ View(s) = Log!Unsure /\ View(s)' = Log!Unsure
      BY <1>1, <2>2 DEF views, View, Log!Unsure
    <3>2. ASSUME NEW r \in Stores PROVE View(r)' = View(r)
      BY <1>1, <1>3, <3>1 DEF View
    <3>q. QED
      BY <3>1, <3>2 DEF views
  <2>q. QED
    BY <2>1, <2>2
<1>q. QED
  BY <1>1, <1>5, <1>6, <1>7 DEF Log!Acknowledge, Log!Learn, Log!None, views

LEMMA FailRaises == ASSUME StoreInv, OperationFails PROVE Log!Raise
<1>1. op # Idle /\ op' = Idle /\ lines' = lines /\ acked' = acked
  BY DEF OperationFails, CallFails, StatFails, file
<1>2. Appending.state \in {"called", "effective"}
  BY <1>1 DEF Appending
<1>3. Appending # [state |-> "none"]
  BY <1>2
<1>4. Appending' = [state |-> "none"]
  BY <1>1 DEF Appending
<1>5. \/ views' = views
      \/ Appending.state = "effective" /\ views' = [views EXCEPT ![Appending.by] = Log!Unsure]
  <2>1. CASE CallFails
    <3>1. UNCHANGED <<seen, ahead>>
      BY <2>1 DEF CallFails
    <3>q. QED
      BY <3>1, NothingLearned
  <2>2. CASE StatFails
    <3>1. op.at = "apply" /\ op.store \in Stores /\ seen \in [Stores -> Seq(Record)]
      BY <1>1, <2>2, OpTyped DEF StatFails, StoreInv, TypeOK, CacheOK
    <3>s. PICK s \in Stores : s = op.store
      BY <3>1
    <3>2. View(s)' = Log!Unsure
      BY <2>2, <3>s DEF StatFails, View, Log!Unsure
    <3>3. \A r \in Stores \ {s} : seen'[r] = seen[r] /\ (r \in ahead' <=> r \in ahead)
      BY <2>2, <3>1, <3>s DEF StatFails
    <3>4. Appending.state = "effective" /\ Appending.by = s
      BY <3>1, <3>s, Effective
    <3>5. views' = [views EXCEPT ![s] = Log!Unsure]
      BY <3>2, <3>3, OneLearns
    <3>q. QED
      BY <3>4, <3>5
  <2>q. QED
    BY <2>1, <2>2 DEF OperationFails
<1>q. QED
  BY <1>1, <1>3, <1>4, <1>5 DEF Log!Raise, Log!None, views

\* What is lost was not synced, and so not acknowledged.
LEMMA LossRestarts ==
    ASSUME "entry" \notin Faults, StoreInv, AckInv, Crash \/ PowerLoss
    PROVE  Log!Restart
<1>1. /\ lines \in Seq(Record) /\ acked \in Seq(Record) /\ Len(lines) \in Nat
      /\ synced \in 0..Len(lines) /\ Len(acked) <= synced
  BY Positions DEF StoreInv, TypeOK, FileOK, AckInv
<1>2. /\ Kinds(lines) \in Seq(EventKinds)
      /\ Len(Kinds(lines)) = Len(lines) /\ Len(Kinds(acked)) = Len(acked) /\ Len(acked) \in Nat
  BY <1>1, KindsOf
<1>3. views' = [s \in Stores |-> <<>>] /\ Appending' = [state |-> "none"] /\ acked' = acked
  BY NewStoresForget DEF Crash, PowerLoss
<1>4. \E n \in Len(Kinds(acked))..Len(Kinds(lines)) : Kinds(lines') = SubSeq(Kinds(lines), 1, n)
  <2>1. CASE Crash
    <3>1. lines' = lines
      BY <2>1 DEF Crash, file
    <3>2. SubSeq(Kinds(lines), 1, Len(Kinds(lines))) = Kinds(lines)
      BY <1>2, SubSeqFull
    <3>3. Len(Kinds(lines)) \in Len(Kinds(acked))..Len(Kinds(lines))
      BY <1>1, <1>2
    <3>q. QED
      BY <3>1, <3>2, <3>3
  <2>2. CASE PowerLoss
    <3>1. PICK n \in synced..Len(lines) : lines' = SubSeq(lines, 1, n)
      BY <2>2 DEF PowerLoss
    <3>2. n \in 0..Len(lines) /\ n \in Len(Kinds(acked))..Len(Kinds(lines))
      BY <1>1, <1>2
    <3>3. Kinds(lines') = SubSeq(Kinds(lines), 1, n)
      BY <1>1, <3>1, <3>2, KindsCut
    <3>q. QED
      BY <3>2, <3>3
  <2>q. QED
    BY <2>1, <2>2
<1>q. QED
  BY <1>3, <1>4 DEF Log!Restart, Log!None, views

LEMMA ReplacedReplaces == ASSUME StoreInv, Replaced PROVE Log!Replace
<1>1. /\ op = Idle /\ op' = Idle /\ acked' = lines' /\ UNCHANGED <<seen, ahead>>
      /\ \E n \in 0..(Len(lines) - 1) : lines' = SubSeq(lines, 1, n)
  BY DEF Replaced
<1>2. lines \in Seq(Record) /\ Len(lines) \in Nat /\ Len(Kinds(lines)) = Len(lines)
  BY KindsOf DEF StoreInv, TypeOK, FileOK
<1>3. PICK n \in 0..(Len(lines) - 1) : lines' = SubSeq(lines, 1, n)
  BY <1>1
<1>4. n \in 0..Len(lines) /\ n \in 0..(Len(Kinds(lines)) - 1)
  BY <1>2
<1>5. Kinds(lines') = SubSeq(Kinds(lines), 1, n)
  BY <1>2, <1>3, <1>4, KindsCut
<1>6. Appending = [state |-> "none"] /\ Appending' = Appending
  BY <1>1 DEF Appending
<1>q. QED
  BY <1>1, <1>4, <1>5, <1>6, NothingLearned DEF Log!Replace, Log!None, views

LEMMA LogStep ==
    ASSUME "entry" \notin Faults
    PROVE  StoreInv /\ AckInv /\ [Next]_vars => [Log!Next]_shown
<1> SUFFICES ASSUME StoreInv, AckInv, [Next]_vars
             PROVE  [Log!Next]_shown
  OBVIOUS
<1>1. ASSUME NEW s \in Stores, Read(s) PROVE Log!Read(s) \/ Log!Forget(s)
  <2>1. op = Idle /\ Refresh(s) /\ UNCHANGED file /\ op' = op /\ acked' = acked /\ lines' = lines
    BY <1>1 DEF Read, file
  <2>2. Appending = [state |-> "none"] /\ Appending' = Appending
    BY <2>1 DEF Appending
  <2>3. CASE RefreshRaises(s)
    <3>1. views' = [views EXCEPT ![s] = <<>>]
      BY <2>1, <2>3, ResetForgets DEF Refresh
    <3>q. QED
      BY <2>1, <2>2, <3>1 DEF Log!Forget, Log!None, views
  <2>4. CASE ~RefreshRaises(s)
    <3>1. \/ views' = [views EXCEPT ![s] = Kinds(lines)]
          \/ views[s] = Log!Unsure /\ views' = views
      BY <2>1, <2>4, RefreshLearns
    <3>q. QED
      BY <2>1, <2>2, <3>1 DEF Log!Read, Log!Learn, Log!None, views
  <2>q. QED
    BY <2>3, <2>4
<1>2. ASSUME NEW s \in Stores, ReadFails(s) PROVE Log!Forget(s)
  <2>1. op = Idle /\ op' = op /\ acked' = acked /\ lines' = lines /\ Reset(s) /\ UNCHANGED file
    BY <1>2 DEF ReadFails, file
  <2>2. views' = [views EXCEPT ![s] = <<>>]
    BY <2>1, ResetForgets
  <2>3. Appending = [state |-> "none"] /\ Appending' = Appending
    BY <2>1 DEF Appending
  <2>q. QED
    BY <2>1, <2>2, <2>3 DEF Log!Forget, Log!None, views
<1>3. ASSUME NEW s \in Stores, NEW e \in Event, Begin(s, e)
      PROVE  \E kind \in Log!Events : Log!Call(s, kind)
  BY <1>3, BeginCalls
<1>4. CASE Repair \/ Sync \/ SyncDirectory
  <2>1. op # Idle /\ op \in Ops
    BY <1>4 DEF Repair, Sync, SyncDirectory, Idle, StoreInv, TypeOK
  <2>2. CASE Repair
    <3>1. op.at = "repair" /\ op' = [op EXCEPT !.at = "write"]
      BY <2>2 DEF Repair, Goto
    <3>2. op'.at = "write" /\ op'.store = op.store /\ op'.event = op.event
      BY <2>1, <3>1, Went
    <3>3. Appending' = Appending
      BY <3>1, <3>2 DEF Appending, Idle
    <3>q. QED
      BY <2>2, <3>3, NothingLearned DEF Repair, shown
  <2>3. CASE Sync \/ SyncDirectory
    <3>1. PICK at \in {"syncDirectory", "apply"} : op' = [op EXCEPT !.at = at]
      BY <2>3 DEF Sync, SyncDirectory, Goto
    <3>2. op.at \in {"sync", "syncDirectory"} /\ UNCHANGED <<lines, seen, ahead, acked>>
      BY <2>3 DEF Sync, SyncDirectory, cache
    <3>3. op'.at = at /\ op'.store = op.store /\ op'.event = op.event
      BY <2>1, <3>1, Went
    <3>4. Appending' = Appending
      BY <3>2, <3>3 DEF Appending, Idle
    <3>q. QED
      BY <3>2, <3>4, NothingLearned DEF shown
  <2>q. QED
    BY <1>4, <2>2, <2>3
<1>5. CASE UNCHANGED vars
  BY <1>5, NothingLearned DEF vars, file, cache, shown, Appending
<1>6. CASE Write \/ Apply \/ OperationFails \/ Crash \/ PowerLoss \/ Replaced
  BY <1>6, WriteTakesEffect, ApplyAcknowledges, FailRaises, LossRestarts, ReplacedReplaces
     DEF Log!Next
<1>q. QED
  BY <1>1, <1>2, <1>3, <1>4, <1>5, <1>6 DEF Next, Log!Next

LEMMA LogInit == Init => Log!Init
<1> SUFFICES ASSUME Init
             PROVE  Log!Init
  OBVIOUS
<1>1. Kinds(lines) = <<>> /\ Kinds(acked) = <<>>
  BY KindsOfNone DEF Init
<1>2. views = [s \in Stores |-> <<>>]
  BY KindsOfNone DEF Init, views, View
<1>3. Appending = [state |-> "none"]
  BY DEF Init, Appending
<1>q. QED
  BY <1>1, <1>2, <1>3 DEF Log!Init, Log!None, views

\* The refinement: every step of the stores and of what befalls them is a step of
\* DurableLog or shows nothing.  An append that returned took effect once, on the whole
\* log; a store that has refreshed has the log, unless a stat failed after one of its own
\* appends and it has not replayed the file since; what was acknowledged is lost by no
\* crash, failing call or power loss, as long as none takes a file whose directory entry
\* nobody has synced (_append, _refresh, list).
THEOREM LogImplemented == ASSUME "entry" \notin Faults PROVE Spec => ImplementsLog
<1>1. Init => AckInv
  BY StoreInit
<1>2. StoreInv /\ AckInv /\ [Next]_vars => AckInv'
  BY AckStep
<1>3. Init => Log!Init
  BY LogInit
<1>4. StoreInv /\ AckInv /\ [Next]_vars => [Log!Next]_Log!vars
  BY LogStep DEF shown, views, Log!vars
<1>q. QED
  BY <1>1, <1>2, <1>3, <1>4, StoreInvHolds, PTL DEF Spec, ImplementsLog, Log!Spec

=============================================================================
