--------------------------- MODULE ConversationStore ---------------------------
(***************************************************************************)
(* The conversation file of src/ish/services/conversation.py: an append-   *)
(* only file of newline-terminated records, and the stores that keep an    *)
(* incremental projection of it.  A projection is the sequence of records  *)
(* it has applied; records belong to one message.                          *)
(*                                                                         *)
(* Callers hold the workspace scope, so one operation runs at a time; a    *)
(* process crash, a power loss or a failing call may cut it anywhere.      *)
(* Bytes matter only to the offset and the stamp a store compares: a       *)
(* record of the file ends at some byte, an unterminated tail has a        *)
(* length.  The modification time is taken to tell any two writes apart.   *)
(***************************************************************************)
EXTENDS Naturals, Sequences, SequencesExt

CONSTANTS
    Stores,      \* the ConversationStore instances of the file
    LineSizes,   \* [kind of record -> the sizes in bytes of one, with its newline]
    MaxLines,    \* bound on the number of records
    Unknown,     \* a _signature that is None
    Faults       \* among "crash", "storage", "power", "entry" and "replace"

ASSUME SizesAssumption ==
    /\ LineSizes \in [{"create", "delta", "status"} -> SUBSET (Nat \ {0, 1})]
    /\ MaxLines \in Nat /\ Unknown \notin Nat
ASSUME StoreFaultsAssumption ==
    Faults \subseteq {"crash", "storage", "power", "entry", "replace"}

VARIABLES
    lines,       \* the complete records of the file
    torn,        \* the length of its unterminated tail
    exists,      \* the file is there
    synced,      \* how many records are on stable storage
    entry,       \* the file's directory entry is on stable storage
    seen,        \* [store -> the records it has applied], _messages
    offset,      \* [store -> bytes applied], _offset
    size,        \* [store -> st_size of _signature, or Unknown when it is None]
    stamp,       \* [store -> how the file differs from _signature]
    op,          \* the operation in progress
    acked,       \* history: the records of the file at the last successful append
    ahead        \* history: the stores that have applied a record their offset is before

file == <<lines, torn, exists, synced, entry>>
cache == <<seen, offset, size, stamp, ahead>>
vars == <<file, cache, op, acked>>

-----------------------------------------------------------------------------
Event == UNION {[kind : {k}, size : LineSizes[k]] : k \in {"create", "delta", "status"}}
Record == [kind : {"create", "delta", "status", "garbage"}, end : Nat]
Garbage(end) == [kind |-> "garbage", end |-> end]   \* a record glued to a torn tail
Idle == [at |-> "idle"]

\* The bytes of the first n records.
Bytes(n) == IF n = 0 THEN 0 ELSE lines[n].end
FileSize == Bytes(Len(lines)) + torn

Has(s, kind) == \E i \in DOMAIN s : s[i].kind = kind
Changed(how) == stamp' = [s \in Stores |-> IF stamp[s] = "replaced" THEN "replaced" ELSE how]

Init ==
    /\ lines = <<>> /\ torn = 0 /\ exists = FALSE /\ synced = 0 /\ entry = FALSE
    /\ seen = [s \in Stores |-> <<>>] /\ offset = [s \in Stores |-> 0]
    /\ size = [s \in Stores |-> Unknown] /\ stamp = [s \in Stores |-> "changed"]
    /\ op = Idle /\ acked = <<>> /\ ahead = {}

-----------------------------------------------------------------------------
(* _refresh: what a store knows once it has compared its stamp.              *)

\* The records from byte b on; a position inside a record does not decode.
RecordsFrom(b) ==
    IF \E n \in 0..Len(lines) : Bytes(n) = b
    THEN SubSeq(lines, (CHOOSE n \in 0..Len(lines) : Bytes(n) = b) + 1, Len(lines))
    ELSE <<Garbage(Bytes(Len(lines)))>>

\* Mutant: a replaced file is read from the old position.
Replay_IgnoresInode(s) ==
    size[s] = Unknown \/ FileSize < offset[s] \/ FileSize <= size[s]

\* The whole file is read again: it is new to this store, or not an extension.
Replay(s) == \/ size[s] = Unknown \/ stamp[s] = "replaced"
             \/ FileSize < offset[s] \/ FileSize <= size[s]

UpToDate(s) == size[s] # Unknown /\ stamp[s] = "same"

\* Only a store that has applied the creation already finds it among what it missed:
\* _apply refuses the duplicate ID, and the operation raises.
RefreshRaises(s) ==
    /\ exists /\ ~UpToDate(s) /\ ~Replay(s)
    /\ Has(seen[s], "create") /\ Has(RecordsFrom(offset[s]), "create")

\* Nothing half-projected is left behind.
Reset(s) ==
    /\ seen' = [seen EXCEPT ![s] = <<>>] /\ offset' = [offset EXCEPT ![s] = 0]
    /\ size' = [size EXCEPT ![s] = Unknown] /\ UNCHANGED stamp
    /\ ahead' = ahead \ {s}

\* The records from the offset on are applied, to those the store keeps.
CatchUp(s) ==
    LET known == IF Replay(s) THEN <<>> ELSE seen[s]
        from == IF Replay(s) THEN 0 ELSE offset[s]
    IN  /\ seen' = [seen EXCEPT ![s] = known \o RecordsFrom(from)]
        /\ offset' = [offset EXCEPT ![s] = Bytes(Len(lines))]
        /\ size' = [size EXCEPT ![s] = FileSize]
        /\ stamp' = [stamp EXCEPT ![s] = "same"]
        /\ ahead' = IF Replay(s) THEN ahead \ {s} ELSE ahead

Refresh(s) ==
    IF ~exists \/ RefreshRaises(s) THEN Reset(s)
    ELSE IF UpToDate(s) THEN UNCHANGED cache
    ELSE CatchUp(s)

\* list() and get().
Read(s) ==
    /\ op = Idle
    /\ Refresh(s)
    /\ UNCHANGED <<file, op, acked>>

-----------------------------------------------------------------------------
(* The appending operations.  create refuses a known ID, delta a message     *)
(* that is not streaming, the others an unknown one.                         *)

\* Mutants: a delta is checked against what the store knew before; a status is
\* recorded of a message that is not there.
Admitted_Stale(s, e) ==
    CASE e.kind = "create" -> ~Has(seen[s], "create")
      [] e.kind = "delta"  -> Has(seen[s], "create") /\ ~Has(seen[s], "status")
      [] OTHER             -> Has(seen[s], "create")

Admitted_NoLookup(s, e) ==
    CASE e.kind = "create" -> ~Has(seen'[s], "create")
      [] e.kind = "delta"  -> Has(seen'[s], "create") /\ ~Has(seen'[s], "status")
      [] OTHER             -> TRUE

Admitted(s, e) ==
    CASE e.kind = "create" -> ~Has(seen'[s], "create")
      [] e.kind = "delta"  -> Has(seen'[s], "create") /\ ~Has(seen'[s], "status")
      [] OTHER             -> Has(seen'[s], "create")

\* Mutant: the tail is repaired only when the message is being created.
Torn_OnCreate(s, e) == e.kind = "create" /\ size'[s] # Unknown /\ offset'[s] < size'[s]

Torn(s, e) == size'[s] # Unknown /\ offset'[s] < size'[s]

\* A request that is refused, or whose refresh raises, has done what Read does.
Begin(s, e) ==
    /\ op = Idle /\ Len(lines) < MaxLines
    /\ Refresh(s) /\ ~RefreshRaises(s)
    /\ Admitted(s, e)
    /\ op' = [at |-> IF Torn(s, e) THEN "repair" ELSE "write", store |-> s, event |-> e]
    /\ UNCHANGED <<file, acked>>

Goto(at) == op' = [op EXCEPT !.at = at]

\* _repair_tail truncates after the last newline and syncs the file.
Repair ==
    /\ op.at = "repair"
    /\ torn' = 0 /\ synced' = Len(lines)
    /\ Changed("changed") /\ Goto("write")
    /\ UNCHANGED <<lines, exists, entry, seen, offset, size, ahead, acked>>

\* The record is written after whatever the file ends with.
Write ==
    /\ op.at = "write"
    /\ LET end == FileSize + op.event.size
       IN  lines' = Append(lines, IF torn = 0 THEN [kind |-> op.event.kind, end |-> end]
                                             ELSE Garbage(end))
    /\ torn' = 0 /\ exists' = TRUE
    /\ Changed("changed") /\ Goto("sync")
    /\ UNCHANGED <<synced, entry, seen, offset, size, ahead, acked>>

\* Mutant: the write is acknowledged from the page cache.
Sync_Skipped ==
    /\ op.at = "sync" /\ Goto(IF size[op.store] = Unknown THEN "syncDirectory" ELSE "apply")
    /\ UNCHANGED <<file, cache, acked>>

Sync ==
    /\ op.at = "sync"
    /\ synced' = Len(lines)
    /\ Goto(IF size[op.store] = Unknown THEN "syncDirectory" ELSE "apply")
    /\ UNCHANGED <<lines, torn, exists, entry, cache, acked>>

\* Only for a store that had found no file.
SyncDirectory ==
    /\ op.at = "syncDirectory" /\ entry' = TRUE /\ Goto("apply")
    /\ UNCHANGED <<lines, torn, exists, synced, cache, acked>>

\* The record is applied and the store takes the file's stamp.
Apply ==
    /\ op.at = "apply"
    /\ seen' = [seen EXCEPT ![op.store] = Append(@, [kind |-> op.event.kind, end |-> FileSize])]
    /\ offset' = [offset EXCEPT ![op.store] = FileSize]
    /\ size' = [size EXCEPT ![op.store] = FileSize]
    /\ stamp' = [stamp EXCEPT ![op.store] = "same"]
    /\ op' = Idle /\ acked' = lines
    /\ UNCHANGED <<file, ahead>>

-----------------------------------------------------------------------------
(* Faults.                                                                   *)

\* A call fails and the operation raises; the write may have left a tail, or the
\* repaired file not be synced.
CallFails ==
    /\ \/ op.at # "apply" /\ UNCHANGED <<file, stamp>>
       \/ /\ op.at = "write"
          /\ \E n \in 0..(op.event.size - 1) : torn' = torn + n
          /\ exists' = TRUE /\ Changed("changed")
          /\ UNCHANGED <<lines, synced, entry>>
       \/ /\ op.at = "repair" /\ torn' = 0 /\ Changed("changed")
          /\ UNCHANGED <<lines, exists, synced, entry>>
    /\ UNCHANGED <<seen, offset, size, ahead>>

\* The record is applied and the stat that follows fails: the store's offset and stamp
\* are still those from before the record.
StatFails ==
    /\ op.at = "apply"
    /\ seen' = [seen EXCEPT ![op.store] = Append(@, [kind |-> op.event.kind, end |-> FileSize])]
    /\ ahead' = ahead \cup {op.store}
    /\ UNCHANGED <<file, offset, size, stamp>>

OperationFails ==
    /\ "storage" \in Faults /\ op # Idle
    /\ CallFails \/ StatFails
    /\ op' = Idle
    /\ UNCHANGED acked

\* A replay that fails leaves nothing half-projected behind.
ReadFails(s) ==
    /\ "storage" \in Faults /\ op = Idle
    /\ Reset(s)
    /\ UNCHANGED <<file, op, acked>>

\* A new process has new stores.
NewStores ==
    /\ seen' = [s \in Stores |-> <<>>] /\ offset' = [s \in Stores |-> 0]
    /\ size' = [s \in Stores |-> Unknown] /\ stamp' = [s \in Stores |-> "changed"]
    /\ op' = Idle /\ ahead' = {}

Crash ==
    /\ "crash" \in Faults
    /\ NewStores
    /\ UNCHANGED <<file, acked>>

\* The page cache is lost: records that were not synced survive in part, and the
\* next one may survive torn.  A file whose entry was not synced may vanish.
PowerLoss ==
    /\ "power" \in Faults /\ exists
    /\ NewStores
    /\ \/ \E n \in synced..Len(lines) :
            /\ lines' = SubSeq(lines, 1, n) /\ synced' = n
            /\ torn' \in 0..(IF n = Len(lines) THEN torn ELSE Bytes(n + 1) - Bytes(n) - 1)
            /\ entry' = TRUE /\ UNCHANGED exists
       \/ /\ "entry" \in Faults /\ ~entry
          /\ lines' = <<>> /\ torn' = 0 /\ exists' = FALSE /\ synced' = 0
          /\ UNCHANGED entry
    /\ UNCHANGED acked

\* Somebody puts an older copy of the file in its place, between operations.
Replaced ==
    /\ "replace" \in Faults /\ op = Idle /\ exists
    /\ \E n \in 0..(Len(lines) - 1) : lines' = SubSeq(lines, 1, n) /\ synced' = n
    /\ torn' = 0 /\ Changed("replaced") /\ acked' = lines'
    /\ UNCHANGED <<exists, entry, seen, offset, size, ahead, op>>

-----------------------------------------------------------------------------
Next ==
    \/ \E s \in Stores : Read(s) \/ ReadFails(s) \/ \E e \in Event : Begin(s, e)
    \/ Repair \/ Write \/ Sync \/ SyncDirectory \/ Apply
    \/ OperationFails \/ Crash \/ PowerLoss \/ Replaced

Spec == Init /\ [][Next]_vars

-----------------------------------------------------------------------------
(* Properties.                                                               *)

\* A tail that a crash or a failed write left is never glued to the next record:
\* every complete record of the file decodes.
RecordsDecode == ~Has(lines, "garbage")

\* A store whose stamp is the file's has applied every complete record and no other, and
\* goes on from the end of them, whichever store wrote them and whatever was torn or
\* replaced.  It has applied each of them once, in their order, unless a stat failed after
\* one of its own appends: such a store applies that record again (the text of a delta is
\* then in it twice) until it next replays the whole file.
CacheIsFile ==
    \A s \in Stores : UpToDate(s) =>
        /\ Range(seen[s]) = Range(lines) /\ offset[s] = Bytes(Len(lines))
        /\ s \notin ahead => seen[s] = lines

\* A record whose append returned stays in the file, at its place.
AcknowledgedStays == IsPrefix(acked, lines)

\* A delta is never recorded after the message's terminal status, though the two
\* may come from different stores.
NoDeltaAfterEnd ==
    \A i, j \in DOMAIN lines : i < j /\ lines[i].kind = "status" => lines[j].kind # "delta"

=============================================================================
