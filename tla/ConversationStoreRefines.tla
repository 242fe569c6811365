----------------------- MODULE ConversationStoreRefines -----------------------
(* ConversationStore implements DurableLog, through crashes, failing calls   *)
(* and power losses, and whatever the stamps and offsets of its stores.      *)
EXTENDS ConversationStore

Kinds(s) == [n \in DOMAIN s |-> s[n].kind]

\* An append is effective when its record is written, and acknowledged when it returns.
Appending ==
    IF op = Idle THEN [state |-> "none"]
    ELSE [state |-> IF op.at \in {"repair", "write"} THEN "called" ELSE "effective",
          by |-> op.store, event |-> op.event.kind]

\* A store that is ahead of its offset may have a record twice.
View(s) == IF s \in ahead THEN <<"unsure">> ELSE Kinds(seen[s])

Log == INSTANCE DurableLog
    WITH Readers <- Stores, log <- Kinds(lines), acked <- Kinds(acked), append <- Appending,
         view <- [s \in Stores |-> View(s)]

\* Whichever store appends, whichever reads, and whatever was cut short or replaced
\* before, every append has its effect once, on the whole log, between its call and its
\* return; and what a store projects after it has refreshed is that log, unless it is one
\* that a failing stat left ahead of its offset.
ImplementsLog == Log!Spec

=============================================================================
