------------------------------ MODULE DurableLog ------------------------------
(***************************************************************************)
(* What a conversation promises the stores that share its file, with no    *)
(* file, byte, offset or stamp in sight: one log of the events of a        *)
(* message.  An append takes effect once or not at all, at one moment      *)
(* between its call and its return, on the log as it is then; whoever      *)
(* reads has the whole log, but for a reader whose own append had its      *)
(* effect and failed, which is not sure of it until it starts over; what   *)
(* was acknowledged stays, unless somebody puts an older log in its place. *)
(* ConversationStore implements it: see ConversationStoreRefines.          *)
(***************************************************************************)
EXTENDS Naturals, Sequences

CONSTANT Readers

VARIABLES
    log,       \* the events, in the order in which they took effect
    acked,     \* the log when an append was last acknowledged
    append,    \* the append in progress
    view       \* [reader -> the log as it last learned it, or Unsure]

vars == <<log, acked, append, view>>

Events == {"create", "delta", "status"}
None == [state |-> "none"]

\* A message is created once, exists before anything else is said of it, and takes
\* no delta once it has ended.
Allowed(e) ==
    LET Has(kind) == \E n \in DOMAIN log : log[n] = kind
    IN  CASE e = "create" -> ~Has("create")
          [] e = "delta"  -> Has("create") /\ ~Has("status")
          [] e = "status" -> Has("create")

\* A reader that has been told of an error, and may count the event twice.
Unsure == <<"unsure">>

\* A reader that is not sure of its log may stay so.
Learn(r) == \/ view' = [view EXCEPT ![r] = log]
            \/ view[r] = Unsure /\ UNCHANGED view

Init == log = <<>> /\ acked = <<>> /\ append = None /\ view = [r \in Readers |-> <<>>]

Read(r) ==
    /\ append = None /\ Learn(r)
    /\ UNCHANGED <<log, acked, append>>

\* A reader forgets: its next read starts over.
Forget(r) ==
    /\ append = None /\ view' = [view EXCEPT ![r] = <<>>]
    /\ UNCHANGED <<log, acked, append>>

Call(r, e) ==
    /\ append = None /\ Allowed(e)
    /\ append' = [state |-> "called", by |-> r, event |-> e] /\ Learn(r)
    /\ UNCHANGED <<log, acked>>

TakeEffect ==
    /\ append.state = "called"
    /\ log' = Append(log, append.event)
    /\ append' = [append EXCEPT !.state = "effective"]
    /\ UNCHANGED <<acked, view>>

Acknowledge ==
    /\ append.state = "effective"
    /\ acked' = log /\ Learn(append.by)
    /\ append' = None
    /\ UNCHANGED log

\* The caller hears of an error, whether or not there was an effect.
Raise ==
    /\ append # None /\ append' = None
    /\ \/ UNCHANGED view
       \/ append.state = "effective" /\ view' = [view EXCEPT ![append.by] = Unsure]
    /\ UNCHANGED <<log, acked>>

\* The readers start anew, and events nobody has acknowledged may be gone.
Restart ==
    /\ \E n \in Len(acked)..Len(log) : log' = SubSeq(log, 1, n)
    /\ append' = None /\ view' = [r \in Readers |-> <<>>]
    /\ UNCHANGED acked

\* An older log takes its place.
Replace ==
    /\ append = None
    /\ \E n \in 0..(Len(log) - 1) : log' = SubSeq(log, 1, n)
    /\ acked' = log'
    /\ UNCHANGED <<append, view>>

Next ==
    \/ \E r \in Readers : Read(r) \/ Forget(r) \/ \E e \in Events : Call(r, e)
    \/ TakeEffect \/ Acknowledge \/ Raise \/ Restart \/ Replace

Spec == Init /\ [][Next]_vars

=============================================================================
