--------------------------- MODULE RequestLedger ---------------------------
(***************************************************************************)
(* What the scheduler promises its callers, with no worker, queue, process *)
(* or storage in sight: a request, once written, waits in line; it is      *)
(* claimed once, alone, in its turn; it is settled once and for ever.      *)
(* RunManager implements it: see RunManagerRefines.                        *)
(***************************************************************************)
EXTENDS Naturals, Sequences

CONSTANT Requests

VARIABLES
    line,      \* the requests in the order in which they were written
    phase,     \* where each request is
    acked      \* the requests the caller has been told are accepted

vars == <<line, phase, acked>>

Init == line = <<>> /\ phase = [r \in Requests |-> "new"] /\ acked = {}

\* The request is durable, though its caller may never hear of it.
Accept(r) ==
    /\ phase[r] = "new"
    /\ phase' = [phase EXCEPT ![r] = "waiting"]
    /\ line' = Append(line, r)
    /\ UNCHANGED acked

Acknowledge(r) ==
    /\ phase[r] = "waiting"
    /\ acked' = acked \cup {r}
    /\ UNCHANGED <<line, phase>>

\* No other request is being executed, and no acknowledged one is ahead in line.
Claim(r) ==
    /\ phase[r] = "waiting"
    /\ \A q \in Requests : phase[q] # "claimed"
    /\ \A m, n \in DOMAIN line :
           m < n /\ line[n] = r /\ line[m] \in acked => phase[line[m]] # "waiting"
    /\ phase' = [phase EXCEPT ![r] = "claimed"]
    /\ UNCHANGED <<line, acked>>

Settle(r) ==
    /\ phase[r] = "claimed"
    /\ phase' = [phase EXCEPT ![r] = "settled"]
    /\ UNCHANGED <<line, acked>>

Next == \E r \in Requests : Accept(r) \/ Acknowledge(r) \/ Claim(r) \/ Settle(r)

Spec == Init /\ [][Next]_vars

=============================================================================
