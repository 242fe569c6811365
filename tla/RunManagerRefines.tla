------------------------- MODULE RunManagerRefines -------------------------
(* RunManager implements RequestLedger, through crashes and storage faults.  *)
EXTENDS RunManager

\* A request is claimed by its run.json and settled by that file's terminal status.
Phase(r) ==
    IF Settled(r) THEN "settled"
    ELSE IF Claimed(r) THEN "claimed"
    ELSE IF msg[r] = "new" THEN "new"
    ELSE "waiting"

Ledger == INSTANCE RequestLedger
    WITH line <- log, phase <- [r \in Requests |-> Phase(r)], acked <- accepted

\* Every step of the scheduler, a crash or a step of recovery included, is a step of
\* the ledger or changes nothing a caller can see.
ImplementsLedger == Ledger!Spec

=============================================================================
