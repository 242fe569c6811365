SPECIFICATION SafetySpec
CONSTANTS
    Requests = {r1, r2}
    NoRequest = NoRequest
    Stop = Stop
    Faults = {"crash", "storage", "deadline"}
SYMMETRY RequestSymmetry
CHECK_DEADLOCK FALSE
INVARIANTS
    AtMostOneRun NoLostRequest SettledRunAgrees IdleIsQuiescent
    InterruptedForCause IdleMeansSettled ClosedReleases
PROPERTIES OnlyForward InterruptSettles ImplementsLedger
