SPECIFICATION SafetySpec
CONSTANTS
    Requests = {r1, r2}
    NoRequest = NoRequest
    Stop = Stop
    Faults = {"deadline"}
SYMMETRY RequestSymmetry
CHECK_DEADLOCK FALSE
INVARIANT TimeoutFails
