SPECIFICATION Spec
CONSTANTS
    Requests = {r1, r2}
    NoRequest = NoRequest
    Stop = Stop
    Faults = {"deadline"}
CHECK_DEADLOCK FALSE
PROPERTIES InterruptReturnsAtLast ShutdownCompletes AcceptedSettles WaitEnds
