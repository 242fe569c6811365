SPECIFICATION Spec
CONSTANTS
    MaxStages = 2
    Plans <- SmallPlans
    CustomIds = {a, b}
    MaxCalls = 2
CHECK_DEADLOCK FALSE
INVARIANTS RunAgreesWithSteps UsageIsWhole
PROPERTIES NoStageAfterFailure EndedOnce
