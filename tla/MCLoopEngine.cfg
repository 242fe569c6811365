SPECIFICATION Spec
CONSTANTS
    CallIds = {a, b, c}
    MaxToolCalls = 2
    MaxIterations = 3
CHECK_DEADLOCK FALSE
INVARIANTS NoCallTwice RequestWellFormed ToolsAreSeen
