SPECIFICATION Spec
CONSTANT Requests = {r1, r2, r3}
SYMMETRY Symmetry
CHECK_DEADLOCK FALSE
INVARIANT ContextIsTurns
PROPERTY ContextGrows
