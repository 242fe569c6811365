SPECIFICATION Spec
CONSTANTS
    Stores = {s1, s2}
    LineSizes <- RecordSizes
    MaxLines = 3
    Unknown = Unknown
    Faults = {"crash", "power", "entry"}
SYMMETRY StoreSymmetry
CHECK_DEADLOCK FALSE
INVARIANTS AcknowledgedStays
