SPECIFICATION Spec
CONSTANTS
    Stores = {s1, s2}
    LineSizes <- RecordSizes
    MaxLines = 3
    Unknown = Unknown
    Faults = {"crash", "storage", "power", "replace"}
SYMMETRY StoreSymmetry
CHECK_DEADLOCK FALSE
INVARIANTS RecordsDecode CacheIsFile AcknowledgedStays NoDeltaAfterEnd
PROPERTY ImplementsLog
