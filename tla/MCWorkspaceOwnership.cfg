SPECIFICATION Spec
CONSTANTS
    m1 = m1
    m2 = m2
    m3 = m3
    o1 = o1
    o2 = o2
    Owners = {o1, o2}
    Managers = {m1, m2, m3}
    Tasks = {t1, t2}
    Nobody = Nobody
    OwnerOf <- TwoProcesses
INVARIANTS TypeOK ReferencesExact OneRuntime
PROPERTY AttachedUntouched
