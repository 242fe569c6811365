SPECIFICATION Spec
CONSTANTS
    Projects = {p1, p2}
    Components = {c1}
    Tasks = {t1}
    MaxMessages = 1
    MaxContents = 1
    MaxFailures = 2
SYMMETRY Symmetry
INVARIANTS SelectionBacked RuntimeBlocksDeletion SingleFailureHides ReturnedIsWhole
