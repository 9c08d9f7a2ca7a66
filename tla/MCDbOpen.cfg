SPECIFICATION Spec
CONSTANTS
    Procs = {p1, p2, p3}
    MaxCount = 3
SYMMETRY ProcSymmetry
INVARIANTS Exclusion StatusExact NeverUndercounted LockExcludesWriters
PROPERTIES LockRespected
CHECK_DEADLOCK FALSE
