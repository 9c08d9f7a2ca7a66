SPECIFICATION Spec
CONSTANTS
    MaxKey = 4
    MaxCrashes = 2
INVARIANTS FreeListSorted Accounted
PROPERTIES CrashLosesOnlyTaken KeyHandedOutIsUnused
