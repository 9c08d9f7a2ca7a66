SPECIFICATION RepairSpec
CONSTANTS
    MaxKey = 4
    MaxCrashes = 1
PROPERTIES MarkedLiveIsNotFree
