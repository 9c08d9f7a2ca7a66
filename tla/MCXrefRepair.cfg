SPECIFICATION RepairSpec
CONSTANTS
    MaxKey = 5
    MaxCrashes = 2
INVARIANTS FindSlotFinds
PROPERTIES RepairFreesOnlyMissing RepairAccounts VerifyTerminates
