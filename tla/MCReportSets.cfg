SPECIFICATION Spec
CONSTANTS
  a = a
  Variable = {a}
  Person = {1, 2, 3}
  NameRank <- MCNameRank
  Val = {1, 2}
  None = None
  Room = 2
  MaxLen = 3
INVARIANTS FlagsTrue SetOpsExact LoopComplete
