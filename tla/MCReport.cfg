SPECIFICATION Spec
CONSTANTS
  i1 = i1
  i2 = i2
  i3 = i3
  f1 = f1
  v1 = v1
  a1 = a1
  a2 = a2
  b1 = b1
  d1 = d1
  Key = {i1, i2, i3, f1, v1}
  El = {a1, a2, b1, d1}
  MaxObject = 2
  NoKey = NoKey
  NoEl = NoEl
  NoRec = NoRec
  TypeOf <- MCTypeOf
  Cache <- MCCache
  FreeOrder <- MCFreeOrder
  Initial <- MCInitial
  Used <- MCUsed
  Nested <- MCNested
  Edited <- MCEdited
  MaxDepth = 3
  MaxLost = 1
  MaxRpt = 1
INVARIANTS CacheConsistent HoldsExact DiesOnlyOf
PROPERTIES LockedStay JumpReaches
SYMMETRY MCSymmetry
