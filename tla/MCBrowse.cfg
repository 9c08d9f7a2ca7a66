SPECIFICATION Spec
CONSTANTS
  i1 = i1
  i2 = i2
  i3 = i3
  f1 = f1
  f2 = f2
  s1 = s1
  a1 = a1
  a2 = a2
  b1 = b1
  b2 = b2
  d1 = d1
  Key = {i1, i2, i3, f1, f2, s1}
  El = {a1, a2, b1, b2, d1}
  MaxObject = 2
  NoKey = NoKey
  NoEl = NoEl
  NoRec = NoRec
  TypeOf <- MCTypeOf
  Cache <- MCCache
  FreeOrder <- MCFreeOrder
  MaxList = 2
  MaxNamed = 0
  MaxLeaked = 1
  MaxGone = 1
INVARIANTS HandlesExact ScreensFit
SYMMETRY MCSymmetry
CHECK_DEADLOCK FALSE
