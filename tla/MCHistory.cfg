SPECIFICATION Spec
CONSTANTS
  i1 = i1
  i2 = i2
  f1 = f1
  Key = {i1, i2, f1}
  Person = {i1, i2}
  NoKey = NoKey
  Options <- MCOptions
INVARIANTS ShownIsListed
PROPERTIES ImplementsTrail
