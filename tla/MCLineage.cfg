SPECIFICATION Spec
CONSTANTS
  ann = ann
  bea = bea
  cid = cid
  fa = fa
  fb = fb
  Person = {ann, bea, cid}
  Family = {fa, fb}
  Gone = Gone
  Traditional = FALSE
  RingSize = 8
  MaxLinks = 4
  CutLinks = 2
  MaxLater = 1
SYMMETRY MCSymmetry
INVARIANTS LineageSound DiesOnlyOf KinSetsExact
PROPERTIES KinKept RepairMends
CHECK_DEADLOCK FALSE
