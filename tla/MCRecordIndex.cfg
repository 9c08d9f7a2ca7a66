SPECIFICATION Spec
CONSTANTS
  ann = ann
  bea = bea
  fa = fa
  fb = fb
  src = src
  smith = smith
  jones = jones
  ra = ra
  Person = {ann, bea}
  Family = {fa, fb}
  Other = {src}
  Name = {smith, jones}
  Refn = {ra}
  Gone = Gone
  MaxNames = 2
  MaxRefns = 1
  MaxLines = 3
  MaxLater = 2
SYMMETRY MCSymmetry
INVARIANTS IndexExact PersonRefnsUnique
PROPERTIES GhostsGone
CHECK_DEADLOCK FALSE
