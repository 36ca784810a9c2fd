\* Two windows, two layer surfaces and two outputs.
CONSTANTS
  Windows = {w1, w2}
  Layers = {l1, l2}
  Outputs = {m1, m2}
  None = None
SPECIFICATION Spec
SYMMETRY Twins
INVARIANTS TypeOK FocusReturns
PROPERTIES LockHolds OverlayHolds
