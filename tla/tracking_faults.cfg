\* One process that crashes once, or whose database raises once; comments. Three uploads into
\* two runs, of two entries with one fingerprint.
SPECIFICATION Spec
CONSTANTS
  u1 = u1
  u2 = u2
  u3 = u3
  e1 = e1
  e2 = e2
  e3 = e3
  f1 = f1
  f2 = f2
  b1 = b1
  b2 = b2
  windows = windows
  linux = linux
  None = None
  Upload = {u1, u2, u3}
  Entry = {e1, e2}
  Fp = {f1}
  FpOf <- MCFpOf
  Build = {b1, b2}
  Platform = {windows, linux}
  MaxRuns = 2
  OneProcess = TRUE
  MaxComments = 1
  MaxFaults = 1
SYMMETRY Symmetry
INVARIANTS
  TypeOK
  CountersMatch
  BaselineStaysDone
\* Every request may have been handled.
CHECK_DEADLOCK FALSE
