\* One process, no faults: three uploads of two builds on two platforms, into two runs; of three
\* entries two have one fingerprint.
SPECIFICATION Spec
CONSTANTS
  u1 = u1
  u2 = u2
  u3 = u3
  e1 = e1
  e2 = e2
  e3 = e3
  f1 = f1
  f2 = f2
  b1 = b1
  b2 = b2
  windows = windows
  linux = linux
  None = None
  Upload = {u1, u2, u3}
  Entry = {e1, e2, e3}
  Fp = {f1, f2}
  FpOf <- MCFpOf
  Build = {b1, b2}
  Platform = {windows, linux}
  MaxRuns = 2
  OneProcess = TRUE
  MaxComments = 0
  MaxFaults = 0
SYMMETRY Symmetry
INVARIANTS
  OneReportPerFingerprint
  DiffIsPerPlatform
  NothingVanishes
\* Every request may have been handled.
CHECK_DEADLOCK FALSE
