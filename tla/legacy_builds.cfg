\* Two tasks at a time, three pushes, one failed call, two things a user does.
SPECIFICATION Spec
SYMMETRY Alike
CONSTANTS
  t1 = t1
  t2 = t2
  Task = {t1, t2}
  MaxPushes = 3
  MaxRows = 3
  MaxFaults = 1
  MaxManual = 1
  MaxHooks = 3
INVARIANT LastIsCovered
INVARIANT FirstScanFirst
CHECK_DEADLOCK FALSE
