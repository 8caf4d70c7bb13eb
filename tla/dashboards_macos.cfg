\* A project names a root of macOS, or the global settings were opened.
SPECIFICATION Spec
CONSTANTS
  w1 = w1
  w2 = w2
  w3 = w3
  d1 = d1
  d2 = d2
  Warning = {w1, w2, w3}
  Defect = {d1, d2}
  DefectOf <- TwoLinesOfOne
  Severity = {"High", "Low"}
  SeverityOf <- HighOrLow
  Limit = 2
  FirstPage = 2
  NextPage = 1
  Anonymous = {1}
  RootsAtFirst = {{}, {"windows", "linux"}, {"windows", "linux", "macos"}}
  MaxRuns = 3
  MaxEdits = 1
SYMMETRY Symmetry
INVARIANT EveryPlatformAccepted
CHECK_DEADLOCK FALSE
