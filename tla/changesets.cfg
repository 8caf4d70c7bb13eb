\* Three commits, one on a release branch; one fault, switch of branch or pause.
SPECIFICATION Spec
CONSTANTS
  main = main
  release = release
  f1 = f1
  f2 = f2
  app = app
  rel = rel
  None = None
  MaxCommits = 3
  Branch = {main, release}
  BranchOf <- MCBranchOf
  Anc <- MCAnc
  File = {f1, f2}
  Touched <- MCTouched
  ReleaseBranch = {release}
  Root = app
  SuffixOf <- MCSuffixOf
  MainBranch = main
  MaxAttempts = 2
  MaxJobs = 3
  MaxIncidents = 1
INVARIANTS
  TypeOK
  LastIsCovered
  NothingMissed
  FirstScanFirst
CHECK_DEADLOCK FALSE
