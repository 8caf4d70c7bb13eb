\* A main and a release project, two issues with a line and one without, a day of two ticks, two
\* issues in an answer.
SPECIFICATION IssuesSpec
SYMMETRY Alike
CONSTANTS
  main = main
  release = release
  i1 = i1
  i2 = i2
  i3 = i3
  None = None
  Project = {main, release}
  ReleaseProject = {release}
  Issue = {i1, i2, i3}
  ProjectOf <- AllOfMain
  Lineless = {i3}
  PageSize = 2
  TTL = 1
  Day = 2
  MaxClock = 2
  MaxAnalyses = 2
  MaxWebHooks = 1
  MaxOutages = 1
INVARIANT NoTwinBugs
INVARIANT OverlooksOnlyNewIssues
PROPERTY ActsOnRecentAnswers
