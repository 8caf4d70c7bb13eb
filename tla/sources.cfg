\* Two pages at a time, three origins of one directory, two of which move, one restart.
SPECIFICATION Spec
CONSTANTS
  p1 = p1
  p2 = p2
  None = None
  Page = {p1, p2}
  Origin = {"slash", "under", "other"}
  RepoOf <- MCRepoOf
  BranchOf <- MCBranchOf
  Other = {"snapshot", "archive"}
  MaxHead <- MCMaxHead
  MaxCrashes = 1
 
PROPERTY EveryPageEnds
CHECK_DEADLOCK FALSE
