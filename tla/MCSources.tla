------------------------------- MODULE MCSources -------------------------------
EXTENDS Sources
CONSTANTS p1, p2
\* Two branches of one repository and a repository of the same name: feature/x, feature_x of
\* one, feature/x of the other.
MCRepoOf == [o \in Origin |-> IF o = "other" THEN 2 ELSE 1]
MCBranchOf == [o \in Origin |-> IF o = "under" THEN "feature_x" ELSE "feature/x"]
\* One branch of each repository moves.
MCMaxHead == [o \in Origin |-> IF o = "under" THEN 1 ELSE 2]
=============================================================================
