----------------------------- MODULE MCSonarIssues -----------------------------
EXTENDS SonarIssues
CONSTANTS main, release, i1, i2, i3
AllOfMain == [i \in {i1, i2, i3} |-> main]
\* The two issues with a line are alike.
Alike == Permutations({i1, i2})
=============================================================================
