---------------------------- MODULE MCLegacyBuilds ----------------------------
EXTENDS LegacyBuilds, TLC
CONSTANTS t1, t2
Alike == Permutations({t1, t2})
=============================================================================
