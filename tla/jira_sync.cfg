\* SQLite. Two uploads of one build with three entries, two of one warning; one database
\* error, two other troubles.
SPECIFICATION Spec
CONSTANTS
  f1 = f1
  f2 = f2
  e1 = e1
  e2 = e2
  e3 = e3
  Fp = {f1, f2}
  Entry = {e1, e2, e3}
  FpOf <- Fingerprints
  MaxAttempts = 2
  Sqlite = TRUE
  MaxUploads = 2
  MaxDbErrors = 1
  MaxTrouble = 2
SYMMETRY Symmetry
INVARIANTS
  NoTwinBugs
  QuietMeansKeyed
\* Everything may have been uploaded and synchronised.
CHECK_DEADLOCK FALSE
