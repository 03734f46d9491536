CONSTANTS
  Prefs = {default, p}
  Default = default
  Accounts = {a, b}
  Calls = {c1, c2}
  MaxActs = 3
  MaxRevision = 1
SPECIFICATION FairSpec
INVARIANTS PairedWithOwnAccount EditKept
PROPERTY NoBlindUpload CheckingEnds
CHECK_DEADLOCK FALSE
