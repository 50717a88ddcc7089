SPECIFICATION FairSpec
CONSTANTS
  n1 = n1
  n2 = n2
  Members <- MCMembers
  Supervisors <- MCMembers
  Epochs = {1}
  Sizes = {2}
  Listens = {"before", "after"}
  MaxStarts = 2
INVARIANTS
  StartupInv
  OnePromoted
  ExitAlwaysLegal
  InitializedNeverPends
PROPERTIES
  CompletedEpochStays
  SettlesDown
CHECK_DEADLOCK FALSE
