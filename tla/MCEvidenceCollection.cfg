SPECIFICATION MCSpec
CONSTANTS
  Nodes <- MCNodes
  Supervisors = {1, 2}
  DiskStates <- MCDiskStates
  Endpoints = {"startup", "runtime"}
  Faults = {"mismatch"}
  Movers = {2}
INVARIANTS
  TypeOK
  HighestPositionWins
  WinnersAgree
  MajorityHoldsTheHistory
  JoinsOwnHistory
