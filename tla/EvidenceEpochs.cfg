SPECIFICATION Spec
CONSTANTS
  Nodes <- MCNodes
  Supervisors = {1, 2}
  DiskStates <- MCDiskStates
  Endpoints = {"startup"}
  Faults = {}
  Movers = {}
INVARIANT
  EpochsConverge
