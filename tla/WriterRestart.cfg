CONSTANTS
  m1 = m1
  m2 = m2
  m3 = m3
  Members = {m1, m2, m3}
  Observers = {m1}
  Leases = {l1}
  l1 = l1
  LeaseAt <- MCLeaseAt
  Rank <- MCRank
  Hash = 0
  Unassigned = Unassigned
  MaxChanges = 3
SPECIFICATION WriterSpec
PROPERTIES PersistedAssignmentStays
CHECK_DEADLOCK FALSE
