SPECIFICATION ServicesSpec
CONSTANTS
  m1 = m1
  m2 = m2
  m3 = m3
  l1 = l1
  l2 = l2
  Members = {m1, m2, m3}
  Observers = {m1, m2}
  Leases = {l1, l2}
  LeaseAt <- MCLeaseAt
  Rank <- MCRank
  Hash = 0
  Unassigned = Unassigned
  MaxChanges = 1
  q1 = q1
  q2 = q2
  q3 = q3
  Nodes <- MCNodes
  Position <- MCPosition
  Requests = {q1, q2, q3}
  RequestedAt <- MCRequestedAt
  Keys = {key1}
  NoKey = NoKey
  Nobody = Nobody
  MaxCrashes = 1
  i1 = i1
  i2 = i2
  i3 = i3
  Intents = {i1, i2, i3}
  ClusterOf <- MCClusterOf
  PortOf <- MCPortOf
  NoIntent = NoIntent
  Torn = Torn
  Applies = {a1, a2}
  Boot = Boot
  MaxEnds = 1
INVARIANTS ServicesTypeOK OneFounder KeyRunsOnce LockExcludes ActiveIsServed OneCluster
PROPERTIES LeaseNamesTheAssignment
CHECK_DEADLOCK FALSE
