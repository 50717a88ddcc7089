SPECIFICATION FairSignalsSpec
CONSTANTS
  Supervisors = {s1, s2}
  MaxOrders = 1
  MaxStops = 1
  main = main
  blog = blog
  c1 = c1
  c2 = c2
  Applications = {main, blog}
  Default = main
  Clients = {c1, c2}
  AppOf <- MCAppOf
  Routes = {r1}
  None = None
  MaxEvents = 2
  e1 = e1
  Requests = {q1, q2}
  Claims = {e1, e2}
  Absent = Absent
  Empty = Empty
  StaleAfter = 1
  MaxClock = 3
INVARIANTS SignalsTypeOK OpenGateIsAnnounced LeaseInv SingleWinnerUntilStale
PROPERTIES ShutdownStaysDrained DrainsAreLifted ClientsCatchUp VersionsNeverRewind ClaimsReturn
CHECK_DEADLOCK FALSE
