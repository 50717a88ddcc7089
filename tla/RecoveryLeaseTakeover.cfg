SPECIFICATION FairSpec
CONSTANTS
  Requests = {r1, r2}
  Claims = {a, b}
  Absent = Absent
  Empty = Empty
  StaleAfter = 1
  MaxClock = 3
INVARIANT
  SingleLiveWinner
