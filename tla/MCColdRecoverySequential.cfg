SPECIFICATION Spec
CONSTANTS
  n1 = n1
  n2 = n2
  v1 = v1
  v2 = v2
  NoNode = NoNode
  NoView = NoView
  Nothing = Nothing
  Nodes = {n1, n2, n3}
  Views <- MCViews
  Winner <- MCWinner
  Starter = startup
  Callers = {startup}
  Strangers = {stranger}
  Quorums = {0, 1, 2, 3, 4}
  WriteFaults = FALSE
INVARIANTS
  Acknowledged
  EpochCoherent
