SPECIFICATION FairSpec
CONSTANTS
  n1 = n1
  n2 = n2
  v1 = v1
  v2 = v2
  NoNode = NoNode
  NoView = NoView
  Nothing = Nothing
  Nodes <- MCNodes
  Views <- MCViews
  Winner <- MCWinner
  Starter = startup
  Callers = {startup, http}
  Strangers = {}
  Quorums = {2}
  WriteFaults = FALSE
PROPERTY
  BlockedEpochStaysBlocked
