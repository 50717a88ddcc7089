------------------------ MODULE MCEvidenceCollection ------------------------
(* Model-checking instances of EvidenceCollection and their properties.     *)
EXTENDS EvidenceCollection

MCNodes == 1..3
\* Three data directories: the smallest set with a rival history.
MCDiskStates == {[uuid |-> "u", seqno |-> 0], [uuid |-> "u", seqno |-> 1],
                 [uuid |-> "v", seqno |-> 1]}

\* A member on which mariadbd does not run starts with its position in the file
\* and answers by the startup routes: what else it may say, a member on which
\* it does run says too.
MCInit ==
  /\ Init
  /\ \A n \in Nodes \ Movers : clean[n] /\ endpoint[n] = "startup"
MCSpec == MCInit /\ [][Next]_vars

ConcludesBootstrap(s) == verdict[s].mode = "bootstrap"

\* What a supervisor was told of a member is not where the member stands.
Misreported(s, n) ==
  settled[s][n].status = "fulfilled" /\ settled[s][n].item.seqno # disk[n].seqno

TypeOK ==
  /\ disk \in [Nodes -> DiskStates]
  /\ clean \in [Nodes -> BOOLEAN]
  /\ endpoint \in [Nodes -> Endpoints]
  /\ engine \in [Nodes -> {"down", "running", "primary", "killed"}]
  /\ \A n \in Nodes, handler \in Handlers :
       recovered[n][handler].status \in {"unread", "failed", "found"}
  /\ \A s \in Supervisors :
       /\ \A n \in Nodes : settled[s][n].status \in {"pending", "fulfilled", "rejected"}
       /\ verdict[s].mode \in {"none", "join", "blocked", "bootstrap"}
       /\ verdict[s].winner \in IF verdict[s].mode = "bootstrap" THEN Nodes ELSE {NoWinner}

\* A supervisor that concludes to bootstrap names a winner that no configured
\* member is ahead of, whatever history that member holds, but one on which
\* mariadbd runs, or has run since the position reported of it was read.
HighestPositionWins ==
  \A s \in Supervisors, n \in Nodes :
    /\ ConcludesBootstrap(s)
    /\ n \in Movers => ~Misreported(s, n)
    => disk[n].seqno <= disk[verdict[s].winner].seqno

\* Two supervisors that conclude to bootstrap, each collecting at its own time
\* and from other endpoints, name the same cluster whatever has run meanwhile;
\* and the same winner, unless a member does not stand where one was told.
WinnersAgree ==
  \A s, t \in Supervisors :
    ConcludesBootstrap(s) /\ ConcludesBootstrap(t) =>
      /\ verdict[s].epoch.clusterId = verdict[t].epoch.clusterId
      /\ \/ verdict[s].winner = verdict[t].winner
         \/ \E n \in Movers : Misreported(s, n) \/ Misreported(t, n)

\* A supervisor that could read its own data directory joins a Primary of the
\* history in that directory only, never one of another cluster.
JoinsOwnHistory ==
  \A s \in Supervisors :
    /\ verdict[s].mode = "join"
    /\ settled[s][s].status = "fulfilled"
    => \E item \in Evidence(s) : item.active /\ item.galera = disk[s].uuid

\* A history that wins is held by a majority of the configured members, so no
\* two histories can ever both be bootstrapped by different supervisors.
MajorityHoldsTheHistory ==
  \A s \in Supervisors :
    ConcludesBootstrap(s) =>
      Cardinality({n \in Nodes : disk[n].uuid = verdict[s].epoch.clusterId})
        >= MajorityOf(Nodes)

-----------------------------------------------------------------------------
(* What a test says and the code does not do.                               *)

\* "three supervisors converge on the same epoch and winner".
EpochsConverge ==
  \A s, t \in Supervisors :
    ConcludesBootstrap(s) /\ ConcludesBootstrap(t) => verdict[s].epoch = verdict[t].epoch
=============================================================================
