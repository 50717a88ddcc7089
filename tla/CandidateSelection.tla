------------------------- MODULE CandidateSelection -------------------------
(***************************************************************************)
(* The election of the supervisor that may bootstrap the cluster, from the *)
(* evidence the supervisors report: src/cluster/cold-bootstrap/candidate.mjs. *)
(*                                                                         *)
(* A piece of evidence is a record with the fields node, uuid (the Galera  *)
(* history its data directory belongs to) and seqno (the last transaction  *)
(* of it).  Evidence is a set of them, one per node: the order in which    *)
(* the code receives them is not visible in its answer.  Node names are    *)
(* integers, ordered as localeCompare orders the names.                    *)
(***************************************************************************)
EXTENDS Integers, FiniteSets, FiniteSetsExt

NoUuid == ""
NoWinner == 0

\* floor(n / 2) + 1 of the configured members.
MajorityOf(nodes) == Cardinality(nodes) \div 2 + 1

Histories(states) == {state.uuid : state \in states}
Candidates(states, uuid) == {state \in states : state.uuid = uuid}
Highest(states, uuid) == Max({state.seqno : state \in Candidates(states, uuid)})

\* Mutant of Outranks: the larger history before the longer one.
OutranksByCount(states, u, v) ==
  \/ Cardinality(Candidates(states, u)) > Cardinality(Candidates(states, v))
  \/ /\ Cardinality(Candidates(states, u)) = Cardinality(Candidates(states, v))
     /\ Highest(states, u) > Highest(states, v)

\* `ranked` sorts the histories by their highest seqno, then by the number of
\* members that hold them.
Outranks(states, u, v) ==
  \/ Highest(states, u) > Highest(states, v)
  \/ /\ Highest(states, u) = Highest(states, v)
     /\ Cardinality(Candidates(states, u)) > Cardinality(Candidates(states, v))

\* `tied`: the histories no other history outranks.
Strongest(states) ==
  {u \in Histories(states) : \A v \in Histories(states) : ~Outranks(states, v, u)}

\* The member of the history with its highest seqno; of several, the one whose
\* name comes first.
WinnerOf(states, uuid) ==
  Min({state.node : state \in {s \in Candidates(states, uuid) :
                                 s.seqno = Highest(states, uuid)}})

Elected(winner, uuid) ==
  [eligible |-> TRUE, reason |-> "elected", winner |-> winner, clusterId |-> uuid]
\* Mutant of Refused: the refusal does not say `eligible: false`.
RefusedAsEligible(reason) ==
  [eligible |-> TRUE, reason |-> reason, winner |-> NoWinner, clusterId |-> NoUuid]
Refused(reason) ==
  [eligible |-> FALSE, reason |-> reason, winner |-> NoWinner, clusterId |-> NoUuid]

SelectCandidate(states, minimumHistorySize) ==
  LET strongest == CHOOSE u \in Strongest(states) : TRUE IN
  IF NoUuid \in Histories(states)
    THEN Refused("INCOMPLETE")
  ELSE IF Cardinality(Strongest(states)) > 1
    THEN Refused("SPLIT_BRAIN")
  ELSE IF Cardinality(Candidates(states, strongest)) < minimumHistorySize
    THEN Refused("INSUFFICIENT_RECOVERY_EVIDENCE")
  ELSE IF Highest(states, strongest) < 0
    THEN Refused("NO_SEQNO")
  ELSE Elected(WinnerOf(states, strongest), strongest)
=============================================================================
