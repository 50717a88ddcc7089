---------------------------- MODULE RecoveryEpoch ----------------------------
(***************************************************************************)
(* The records a supervisor keeps about a cold recovery and the legal      *)
(* moves between them: src/cluster/cold-bootstrap/recovery-epoch.mjs.      *)
(*                                                                         *)
(* A view is the complete evidence of all members.  The digest is taken    *)
(* over it and the cluster id follows from it, so the view stands for the  *)
(* identity of the epoch.  Winner is the election of the view's candidate  *)
(* (CandidateSelection), NoNode where it refuses to elect one.             *)
(***************************************************************************)
EXTENDS Integers, FiniteSets

CONSTANTS
  Nodes,    \* the configured members: the quorum of every epoch
  Views,    \* the complete evidence the members can give
  Winner,   \* the elected member of each view
  NoNode,   \* no member
  NoView,   \* no epoch
  Nothing   \* no record

ASSUME EpochAssumption ==
  /\ IsFiniteSet(Nodes)
  /\ Winner \in [Views -> Nodes \cup {NoNode}]
  /\ NoNode \notin Nodes
  /\ NoView \notin Views

Phases == {"evidence", "authorized", "bootstrapping", "complete", "blocked", "decision"}
Codes == {"none", "mismatch", "other"}

Records ==
  [phase : Phases, epoch : Views \cup {NoView}, winner : Nodes \cup {NoNode},
   acks : SUBSET Nodes, required : 0..Cardinality(Nodes), code : Codes]

ASSUME NothingAssumption == Nothing \notin Records

Unacknowledged(phase, epoch, winner, code) ==
  [phase |-> phase, epoch |-> epoch, winner |-> winner,
   acks |-> {}, required |-> 0, code |-> code]

\* A fresh epoch for a view with a candidate.
EpochRecord(view) == Unacknowledged("evidence", view, Winner[view], "none")
\* What plan() keeps when it has no candidate: it names no epoch.
BlockedRecord(code) == Unacknowledged("blocked", NoView, NoNode, code)
\* The startup decision, stored in the same file; it has no version, no phase,
\* no member list, and an epoch only when it is a bootstrap decision.
DecisionRecord(epoch) == Unacknowledged("decision", epoch, NoNode, "none")

Transitions ==
  [evidence      |-> {"authorized", "blocked"},
   authorized    |-> {"bootstrapping", "blocked"},
   bootstrapping |-> {"complete", "blocked"},
   complete      |-> {},
   blocked       |-> {"evidence"},
   decision      |-> {}]

\* transitionRecoveryEpoch lets a record move to the phase it is in.
MayMove(record, phase) == phase = record.phase \/ phase \in Transitions[record.phase]

\* validateRecoveryEpoch: a versioned record of an epoch that is not blocked.
Valid(record) == record.phase \notin {"blocked", "decision"} /\ record.epoch # NoView

\* Mutants of MayAuthorize: too few acknowledgements; strangers' count.
MayAuthorizeWithFewer(record, acks, required) ==
  /\ MayMove(record, "authorized")
  /\ required \in 1..Cardinality(Nodes)
  /\ acks \subseteq Nodes
MayAuthorizeWithStrangers(record, acks, required) ==
  /\ MayMove(record, "authorized")
  /\ required \in 1..Cardinality(Nodes)
  /\ Cardinality(acks) >= required

MayAuthorize(record, acks, required) ==
  /\ MayMove(record, "authorized")
  /\ required \in 1..Cardinality(Nodes)
  /\ Cardinality(acks) >= required
  /\ acks \subseteq Nodes

AuthorizedRecord(record, acks, required) ==
  [record EXCEPT !.phase = "authorized", !.acks = acks, !.required = required]
Moved(record, phase) == [record EXCEPT !.phase = phase]
Withdrawn(record, code) == [record EXCEPT !.phase = "blocked", !.code = code]

-----------------------------------------------------------------------------
\* A record that says more than "evidence" about its epoch was acknowledged by
\* as many members as its authorization asked for, one at least, and names the
\* member the evidence elects.
Certified(record) ==
  /\ record.epoch \in Views
  /\ record.winner = Winner[record.epoch]
  /\ record.winner \in Nodes
  /\ record.acks \subseteq Nodes
  /\ record.required \in 1..Cardinality(record.acks)

WellFormed(record) ==
  /\ record.phase \in {"authorized", "bootstrapping", "complete"} => Certified(record)
  /\ record.phase = "evidence" => record.epoch \in Views /\ record.winner = Winner[record.epoch]
                                  /\ record.winner \in Nodes
  /\ record.phase = "blocked" /\ record.epoch # NoView => Certified(record)
=============================================================================
