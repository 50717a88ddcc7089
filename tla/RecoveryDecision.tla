-------------------------- MODULE RecoveryDecision --------------------------
(***************************************************************************)
(* What the file cold-recovery.json promises to a reader, however many     *)
(* calls of the protocol are in flight and wherever the process dies:      *)
(*   - a record is replaced as a whole;                                    *)
(*   - a new epoch enters it only as plain evidence, as a refusal, or as   *)
(*     the startup decision;                                               *)
(*   - every further record is about the epoch the file already names, and *)
(*     carries the acknowledgements its authorization asked for.           *)
(* Which phases of one epoch may follow each other it does not promise:    *)
(* see BlockedEpochStaysBlocked in MCColdRecoveryProtocol.                 *)
(***************************************************************************)
EXTENDS RecoveryEpoch

VARIABLE decision

Proposals ==
  {EpochRecord(view) : view \in {v \in Views : Winner[v] # NoNode}}
  \cup {BlockedRecord(code) : code \in Codes}
  \cup {DecisionRecord(epoch) : epoch \in Views \cup {NoView}}

DecisionInit == decision = Nothing

Propose == decision' \in Proposals

Advance ==
  /\ decision # Nothing
  /\ decision' \in {record \in Records : Certified(record)}
  /\ decision'.phase \notin {"evidence", "decision"}
  /\ decision'.epoch = decision.epoch

DecisionNext == Propose \/ Advance
DecisionSpec == DecisionInit /\ [][DecisionNext]_decision
=============================================================================
