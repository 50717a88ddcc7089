----------------------- MODULE MCColdRecoveryProtocol -----------------------
(* Model-checking instances of ColdRecoveryProtocol.                        *)
EXTENDS ColdRecoveryProtocol

CONSTANTS n1, n2, v1, v2

MCNodes == {n1, n2}
MCViews == {v1, v2}
\* Each view elects another member: evidence that changed elects another winner.
MCWinner == [v \in MCViews |-> IF v = v1 THEN n1 ELSE n2]

-----------------------------------------------------------------------------
(* What docs/cold-recovery.md says of the epochs in the file.               *)

\* "Blocked epochs may only be retried after fresh evidence is collected."
BlockedEpochStaysBlocked ==
  [][ /\ stored # Nothing /\ stored.phase = "blocked" /\ stored.epoch \in Views
      => stored'.phase \in {"blocked", "evidence", "decision"} ]_vars
=============================================================================
