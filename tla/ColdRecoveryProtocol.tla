------------------------ MODULE ColdRecoveryProtocol ------------------------
(***************************************************************************)
(* The cold-recovery protocol object of one supervisor                     *)
(* (src/cluster/cold-bootstrap/protocol.mjs) and its store                 *)
(* (decision-store.mjs).  Each call is a sequence of steps split at the    *)
(* awaits of the code.  As wired the startup flow is the only caller       *)
(* (api/control-api.mjs:40 hands the routes of api/routes/cold-recovery.mjs *)
(* a name they do not read); with more Callers the module is about the     *)
(* object, which those routes and the operator's recovery are written for. *)
(*                                                                         *)
(* Which operation a call is, and its arguments, are chosen where the code *)
(* first depends on them.                                                  *)
(***************************************************************************)
EXTENDS RecoveryEpoch, Sequences

CONSTANTS
  Callers,     \* the flows that may have one call in flight each
  Starter,     \* the one that prepares the startup of the process
  Strangers,   \* names that acknowledge without being members
  Quorums,     \* the supervisor quorums that authorizations ask for
  WriteFaults  \* TRUE when writing the file may fail

ASSUME CallerAssumption ==
  /\ Starter \in Callers
  /\ Strangers \cap Nodes = {} /\ IsFiniteSet(Strangers)
  /\ Quorums \subseteq Nat
  /\ WriteFaults \in BOOLEAN

VARIABLES
  stage,     \* where the startup of the process is
  current,   \* the protocol's record in memory
  stored,    \* the content of cold-recovery.json
  writes,    \* the store's chain of writes, oldest first
  step,      \* per caller: the await its call is at
  existing   \* per caller: the record its call has read and still needs
vars == <<stage, current, stored, writes, step, existing>>

\* While the startup plans; "joining" when its last plan() has found a Primary.
Planning == {"planning", "joining"}

Steps == {"idle", "collecting", "reading", "adopting", "revalidating", "writing"}

Init ==
  /\ stage = "planning"
  /\ current = Nothing
  /\ stored = Nothing
  /\ writes = <<>>
  /\ step = [c \in Callers |-> "idle"]
  /\ existing = [c \in Callers |-> Nothing]

\* The handlers have no protocol to call before the startup flow is done with
\* it; from then on the Starter's calls are those of one more handler.
MayCall(c) == step[c] = "idle" /\ (stage # "serving" => c = Starter)

\* Caller c waits at an await, holding the record it has read.
Await(c, where, record) ==
  /\ step' = [step EXCEPT ![c] = where]
  /\ existing' = [existing EXCEPT ![c] = record]

End(c) == Await(c, "idle", Nothing)

\* `current = record; await persist(record, expected)`: the write joins the
\* chain in the same turn.  NoView stands for a write that expects nothing.
Persist(c, record, expected) ==
  /\ current' = record
  /\ writes' = Append(writes, [caller |-> c, record |-> record, expected |-> expected])
  /\ Await(c, "writing", Nothing)
  /\ UNCHANGED <<stage, stored>>

-----------------------------------------------------------------------------
(* plan() and retry()                                                       *)
Collect(c) ==
  /\ MayCall(c) /\ stage # "authorizing"
  /\ stage' = IF stage = "joining" THEN "planning" ELSE stage
  /\ Await(c, "collecting", Nothing)
  /\ UNCHANGED <<stored, writes>>

Plan(c) == Collect(c) /\ UNCHANGED current

\* An identity mismatch is final: retry() hands back the refusal.
Retry(c) ==
  /\ Collect(c)
  /\ current # Nothing => current.code # "mismatch"
  /\ current' = Nothing

\* An active Primary is joined; the record stays as it is, also one that a
\* retry() just before has elected.
PlanJoins(c) ==
  /\ step[c] = "collecting"
  /\ End(c)
  /\ stage' = IF stage = "planning" THEN "joining" ELSE stage
  /\ UNCHANGED <<current, stored, writes>>

\* Mutant of PlanRefuses: the refusal is not persisted.
PlanRefusesInMemory(c) ==
  /\ step[c] = "collecting"
  /\ \E code \in {"mismatch", "other"} : current' = BlockedRecord(code)
  /\ End(c)
  /\ UNCHANGED <<stage, stored, writes>>

\* No evidence, incomplete evidence, or evidence without a candidate.
PlanRefuses(c) ==
  /\ step[c] = "collecting"
  /\ \E code \in {"mismatch", "other"} : Persist(c, BlockedRecord(code), NoView)

PlanElects(c) ==
  /\ step[c] = "collecting"
  /\ \E view \in {v \in Views : Winner[v] # NoNode} : Persist(c, EpochRecord(view), NoView)

-----------------------------------------------------------------------------
(* authorize(), beginBootstrap(), complete() and status(), from the point   *)
(* where read() has given them a record.                                    *)

\* status() answers; any other call is refused: unknown or stale epoch, wrong
\* winner, cluster or members, not enough acknowledgements, wrong phase.
Answer(c, record) ==
  /\ current' = record
  /\ End(c)
  /\ UNCHANGED <<stage, stored, writes>>

Authorize(c, record) ==
  /\ record # Nothing /\ Valid(record)
  /\ \E acks \in SUBSET (Nodes \cup Strangers) : \E required \in Quorums :
       /\ MayAuthorize(record, acks, required)
       /\ Persist(c, AuthorizedRecord(record, acks, required), record.epoch)

BeginBootstrap(c, record) ==
  /\ record # Nothing /\ Valid(record)
  /\ record.phase = "authorized"
  /\ current' = record
  /\ Await(c, "revalidating", record)
  /\ UNCHANGED <<stage, stored, writes>>

Complete(c, record) ==
  /\ record # Nothing
  /\ record.epoch # NoView /\ record.winner # NoNode
  /\ MayMove(record, "complete")
  /\ Persist(c, Moved(record, "complete"), record.epoch)

Decide(c, record) ==
  \/ Answer(c, record)
  \/ Authorize(c, record)
  \/ BeginBootstrap(c, record)
  \/ Complete(c, record)

\* read(): `current ??= await store.read()`.  With a record in memory no other
\* event comes between the call and its decision.
ReadMemory(c) ==
  /\ MayCall(c) /\ stage \notin Planning /\ current # Nothing
  /\ Decide(c, current)

\* Without one the file is read, and what it held is assigned to memory,
\* whatever memory holds by then.
OpenFile(c) ==
  /\ MayCall(c) /\ stage \notin Planning /\ current = Nothing
  /\ Await(c, "reading", Nothing)
  /\ UNCHANGED <<stage, current, stored, writes>>

ReadFile(c) ==
  /\ step[c] = "reading"
  /\ Await(c, "adopting", stored)
  /\ UNCHANGED <<stage, current, stored, writes>>

Adopt(c) ==
  /\ step[c] = "adopting"
  /\ Decide(c, existing[c])

\* The evidence collected again has the digest of the epoch read before.
Revalidates(c) ==
  /\ step[c] = "revalidating"
  /\ Persist(c, Moved(existing[c], "bootstrapping"), existing[c].epoch)

\* It could not be collected, or it has changed.
Refutes(c) ==
  /\ step[c] = "revalidating"
  /\ \E code \in {"mismatch", "other"} :
       Persist(c, Withdrawn(existing[c], code), existing[c].epoch)

-----------------------------------------------------------------------------
(* The store's chain of writes and the startup flow                         *)
\* Mutant of Conflicts: the file is replaced whatever it holds.
NeverConflicts(write) == FALSE

Conflicts(write) ==
  /\ write.expected # NoView
  /\ stored # Nothing => stored.epoch # write.expected

Settle ==
  /\ writes' = Tail(writes)
  /\ End(Head(writes).caller)
  /\ UNCHANGED <<stage, current>>

Commit ==
  /\ writes # <<>> /\ ~Conflicts(Head(writes))
  /\ stored' = Head(writes).record
  /\ Settle

\* Mutant of Conflict: the write is dropped and its caller never told.
ConflictUnreported ==
  /\ writes # <<>> /\ Conflicts(Head(writes))
  /\ writes' = Tail(writes)
  /\ UNCHANGED <<stage, current, stored, step, existing>>

\* RECOVERY_EPOCH_CONFLICT: the call is rejected, the chain goes on.
Conflict ==
  /\ writes # <<>> /\ Conflicts(Head(writes))
  /\ Settle /\ UNCHANGED stored

WriteFails ==
  /\ WriteFaults /\ writes # <<>>
  /\ Settle /\ UNCHANGED stored

\* recordSupervisorRecoveryDecision: after planning the startup decision goes
\* to the same file through a store of its own.  It is made from what the last
\* plan() has returned: a decision to join names no epoch, whatever is in memory.
RecordDecision ==
  /\ stage \in Planning /\ step[Starter] = "idle"
  /\ stage' = "authorizing"
  /\ stored' = DecisionRecord(IF stage = "planning" /\ current # Nothing /\ current.phase = "evidence"
                              THEN current.epoch ELSE NoView)
  /\ UNCHANGED <<current, writes, step, existing>>

\* The startup flow is over: an elected process has authorized and begun its
\* bootstrap by now, a clean restart or an explicit startup mode planned nothing.
Serve ==
  /\ stage = "authorizing" \/ (stage = "planning" /\ current = Nothing)
  /\ step[Starter] = "idle"
  /\ stage' = "serving"
  /\ UNCHANGED <<current, stored, writes, step, existing>>

\* The process dies and starts again; the file survives it.
Restart ==
  /\ stage' = "planning"
  /\ current' = Nothing
  /\ writes' = <<>>
  /\ step' = [c \in Callers |-> "idle"]
  /\ existing' = [c \in Callers |-> Nothing]
  /\ UNCHANGED stored

Call(c) == Plan(c) \/ Retry(c) \/ ReadMemory(c) \/ OpenFile(c)
Proceed(c) ==
  \/ PlanJoins(c) \/ PlanRefuses(c) \/ PlanElects(c)
  \/ ReadFile(c) \/ Adopt(c)
  \/ Revalidates(c) \/ Refutes(c)
Write == Commit \/ Conflict \/ WriteFails

Next ==
  \/ \E c \in Callers : Call(c) \/ Proceed(c)
  \/ Write
  \/ RecordDecision \/ Serve \/ Restart

Spec == Init /\ [][Next]_vars

\* Collections, file accesses and promise continuations all come to an end:
\* every request of a collection has a timeout.
FairSpec == Spec /\ \A c \in Callers : WF_vars(Proceed(c)) /\ WF_vars(Write)

-----------------------------------------------------------------------------
TypeOK ==
  /\ stage \in {"planning", "joining", "authorizing", "serving"}
  /\ current \in Records \cup {Nothing}
  /\ stored \in Records \cup {Nothing}
  /\ writes \in Seq([caller : Callers, record : Records, expected : Views \cup {NoView}])
  /\ step \in [Callers -> Steps]
  /\ existing \in [Callers -> Records \cup {Nothing}]

\* Whatever calls overlap and wherever the process died, the record in the file
\* and the record in memory never claim an authorization, a bootstrap or a
\* completion that was not acknowledged by enough members, or for a winner the
\* evidence does not elect.
Acknowledged ==
  /\ stored # Nothing => WellFormed(stored)
  /\ current # Nothing => WellFormed(current)

Quiescent == \A c \in Callers : step[c] = "idle"

\* When no call is in flight, the record in memory is about the epoch in the
\* file: what status() shows is what a restart would find.  The exception is a
\* decision without an epoch, which replaces the record of an epoch that a
\* retry() has elected when the plan() after it finds a Primary to join; memory
\* keeps the epoch.
EpochCoherent ==
  Quiescent /\ stage \notin Planning /\ current # Nothing
    => /\ stored # Nothing
       /\ stored.epoch = current.epoch \/ stored = DecisionRecord(NoView)

\* No wake-up is lost on the chain of writes: a call that waits has exactly one
\* write there, and a write there belongs to a call that waits for it, also
\* behind writes that were refused or have failed.
WaitersAreQueued ==
  /\ \A c \in Callers : step[c] = "writing" => \E i \in 1..Len(writes) : writes[i].caller = c
  /\ \A i \in 1..Len(writes) : step[writes[i].caller] = "writing"
  /\ \A i, j \in 1..Len(writes) : writes[i].caller = writes[j].caller => i = j

\* Every call comes to an end, also when its write is refused or fails.
CallsReturn == \A c \in Callers : step[c] # "idle" ~> step[c] = "idle"

\* The file implements the promise of RecoveryDecision.
Promise == INSTANCE RecoveryDecision WITH decision <- stored
KeepsPromise == Promise!DecisionSpec

-----------------------------------------------------------------------------
(* The inductive invariant behind TypeOK, Acknowledged and KeepsPromise: a  *)
(* record is well formed wherever a call may still take it from, and a      *)
(* queued write either proposes an epoch or is about the one it expects.    *)
WriteOK(write) ==
  /\ WellFormed(write.record)
  /\ write.expected = NoView => write.record \in Promise!Proposals
  /\ write.expected # NoView =>
       /\ Certified(write.record)
       /\ write.record.phase \notin {"evidence", "decision"}
       /\ write.record.epoch = write.expected

ReadOK(c) ==
  /\ existing[c] # Nothing => WellFormed(existing[c])
  /\ step[c] = "revalidating" => existing[c] # Nothing /\ existing[c].phase = "authorized"

IInv ==
  /\ TypeOK
  /\ Acknowledged
  /\ \A i \in 1..Len(writes) : WriteOK(writes[i])
  /\ \A c \in Callers : ReadOK(c)
=============================================================================
