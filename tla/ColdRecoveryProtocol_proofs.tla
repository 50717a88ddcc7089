--------------------- MODULE ColdRecoveryProtocol_proofs ---------------------
(***************************************************************************)
(* Proofs about ColdRecoveryProtocol for every set of members, views and   *)
(* callers: the type invariant, the acknowledgement invariant, the         *)
(* implementation of RecoveryDecision, and, of calls that do not overlap,  *)
(* that memory and file name one epoch.                                    *)
(***************************************************************************)
EXTENDS ColdRecoveryProtocol, FiniteSetTheorems, SequenceTheorems, TLAPS

-----------------------------------------------------------------------------
(* The records the protocol builds.                                         *)

\* Every record plan() and the startup flow build is well formed.
LEMMA ProposedRecords ==
  /\ \A view \in Views : Winner[view] # NoNode =>
       EpochRecord(view) \in Records /\ WellFormed(EpochRecord(view))
  /\ \A code \in Codes : BlockedRecord(code) \in Records /\ WellFormed(BlockedRecord(code))
  /\ \A epoch \in Views \cup {NoView} :
       DecisionRecord(epoch) \in Records /\ WellFormed(DecisionRecord(epoch))
<1>1. 0 \in 0..Cardinality(Nodes)
  BY FS_CardinalityType, EpochAssumption
<1>2. ASSUME NEW view \in Views, Winner[view] # NoNode
      PROVE  EpochRecord(view) \in Records /\ WellFormed(EpochRecord(view))
  BY <1>1, <1>2, EpochAssumption
     DEF EpochRecord, Unacknowledged, Records, WellFormed, Phases, Codes
<1>3. ASSUME NEW code \in Codes
      PROVE  BlockedRecord(code) \in Records /\ WellFormed(BlockedRecord(code))
  BY <1>1 DEF BlockedRecord, Unacknowledged, Records, WellFormed, Phases
<1>4. ASSUME NEW epoch \in Views \cup {NoView}
      PROVE  DecisionRecord(epoch) \in Records /\ WellFormed(DecisionRecord(epoch))
  BY <1>1 DEF DecisionRecord, Unacknowledged, Records, WellFormed, Phases, Codes
<1>5. QED
  BY <1>2, <1>3, <1>4

\* An authorization yields a certified record of the same epoch: the
\* acknowledgements are members', and as many as were asked for.
LEMMA AuthorizedIsCertified ==
  ASSUME NEW record \in Records, WellFormed(record), Valid(record),
         NEW acks, NEW required, MayAuthorize(record, acks, required)
  PROVE  /\ AuthorizedRecord(record, acks, required) \in Records
         /\ Certified(AuthorizedRecord(record, acks, required))
         /\ AuthorizedRecord(record, acks, required).phase = "authorized"
         /\ AuthorizedRecord(record, acks, required).epoch = record.epoch
<1> DEFINE authorized == AuthorizedRecord(record, acks, required)
<1>1. record.epoch \in Views /\ record.winner = Winner[record.epoch] /\ record.winner \in Nodes
  BY DEF WellFormed, Valid, Certified, Records, Phases
<1>2. Cardinality(Nodes) \in Nat /\ IsFiniteSet(acks) /\ Cardinality(acks) \in Nat
  BY FS_CardinalityType, FS_Subset, EpochAssumption DEF MayAuthorize
<1>3. required \in 1..Cardinality(acks) /\ required \in 0..Cardinality(Nodes) /\ acks \subseteq Nodes
  BY <1>2 DEF MayAuthorize
<1>4. /\ authorized \in Records
      /\ authorized.phase = "authorized" /\ authorized.epoch = record.epoch
      /\ authorized.winner = record.winner
      /\ authorized.acks = acks /\ authorized.required = required
  BY <1>3 DEF AuthorizedRecord, Records, Phases
<1>5. QED
  BY <1>1, <1>3, <1>4 DEF Certified

\* A certified record stays certified when only its phase or code moves on.
LEMMA MovedIsCertified ==
  ASSUME NEW record \in Records, Certified(record)
  PROVE  /\ \A phase \in Phases :
              /\ Moved(record, phase) \in Records
              /\ Certified(Moved(record, phase))
              /\ Moved(record, phase).phase = phase
              /\ Moved(record, phase).epoch = record.epoch
         /\ \A code \in Codes :
              /\ Withdrawn(record, code) \in Records
              /\ Certified(Withdrawn(record, code))
              /\ Withdrawn(record, code).phase = "blocked"
              /\ Withdrawn(record, code).epoch = record.epoch
<1>1. ASSUME NEW phase \in Phases
      PROVE  LET moved == Moved(record, phase) IN
             /\ moved \in Records /\ moved.phase = phase
             /\ moved.epoch = record.epoch /\ moved.winner = record.winner
             /\ moved.acks = record.acks /\ moved.required = record.required
  BY DEF Moved, Records
<1>2. ASSUME NEW code \in Codes
      PROVE  LET moved == Withdrawn(record, code) IN
             /\ moved \in Records /\ moved.phase = "blocked"
             /\ moved.epoch = record.epoch /\ moved.winner = record.winner
             /\ moved.acks = record.acks /\ moved.required = record.required
  BY DEF Withdrawn, Records, Phases
<1>3. QED
  BY <1>1, <1>2 DEF Certified

\* Certified records are well formed in every phase.
LEMMA CertifiedIsWellFormed ==
  ASSUME NEW record, Certified(record)
  PROVE  WellFormed(record)
  BY DEF Certified, WellFormed

-----------------------------------------------------------------------------
(* The building blocks of the steps.                                        *)

WriteRecords == [caller : Callers, record : Records, expected : Views \cup {NoView}]

\* A call that queues a sound write preserves the invariant.
LEMMA PersistPreserves ==
  ASSUME IInv, NEW c \in Callers, NEW record \in Records,
         NEW expected \in Views \cup {NoView},
         WriteOK([caller |-> c, record |-> record, expected |-> expected]),
         Persist(c, record, expected)
  PROVE  IInv'
<1> DEFINE write == [caller |-> c, record |-> record, expected |-> expected]
<1> USE DEF IInv
<1>1. WellFormed(record)
  BY DEF WriteOK
<1>2. write \in WriteRecords
  BY DEF WriteRecords
<1>3. TypeOK'
  BY <1>2 DEF TypeOK, Persist, Await, WriteRecords, Steps
<1>4. Acknowledged'
  BY <1>1 DEF Acknowledged, Persist
<1>5. (\A i \in 1..Len(writes) : WriteOK(writes[i]))'
  <2>1. writes \in Seq(WriteRecords) /\ writes' = Append(writes, write)
    BY DEF TypeOK, Persist, WriteRecords
  <2>2. SUFFICES ASSUME NEW i \in 1..Len(writes') PROVE WriteOK(writes'[i])
    BY DEF WriteOK, Promise!Proposals
  <2>3. CASE i = Len(writes) + 1
    BY <2>1, <2>3, <1>2
  <2>4. CASE i \in 1..Len(writes)
    BY <2>1, <2>4, <1>2
  <2>5. QED
    BY <2>1, <2>3, <2>4, <1>2
<1>6. (\A d \in Callers : ReadOK(d))'
  BY DEF TypeOK, Persist, Await, ReadOK
<1>7. QED
  BY <1>3, <1>4, <1>5, <1>6

\* So does a call that only moves to another await, with a well formed record.
LEMMA AwaitPreserves ==
  ASSUME IInv, NEW c \in Callers, NEW where \in Steps, NEW record \in Records \cup {Nothing},
         record # Nothing => WellFormed(record),
         where = "revalidating" => record # Nothing /\ record.phase = "authorized",
         NEW memory \in Records \cup {Nothing},
         memory # Nothing => WellFormed(memory),
         Await(c, where, record), current' = memory,
         stage' \in {"planning", "joining", "authorizing", "serving"},
         UNCHANGED <<stored, writes>>
  PROVE  IInv'
<1> USE DEF IInv
<1>1. TypeOK'
  BY DEF TypeOK, Await
<1>2. Acknowledged'
  BY DEF Acknowledged
<1>3. (\A i \in 1..Len(writes) : WriteOK(writes[i]))'
  BY DEF WriteOK, Promise!Proposals
<1>4. (\A d \in Callers : ReadOK(d))'
  BY DEF TypeOK, Await, ReadOK
<1>5. QED
  BY <1>1, <1>2, <1>3, <1>4

\* When the oldest write is settled, the writes behind it stay sound.
LEMMA SettlePreserves ==
  ASSUME IInv, writes # <<>>, Settle,
         NEW content \in Records \cup {Nothing}, content # Nothing => WellFormed(content),
         stored' = content
  PROVE  IInv'
<1> USE DEF IInv
<1>1. /\ writes \in Seq(WriteRecords) /\ Tail(writes) \in Seq(WriteRecords)
      /\ Head(writes).caller \in Callers
      /\ Len(Tail(writes)) = Len(writes) - 1
      /\ \A i \in 1..Len(Tail(writes)) :
           Tail(writes)[i] = writes[i + 1] /\ i + 1 \in 1..Len(writes)
  <2>1. writes \in Seq(WriteRecords)
    BY DEF TypeOK, WriteRecords
  <2>2. Head(writes) \in WriteRecords /\ Tail(writes) \in Seq(WriteRecords)
    BY <2>1
  <2>3. Head(writes).caller \in Callers
    BY <2>2 DEF WriteRecords
  <2>4. Len(Tail(writes)) = Len(writes) - 1 /\ Len(writes) \in Nat
    BY <2>1
  <2>5. ASSUME NEW i \in 1..Len(Tail(writes))
        PROVE  Tail(writes)[i] = writes[i + 1] /\ i + 1 \in 1..Len(writes)
    BY <2>1, <2>4
  <2>6. QED
    BY <2>1, <2>2, <2>3, <2>4, <2>5
<1>2. TypeOK'
  BY <1>1 DEF TypeOK, Settle, End, Await, WriteRecords, Steps
<1>3. Acknowledged'
  BY DEF Acknowledged, Settle
<1>4. (\A i \in 1..Len(writes) : WriteOK(writes[i]))'
  BY <1>1 DEF Settle, WriteOK, Promise!Proposals
<1>5. (\A d \in Callers : ReadOK(d))'
  BY <1>1 DEF TypeOK, Settle, End, Await, ReadOK
<1>6. QED
  BY <1>2, <1>3, <1>4, <1>5

\* The decision of a call about a sound record it has read.
LEMMA DecidePreserves ==
  ASSUME IInv, NEW c \in Callers, NEW record \in Records \cup {Nothing},
         record # Nothing => WellFormed(record), Decide(c, record)
  PROVE  IInv'
<1>1. CASE Answer(c, record)
  BY <1>1, AwaitPreserves DEF Answer, End, Steps, IInv, TypeOK
<1>2. CASE Authorize(c, record)
  <2>1. PICK acks \in SUBSET (Nodes \cup Strangers), required \in Quorums :
          /\ MayAuthorize(record, acks, required)
          /\ Persist(c, AuthorizedRecord(record, acks, required), record.epoch)
    BY <1>2 DEF Authorize
  <2>2. record \in Records /\ WellFormed(record) /\ Valid(record)
    BY <1>2 DEF Authorize
  <2> DEFINE authorized == AuthorizedRecord(record, acks, required)
  <2>3. /\ authorized \in Records /\ Certified(authorized)
        /\ authorized.phase = "authorized" /\ authorized.epoch = record.epoch
    BY <2>1, <2>2, AuthorizedIsCertified
  <2>4. record.epoch \in Views
    BY <2>3 DEF Certified
  <2>5. WriteOK([caller |-> c, record |-> authorized, expected |-> record.epoch])
    BY <2>3, <2>4, CertifiedIsWellFormed, EpochAssumption DEF WriteOK
  <2>6. QED
    BY <2>1, <2>3, <2>4, <2>5, PersistPreserves
<1>3. CASE BeginBootstrap(c, record)
  BY <1>3, AwaitPreserves DEF BeginBootstrap, Steps, IInv, TypeOK
<1>4. CASE Complete(c, record)
  <2>1. record \in Records /\ WellFormed(record) /\ record.epoch \in Views
        /\ Persist(c, Moved(record, "complete"), record.epoch)
    BY <1>4 DEF Complete, Records
  <2>2. record.phase \in {"bootstrapping", "complete"}
    BY <1>4, <2>1 DEF Complete, MayMove, Transitions, Records, Phases
  <2>3. Certified(record)
    BY <2>1, <2>2 DEF WellFormed
  <2> DEFINE moved == Moved(record, "complete")
  <2>4. /\ moved \in Records /\ Certified(moved)
        /\ moved.phase = "complete" /\ moved.epoch = record.epoch
    BY <2>1, <2>3, MovedIsCertified DEF Phases
  <2>5. WriteOK([caller |-> c, record |-> moved, expected |-> record.epoch])
    BY <2>1, <2>4, CertifiedIsWellFormed, EpochAssumption DEF WriteOK
  <2>6. QED
    BY <2>1, <2>4, <2>5, PersistPreserves
<1>5. QED
  BY <1>1, <1>2, <1>3, <1>4 DEF Decide

-----------------------------------------------------------------------------
(* The invariant.                                                           *)

\* Initially nothing is recorded.
LEMMA InitEstablishes == ASSUME Init PROVE IInv
<1>1. TypeOK
  BY DEF Init, TypeOK, Steps
<1>2. QED
  BY <1>1 DEF Init, IInv, Acknowledged, ReadOK

\* A call of a caller preserves the invariant.
LEMMA CallPreserves ==
  ASSUME IInv, NEW c \in Callers, Call(c)
  PROVE  IInv'
<1> USE DEF IInv
<1>1. CASE Plan(c)
  BY <1>1, AwaitPreserves DEF Plan, Collect, Steps, Acknowledged, TypeOK
<1>2. CASE Retry(c)
  BY <1>2, AwaitPreserves DEF Retry, Collect, Steps, TypeOK
<1>3. CASE ReadMemory(c)
  BY <1>3, DecidePreserves DEF ReadMemory, TypeOK, Acknowledged
<1>4. CASE OpenFile(c)
  BY <1>4, AwaitPreserves DEF OpenFile, Steps, TypeOK
<1>5. QED
  BY <1>1, <1>2, <1>3, <1>4 DEF Call

\* A step of a call in flight preserves it.
LEMMA ProceedPreserves ==
  ASSUME IInv, NEW c \in Callers, Proceed(c)
  PROVE  IInv'
<1> USE DEF IInv
<1>1. CASE PlanJoins(c)
  BY <1>1, AwaitPreserves DEF PlanJoins, End, Steps, TypeOK, Acknowledged
<1>2. CASE PlanRefuses(c)
  <2>1. PICK code \in {"mismatch", "other"} : Persist(c, BlockedRecord(code), NoView)
    BY <1>2 DEF PlanRefuses
  <2>2. code \in Codes /\ BlockedRecord(code) \in Promise!Proposals
    BY DEF Codes, Promise!Codes, Promise!Proposals, BlockedRecord, Promise!BlockedRecord,
           Unacknowledged, Promise!Unacknowledged
  <2>3. WriteOK([caller |-> c, record |-> BlockedRecord(code), expected |-> NoView])
    BY <2>2, ProposedRecords DEF WriteOK
  <2>4. QED
    BY <2>1, <2>2, <2>3, ProposedRecords, PersistPreserves
<1>3. CASE PlanElects(c)
  <2>1. PICK view \in Views : Winner[view] # NoNode /\ Persist(c, EpochRecord(view), NoView)
    BY <1>3 DEF PlanElects
  <2>2. EpochRecord(view) \in Promise!Proposals
    BY <2>1 DEF Promise!Proposals, EpochRecord, Promise!EpochRecord,
                Unacknowledged, Promise!Unacknowledged
  <2>3. WriteOK([caller |-> c, record |-> EpochRecord(view), expected |-> NoView])
    BY <2>1, <2>2, ProposedRecords DEF WriteOK
  <2>4. QED
    BY <2>1, <2>3, ProposedRecords, PersistPreserves
<1>4. CASE ReadFile(c)
  BY <1>4, AwaitPreserves DEF ReadFile, Steps, TypeOK, Acknowledged
<1>5. CASE Adopt(c)
  BY <1>5, DecidePreserves DEF Adopt, TypeOK, ReadOK
<1>6. ASSUME step[c] = "revalidating"
      PROVE  /\ existing[c] \in Records /\ Certified(existing[c])
             /\ existing[c].epoch \in Views /\ existing[c].epoch # NoView
  <2>1. existing[c] \in Records /\ existing[c].phase = "authorized" /\ WellFormed(existing[c])
    BY <1>6 DEF TypeOK, ReadOK
  <2>2. QED
    BY <2>1, EpochAssumption DEF WellFormed, Certified
<1>7. CASE Revalidates(c)
  <2> DEFINE moved == Moved(existing[c], "bootstrapping")
  <2>1. /\ moved \in Records /\ Certified(moved)
        /\ moved.phase = "bootstrapping" /\ moved.epoch = existing[c].epoch
    BY <1>6, <1>7, MovedIsCertified DEF Revalidates, Phases
  <2>2. WriteOK([caller |-> c, record |-> moved, expected |-> existing[c].epoch])
    BY <1>6, <1>7, <2>1, CertifiedIsWellFormed DEF Revalidates, WriteOK
  <2>3. QED
    BY <1>6, <1>7, <2>1, <2>2, PersistPreserves DEF Revalidates
<1>8. CASE Refutes(c)
  <2>1. PICK code \in {"mismatch", "other"} :
          Persist(c, Withdrawn(existing[c], code), existing[c].epoch)
    BY <1>8 DEF Refutes
  <2> DEFINE withdrawn == Withdrawn(existing[c], code)
  <2>2. /\ withdrawn \in Records /\ Certified(withdrawn)
        /\ withdrawn.phase = "blocked" /\ withdrawn.epoch = existing[c].epoch
    BY <1>6, <1>8, MovedIsCertified DEF Refutes, Codes
  <2>3. WriteOK([caller |-> c, record |-> withdrawn, expected |-> existing[c].epoch])
    BY <1>6, <1>8, <2>2, CertifiedIsWellFormed DEF Refutes, WriteOK
  <2>4. QED
    BY <1>6, <1>8, <2>1, <2>2, <2>3, PersistPreserves DEF Refutes
<1>9. QED
  BY <1>1, <1>2, <1>3, <1>4, <1>5, <1>7, <1>8 DEF Proceed

\* The store settling its oldest write preserves it.
LEMMA WritePreserves ==
  ASSUME IInv, Write
  PROVE  IInv'
<1> USE DEF IInv
<1>1. CASE Commit
  <2>1. writes \in Seq(WriteRecords) /\ writes # <<>>
    BY <1>1 DEF Commit, TypeOK, WriteRecords
  <2>2. Head(writes) = writes[1] /\ 1 \in 1..Len(writes) /\ Head(writes) \in WriteRecords
    BY <2>1
  <2>3. Head(writes).record \in Records /\ WellFormed(Head(writes).record)
    BY <2>2 DEF WriteOK, WriteRecords
  <2>4. QED
    BY <1>1, <2>3, SettlePreserves DEF Commit
<1>2. CASE Conflict
  BY <1>2, SettlePreserves DEF Conflict, TypeOK, Acknowledged
<1>3. CASE WriteFails
  BY <1>3, SettlePreserves DEF WriteFails, TypeOK, Acknowledged
<1>4. QED
  BY <1>1, <1>2, <1>3 DEF Write

\* So do the steps of the startup flow and a restart.
LEMMA StartupPreserves ==
  ASSUME IInv, RecordDecision \/ Serve \/ Restart
  PROVE  IInv'
<1> USE DEF IInv
<1>1. CASE RecordDecision
  <2>1. PICK epoch \in Views \cup {NoView} : stored' = DecisionRecord(epoch)
    BY <1>1 DEF RecordDecision, TypeOK, Records
  <2>2. stored' \in Records /\ WellFormed(stored')
    BY <2>1, ProposedRecords
  <2>3. TypeOK'
    BY <1>1, <2>2 DEF RecordDecision, TypeOK
  <2>4. QED
    BY <1>1, <2>2, <2>3 DEF RecordDecision, Acknowledged, ReadOK, WriteOK, Promise!Proposals
<1>2. CASE Serve
  <2>1. TypeOK'
    BY <1>2 DEF Serve, TypeOK
  <2>2. QED
    BY <1>2, <2>1 DEF Serve, Acknowledged, ReadOK, WriteOK, Promise!Proposals
<1>3. CASE Restart
  <2>1. TypeOK'
    BY <1>3 DEF Restart, TypeOK, Steps
  <2>2. QED
    BY <1>3, <2>1 DEF Restart, Acknowledged, ReadOK
<1>4. QED
  BY <1>1, <1>2, <1>3

\* A step that changes nothing preserves it.
LEMMA StutterPreserves ==
  ASSUME IInv, UNCHANGED vars
  PROVE  IInv'
<1>1. TypeOK'
  BY DEF IInv, TypeOK, vars
<1>2. QED
  BY <1>1 DEF IInv, vars, Acknowledged, ReadOK, WriteOK, Promise!Proposals

\* The strengthened invariant holds throughout every behaviour.
THEOREM Invariance == Spec => []IInv
<1>1. Init => IInv
  BY InitEstablishes
<1>2. IInv /\ [Next]_vars => IInv'
  BY CallPreserves, ProceedPreserves, WritePreserves, StartupPreserves, StutterPreserves
     DEF Next
<1>3. QED
  BY <1>1, <1>2, PTL DEF Spec

\* Every variable keeps its type.
THEOREM TypeCorrect == Spec => []TypeOK
<1>1. IInv => TypeOK
  BY DEF IInv
<1>2. QED
  BY <1>1, Invariance, PTL

\* Neither the file nor the memory ever claims an authorization, a bootstrap or
\* a completion that enough members did not acknowledge, or for another winner
\* than the evidence elects: whatever calls overlap and wherever it restarts.
THEOREM AcknowledgedAlways == Spec => []Acknowledged
<1>1. IInv => Acknowledged
  BY DEF IInv
<1>2. QED
  BY <1>1, Invariance, PTL

-----------------------------------------------------------------------------
(* The chain of writes.                                                     *)

\* A call that queues its write waits for it from then on.
LEMMA PersistQueues ==
  ASSUME TypeOK, WaitersAreQueued, NEW c \in Callers, step[c] # "writing",
         NEW record, NEW expected, Persist(c, record, expected)
  PROVE  WaitersAreQueued'
<1> DEFINE write == [caller |-> c, record |-> record, expected |-> expected]
           Any == WriteRecords \cup {write}
<1>1. writes \in Seq(Any) /\ write \in Any
  <2>1. writes \in Seq(WriteRecords) /\ WriteRecords \subseteq Any
    BY DEF TypeOK, WriteRecords
  <2> HIDE DEF Any
  <2>2. QED
    BY <2>1, SeqMonotonic DEF Any
<1>2. writes' = Append(writes, write)
  BY DEF Persist
<1>3. /\ Len(writes) \in Nat /\ Len(writes') = Len(writes) + 1
      /\ \A i \in 1..Len(writes) : writes'[i] = writes[i]
      /\ writes'[Len(writes) + 1] = write
  <2> HIDE DEF Any, write
  <2>1. QED
    BY <1>1, <1>2
<1>4. writes'[Len(writes) + 1].caller = c
  BY <1>3
<1>5. step'[c] = "writing" /\ \A d \in Callers \ {c} : step'[d] = step[d]
  BY DEF TypeOK, Persist, Await
<1>6. \A i \in 1..Len(writes) : writes[i].caller \in Callers \ {c}
  <2>1. ASSUME NEW i \in 1..Len(writes) PROVE writes[i].caller \in Callers /\ writes[i].caller # c
    <3>1. writes \in Seq(WriteRecords)
      BY DEF TypeOK, WriteRecords
    <3>2. writes[i] \in WriteRecords
      BY <3>1, ElementOfSeq
    <3>3. QED
      BY <3>2 DEF WriteRecords, WaitersAreQueued
  <2>2. QED
    BY <2>1
<1> HIDE DEF write
<1>7. ASSUME NEW d \in Callers, step'[d] = "writing"
      PROVE  \E i \in 1..Len(writes') : writes'[i].caller = d
  <2>1. CASE d = c
    BY <1>3, <1>4, <2>1
  <2>2. CASE d # c
    <3>1. PICK i \in 1..Len(writes) : writes[i].caller = d
      BY <1>5, <1>7, <2>2 DEF WaitersAreQueued
    <3>2. QED
      BY <1>3, <3>1
  <2>3. QED
    BY <2>1, <2>2
<1>8. ASSUME NEW i \in 1..Len(writes') PROVE step'[writes'[i].caller] = "writing"
  <2>1. CASE i = Len(writes) + 1
    BY <1>4, <1>5, <2>1
  <2>2. CASE i \in 1..Len(writes)
    BY <1>3, <1>5, <1>6, <2>2 DEF WaitersAreQueued
  <2>3. QED
    BY <1>3, <2>1, <2>2
<1>9. ASSUME NEW i \in 1..Len(writes'), NEW j \in 1..Len(writes'),
             writes'[i].caller = writes'[j].caller
      PROVE  i = j
  <2>1. CASE i \in 1..Len(writes) /\ j \in 1..Len(writes)
    BY <1>3, <1>9, <2>1 DEF WaitersAreQueued
  <2>2. CASE i = Len(writes) + 1 \/ j = Len(writes) + 1
    BY <1>3, <1>4, <1>6, <1>9, <2>2
  <2>3. QED
    BY <1>3, <2>1, <2>2
<1>10. QED
  BY <1>7, <1>8, <1>9 DEF WaitersAreQueued

\* A call that is at no write, before and after, leaves the chain as it is.
LEMMA AwaitQueues ==
  ASSUME TypeOK, WaitersAreQueued, NEW c \in Callers, step[c] # "writing",
         NEW where \in Steps \ {"writing"}, NEW record, Await(c, where, record),
         UNCHANGED writes
  PROVE  WaitersAreQueued'
<1>1. step'[c] = where /\ \A d \in Callers \ {c} : step'[d] = step[d]
  BY DEF TypeOK, Await
<1>2. \A i \in 1..Len(writes) : writes[i].caller \in Callers
  <2>1. writes \in Seq(WriteRecords)
    BY DEF TypeOK, WriteRecords
  <2>2. \A i \in 1..Len(writes) : writes[i] \in WriteRecords
    BY <2>1, ElementOfSeq
  <2>3. QED
    BY <2>2 DEF WriteRecords
<1>3. QED
  BY <1>1, <1>2 DEF WaitersAreQueued

\* The oldest write, however it ends, wakes its own caller and nobody else.
LEMMA SettleQueues ==
  ASSUME TypeOK, WaitersAreQueued, writes # <<>>, Settle
  PROVE  WaitersAreQueued'
<1> DEFINE c == Head(writes).caller
<1>1. writes \in Seq(WriteRecords)
  BY DEF TypeOK, WriteRecords
<1>2. /\ Len(writes) \in Nat \ {0} /\ c = writes[1].caller
      /\ Len(writes') = Len(writes) - 1
      /\ \A i \in 1..Len(writes') : writes'[i] = writes[i + 1]
  BY <1>1, EmptySeq DEF Settle
<1>3. \A i \in 1..Len(writes) : writes[i].caller \in Callers
  <2>1. \A i \in 1..Len(writes) : writes[i] \in WriteRecords
    BY <1>1, ElementOfSeq
  <2>2. QED
    BY <2>1 DEF WriteRecords
<1> HIDE DEF c
<1>4. c \in Callers
  BY <1>2, <1>3
<1>5. step'[c] = "idle" /\ \A d \in Callers \ {c} : step'[d] = step[d]
  BY <1>4 DEF TypeOK, Settle, End, Await, c
<1>6. \A i \in 1..Len(writes') : writes'[i].caller \in Callers \ {c}
  <2>1. ASSUME NEW i \in 1..Len(writes') PROVE writes'[i].caller \in Callers /\ writes'[i].caller # c
    <3>1. i + 1 \in 1..Len(writes) /\ 1 \in 1..Len(writes) /\ i + 1 # 1
      BY <1>2
    <3>2. writes[i + 1].caller # writes[1].caller
      BY <3>1 DEF WaitersAreQueued
    <3>3. QED
      BY <1>2, <1>3, <3>1, <3>2
  <2>2. QED
    BY <2>1
<1>7. ASSUME NEW d \in Callers, step'[d] = "writing"
      PROVE  \E i \in 1..Len(writes') : writes'[i].caller = d
  <2>1. PICK i \in 1..Len(writes) : writes[i].caller = d
    BY <1>5, <1>7 DEF WaitersAreQueued
  <2>2. i # 1
    BY <1>2, <1>5, <1>7, <2>1
  <2>3. i - 1 \in 1..Len(writes') /\ writes'[i - 1] = writes[i]
    BY <1>2, <2>2
  <2>4. QED
    BY <2>1, <2>3
<1>8. ASSUME NEW i \in 1..Len(writes') PROVE step'[writes'[i].caller] = "writing"
  BY <1>2, <1>5, <1>6 DEF WaitersAreQueued
<1>9. ASSUME NEW i \in 1..Len(writes'), NEW j \in 1..Len(writes'),
             writes'[i].caller = writes'[j].caller
      PROVE  i = j
  <2>1. i + 1 \in 1..Len(writes) /\ j + 1 \in 1..Len(writes)
    BY <1>2
  <2>2. writes[i + 1].caller = writes[j + 1].caller
    BY <1>2, <1>9
  <2>3. i + 1 = j + 1
    BY <2>1, <2>2 DEF WaitersAreQueued
  <2>4. QED
    BY <1>2, <2>3
<1>10. QED
  BY <1>7, <1>8, <1>9 DEF WaitersAreQueued

\* The decision of a call queues its write, or leaves the chain as it is.
LEMMA DecideQueues ==
  ASSUME TypeOK, WaitersAreQueued, NEW c \in Callers, step[c] # "writing",
         NEW record, Decide(c, record)
  PROVE  WaitersAreQueued'
<1>1. CASE Answer(c, record) \/ BeginBootstrap(c, record)
  BY <1>1, AwaitQueues DEF Answer, BeginBootstrap, End, Steps
<1>2. CASE Authorize(c, record)
  BY <1>2, PersistQueues DEF Authorize
<1>3. CASE Complete(c, record)
  BY <1>3, PersistQueues DEF Complete
<1>4. QED
  BY <1>1, <1>2, <1>3 DEF Decide

\* So does every step of every call, of the store and of the startup.
LEMMA StepQueues ==
  TypeOK /\ WaitersAreQueued /\ [Next]_vars => WaitersAreQueued'
<1> SUFFICES ASSUME TypeOK, WaitersAreQueued, [Next]_vars PROVE WaitersAreQueued'
  OBVIOUS
<1>1. ASSUME NEW c \in Callers, Call(c) PROVE WaitersAreQueued'
  <2>1. step[c] # "writing"
    BY <1>1 DEF Call, Plan, Retry, Collect, ReadMemory, OpenFile, MayCall
  <2>2. CASE Plan(c) \/ Retry(c) \/ OpenFile(c)
    BY <2>1, <2>2, AwaitQueues DEF Plan, Retry, Collect, OpenFile, Steps
  <2>3. CASE ReadMemory(c)
    BY <2>1, <2>3, DecideQueues DEF ReadMemory
  <2>4. QED
    BY <1>1, <2>2, <2>3 DEF Call
<1>2. ASSUME NEW c \in Callers, Proceed(c) PROVE WaitersAreQueued'
  <2>1. step[c] # "writing"
    BY <1>2 DEF Proceed, PlanJoins, PlanRefuses, PlanElects, ReadFile, Adopt, Revalidates, Refutes
  <2>2. CASE PlanJoins(c) \/ ReadFile(c)
    BY <2>1, <2>2, AwaitQueues DEF PlanJoins, ReadFile, End, Steps
  <2>3. CASE PlanRefuses(c) \/ PlanElects(c) \/ Revalidates(c) \/ Refutes(c)
    BY <2>1, <2>3, PersistQueues DEF PlanRefuses, PlanElects, Revalidates, Refutes
  <2>4. CASE Adopt(c)
    BY <2>1, <2>4, DecideQueues DEF Adopt
  <2>5. QED
    BY <1>2, <2>2, <2>3, <2>4 DEF Proceed
<1>3. CASE Write
  BY <1>3, SettleQueues DEF Write, Commit, Conflict, WriteFails
<1>4. CASE RecordDecision \/ Serve \/ UNCHANGED vars
  BY <1>4 DEF RecordDecision, Serve, vars, WaitersAreQueued
<1>5. CASE Restart
  <2>1. writes' = <<>> /\ \A c \in Callers : step'[c] = "idle"
    BY <1>5 DEF Restart
  <2>2. Len(writes') = 0
    BY <2>1
  <2>3. QED
    BY <2>1, <2>2 DEF WaitersAreQueued
<1>6. QED
  BY <1>1, <1>2, <1>3, <1>4, <1>5 DEF Next

\* For any number of callers and overlapping calls: no call ever waits for a
\* write that is not in the chain, whatever happened to the writes before it.
THEOREM WaitersQueue == Spec => []WaitersAreQueued
<1>1. Init => WaitersAreQueued
  BY DEF Init, WaitersAreQueued
<1>2. QED
  BY <1>1, StepQueues, TypeCorrect, PTL DEF Spec

-----------------------------------------------------------------------------
(* The refinement.                                                          *)

\* A committed write is a proposal or an advance of the epoch in the file.
LEMMA CommitKeepsPromise ==
  ASSUME IInv, Commit
  PROVE  Promise!DecisionNext
<1>1. writes \in Seq(WriteRecords) /\ writes # <<>>
  BY DEF IInv, Commit, TypeOK, WriteRecords
<1>2. Head(writes) = writes[1] /\ 1 \in 1..Len(writes) /\ Head(writes) \in WriteRecords
  BY <1>1
<1>3. WriteOK(Head(writes)) /\ Head(writes).record \in Records /\ stored' = Head(writes).record
  BY <1>2 DEF IInv, WriteRecords, Commit
<1>4. CASE Head(writes).expected = NoView
  BY <1>3, <1>4 DEF WriteOK, Promise!DecisionNext, Promise!Propose
<1>5. CASE Head(writes).expected # NoView
  <2>1. stored # Nothing /\ stored.epoch = Head(writes).expected
    BY <1>5 DEF Commit, Conflicts
  <2>2. Certified(stored') /\ stored'.phase \notin {"evidence", "decision"}
        /\ stored'.epoch = stored.epoch /\ stored' \in Records
    BY <1>3, <1>5, <2>1 DEF WriteOK
  <2>3. \A S : Promise!Cardinality(S) = Cardinality(S)
    BY DEF Cardinality, Promise!Cardinality
  <2>4. QED
    BY <2>1, <2>2, <2>3 DEF Promise!DecisionNext, Promise!Advance, Certified, Promise!Certified,
       Records, Promise!Records, Phases, Promise!Phases, Codes, Promise!Codes
<1>6. QED
  BY <1>4, <1>5

\* The file keeps the promise of RecoveryDecision.
THEOREM Refinement == Spec => KeepsPromise
<1>1. Init => Promise!DecisionInit
  BY DEF Init, Promise!DecisionInit
<1>2. IInv /\ [Next]_vars => [Promise!DecisionNext]_stored
  <2> SUFFICES ASSUME IInv, [Next]_vars PROVE Promise!DecisionNext \/ UNCHANGED stored
    OBVIOUS
  <2>1. CASE Commit
    BY <2>1, CommitKeepsPromise
  <2>2. CASE RecordDecision
    <3>1. PICK epoch \in Views \cup {NoView} : stored' = DecisionRecord(epoch)
      BY <2>2 DEF IInv, RecordDecision, TypeOK, Records
    <3>2. QED
      BY <3>1 DEF Promise!DecisionNext, Promise!Propose, Promise!Proposals, DecisionRecord,
         Promise!DecisionRecord, Unacknowledged, Promise!Unacknowledged
  <2>3. ASSUME NEW c \in Callers, Call(c) PROVE UNCHANGED stored
    BY <2>3 DEF Call, Plan, Retry, Collect, ReadMemory, OpenFile, Decide, Answer, Authorize,
       BeginBootstrap, Complete, Persist
  <2>4. ASSUME NEW c \in Callers, Proceed(c) PROVE UNCHANGED stored
    BY <2>4 DEF Proceed, PlanJoins, PlanRefuses, PlanElects, ReadFile, Adopt, Revalidates,
       Refutes, Decide, Answer, Authorize, BeginBootstrap, Complete, Persist
  <2>5. CASE Conflict \/ WriteFails \/ Serve \/ Restart \/ UNCHANGED vars
    BY <2>5 DEF Conflict, WriteFails, Serve, Restart, vars
  <2>6. QED
    BY <2>1, <2>2, <2>3, <2>4, <2>5 DEF Next, Write
<1>3. QED
  BY <1>1, <1>2, Invariance, PTL DEF Spec, KeepsPromise, Promise!DecisionSpec
-----------------------------------------------------------------------------
(* Memory and file, as long as no two calls overlap and no write fails.     *)

\* One call at a time: what a single client that awaits its answers does.
OneCall == \A c, d \in Callers : step[c] # "idle" /\ step[d] # "idle" => c = d

\* No write fails: the file is replaced, or the write is refused.
WriteIsDone == WriteFails => Commit \/ Conflict

\* The file is about this epoch, or says that there is none to recover.
About(epoch) == stored # Nothing /\ (stored.epoch = epoch \/ stored = DecisionRecord(NoView))
Matches(record) == record # Nothing => About(record.epoch)

\* A write that is queued is that of the call in flight: it stores what is in
\* memory, and is about the epoch in the file.
WriteInv ==
  \/ writes = <<>> /\ \A c \in Callers : step[c] # "writing"
  \/ \E c \in Callers, expected \in Views \cup {NoView} :
       /\ writes = <<[caller |-> c, record |-> current, expected |-> expected]>>
       /\ step[c] = "writing"
       /\ expected # NoView => About(expected)

\* While the startup plans, the record in memory is what plan() has made; the
\* decision that replaces the file then names its epoch, or none if it has none.
PlanningInv ==
  /\ stage \in Planning /\ current # Nothing => current.phase = "evidence" \/ current.epoch = NoView
  /\ stage \in Planning => step[Starter] \in {"idle", "collecting", "writing"}
  /\ stage # "serving" => \A c \in Callers \ {Starter} : step[c] = "idle"

CoherentInv ==
  /\ WriteInv
  /\ writes = <<>> => Matches(current)
  /\ \A c \in Callers : step[c] = "adopting" => existing[c] = stored
  /\ \A c \in Callers : step[c] = "revalidating" => Matches(existing[c])
  /\ PlanningInv

\* A call that is at another await than its write finds no write queued.
LEMMA NoOtherWrite ==
  ASSUME WriteInv, NEW c \in Callers, step[c] # "writing",
         \A d \in Callers : step[d] = "writing" => d = c
  PROVE  writes = <<>>
  BY DEF WriteInv, About

\* A call that queues a write about the epoch in the file keeps the two coherent.
LEMMA PersistCoherent ==
  ASSUME TypeOK, CoherentInv, OneCall', NEW c \in Callers, step[c] # "writing",
         NEW record \in Records, NEW expected \in Views \cup {NoView},
         expected # NoView => About(expected),
         stage # "serving" => c = Starter,
         stage \in Planning => record.phase = "evidence" \/ record.epoch = NoView,
         Persist(c, record, expected)
  PROVE  CoherentInv'
<1> DEFINE write == [caller |-> c, record |-> record, expected |-> expected]
<1>1. /\ step' = [step EXCEPT ![c] = "writing"] /\ existing' = [existing EXCEPT ![c] = Nothing]
      /\ step'[c] = "writing" /\ \A d \in Callers \ {c} : step'[d] = step[d]
      /\ existing'[c] = Nothing /\ \A d \in Callers \ {c} : existing'[d] = existing[d]
      /\ current' = record /\ UNCHANGED <<stage, stored>>
  BY DEF TypeOK, Persist, Await
<1>2. writes = <<>>
  <2>1. \A d \in Callers : step[d] = "writing" => d = c
    BY <1>1 DEF OneCall
  <2>2. QED
    BY <2>1, NoOtherWrite DEF CoherentInv
<1>3. writes' = <<write>>
  BY <1>2 DEF Persist
<1>4. WriteInv'
  BY <1>1, <1>3 DEF WriteInv, About
<1>5. writes' # <<>>
  BY <1>3
<1>6. /\ \A d \in Callers : step'[d] = "adopting" => existing'[d] = stored'
      /\ \A d \in Callers : (step[d] = "revalidating" => Matches(existing[d]))'
  BY <1>1 DEF CoherentInv, Matches, About
<1>7. PlanningInv'
  BY <1>1, CallerAssumption DEF CoherentInv, PlanningInv
<1>8. QED
  BY <1>4, <1>5, <1>6, <1>7 DEF CoherentInv

\* So does a call that moves to another await, or ends, with what is in memory
\* or a record of the file's epoch.
LEMMA AwaitCoherent ==
  ASSUME TypeOK, CoherentInv, NEW c \in Callers, step[c] # "writing",
         NEW where \in Steps \ {"writing"}, NEW record \in Records \cup {Nothing},
         NEW memory \in Records \cup {Nothing},
         writes = <<>> => Matches(memory), writes # <<>> => memory = current,
         where = "adopting" => record = stored,
         where = "revalidating" => Matches(record),
         stage # "serving" => c = Starter,
         stage \in Planning => memory \in {current, Nothing} /\ where \in {"idle", "collecting"},
         Await(c, where, record), current' = memory,
         stage' = stage \/ {stage, stage'} \subseteq Planning,
         UNCHANGED <<stored, writes>>
  PROVE  CoherentInv'
<1>1. /\ step'[c] = where /\ \A d \in Callers \ {c} : step'[d] = step[d]
      /\ existing'[c] = record /\ \A d \in Callers \ {c} : existing'[d] = existing[d]
  BY DEF TypeOK, Await
<1>2. WriteInv'
  <2>1. CASE writes = <<>>
    <3>1. \A d \in Callers : step[d] # "writing"
      BY <2>1 DEF CoherentInv, WriteInv
    <3>2. QED
      BY <1>1, <2>1, <3>1 DEF WriteInv, About
  <2>2. CASE writes # <<>>
    <3>1. PICK d \in Callers, expected \in Views \cup {NoView} :
            /\ writes = <<[caller |-> d, record |-> current, expected |-> expected]>>
            /\ step[d] = "writing"
            /\ expected # NoView => About(expected)
      BY <2>2 DEF CoherentInv, WriteInv
    <3>2. d # c /\ step'[d] = "writing" /\ current' = current
      BY <1>1, <2>2, <3>1
    <3>3. QED
      BY <3>1, <3>2 DEF WriteInv, About
  <2>3. QED
    BY <2>1, <2>2
<1>3. (writes = <<>> => Matches(current))'
  BY DEF Matches, About
<1>4. /\ \A d \in Callers : step'[d] = "adopting" => existing'[d] = stored'
      /\ \A d \in Callers : (step[d] = "revalidating" => Matches(existing[d]))'
  BY <1>1 DEF CoherentInv, Matches, About
<1>5. PlanningInv'
  <2>1. stage' \in Planning <=> stage \in Planning
    OBVIOUS
  <2>2. (stage' # "serving" => c = Starter) /\ (stage' # "serving" => stage # "serving")
    BY DEF Planning
  <2>3. QED
    BY <1>1, <2>1, <2>2, CallerAssumption DEF CoherentInv, PlanningInv
<1>6. QED
  BY <1>2, <1>3, <1>4, <1>5 DEF CoherentInv

\* So does the decision of a call about the record in memory, or about one of
\* the file's epoch.
LEMMA DecideCoherent ==
  ASSUME IInv, CoherentInv, OneCall', NEW c \in Callers, step[c] # "writing",
         stage \notin Planning, stage # "serving" => c = Starter,
         NEW record \in Records \cup {Nothing}, record # Nothing => WellFormed(record),
         writes = <<>> => Matches(record), writes # <<>> => record = current,
         Decide(c, record)
  PROVE  CoherentInv'
<1>1. TypeOK
  BY DEF IInv
<1>2. CASE Answer(c, record)
  BY <1>1, <1>2, AwaitCoherent DEF Answer, End, Steps
<1>3. ASSUME step'[c] # "idle", UNCHANGED stored, \A d \in Callers \ {c} : step'[d] = step[d]
      PROVE  writes = <<>> /\ Matches(record)
  <2>1. \A d \in Callers : step[d] = "writing" => d = c
    BY <1>3 DEF OneCall
  <2>2. QED
    BY <2>1, NoOtherWrite DEF CoherentInv
<1>4. ASSUME NEW next \in Records, NEW expected \in Views, Persist(c, next, expected),
             record # Nothing, expected = record.epoch
      PROVE  CoherentInv'
  <2>1. step'[c] = "writing" /\ (\A d \in Callers \ {c} : step'[d] = step[d]) /\ UNCHANGED stored
    BY <1>1, <1>4 DEF TypeOK, Persist, Await
  <2>2. About(expected)
    BY <1>3, <1>4, <2>1 DEF Matches
  <2>3. QED
    BY <1>1, <1>4, <2>2, PersistCoherent
<1>5. CASE Authorize(c, record)
  <2>1. PICK acks \in SUBSET (Nodes \cup Strangers), required \in Quorums :
          /\ MayAuthorize(record, acks, required)
          /\ Persist(c, AuthorizedRecord(record, acks, required), record.epoch)
    BY <1>5 DEF Authorize
  <2>2. record \in Records /\ WellFormed(record) /\ Valid(record)
    BY <1>5 DEF Authorize
  <2>3. AuthorizedRecord(record, acks, required) \in Records /\ record.epoch \in Views
    BY <2>1, <2>2, AuthorizedIsCertified DEF Certified
  <2>4. QED
    BY <1>4, <1>5, <2>1, <2>3 DEF Authorize
<1>6. CASE BeginBootstrap(c, record)
  <2>1. step'[c] = "revalidating" /\ (\A d \in Callers \ {c} : step'[d] = step[d])
        /\ UNCHANGED stored
    BY <1>1, <1>6 DEF BeginBootstrap, TypeOK, Await
  <2>2. writes = <<>> /\ Matches(record)
    BY <1>3, <2>1
  <2>3. QED
    BY <1>1, <1>6, <2>2, AwaitCoherent DEF BeginBootstrap, Steps
<1>7. CASE Complete(c, record)
  <2>1. record \in Records /\ record.epoch \in Views
        /\ Persist(c, Moved(record, "complete"), record.epoch)
    BY <1>7 DEF Complete, Records
  <2>2. Moved(record, "complete") \in Records
    BY <2>1 DEF Moved, Records, Phases
  <2>3. QED
    BY <1>4, <1>7, <2>1, <2>2 DEF Complete
<1>8. QED
  BY <1>2, <1>5, <1>6, <1>7 DEF Decide

\* A call of a caller keeps memory and file coherent.
LEMMA CallCoherent ==
  ASSUME IInv, CoherentInv, OneCall', NEW c \in Callers, Call(c)
  PROVE  CoherentInv'
<1>1. TypeOK /\ PlanningInv /\ step[c] = "idle" /\ (stage # "serving" => c = Starter)
  BY DEF IInv, CoherentInv, Call, Plan, Retry, Collect, ReadMemory, OpenFile, MayCall
<1>2. (writes = <<>> => Matches(current)) /\ current \in Records \cup {Nothing}
  BY <1>1 DEF CoherentInv, TypeOK
<1>3. ASSUME step'[c] # "idle", \A d \in Callers \ {c} : step'[d] = step[d]
      PROVE  writes = <<>>
  <2>1. \A d \in Callers : step[d] = "writing" => d = c
    BY <1>3 DEF OneCall
  <2>2. QED
    BY <1>1, <2>1, NoOtherWrite DEF CoherentInv
<1>4. CASE Plan(c)
  BY <1>1, <1>2, <1>4, AwaitCoherent DEF Plan, Collect, Planning, Steps
<1>5. CASE Retry(c)
  <2>1. step'[c] = "collecting" /\ \A d \in Callers \ {c} : step'[d] = step[d]
    BY <1>1, <1>5 DEF Retry, Collect, Await, TypeOK
  <2>2. writes = <<>> /\ Matches(Nothing)
    BY <1>3, <2>1 DEF Matches
  <2>3. QED
    BY <1>1, <1>5, <2>2, AwaitCoherent DEF Retry, Collect, Planning, Steps
<1>6. CASE ReadMemory(c)
  <2>1. current # Nothing => WellFormed(current)
    BY DEF IInv, Acknowledged
  <2>2. QED
    BY <1>1, <1>2, <1>6, <2>1, DecideCoherent DEF ReadMemory
<1>7. CASE OpenFile(c)
  BY <1>1, <1>2, <1>7, AwaitCoherent DEF OpenFile, Steps
<1>8. QED
  BY <1>4, <1>5, <1>6, <1>7 DEF Call

\* So does a step of the call in flight.
LEMMA ProceedCoherent ==
  ASSUME IInv, CoherentInv, OneCall, OneCall', NEW c \in Callers, Proceed(c)
  PROVE  CoherentInv'
<1>1. TypeOK /\ PlanningInv /\ step[c] \in {"collecting", "reading", "adopting", "revalidating"}
  BY DEF IInv, CoherentInv, Proceed, PlanJoins, PlanRefuses, PlanElects, ReadFile, Adopt,
         Revalidates, Refutes
<1>2. stage # "serving" => c = Starter
  BY <1>1 DEF PlanningInv
<1>3. writes = <<>> /\ Matches(current) /\ current \in Records \cup {Nothing}
  <2>1. \A d \in Callers : step[d] = "writing" => d = c
    BY <1>1 DEF OneCall
  <2>2. writes = <<>>
    BY <1>1, <2>1, NoOtherWrite DEF CoherentInv
  <2>3. QED
    BY <1>1, <2>2 DEF CoherentInv, TypeOK
<1>4. stage \in Planning => step[c] = "collecting"
  BY <1>1, <1>2 DEF PlanningInv, Planning
<1>5. CASE PlanJoins(c)
  BY <1>1, <1>2, <1>3, <1>5, AwaitCoherent DEF PlanJoins, End, Planning, Steps
<1>6. CASE PlanRefuses(c)
  <2>1. PICK code \in {"mismatch", "other"} : Persist(c, BlockedRecord(code), NoView)
    BY <1>6 DEF PlanRefuses
  <2>2. BlockedRecord(code) \in Records /\ BlockedRecord(code).epoch = NoView
    BY ProposedRecords DEF Codes, BlockedRecord, Unacknowledged
  <2>3. QED
    BY <1>1, <1>2, <2>1, <2>2, PersistCoherent
<1>7. CASE PlanElects(c)
  <2>1. PICK view \in Views : Winner[view] # NoNode /\ Persist(c, EpochRecord(view), NoView)
    BY <1>7 DEF PlanElects
  <2>2. EpochRecord(view) \in Records /\ EpochRecord(view).phase = "evidence"
    BY <2>1, ProposedRecords DEF EpochRecord, Unacknowledged
  <2>3. QED
    BY <1>1, <1>2, <2>1, <2>2, PersistCoherent
<1>8. CASE ReadFile(c)
  BY <1>1, <1>2, <1>3, <1>4, <1>8, AwaitCoherent DEF ReadFile, Steps, TypeOK
<1>9. CASE Adopt(c)
  <2>1. existing[c] = stored /\ existing[c] \in Records \cup {Nothing}
    BY <1>1, <1>9 DEF CoherentInv, Adopt, TypeOK
  <2>2. Matches(existing[c]) /\ (existing[c] # Nothing => WellFormed(existing[c]))
    BY <2>1 DEF Matches, About, IInv, Acknowledged
  <2>3. QED
    BY <1>1, <1>2, <1>3, <1>4, <1>9, <2>1, <2>2, DecideCoherent DEF Adopt
<1>10. ASSUME step[c] = "revalidating", NEW next \in Records, Persist(c, next, existing[c].epoch)
       PROVE  CoherentInv'
  <2>1. /\ existing[c] \in Records /\ existing[c].phase = "authorized" /\ WellFormed(existing[c])
        /\ Matches(existing[c])
    BY <1>1, <1>10 DEF IInv, ReadOK, CoherentInv, TypeOK
  <2>2. /\ existing[c].epoch \in Views \cup {NoView}
        /\ About(existing[c].epoch) /\ stage \notin Planning
    BY <1>4, <1>10, <2>1, NothingAssumption DEF Records, Matches
  <2>3. QED
    BY <1>1, <1>2, <1>10, <2>2, PersistCoherent
<1>11. ASSUME step[c] = "revalidating" PROVE existing[c] \in Records
  BY <1>1, <1>11 DEF IInv, ReadOK, TypeOK
<1>12. CASE Revalidates(c)
  <2>1. step[c] = "revalidating" /\ Moved(existing[c], "bootstrapping") \in Records
    BY <1>11, <1>12 DEF Revalidates, Moved, Records, Phases
  <2>2. QED
    BY <1>10, <1>12, <2>1 DEF Revalidates
<1>13. CASE Refutes(c)
  <2>1. PICK code \in {"mismatch", "other"} :
          Persist(c, Withdrawn(existing[c], code), existing[c].epoch)
    BY <1>13 DEF Refutes
  <2>2. step[c] = "revalidating" /\ Withdrawn(existing[c], code) \in Records
    BY <1>11, <1>13 DEF Refutes, Withdrawn, Records, Phases, Codes
  <2>3. QED
    BY <1>10, <2>1, <2>2
<1>14. QED
  BY <1>5, <1>6, <1>7, <1>8, <1>9, <1>12, <1>13 DEF Proceed

\* A write that does not fail brings what is in memory into the file, or is
\* refused by a decision that names no epoch.
LEMMA WriteCoherent ==
  ASSUME IInv, CoherentInv, OneCall, Commit \/ Conflict
  PROVE  CoherentInv'
<1>1. PICK c \in Callers, expected \in Views \cup {NoView} :
        /\ writes = <<[caller |-> c, record |-> current, expected |-> expected]>>
        /\ step[c] = "writing"
        /\ expected # NoView => About(expected)
  BY DEF Commit, Conflict, CoherentInv, WriteInv
<1>2. /\ Head(writes).caller = c /\ Head(writes).record = current
      /\ Head(writes).expected = expected /\ Tail(writes) = <<>>
  BY <1>1
<1>3. /\ writes' = <<>> /\ UNCHANGED <<stage, current>>
      /\ step' = [step EXCEPT ![c] = "idle"]
      /\ stored' = current \/ (stored' = stored /\ Conflict)
  <2>1. /\ writes' = Tail(writes) /\ UNCHANGED <<stage, current>>
        /\ step' = [step EXCEPT ![Head(writes).caller] = "idle"]
        /\ stored' = Head(writes).record \/ (stored' = stored /\ Conflict)
    BY DEF Commit, Conflict, Settle, End, Await
  <2>2. QED
    BY <1>2, <2>1
<1>4. Conflict => stored = DecisionRecord(NoView) /\ stored # Nothing
  BY <1>1, <1>2 DEF Conflict, Conflicts, About
<1>5. \A d \in Callers : step'[d] = "idle"
  BY <1>1, <1>3 DEF OneCall, IInv, TypeOK
<1>6. WriteInv' /\ (writes = <<>> => Matches(current))'
  BY <1>3, <1>4, <1>5 DEF WriteInv, Matches, About
<1>7. PlanningInv'
  BY <1>3, <1>5, CallerAssumption DEF CoherentInv, PlanningInv
<1>8. QED
  BY <1>5, <1>6, <1>7 DEF CoherentInv

\* So do the startup flow and a restart: the decision names the planned epoch.
LEMMA StartupCoherent ==
  ASSUME IInv, CoherentInv, RecordDecision \/ Serve \/ Restart
  PROVE  CoherentInv'
<1>1. TypeOK /\ PlanningInv
  BY DEF IInv, CoherentInv
<1>2. CASE RecordDecision
  <2>1. \A c \in Callers : step[c] = "idle"
    BY <1>1, <1>2 DEF RecordDecision, PlanningInv, Planning
  <2>2. writes = <<>>
    BY <2>1 DEF CoherentInv, WriteInv
  <2>3. PICK epoch \in Views \cup {NoView} :
          /\ stored' = DecisionRecord(epoch)
          /\ current # Nothing => epoch \in {current.epoch, NoView}
    BY <1>1, <1>2 DEF RecordDecision, TypeOK, Records
  <2>4. stored'.epoch = epoch /\ stored' # Nothing
    BY <2>3, ProposedRecords, NothingAssumption DEF DecisionRecord, Unacknowledged
  <2>5. WriteInv' /\ (writes = <<>> => Matches(current))'
    BY <1>2, <2>1, <2>2, <2>3, <2>4 DEF RecordDecision, WriteInv, Matches, About
  <2>6. QED
    BY <1>2, <2>1, <2>5, CallerAssumption DEF RecordDecision, CoherentInv, PlanningInv, Planning
<1>3. CASE Serve
  <2>1. UNCHANGED <<current, stored, writes, step, existing>> /\ stage' = "serving"
    BY <1>3 DEF Serve
  <2>2. QED
    BY <2>1 DEF CoherentInv, WriteInv, Matches, About, PlanningInv, Planning
<1>4. CASE Restart
  BY <1>4, CallerAssumption DEF Restart, CoherentInv, WriteInv, Matches, About, PlanningInv
<1>5. QED
  BY <1>2, <1>3, <1>4

\* As long as no two calls overlap and no write fails, what status() shows
\* between two calls is the epoch a restart would find, or the file holds a
\* decision without one, for any members, views, quorums and callers, and
\* wherever the process has died before.
THEOREM EpochsCohere ==
  Spec /\ []OneCall /\ [][WriteIsDone]_vars => []EpochCoherent
<1>1. Init => CoherentInv
  BY CallerAssumption DEF Init, CoherentInv, WriteInv, Matches, About, PlanningInv
<1>2. IInv /\ CoherentInv /\ OneCall /\ OneCall' /\ [Next]_vars /\ [WriteIsDone]_vars
        => CoherentInv'
  <2> SUFFICES ASSUME IInv, CoherentInv, OneCall, OneCall', [Next]_vars, [WriteIsDone]_vars
               PROVE  CoherentInv'
    OBVIOUS
  <2>1. CASE UNCHANGED vars
    BY <2>1 DEF vars, CoherentInv, WriteInv, Matches, About, PlanningInv
  <2>2. CASE Next /\ WriteIsDone
    BY <2>2, CallCoherent, ProceedCoherent, WriteCoherent, StartupCoherent
       DEF Next, Write, WriteIsDone
  <2>3. QED
    BY <2>1, <2>2
<1>3. CoherentInv => EpochCoherent
  BY DEF CoherentInv, WriteInv, EpochCoherent, Quiescent, Matches, About
<1>4. QED
  BY <1>1, <1>2, <1>3, Invariance, PTL DEF Spec

\* So it is, without a premise on the behaviour, where nobody but the startup
\* flow calls and the file can be written.
COROLLARY SequentialEpochsCohere ==
  ASSUME Callers = {Starter}, ~WriteFaults
  PROVE  Spec => []EpochCoherent
<1>1. OneCall
  BY DEF OneCall
<1>2. [WriteIsDone]_vars
  BY DEF WriteIsDone, WriteFails
<1>3. QED
  BY <1>1, <1>2, EpochsCohere, PTL
=============================================================================
