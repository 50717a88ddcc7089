--------------------- MODULE MCSupervisorServices_proofs ---------------------
(***************************************************************************)
(* Proofs about WriterAssignment for any members, supervisors, leases and  *)
(* changes: an election always finds a member, and a lease names the       *)
(* writer in the database.  With the invariants of OperatorBootstrap and   *)
(* IntentApply they give the types of all three services.                  *)
(***************************************************************************)
EXTENDS MCSupervisorServices, OperatorBootstrap_proofs, IntentApply_proofs

-----------------------------------------------------------------------------
(* The election of a writer                                                 *)

\* Names differ, so every member of a set has its own number of members whose
\* names come before its own: one has as many as the digest asks for.
LEMMA ElectsOneOf == ASSUME NEW nodes \in SUBSET Members, nodes # {} PROVE Elect(nodes) \in nodes
<1> DEFINE Below(m) == {x \in nodes : Rank[x] < Rank[m]}
           f == [m \in nodes |-> Cardinality(Below(m))]
           n == Cardinality(nodes)
<1>1. IsFiniteSet(nodes) /\ n \in Nat /\ n > 0
  <2>1. IsFiniteSet(nodes)
    BY WriterAssumption, FS_Subset DEF WriterAssumption
  <2> QED
    BY <2>1, FS_EmptySet, FS_CardinalityType
<1>2. \A m \in nodes : Rank[m] \in Nat
  BY WriterAssumption DEF WriterAssumption
<1>3. ASSUME NEW m \in nodes
      PROVE  IsFiniteSet(Below(m)) /\ Cardinality(Below(m)) \in 0 .. n - 1
  <2>1. Below(m) \in SUBSET (nodes \ {m})
    BY <1>2
  <2>2. IsFiniteSet(nodes \ {m}) /\ Cardinality(nodes \ {m}) = n - 1
    BY <1>1, FS_RemoveElement
  <2>3. IsFiniteSet(Below(m)) /\ Cardinality(Below(m)) <= n - 1
    BY <2>1, <2>2, FS_Subset
  <2>4. Cardinality(Below(m)) \in Nat
    BY <2>3, FS_CardinalityType
  <2> HIDE DEF Below, n
  <2> QED
    BY <1>1, <2>3, <2>4
<1>4. ASSUME NEW m \in nodes, NEW k \in nodes, Rank[m] < Rank[k]
      PROVE  Cardinality(Below(m)) # Cardinality(Below(k))
  <2>1. Below(m) \in SUBSET Below(k) /\ m \in Below(k) /\ m \notin Below(m)
    BY <1>2, <1>4
  <2>2. IsFiniteSet(Below(k))
    BY <1>3
  <2> HIDE DEF Below
  <2> QED
    BY <2>1, <2>2, FS_Subset
<1>5. \A m, k \in nodes : Cardinality(Below(m)) = Cardinality(Below(k)) => m = k
  <2> SUFFICES ASSUME NEW m \in nodes, NEW k \in nodes, m # k
               PROVE  Cardinality(Below(m)) # Cardinality(Below(k))
    OBVIOUS
  <2>1. Rank[m] # Rank[k]
    BY WriterAssumption DEF WriterAssumption
  <2>2. Rank[m] < Rank[k] \/ Rank[k] < Rank[m]
    BY <1>2, <2>1
  <2> HIDE DEF Below
  <2> QED
    BY <1>4, <2>2
<1>6. f \in Injection(nodes, 0 .. n - 1)
  <2>1. f \in [nodes -> 0 .. n - 1] /\ \A m, k \in nodes : f[m] = f[k] => m = k
    <3> HIDE DEF Below, n
    <3> QED
      BY <1>3, <1>5
  <2> HIDE DEF f, n
  <2> QED
    BY <2>1 DEF Injection, IsInjective
<1>7. IsFiniteSet(0 .. n - 1) /\ Cardinality(0 .. n - 1) = n
  <2> HIDE DEF n
  <2>1. 0 \in Int /\ n - 1 \in Int /\ ~(0 > n - 1)
    BY <1>1
  <2>2. IsFiniteSet(0 .. n - 1) /\ Cardinality(0 .. n - 1) = (n - 1) - 0 + 1
    BY <2>1, FS_Interval
  <2> QED
    BY <1>1, <2>2
<1>8. f \in Surjection(nodes, 0 .. n - 1)
  <2> HIDE DEF f
  <2> QED
    BY <1>6, <1>7, FS_Injection
<1>9. Hash % n \in 0 .. n - 1
  <2> HIDE DEF n
  <2>1. Hash \in Nat
    BY WriterAssumption DEF WriterAssumption
  <2> QED
    BY <1>1, <2>1
<1>10. \E m \in nodes : f[m] = Hash % n
  <2> HIDE DEF f, n
  <2> QED
    BY <1>8, <1>9 DEF Surjection
<1>11. \E m \in nodes : Cardinality({x \in nodes : Rank[x] < Rank[m]}) = Hash % Cardinality(nodes)
  BY <1>10
<1> QED
  BY <1>11 DEF Elect

\* The routes of an application name a member, or nobody.
LEMMA WriterIsMember == ASSUME NEW seen, NEW previous PROVE WriterOf(seen, previous) \in Writers
<1>1. Eligible(seen) \in SUBSET Members
  BY DEF Eligible
<1> QED
  BY <1>1, ElectsOneOf DEF WriterOf, Writers

-----------------------------------------------------------------------------
(* The type invariant of the assignment                                     *)

\* Initially every variable has its type.
LEMMA WriterInitType == WriterInit => WriterTypeOK
  BY WriterAssumption DEF WriterInit, WriterTypeOK, Writers, Views, Idle, LeaseRecords, WriterAssumption

\* A lease that was not asked for is a record of a lease.
LEMMA IdleIsLease == Idle \in LeaseRecords
  BY DEF Idle, LeaseRecords, Views, Writers

\* The chosen writer is a member, or none.
LEMMA ChosenIsWriter == ASSUME WriterTypeOK, NEW l \in Leases PROVE Chosen(l) \in Writers
  BY WriterIsMember DEF WriterTypeOK, Chosen, LeaseRecords

\* What concerns the members and their observations.
LEMMA WorldStepType ==
  ASSUME WriterTypeOK, NEW m \in Members,
         Change(m) \/ \E s \in Observers : Observe(s, m) \/ Expire(s, m)
  PROVE  WriterTypeOK'
<1> USE WriterAssumption DEF WriterAssumption, WriterTypeOK
<1>1. CASE Change(m)
  BY <1>1 DEF Change, leases
<1>2. ASSUME NEW s \in Observers, Observe(s, m) PROVE WriterTypeOK'
  <2>1. view' \in [Observers -> Views]
    BY <1>2 DEF Observe, Views
  <2> QED
    BY <1>2, <2>1 DEF Observe, leases
<1>3. ASSUME NEW s \in Observers, Expire(s, m) PROVE WriterTypeOK'
  <2>1. view' \in [Observers -> Views]
    BY <1>3 DEF Expire, Views
  <2> QED
    BY <1>3, <2>1 DEF Expire, leases
<1> QED
  BY <1>1, <1>2, <1>3

\* What concerns the routes of one supervisor.
LEMMA ObserverStepType ==
  ASSUME WriterTypeOK, NEW s \in Observers, Tick(s) \/ RoutesAge(s) \/ RestartObserver(s)
  PROVE  WriterTypeOK'
<1> USE DEF WriterTypeOK
<1>1. CASE Tick(s)
  <2> DEFINE writer == WriterOf(Local(s), known[s])
  <2>1. writer \in Members
    BY <1>1, WriterIsMember DEF Tick, Writers
  <2> HIDE DEF writer
  <2>2. known' = [known EXCEPT ![s] = writer] /\ inserts' = inserts \cup {[by |-> s, writer |-> writer]}
    BY <1>1 DEF Tick, writer
  <2>3. known' \in [Observers -> Writers] /\ inserts' \subseteq [by : Observers, writer : Members]
    BY <2>1, <2>2 DEF Writers
  <2> QED
    BY <1>1, <2>3 DEF Tick, world, leases
<1>2. CASE RoutesAge(s)
  BY <1>2 DEF RoutesAge, world, leases
<1>3. CASE RestartObserver(s)
  <2>1. lease' \in [Leases -> LeaseRecords] /\ step' \in [Leases -> {"idle", "reading", "writing", "answered"}]
    BY <1>3, IdleIsLease DEF RestartObserver
  <2>2. changes' \in 0 .. MaxChanges
    BY <1>3, WriterAssumption DEF RestartObserver, WriterAssumption
  <2> QED
    BY <1>3, <2>1, <2>2 DEF RestartObserver, Writers
<1> QED
  BY <1>1, <1>2, <1>3

\* The write of a row of routing_assignments preserves the types.
LEMMA InsertType ==
  ASSUME WriterTypeOK, NEW i \in [by : Observers, writer : Members], Insert(i) PROVE WriterTypeOK'
  BY DEF Insert, WriterTypeOK, Writers, world, leases

\* An answer changes its lease and the routes of its supervisor only, and
\* names the writer of its routes, or without one the node it was asked of.
LEMMA AnswerType ==
  ASSUME WriterTypeOK, NEW l \in Leases, NEW writer \in Writers, Answer(l, writer)
  PROVE  /\ step' \in [Leases -> {"idle", "reading", "writing", "answered"}]
         /\ lease' \in [Leases -> LeaseRecords]
         /\ routes' \in [Observers -> Writers] /\ cached' \in [Observers -> {"none", "fresh", "old"}]
         /\ step' = [step EXCEPT ![l] = "answered"] /\ lease'[l].writer = Named(l, writer)
<1> DEFINE named == Named(l, writer)
<1>0. named \in Writers
  BY WriterAssumption DEF Named, Writers, WriterAssumption
<1>2. /\ step' = [step EXCEPT ![l] = "answered"]
      /\ lease' = [lease EXCEPT ![l] = [Idle EXCEPT !.writer = named]]
  BY DEF Answer, Move
<1> HIDE DEF named
<1>1. [Idle EXCEPT !.writer = named] \in LeaseRecords /\ [Idle EXCEPT !.writer = named].writer = named
  BY <1>0 DEF Idle, LeaseRecords, Views, Writers
<1>3. routes' \in [Observers -> Writers] /\ cached' \in [Observers -> {"none", "fresh", "old"}]
  BY WriterAssumption DEF Answer, WriterTypeOK, WriterAssumption
<1>4. lease' \in [Leases -> LeaseRecords] /\ lease'[l].writer = named
  BY <1>1, <1>2 DEF WriterTypeOK
<1> QED
  BY <1>2, <1>3, <1>4 DEF WriterTypeOK, named

\* So does every step of a lease,
LEMMA LeaseStepType ==
  ASSUME WriterTypeOK, NEW l \in Leases,
         \/ \E rebalance \in BOOLEAN : Lease(l, rebalance)
         \/ Release(l) \/ ReadAgrees(l) \/ ReadRefuses(l) \/ ReadDiffers(l) \/ Write(l) \/ DatabaseFails(l)
  PROVE  WriterTypeOK'
<1>0. LeaseAt[l] \in Observers /\ assigned \in Writers /\ Unassigned \in Writers /\ lease[l] \in LeaseRecords
  BY WriterAssumption DEF WriterAssumption, WriterTypeOK, Writers
<1>1. ASSUME NEW rebalance \in BOOLEAN, Lease(l, rebalance) PROVE WriterTypeOK'
  <2> DEFINE s == LeaseAt[l]
             new == [view |-> view[s], kept |-> cached[s] = "fresh" /\ ~rebalance,
                     old |-> IF rebalance THEN Unassigned ELSE routes[s], writer |-> Unassigned]
  <2>1. new.kept \in BOOLEAN
    OBVIOUS
  <2>2. view[s] \in Views /\ routes[s] \in Writers
    BY <1>0 DEF WriterTypeOK
  <2>3. new \in LeaseRecords
    <3> DEFINE kept == cached[s] = "fresh" /\ ~rebalance
               old == IF rebalance THEN Unassigned ELSE routes[s]
    <3>1. kept \in BOOLEAN /\ old \in Writers
      BY <1>0, <2>2
    <3>2. new = [view |-> view[s], kept |-> kept, old |-> old, writer |-> Unassigned]
      OBVIOUS
    <3> HIDE DEF kept, old, new
    <3> QED
      BY <1>0, <2>2, <3>1, <3>2 DEF LeaseRecords
  <2>4. lease' = [lease EXCEPT ![l] = new]
    BY <1>1 DEF Lease
  <2> HIDE DEF new
  <2>5. lease' \in [Leases -> LeaseRecords]
    BY <2>3, <2>4 DEF WriterTypeOK
  <2>6. step' \in [Leases -> {"idle", "reading", "writing", "answered"}]
    BY <1>1 DEF Lease, Move, WriterTypeOK
  <2>7. routes' \in [Observers -> Writers] /\ cached' \in [Observers -> {"none", "fresh", "old"}]
    BY <1>0, <1>1 DEF Lease, WriterTypeOK
  <2> QED
    BY <1>1, <2>5, <2>6, <2>7 DEF Lease, WriterTypeOK, world
<1>2. CASE Release(l)
  BY <1>2, IdleIsLease DEF Release, Move, WriterTypeOK, world
<1>3. CASE ReadRefuses(l) \/ DatabaseFails(l)
  <2>1. step' = [step EXCEPT ![l] = "idle"] /\ lease' = [lease EXCEPT ![l] = Idle]
    BY <1>3 DEF ReadRefuses, DatabaseFails, Abandon, Move
  <2>2. known' \in [Observers -> Writers]
    BY <1>0, <1>3 DEF ReadRefuses, DatabaseFails, Learned, WriterTypeOK
  <2> QED
    BY <1>3, <2>1, <2>2, IdleIsLease DEF ReadRefuses, DatabaseFails, WriterTypeOK, world
<1>4. CASE ReadAgrees(l)
  <2>1. known' \in [Observers -> Writers]
    BY <1>0, <1>4 DEF ReadAgrees, Learned, WriterTypeOK
  <2>2. Chosen(l) \in Writers /\ Answer(l, Chosen(l))
    BY <1>4, ChosenIsWriter DEF ReadAgrees
  <2> QED
    BY <1>4, <2>1, <2>2, AnswerType DEF ReadAgrees, WriterTypeOK, world
<1>5. CASE ReadDiffers(l)
  <2> DEFINE writer == Chosen(l)
  <2>1. writer \in Writers
    BY ChosenIsWriter
  <2>2. /\ known' = [known EXCEPT ![LeaseAt[l]] = writer]
        /\ lease' = [lease EXCEPT ![l].writer = writer]
        /\ step' = [step EXCEPT ![l] = "writing"]
    BY <1>5 DEF ReadDiffers, Move
  <2> HIDE DEF writer
  <2>3. [lease[l] EXCEPT !.writer = writer] \in LeaseRecords
    BY <1>0, <2>1 DEF LeaseRecords
  <2>4. lease' \in [Leases -> LeaseRecords] /\ known' \in [Observers -> Writers]
        /\ step' \in [Leases -> {"idle", "reading", "writing", "answered"}]
    BY <1>0, <2>1, <2>2, <2>3 DEF WriterTypeOK
  <2> QED
    BY <1>5, <2>4 DEF ReadDiffers, WriterTypeOK, world
<1>6. CASE Write(l)
  <2>1. lease[l].writer \in Writers /\ Answer(l, lease[l].writer) /\ assigned' = lease[l].writer
    BY <1>0, <1>6 DEF Write, LeaseRecords
  <2> QED
    BY <1>6, <2>1, AnswerType DEF Write, WriterTypeOK, world
<1> QED
  BY <1>1, <1>2, <1>3, <1>4, <1>5, <1>6

\* and every other step.
LEMMA WriterStepType == WriterTypeOK /\ [WriterNext]_writerVars => WriterTypeOK'
<1> SUFFICES ASSUME WriterTypeOK, [WriterNext]_writerVars PROVE WriterTypeOK'
  OBVIOUS
<1>1. ASSUME NEW s \in Observers, NEW m \in Members, Insert([by |-> s, writer |-> m])
      PROVE  WriterTypeOK'
  BY <1>1, InsertType
<1>2. CASE UNCHANGED writerVars
  BY <1>2 DEF writerVars, world, leases, WriterTypeOK
<1> QED
  BY <1>1, <1>2, WorldStepType, ObserverStepType, LeaseStepType DEF WriterNext

\* For any members, supervisors and leases: every writer that is chosen, read,
\* cached or written is a member, or nobody.
THEOREM WriterTypeCorrect == WriterSpec => []WriterTypeOK
  BY WriterInitType, WriterStepType, PTL DEF WriterSpec

-----------------------------------------------------------------------------
(* Leases                                                                   *)

\* What is written into the row is a member.
WritesNameMembers == \A l \in Leases : step[l] = "writing" => lease[l].writer \in Members

\* A lease begins to write with the writer it has chosen, and writes it.
LEMMA MembersAreWritten == WriterSpec => []WritesNameMembers
<1>1. WriterInit => WritesNameMembers
  BY DEF WriterInit, WritesNameMembers
<1>2. WriterTypeOK /\ WritesNameMembers /\ [WriterNext]_writerVars => WritesNameMembers'
  <2> SUFFICES ASSUME WriterTypeOK, WritesNameMembers, [WriterNext]_writerVars,
                      NEW l \in Leases, step'[l] = "writing"
               PROVE  lease'[l].writer \in Members
    BY DEF WritesNameMembers
  <2>1. CASE UNCHANGED leases
    BY <2>1 DEF leases, WritesNameMembers
  <2>2. ASSUME NEW k \in Leases, NEW place \in {"idle", "reading", "answered"}, NEW new,
               step' = [step EXCEPT ![k] = place], lease' = [lease EXCEPT ![k] = new]
        PROVE  lease'[l].writer \in Members
    <3>1. l # k
      BY <2>2 DEF WriterTypeOK
    <3> QED
      BY <2>2, <3>1 DEF WriterTypeOK, WritesNameMembers
  <2>3. ASSUME NEW k \in Leases,
               \/ \E rebalance \in BOOLEAN : Lease(k, rebalance)
               \/ Release(k) \/ ReadAgrees(k) \/ ReadRefuses(k) \/ Write(k) \/ DatabaseFails(k)
        PROVE  lease'[l].writer \in Members
    BY <2>2, <2>3 DEF Lease, Release, ReadAgrees, ReadRefuses, Write, DatabaseFails, Answer, Abandon, Move
  <2>4. ASSUME NEW k \in Leases, ReadDiffers(k) PROVE lease'[l].writer \in Members
    <3>1. Chosen(k) \in Members
      BY <2>4, ChosenIsWriter DEF ReadDiffers, Differs, Writers
    <3>2. step' = [step EXCEPT ![k] = "writing"] /\ lease' = [lease EXCEPT ![k].writer = Chosen(k)]
      BY <2>4 DEF ReadDiffers, Move
    <3>3. CASE l = k
      BY <3>1, <3>2, <3>3 DEF WriterTypeOK, LeaseRecords
    <3>4. CASE l # k
      BY <3>2, <3>4 DEF WriterTypeOK, WritesNameMembers
    <3> QED
      BY <3>3, <3>4
  <2>5. ASSUME NEW s \in Observers, RestartObserver(s) PROVE lease'[l].writer \in Members
    BY <2>5 DEF RestartObserver, WritesNameMembers
  <2> QED
    BY <2>1, <2>3, <2>4, <2>5
       DEF WriterNext, writerVars, leases, Change, Observe, Expire, Tick, RoutesAge, Insert
<1> QED
  BY <1>1, <1>2, WriterTypeCorrect, PTL DEF WriterSpec

\* A chosen writer is one of the routes: without one the routes are empty.
LEMMA UnchosenIsWriterless ==
  ASSUME WriterTypeOK, NEW l \in Leases, Chosen(l) = Unassigned PROVE Writerless(l)
<1>1. CASE lease[l].kept
  BY <1>1 DEF Chosen, Writerless
<1>2. CASE ~lease[l].kept
  <2> DEFINE seen == lease[l].view
  <2>1. WriterOf(seen, Previous(l)) = Unassigned
    BY <1>2 DEF Chosen
  <2>2. Eligible(seen) \in SUBSET Members /\ Unassigned \notin Members
    BY WriterAssumption DEF Eligible, WriterAssumption
  <2> HIDE DEF seen
  <2>3. ~HasQuorum(seen) \/ Eligible(seen) = {}
    BY <2>1, <2>2, ElectsOneOf DEF WriterOf
  <2> QED
    BY <1>2, <2>3 DEF Writerless, seen
<1> QED
  BY <1>1, <1>2

\* The step that answers a lease hands out the assigned writer, or without
\* routes the node it was asked of.
LEMMA AnswerNamesTheAssignment ==
  ASSUME WriterTypeOK, [WriterNext]_writerVars, NEW l \in Leases,
         WritesNameMembers, step'[l] = "answered", step[l] # "answered"
  PROVE  \/ lease'[l].writer = assigned'
         \/ Writerless(l) /\ lease'[l].writer = LeaseAt[l]
<1> DEFINE Goal == \/ lease'[l].writer = assigned'
                   \/ Writerless(l) /\ lease'[l].writer = LeaseAt[l]
<1>1. ASSUME NEW k \in Leases, NEW place \in {"idle", "reading", "writing"},
             step' = [step EXCEPT ![k] = place]
      PROVE  FALSE
  BY <1>1 DEF WriterTypeOK
<1>2. ASSUME NEW k \in Leases, NEW writer \in Writers, Answer(k, writer),
             writer = assigned' \/ writer = Unassigned,
             writer = Unassigned => Writerless(k)
      PROVE  Goal
  <2>1. step' = [step EXCEPT ![k] = "answered"] /\ lease'[k].writer = Named(k, writer)
    BY <1>2, AnswerType
  <2>2. k = l
    BY <2>1 DEF WriterTypeOK
  <2> QED
    BY <1>2, <2>1, <2>2 DEF Named
<1>3. ASSUME NEW k \in Leases,
             \/ \E rebalance \in BOOLEAN : Lease(k, rebalance)
             \/ Release(k) \/ ReadRefuses(k) \/ ReadDiffers(k) \/ DatabaseFails(k)
      PROVE  FALSE
  BY <1>1, <1>3 DEF Lease, Release, ReadRefuses, ReadDiffers, DatabaseFails, Abandon, Move
<1>4. ASSUME NEW k \in Leases, ReadAgrees(k) PROVE Goal
  <2>1. (Chosen(k) = assigned' \/ Chosen(k) = Unassigned) /\ Answer(k, Chosen(k))
    BY <1>4 DEF ReadAgrees, Differs
  <2> QED
    BY <1>2, <2>1, ChosenIsWriter, UnchosenIsWriterless
<1>5. ASSUME NEW k \in Leases, Write(k) PROVE Goal
  <2>1. lease[k].writer \in Members /\ Answer(k, lease[k].writer) /\ assigned' = lease[k].writer
    BY <1>5 DEF Write, WritesNameMembers
  <2> QED
    BY <1>2, <2>1, WriterAssumption DEF Writers, WriterAssumption
<1>6. ASSUME NEW s \in Observers, RestartObserver(s) PROVE FALSE
  BY <1>6 DEF RestartObserver, WriterTypeOK
<1>7. CASE UNCHANGED step
  BY <1>7
<1> QED
  BY <1>3, <1>4, <1>5, <1>6, <1>7
     DEF WriterNext, writerVars, leases, Change, Observe, Expire, Tick, RoutesAge, Insert

\* For any number of supervisors and leases under way, restarts and failures of
\* the database: a lease that is answered names the writer in the database,
\* unless its routes are empty, and then the node it was asked of.
THEOREM LeasesNameTheAssignment == WriterSpec => LeaseNamesTheAssignment
<1>1. WriterTypeOK /\ WritesNameMembers /\ [WriterNext]_writerVars =>
        [\A l \in Leases : step'[l] = "answered" /\ step[l] # "answered"
           => \/ lease'[l].writer = assigned'
              \/ Writerless(l) /\ lease'[l].writer = LeaseAt[l]]_writerVars
  BY AnswerNamesTheAssignment
<1> QED
  BY <1>1, WriterTypeCorrect, MembersAreWritten, PTL DEF WriterSpec, LeaseNamesTheAssignment

-----------------------------------------------------------------------------
(* The three services                                                       *)

\* For any instance of each: the state of every service keeps the form its
\* code gives it.
THEOREM ServicesTypeCorrect == ServicesSpec => []ServicesTypeOK
<1> DEFINE Inv == WriterTypeOK /\ BootstrapTypeOK /\ IntentInv
<1>1. ServicesInit => Inv
  BY WriterInitType, InitType, IntentInitInv DEF ServicesInit
<1>2. Inv /\ [ServicesNext]_servicesVars => Inv'
  <2>1. [ServicesNext]_servicesVars =>
          [WriterNext]_writerVars /\ [BootstrapNext]_bootstrapVars /\ [IntentNext]_intentVars
    BY DEF ServicesNext, servicesVars
  <2> QED
    BY <2>1, WriterStepType, StepType, IntentStepInv
<1>3. Inv => ServicesTypeOK
  BY DEF IntentInv, ServicesTypeOK
<1> HIDE DEF Inv
<1> QED
  BY <1>1, <1>2, <1>3, PTL DEF ServicesSpec

=============================================================================
