---------------------- MODULE EvidenceCollection_proofs ----------------------
(***************************************************************************)
(* Proofs about EvidenceCollection for any members, supervisors and data   *)
(* directories.  What a supervisor is told of a member was true of it once, *)
(* and a member only moves forward: therefore every supervisor that elects *)
(* elects the same history, and a winner that only a member which has run  *)
(* since can be ahead of.                                                  *)
(***************************************************************************)
EXTENDS MCEvidenceCollection, FiniteSetTheorems, TLAPS

-----------------------------------------------------------------------------
(* Extremes.  The library's induction over finite sets takes an operator;   *)
(* its well-foundedness of strict inclusion does not, and is enough.        *)

\* A finite set has an element that no other precedes, in any strict order:
\* one that the fewest elements precede.
LEMMA MinimalExists ==
  ASSUME NEW S, IsFiniteSet(S), S # {},
         NEW R, \A x \in S : <<x, x>> \notin R,
         \A x, y, z \in S : <<x, y>> \in R /\ <<y, z>> \in R => <<x, z>> \in R
  PROVE  \E x \in S : \A y \in S : <<y, x>> \notin R
<1> DEFINE Before(x) == {y \in S : <<y, x>> \in R}
           T == {Before(x) : x \in S}
           Smaller == StrictSubsetOrdering(S)
           Finite == FiniteSubsetsOf(S)
<1>1. T \subseteq Finite /\ T # {}
  <2>1. \A x \in S : Before(x) \in SUBSET S
    OBVIOUS
  <2>2. \A U \in SUBSET S : IsFiniteSet(U)
    BY FS_Subset
  <2>3. \A x \in S : Before(x) \in Finite
    BY <2>1, <2>2 DEF FiniteSubsetsOf
  <2> HIDE DEF Before, Finite
  <2>4. T \subseteq Finite
    BY <2>3
  <2>5. \E x \in S : Before(x) \in T
    OBVIOUS
  <2> QED
    BY <2>4, <2>5
<1>2. IsWellFoundedOn(Smaller, Finite)
  BY FS_StrictSubsetOrderingWellFounded
<1>3. \E U \in T : \A V \in T : ~ (<<V, U>> \in Smaller)
  <2> HIDE DEF T, Smaller, Finite
  <2> QED
    BY <1>1, <1>2, WFMin
<1>4. PICK x \in S : \A y \in S : <<Before(y), Before(x)>> \notin Smaller
  <2> HIDE DEF Before, Smaller
  <2> QED
    BY <1>3
<1>5. ASSUME NEW y \in S, <<y, x>> \in R PROVE FALSE
  <2>1. /\ Before(y) \subseteq Before(x) /\ Before(x) \subseteq S
        /\ y \in Before(x) /\ y \notin Before(y)
    BY <1>5
  <2> HIDE DEF Before
  <2>2. <<Before(y), Before(x)>> \in (SUBSET S) \X (SUBSET S) /\ Before(y) # Before(x)
    BY <2>1
  <2>3. <<Before(y), Before(x)>> \in Smaller
    BY <2>1, <2>2 DEF StrictSubsetOrdering
  <2> QED
    BY <1>4, <2>3
<1> QED
  BY <1>5

\* A finite set of integers has a greatest element, and Max is it.
LEMMA MaxOfFinite ==
  ASSUME NEW S \in SUBSET Int, IsFiniteSet(S), S # {}
  PROVE  Max(S) \in S /\ \A y \in S : y <= Max(S)
<1> DEFINE R == {p \in S \X S : p[1] > p[2]}
<1>1. /\ \A x \in S : <<x, x>> \notin R
      /\ \A x, y, z \in S : <<x, y>> \in R /\ <<y, z>> \in R => <<x, z>> \in R
      /\ \A x, y \in S : <<y, x>> \notin R => x >= y
  OBVIOUS
<1>2. \E x \in S : \A y \in S : <<y, x>> \notin R
  <2> HIDE DEF R
  <2> QED
    BY <1>1, MinimalExists
<1>3. \E x \in S : \A y \in S : x >= y
  BY <1>1, <1>2
<1>4. Max(S) \in S /\ \A y \in S : Max(S) >= y
  BY <1>3 DEF Max
<1> QED
  BY <1>4

\* A finite set of integers has a least element.
LEMMA MinOfFinite ==
  ASSUME NEW S \in SUBSET Int, IsFiniteSet(S), S # {}
  PROVE  Min(S) \in S
<1> DEFINE R == {p \in S \X S : p[1] < p[2]}
<1>1. /\ \A x \in S : <<x, x>> \notin R
      /\ \A x, y, z \in S : <<x, y>> \in R /\ <<y, z>> \in R => <<x, z>> \in R
      /\ \A x, y \in S : <<y, x>> \notin R => x =< y
  OBVIOUS
<1>2. \E x \in S : \A y \in S : <<y, x>> \notin R
  <2> HIDE DEF R
  <2> QED
    BY <1>1, MinimalExists
<1> QED
  BY <1>1, <1>2 DEF Min

\* The image of a finite set under a function is finite.
LEMMA ImageIsFinite ==
  ASSUME NEW S, NEW T, IsFiniteSet(S), NEW f \in [S -> T], \A y \in T : \E x \in S : f[x] = y
  PROVE  IsFiniteSet(T) /\ Cardinality(T) \in Nat
<1>1. f \in Surjection(S, T)
  BY DEF Surjection
<1>2. IsFiniteSet(T)
  BY <1>1, FS_Surjection
<1> QED
  BY <1>2, FS_CardinalityType

-----------------------------------------------------------------------------
(* The election, for any evidence                                           *)

\* Positions and names can be compared.
Comparable(states) ==
  /\ IsFiniteSet(states)
  /\ \A state \in states : state.seqno \in Int /\ state.node \in Nat

\* The highest position of a history is that of one of its candidates.
LEMMA HighestIsReached ==
  ASSUME NEW states, Comparable(states), NEW u \in Histories(states)
  PROVE  /\ Highest(states, u) \in Int
         /\ \E state \in Candidates(states, u) : state.seqno = Highest(states, u)
         /\ \A state \in Candidates(states, u) : state.seqno <= Highest(states, u)
<1> DEFINE C == Candidates(states, u)
           P == {state.seqno : state \in C}
           f == [state \in C |-> state.seqno]
<1>1. C \in SUBSET states /\ C # {}
  BY DEF Candidates, Histories
<1>2. IsFiniteSet(C) /\ \A state \in C : state.seqno \in Int
  BY <1>1, FS_Subset DEF Comparable
<1>3. Highest(states, u) = Max(P)
  BY DEF Highest
<1> HIDE DEF C
<1>4. P \in SUBSET Int /\ P # {}
  BY <1>1, <1>2
<1>5. f \in [C -> P] /\ \A y \in P : \E x \in C : f[x] = y
  OBVIOUS
<1>6. IsFiniteSet(P)
  <2> HIDE DEF f, P
  <2> QED
    BY <1>2, <1>5, ImageIsFinite
<1>7. Max(P) \in P /\ \A y \in P : y <= Max(P)
  <2> HIDE DEF P
  <2> QED
    BY <1>4, <1>6, MaxOfFinite
<1>8. Max(P) \in Int
  BY <1>4, <1>7
<1>9. \E state \in C : state.seqno = Max(P)
  BY <1>7
<1>10. \A state \in C : state.seqno <= Max(P)
  BY <1>7
<1> QED
  BY <1>3, <1>8, <1>9, <1>10 DEF C

\* Finitely many comparable members have finitely many histories and candidates.
LEMMA HistoriesAreFinite ==
  ASSUME NEW states, Comparable(states)
  PROVE  /\ IsFiniteSet(Histories(states))
         /\ \A u : IsFiniteSet(Candidates(states, u)) /\ Cardinality(Candidates(states, u)) \in Nat
<1> DEFINE H == Histories(states)
           f == [state \in states |-> state.uuid]
<1>1. f \in [states -> H] /\ \A u \in H : \E state \in states : f[state] = u
  BY DEF Histories
<1>2. IsFiniteSet(H)
  <2> HIDE DEF f, H
  <2> QED
    BY <1>1, ImageIsFinite DEF Comparable
<1>3. \A u : Candidates(states, u) \in SUBSET states
  BY DEF Candidates
<1>4. \A u : IsFiniteSet(Candidates(states, u))
  BY <1>3, FS_Subset DEF Comparable
<1> QED
  BY <1>2, <1>4, FS_CardinalityType

\* Among any evidence there is a history that none outranks.
LEMMA StrongestExists ==
  ASSUME NEW states, Comparable(states), states # {}
  PROVE  Strongest(states) # {} /\ IsFiniteSet(Strongest(states))
<1> DEFINE H == Histories(states)
           R == {p \in H \X H : Outranks(states, p[1], p[2])}
           count(u) == Cardinality(Candidates(states, u))
           high(u) == Highest(states, u)
<1>1. IsFiniteSet(H) /\ \A u \in H : count(u) \in Nat
  BY HistoriesAreFinite
<1>2. \A u \in H : high(u) \in Int
  BY HighestIsReached
<1>3. H # {}
  BY DEF Histories
<1>4. \A u, v \in H : <<u, v>> \in R <=> high(u) > high(v) \/ (high(u) = high(v) /\ count(u) > count(v))
  BY DEF Outranks
<1>5. \A u, v \in H : <<u, v>> \in R <=> Outranks(states, u, v)
  OBVIOUS
<1>6. /\ \A u \in H : <<u, u>> \notin R
      /\ \A u, v, w \in H : <<u, v>> \in R /\ <<v, w>> \in R => <<u, w>> \in R
  <2> HIDE DEF H, R, count, high
  <2> QED
    BY <1>1, <1>2, <1>4
<1>7. \E u \in H : \A v \in H : <<v, u>> \notin R
  <2> HIDE DEF H, R
  <2> QED
    BY <1>1, <1>3, <1>6, MinimalExists
<1>8. \E u \in H : \A v \in H : ~Outranks(states, v, u)
  BY <1>5, <1>7
<1>9. Strongest(states) \in SUBSET H
  BY DEF Strongest
<1> QED
  BY <1>1, <1>8, <1>9, FS_Subset DEF Strongest

\* What an election says: the only history that none outranks, held by enough.
LEMMA ElectedIsStrongest ==
  ASSUME NEW states, Comparable(states), NEW m \in Nat, m >= 1, SelectCandidate(states, m).eligible
  PROVE  \E u \in Histories(states) :
           /\ SelectCandidate(states, m) = Elected(WinnerOf(states, u), u)
           /\ Strongest(states) = {u}
           /\ Cardinality(Candidates(states, u)) >= m
<1> DEFINE u == CHOOSE v \in Strongest(states) : TRUE
<1>1. /\ ~(Cardinality(Strongest(states)) > 1)
      /\ ~(Cardinality(Candidates(states, u)) < m)
      /\ SelectCandidate(states, m) = Elected(WinnerOf(states, u), u)
  BY DEF SelectCandidate, Refused
<1>2. Cardinality(Candidates(states, u)) \in Nat /\ IsFiniteSet(Candidates(states, u))
  BY HistoriesAreFinite
<1>3. Candidates(states, u) # {}
  BY <1>1, <1>2, FS_EmptySet
<1>4. states # {}
  BY <1>3 DEF Candidates
<1>5. Strongest(states) # {} /\ IsFiniteSet(Strongest(states))
  BY <1>4, StrongestExists
<1>6. Cardinality(Strongest(states)) = 1
  BY <1>1, <1>5, FS_EmptySet, FS_CardinalityType
<1>7. \E v : Strongest(states) = {v}
  BY <1>5, <1>6, FS_Singleton
<1>8. u \in Strongest(states)
  BY <1>5
<1>9. Strongest(states) = {u}
  BY <1>7, <1>8
<1>10. u \in Histories(states)
  BY <1>8 DEF Strongest
<1>11. Cardinality(Candidates(states, u)) >= m
  BY <1>1, <1>2
<1> HIDE DEF u
<1> QED
  BY <1>1, <1>9, <1>10, <1>11

\* The winner is a candidate at the highest position of its history.
LEMMA WinnerIsHighest ==
  ASSUME NEW states, Comparable(states), NEW u \in Histories(states)
  PROVE  \E state \in Candidates(states, u) :
           state.node = WinnerOf(states, u) /\ state.seqno = Highest(states, u)
<1> DEFINE B == {state \in Candidates(states, u) : state.seqno = Highest(states, u)}
           N == {state.node : state \in B}
           f == [state \in B |-> state.node]
<1>1. B # {}
  BY HighestIsReached
<1>2. B \in SUBSET states
  BY DEF Candidates
<1>3. IsFiniteSet(B) /\ \A state \in B : state.node \in Int
  BY <1>2, FS_Subset DEF Comparable
<1>4. WinnerOf(states, u) = Min(N)
  BY DEF WinnerOf
<1>5. f \in [B -> N] /\ \A y \in N : \E x \in B : f[x] = y
  OBVIOUS
<1>6. N \in SUBSET Int /\ N # {}
  <2> HIDE DEF B
  <2> QED
    BY <1>1, <1>3
<1>7. Min(N) \in N
  <2>1. IsFiniteSet(N)
    <3> HIDE DEF f, N, B
    <3> QED
      BY <1>3, <1>5, ImageIsFinite
  <2> HIDE DEF N
  <2> QED
    BY <1>6, <2>1, MinOfFinite
<1> QED
  BY <1>4, <1>7

-----------------------------------------------------------------------------
(* The inductive invariant                                                  *)

\* What may be read or remembered of a member's position: none beyond it, and
\* no other on a member where mariadbd does not run.
Positions(n) ==
  {k \in Nat \cup {-1} : k <= disk[n].seqno /\ (n \notin Movers => k = disk[n].seqno)}

Memories(n) == {Unread, Failed} \cup {Position(k) : k \in Positions(n)}

\* What any of the handlers may say of a member.
ReportedItems(n) ==
  [node : {n}, uuid : {disk[n].uuid}, seqno : Positions(n), active : BOOLEAN,
   galera : {disk[n].uuid, Absent, NoGalera}, quality : {"ok", "malformed", "stale"}]

Results(n) ==
  {Pending} \cup {Rejected(code) : code \in {"unavailable", "mismatch"}}
            \cup {Fulfilled(item) : item \in ReportedItems(n)}

MembersTyped ==
  /\ disk \in [Nodes -> DiskStates]
  /\ clean \in [Nodes -> BOOLEAN]
  /\ endpoint \in [Nodes -> Endpoints]
  /\ engine \in [Nodes -> {"down", "running", "primary", "killed"}]
  /\ \A n \in Nodes \ Movers : engine[n] = "down"

MemoriesTyped ==
  /\ recovered \in [Nodes -> [Handlers -> UNION {Memories(n) : n \in Nodes}]]
  /\ \A n \in Nodes, handler \in Handlers : recovered[n][handler] \in Memories(n)

CollectionsTyped ==
  /\ settled \in [Supervisors -> [Nodes -> UNION {Results(n) : n \in Nodes}]]
  /\ verdict = [s \in Supervisors |-> verdict[s]]
  /\ \A s \in Supervisors, n \in Nodes : settled[s][n] \in Results(n)

\* A verdict is one its supervisor can draw from the settled collection.
VerdictsFollow ==
  \A s \in Supervisors :
    verdict[s] # NoVerdict =>
      /\ \A n \in Nodes : settled[s][n] # Pending
      /\ verdict[s] \in Verdicts(s)

\* Whatever a request settled to was once true of the member it was sent to.
CollectionInv == MembersTyped /\ MemoriesTyped /\ CollectionsTyped /\ VerdictsFollow

\* A verdict depends on the supervisor's own collection only.
LEMMA SameCollectionSameVerdicts ==
  ASSUME NEW s \in Supervisors, settled'[s] = settled[s]
  PROVE  Verdicts(s)' = Verdicts(s)
<1>1. Evidence(s)' = Evidence(s) /\ Failures(s)' = Failures(s)
  BY DEF Evidence, Failures
<1>2. LocalUuid(s)' = LocalUuid(s)
  BY <1>1 DEF LocalUuid
<1>3. (\E item \in Evidence(s) : IsActivePrimary(s, item))'
        <=> \E item \in Evidence(s) : IsActivePrimary(s, item)
  BY <1>1, <1>2 DEF IsActivePrimary
<1>4. PartialVerdicts(s)' = PartialVerdicts(s)
  BY <1>1 DEF PartialVerdicts
<1>5. CompleteVerdict(Evidence(s))' = CompleteVerdict(Evidence(s))
  BY <1>1
<1>6. QualityOf(Evidence(s))' = QualityOf(Evidence(s))
  BY <1>1
<1> QED
  BY <1>1, <1>3, <1>4, <1>5, <1>6 DEF Verdicts

\* Members and collections with nothing new of a verdict: a supervisor keeps
\* both its collection and its verdict, or has neither.
LEMMA VerdictsKept ==
  ASSUME VerdictsFollow,
         \A s \in Supervisors :
           \/ settled'[s] = settled[s] /\ verdict'[s] = verdict[s]
           \/ verdict'[s] = NoVerdict
  PROVE  VerdictsFollow'
<1> SUFFICES ASSUME NEW s \in Supervisors, verdict'[s] # NoVerdict
             PROVE  (\A n \in Nodes : settled'[s][n] # Pending) /\ verdict'[s] \in Verdicts(s)'
  BY DEF VerdictsFollow
<1>1. settled'[s] = settled[s] /\ verdict'[s] = verdict[s]
  OBVIOUS
<1>2. Verdicts(s)' = Verdicts(s)
  BY <1>1, SameCollectionSameVerdicts
<1> QED
  BY <1>1, <1>2 DEF VerdictsFollow

\* Before anybody collects, the invariant holds.
LEMMA InitCollects == Init => CollectionInv
<1> SUFFICES ASSUME Init PROVE CollectionInv
  OBVIOUS
<1>1. \A n \in Nodes : Pending \in Results(n) /\ Unread \in Memories(n)
  BY DEF Results, Memories
<1>2. MembersTyped
  BY DEF Init, MembersTyped
<1>3. MemoriesTyped
  BY <1>1 DEF Init, MemoriesTyped
<1>4. CollectionsTyped
  <2>1. verdict = [s \in Supervisors |-> verdict[s]]
    BY DEF Init
  <2> QED
    BY <1>1, <2>1 DEF Init, CollectionsTyped
<1>5. VerdictsFollow
  BY DEF Init, VerdictsFollow
<1> QED
  BY <1>2, <1>3, <1>4, <1>5 DEF CollectionInv

\* Positions only grow, so that what was true of a member stays a report of it.
LEMMA ReportsStay ==
  ASSUME MembersTyped, MembersTyped',
         \A n \in Nodes : /\ disk'[n].uuid = disk[n].uuid
                          /\ disk'[n].seqno >= disk[n].seqno
                          /\ n \notin Movers => disk'[n] = disk[n]
  PROVE  \A n \in Nodes : /\ Results(n) \subseteq Results(n)'
                          /\ Memories(n) \subseteq Memories(n)'
<1> SUFFICES ASSUME NEW n \in Nodes
             PROVE  Results(n) \subseteq Results(n)' /\ Memories(n) \subseteq Memories(n)'
  OBVIOUS
<1>1. disk[n].seqno \in Int /\ disk'[n].seqno \in Int
  BY EvidenceAssumption DEF EvidenceAssumption, MembersTyped
<1>2. /\ disk'[n].uuid = disk[n].uuid /\ disk'[n].seqno >= disk[n].seqno
      /\ n \notin Movers => disk'[n].seqno = disk[n].seqno
  OBVIOUS
<1>3. Positions(n) \subseteq Positions(n)'
  <2> SUFFICES ASSUME NEW k \in Nat \cup {-1}, k <= disk[n].seqno,
                      n \notin Movers => k = disk[n].seqno
               PROVE  k <= disk'[n].seqno /\ (n \notin Movers => k = disk'[n].seqno)
    BY DEF Positions
  <2> QED
    BY <1>1, <1>2
<1>4. ReportedItems(n) \subseteq ReportedItems(n)'
  BY <1>2, <1>3 DEF ReportedItems
<1> QED
  BY <1>3, <1>4 DEF Results, Memories

\* One request settles to something true of its member.
LEMMA SettleKeeps ==
  ASSUME CollectionInv, NEW s \in Supervisors, NEW n \in Nodes,
         NEW result \in Results(n), Settle(s, n, result), MemoriesTyped'
  PROVE  CollectionInv'
<1>1. /\ settled[s][n] = Pending
      /\ settled' = [settled EXCEPT ![s][n] = result]
      /\ UNCHANGED <<disk, clean, engine, endpoint, verdict>>
  BY DEF Settle
<1>2. \A m \in Nodes : Results(m)' = Results(m)
  BY <1>1 DEF Results, ReportedItems, Positions
<1>3. /\ settled' \in [Supervisors -> [Nodes -> UNION {Results(m) : m \in Nodes}]]
      /\ \A t \in Supervisors, m \in Nodes :
           settled'[t][m] = IF t = s /\ m = n THEN result ELSE settled[t][m]
      /\ \A t \in Supervisors : t # s => settled'[t] = settled[t]
  BY <1>1 DEF CollectionInv, CollectionsTyped
<1>4. (UNION {Results(m) : m \in Nodes})' = UNION {Results(m) : m \in Nodes}
  BY <1>2
<1>5. MembersTyped'
  BY <1>1 DEF CollectionInv, MembersTyped
<1>6. \A t \in Supervisors, m \in Nodes : settled'[t][m] \in Results(m)'
  BY <1>2, <1>3 DEF CollectionInv, CollectionsTyped
<1>7. CollectionsTyped'
  BY <1>1, <1>3, <1>4, <1>6 DEF CollectionInv, CollectionsTyped
<1>8. verdict'[s] = NoVerdict
  BY <1>1 DEF CollectionInv, VerdictsFollow
<1>9. VerdictsFollow'
  BY <1>1, <1>3, <1>8, VerdictsKept DEF CollectionInv
<1> QED
  BY <1>5, <1>7, <1>9 DEF CollectionInv

\* One handler remembers something true of its member.
LEMMA MemoryKeeps ==
  ASSUME MemoriesTyped, UNCHANGED disk, NEW n \in Nodes, NEW handler \in Handlers,
         NEW memory \in Memories(n), recovered' = [recovered EXCEPT ![n][handler] = memory]
  PROVE  MemoriesTyped'
<1>1. \A m \in Nodes : Memories(m)' = Memories(m)
  BY DEF Memories, Positions
<1>2. (UNION {Memories(m) : m \in Nodes})' = UNION {Memories(m) : m \in Nodes}
  BY <1>1
<1>3. /\ recovered' \in [Nodes -> [Handlers -> UNION {Memories(m) : m \in Nodes}]]
      /\ \A m \in Nodes, h \in Handlers :
           recovered'[m][h] = IF m = n /\ h = handler THEN memory ELSE recovered[m][h]
  BY DEF MemoriesTyped
<1> QED
  BY <1>1, <1>2, <1>3 DEF MemoriesTyped

\* A member's own position, and what its handlers remember of it.
LEMMA RecoveryIsTrue ==
  ASSUME CollectionInv, NEW n \in Nodes, NEW handler \in Handlers,
         NEW memory \in Remembers(n, handler)
  PROVE  /\ memory \in Memories(n)
         /\ disk[n].seqno \in Positions(n)
         /\ Recovers(n, handler) /\ memory # Failed => memory.seqno \in Positions(n)
<1>1. disk[n].seqno \in Nat \cup {-1}
  BY EvidenceAssumption DEF EvidenceAssumption, CollectionInv, MembersTyped
<1>2. disk[n].seqno \in Positions(n)
  BY <1>1 DEF Positions
<1>3. Recoveries(n) \subseteq {Failed} \cup {Position(k) : k \in Positions(n)}
  BY <1>2 DEF Recoveries
<1>4. memory \in Memories(n)
  BY <1>3 DEF Remembers, Memories, CollectionInv, MemoriesTyped
<1>5. ASSUME Recovers(n, handler), memory # Failed PROVE memory.seqno \in Positions(n)
  <2>1. memory \in {Position(k) : k \in Positions(n)}
    <3>1. Unread \notin Recoveries(n)
      BY DEF Recoveries, Unread, Failed, Position
    <3>2. memory # Unread
      BY <1>5, <3>1 DEF Remembers
    <3> QED
      BY <1>4, <1>5, <3>2 DEF Memories
  <2> QED
    BY <2>1 DEF Position
<1> QED
  BY <1>2, <1>4, <1>5

\* A handler answers with what its member may report at that moment.
LEMMA AnswerKeeps ==
  ASSUME CollectionInv, NEW s \in Supervisors, NEW n \in Nodes, Answer(s, n)
  PROVE  CollectionInv'
<1> DEFINE handler == HandlerOf(s, n)
           seqno(memory) == IF Recovers(n, handler) THEN memory.seqno ELSE SavedSeqno(n)
<1>1. handler \in Handlers
  BY EvidenceAssumption
  DEF HandlerOf, Handlers, EvidenceAssumption, CollectionInv, MembersTyped
<1>2. PICK memory \in Remembers(n, handler), quality \in {"ok", "malformed", "stale"} :
        /\ recovered' = [recovered EXCEPT ![n][handler] = memory]
        /\ Recovers(n, handler) => memory # Failed
        /\ Settle(s, n, Fulfilled(Item(n, handler, seqno(memory), quality)))
  BY DEF Answer
<1>3. /\ memory \in Memories(n) /\ disk[n].seqno \in Positions(n)
      /\ Recovers(n, handler) => memory.seqno \in Positions(n)
  BY <1>1, <1>2, RecoveryIsTrue
<1>4. MemoriesTyped'
  <2>1. UNCHANGED disk
    BY <1>2 DEF Settle
  <2> HIDE DEF handler
  <2> QED
    BY <1>1, <1>2, <1>3, <2>1, MemoryKeeps DEF CollectionInv
<1>5. ~Recovers(n, handler) => SavedSeqno(n) \in Positions(n)
  <2> SUFFICES ASSUME ~Recovers(n, handler) PROVE SavedSeqno(n) \in Positions(n)
    OBVIOUS
  <2>1. CASE clean[n]
    BY <1>3, <2>1 DEF SavedSeqno
  <2>2. CASE ~clean[n]
    <3>1. Active(n, handler)
      BY <2>2 DEF Recovers, SavedSeqno
    <3>2. n \in Movers
      BY <1>1, <3>1 DEF Active, Handlers, CollectionInv, MembersTyped
    <3>3. disk[n].seqno \in Nat \cup {-1}
      BY <1>3 DEF Positions
    <3> QED
      BY <2>2, <3>2, <3>3 DEF SavedSeqno, Positions
  <2> QED
    BY <2>1, <2>2
<1>6. seqno(memory) \in Positions(n)
  BY <1>3, <1>5
<1>7. Active(n, handler) \in BOOLEAN /\ GaleraOf(n, handler) \in {disk[n].uuid, Absent, NoGalera}
  BY DEF Active, GaleraOf
<1> HIDE DEF seqno, handler
<1>8. Item(n, handler, seqno(memory), quality) \in ReportedItems(n)
  BY <1>6, <1>7 DEF Item, ReportedItems
<1>9. Fulfilled(Item(n, handler, seqno(memory), quality)) \in Results(n)
  BY <1>8 DEF Results
<1> QED
  BY <1>2, <1>4, <1>9, SettleKeeps

\* A failed recovery is a failed request, and is remembered as one.
LEMMA RecoveryFailsKeeps ==
  ASSUME CollectionInv, NEW s \in Supervisors, NEW n \in Nodes, RecoveryFails(s, n)
  PROVE  CollectionInv'
<1>1. HandlerOf(s, n) \in Handlers
  BY EvidenceAssumption
  DEF HandlerOf, Handlers, EvidenceAssumption, CollectionInv, MembersTyped
<1>2. /\ recovered' = [recovered EXCEPT ![n][HandlerOf(s, n)] = Failed]
      /\ Settle(s, n, Rejected("unavailable")) /\ UNCHANGED disk
  BY DEF RecoveryFails, Settle
<1>3. Failed \in Memories(n) /\ Rejected("unavailable") \in Results(n)
  BY DEF Memories, Results
<1>4. MemoriesTyped'
  BY <1>1, <1>2, <1>3, MemoryKeeps DEF CollectionInv
<1> QED
  BY <1>2, <1>3, <1>4, SettleKeeps

\* The memories are about the data directories only.
LEMMA MemoriesStay ==
  ASSUME MemoriesTyped, UNCHANGED <<disk, recovered>> PROVE MemoriesTyped'
<1>1. \A n \in Nodes : Memories(n)' = Memories(n)
  BY DEF Memories, Positions
<1> QED
  BY <1>1 DEF MemoriesTyped

\* A request that fails says nothing of the member.
LEMMA FailKeeps ==
  ASSUME CollectionInv, NEW s \in Supervisors, NEW n \in Nodes, Fail(s, n)
  PROVE  CollectionInv'
<1>1. PICK code \in {"unavailable", "mismatch"} :
        Settle(s, n, Rejected(code)) /\ UNCHANGED recovered
  BY DEF Fail
<1>2. Rejected(code) \in Results(n)
  BY DEF Results
<1>3. MemoriesTyped'
  BY <1>1, MemoriesStay DEF Settle, CollectionInv
<1> QED
  BY <1>1, <1>2, <1>3, SettleKeeps

\* A verdict keeps the invariant: it follows from the evidence that was collected.
LEMMA ConcludeKeeps ==
  ASSUME CollectionInv, NEW s \in Supervisors, Conclude(s) PROVE CollectionInv'
<1>1. PICK outcome \in Verdicts(s) : verdict' = [verdict EXCEPT ![s] = outcome]
  BY DEF Conclude
<1>2. /\ UNCHANGED <<disk, clean, engine, endpoint, recovered, settled>>
      /\ \A n \in Nodes : settled[s][n] # Pending
  BY DEF Conclude, member
<1>3. \A n \in Nodes : Results(n)' = Results(n)
  BY <1>2 DEF Results, ReportedItems, Positions
<1>4. (UNION {Results(m) : m \in Nodes})' = UNION {Results(m) : m \in Nodes}
  BY <1>3
<1>5. /\ verdict' = [t \in Supervisors |-> verdict'[t]]
      /\ \A t \in Supervisors : verdict'[t] = IF t = s THEN outcome ELSE verdict[t]
  BY <1>1 DEF CollectionInv, CollectionsTyped
<1>6. MembersTyped' /\ MemoriesTyped'
  BY <1>2, MemoriesStay DEF CollectionInv, MembersTyped
<1>7. CollectionsTyped'
  BY <1>2, <1>3, <1>4, <1>5 DEF CollectionInv, CollectionsTyped
<1>8. \A t \in Supervisors : Verdicts(t)' = Verdicts(t)
  BY <1>2, SameCollectionSameVerdicts
<1>9. VerdictsFollow'
  BY <1>2, <1>5, <1>8 DEF CollectionInv, VerdictsFollow
<1> QED
  BY <1>6, <1>7, <1>9 DEF CollectionInv

\* A member moves on, and the collections of some supervisors are dropped.
LEMMA MemberMoves ==
  ASSUME CollectionInv, MembersTyped', MemoriesTyped',
         \A n \in Nodes : /\ disk'[n].uuid = disk[n].uuid
                          /\ disk'[n].seqno >= disk[n].seqno
                          /\ n \notin Movers => disk'[n] = disk[n],
         settled' = [s \in Supervisors |-> settled'[s]],
         verdict' = [s \in Supervisors |-> verdict'[s]],
         \A s \in Supervisors :
           \/ settled'[s] = settled[s] /\ verdict'[s] = verdict[s]
           \/ settled'[s] = [n \in Nodes |-> Pending] /\ verdict'[s] = NoVerdict
  PROVE  CollectionInv'
<1>1. \A n \in Nodes : Results(n) \subseteq Results(n)' /\ Pending \in Results(n)'
  BY ReportsStay DEF CollectionInv, Results
<1> DEFINE U == UNION {Results(n) : n \in Nodes}
           V == UNION {Results(n)' : n \in Nodes}
<1>2. U \subseteq V /\ \A n \in Nodes : Pending \in V
  BY <1>1
<1>3. settled \in [Supervisors -> [Nodes -> U]]
  BY DEF CollectionInv, CollectionsTyped
<1>4. /\ settled' \in [Supervisors -> [Nodes -> V]]
      /\ \A s \in Supervisors, n \in Nodes :
           settled'[s][n] \in {Pending, settled[s][n]}
  <2> HIDE DEF U, V
  <2>1. \A s \in Supervisors : settled'[s] \in [Nodes -> V]
    BY <1>2, <1>3
  <2>2. settled' \in [Supervisors -> [Nodes -> V]]
    BY <2>1
  <2> QED
    BY <2>2
<1>5. \A s \in Supervisors, n \in Nodes : settled'[s][n] \in Results(n)'
  BY <1>1, <1>4 DEF CollectionInv, CollectionsTyped
<1>6. CollectionsTyped'
  BY <1>4, <1>5 DEF CollectionsTyped
<1>7. VerdictsFollow'
  BY VerdictsKept DEF CollectionInv
<1> QED
  BY <1>6, <1>7 DEF CollectionInv

\* mariadbd comes and goes without making untrue what was reported.
LEMMA EngineKeeps ==
  ASSUME CollectionInv, UNCHANGED <<disk, endpoint, recovered, settled, verdict>>,
         engine' \in [Nodes -> {"down", "running", "primary", "killed"}],
         clean' \in [Nodes -> BOOLEAN], \A n \in Nodes \ Movers : engine'[n] = "down"
  PROVE  CollectionInv'
<1>1. MembersTyped' /\ MemoriesTyped'
  BY MemoriesStay DEF CollectionInv, MembersTyped
<1>2. \A n \in Nodes : disk[n].seqno \in Int
  BY EvidenceAssumption DEF EvidenceAssumption, CollectionInv, MembersTyped
<1>3. /\ settled' = [s \in Supervisors |-> settled'[s]]
      /\ verdict' = [s \in Supervisors |-> verdict'[s]]
  BY DEF CollectionInv, CollectionsTyped
<1>4. \A n \in Nodes : disk'[n] = disk[n] /\ disk'[n].seqno >= disk[n].seqno
  BY <1>2
<1> QED
  BY <1>1, <1>3, <1>4, MemberMoves

\* A transaction puts the member ahead of what was reported of it.
LEMMA CommitKeeps ==
  ASSUME CollectionInv, NEW n \in Movers, Commit(n) PROVE CollectionInv'
<1> DEFINE next == [uuid |-> disk[n].uuid, seqno |-> disk[n].seqno + 1]
<1>1. /\ next \in DiskStates /\ disk' = [disk EXCEPT ![n] = next]
      /\ UNCHANGED <<clean, engine, endpoint, recovered, settled, verdict>>
  BY DEF Commit
<1>2. n \in Nodes /\ \A state \in DiskStates : state.seqno \in Int
  BY EvidenceAssumption DEF EvidenceAssumption
<1>3. /\ disk' \in [Nodes -> DiskStates]
      /\ \A m \in Nodes : disk'[m] = IF m = n THEN next ELSE disk[m]
  <2> HIDE DEF next
  <2> QED
    BY <1>1, <1>2 DEF CollectionInv, MembersTyped
<1>4. disk[n].seqno \in Int /\ next.seqno \in Int
  BY <1>1, <1>2 DEF CollectionInv, MembersTyped
<1>5. next.uuid = disk[n].uuid /\ next.seqno >= disk[n].seqno
  BY <1>4
<1> HIDE DEF next
<1>6. \A m \in Nodes : /\ disk'[m].uuid = disk[m].uuid
                       /\ disk'[m].seqno >= disk[m].seqno
                       /\ m \notin Movers => disk'[m] = disk[m]
  BY <1>2, <1>3, <1>4, <1>5, EvidenceAssumption
  DEF EvidenceAssumption, CollectionInv, MembersTyped
<1>7. MembersTyped'
  BY <1>1, <1>3 DEF CollectionInv, MembersTyped
<1>8. MemoriesTyped'
  <2>1. \A m \in Nodes : Memories(m) \subseteq Memories(m)'
    BY <1>6, <1>7, ReportsStay DEF CollectionInv
  <2> DEFINE U == UNION {Memories(m) : m \in Nodes}
             V == UNION {Memories(m)' : m \in Nodes}
  <2>2. U \subseteq V
    BY <2>1
  <2>3. recovered \in [Nodes -> [Handlers -> U]]
    BY DEF CollectionInv, MemoriesTyped
  <2>4. recovered' \in [Nodes -> [Handlers -> V]]
    <3> HIDE DEF U, V
    <3> QED
      BY <1>1, <2>2, <2>3
  <2> QED
    BY <1>1, <2>1, <2>4 DEF CollectionInv, MemoriesTyped
<1>9. /\ settled' = [s \in Supervisors |-> settled'[s]]
      /\ verdict' = [s \in Supervisors |-> verdict'[s]]
  BY <1>1 DEF CollectionInv, CollectionsTyped
<1> QED
  BY <1>1, <1>6, <1>7, <1>8, <1>9, MemberMoves

\* A supervisor that ends forgets, and drops no more than its own collection.
LEMMA RestartKeeps ==
  ASSUME CollectionInv, NEW n \in Nodes, RestartSupervisor(n) PROVE CollectionInv'
<1>1. /\ engine' = [engine EXCEPT ![n] = "down"]
      /\ \E written \in BOOLEAN : clean' = [clean EXCEPT ![n] = written]
      /\ recovered' = [recovered EXCEPT ![n] = [handler \in Handlers |-> Unread]]
      /\ UNCHANGED <<disk, endpoint>>
  BY DEF RestartSupervisor, CollectionInv, MembersTyped
<1>2. MembersTyped'
  BY <1>1 DEF CollectionInv, MembersTyped
<1>3. MemoriesTyped'
  <2>1. \A m \in Nodes : Memories(m)' = Memories(m) /\ Unread \in Memories(m)
    BY <1>1 DEF Memories, Positions
  <2>2. (UNION {Memories(m) : m \in Nodes})' = UNION {Memories(m) : m \in Nodes}
    BY <2>1
  <2>3. Unread \in UNION {Memories(m) : m \in Nodes}
    BY <2>1
  <2>4. /\ recovered' \in [Nodes -> [Handlers -> UNION {Memories(m) : m \in Nodes}]]
        /\ \A m \in Nodes, h \in Handlers :
             recovered'[m][h] = IF m = n THEN Unread ELSE recovered[m][h]
    BY <1>1, <2>3 DEF CollectionInv, MemoriesTyped
  <2> QED
    BY <2>1, <2>2, <2>4 DEF CollectionInv, MemoriesTyped
<1>4. \A m \in Nodes : disk'[m] = disk[m] /\ disk'[m].seqno >= disk[m].seqno
  BY <1>1, EvidenceAssumption DEF EvidenceAssumption, CollectionInv, MembersTyped
<1>5. /\ settled' = [s \in Supervisors |-> settled'[s]]
      /\ verdict' = [s \in Supervisors |-> verdict'[s]]
      /\ \A s \in Supervisors :
           \/ settled'[s] = settled[s] /\ verdict'[s] = verdict[s]
           \/ settled'[s] = [m \in Nodes |-> Pending] /\ verdict'[s] = NoVerdict
  BY DEF RestartSupervisor
<1> QED
  BY <1>2, <1>3, <1>4, <1>5, MemberMoves

\* A retry keeps it: nothing of the last collection is left.
LEMMA PlanAgainKeeps ==
  ASSUME CollectionInv, NEW s \in Supervisors, PlanAgain(s) PROVE CollectionInv'
<1>1. /\ settled' = [settled EXCEPT ![s] = [n \in Nodes |-> Pending]]
      /\ verdict' = [verdict EXCEPT ![s] = NoVerdict]
      /\ UNCHANGED <<disk, clean, engine, endpoint, recovered>>
  BY DEF PlanAgain, member
<1>2. MembersTyped' /\ MemoriesTyped'
  BY <1>1, MemoriesStay DEF CollectionInv, MembersTyped
<1>3. \A n \in Nodes : disk'[n] = disk[n] /\ disk'[n].seqno >= disk[n].seqno
  BY <1>1, EvidenceAssumption DEF EvidenceAssumption, CollectionInv, MembersTyped
<1>4. settled' = [t \in Supervisors |-> settled'[t]]
  BY <1>1 DEF CollectionInv, CollectionsTyped
<1>5. /\ verdict' = [t \in Supervisors |-> verdict'[t]]
      /\ \A t \in Supervisors :
           \/ settled'[t] = settled[t] /\ verdict'[t] = verdict[t]
           \/ settled'[t] = [m \in Nodes |-> Pending] /\ verdict'[t] = NoVerdict
  <2>1. /\ verdict = [t \in Supervisors |-> verdict[t]]
        /\ settled = [t \in Supervisors |-> settled[t]]
    BY DEF CollectionInv, CollectionsTyped
  <2> QED
    BY <1>1, <2>1
<1> QED
  BY <1>2, <1>3, <1>4, <1>5, MemberMoves

\* So does every step.
LEMMA StepKeepsCollections == CollectionInv /\ [Next]_vars => CollectionInv'
<1> SUFFICES ASSUME CollectionInv, [Next]_vars PROVE CollectionInv'
  OBVIOUS
<1> USE DEF EngineMoves
<1>1. Movers \subseteq Nodes
  BY EvidenceAssumption DEF EvidenceAssumption
<1>2. ASSUME NEW n \in Movers, StartEngine(n) PROVE CollectionInv'
  BY <1>1, <1>2, EngineKeeps DEF StartEngine, CollectionInv, MembersTyped
<1>3. ASSUME NEW n \in Movers, ReachPrimary(n) PROVE CollectionInv'
  BY <1>1, <1>3, EngineKeeps DEF ReachPrimary, CollectionInv, MembersTyped
<1>4. ASSUME NEW n \in Movers, StopEngine(n) PROVE CollectionInv'
  BY <1>1, <1>4, EngineKeeps DEF StopEngine, CollectionInv, MembersTyped
<1>5. ASSUME NEW n \in Movers, KillEngine(n) PROVE CollectionInv'
  BY <1>1, <1>5, EngineKeeps DEF KillEngine, CollectionInv, MembersTyped
<1>6. CASE UNCHANGED vars
  BY <1>6, EngineKeeps DEF vars, CollectionInv, MembersTyped
<1> QED
  BY <1>2, <1>3, <1>4, <1>5, <1>6, AnswerKeeps, FailKeeps, RecoveryFailsKeeps, ConcludeKeeps,
     PlanAgainKeeps, CommitKeeps, RestartKeeps DEF Next

\* For any members, supervisors, data directories and faults: what settled was
\* true of the member it was asked of, and a verdict follows from what settled.
THEOREM CollectionInvariance == Spec => []CollectionInv
  BY InitCollects, StepKeepsCollections, PTL DEF Spec

-----------------------------------------------------------------------------
(* What a supervisor that bootstraps has collected                          *)

\* Every configured member has answered, and the verdict is the election.
LEMMA BootstrapIsElected ==
  ASSUME CollectionInv, NEW s \in Supervisors, ConcludesBootstrap(s)
  PROVE  LET decision == SelectCandidate(Evidence(s), MajorityOf(Nodes))
         IN /\ \A n \in Nodes : settled[s][n].status = "fulfilled"
            /\ decision.eligible
            /\ verdict[s] = Bootstrap(decision, Evidence(s))
<1> DEFINE decision == SelectCandidate(Evidence(s), MajorityOf(Nodes))
<1>1. verdict[s] # NoVerdict
  BY DEF ConcludesBootstrap, NoVerdict
<1>2. verdict[s] \in Verdicts(s) /\ \A n \in Nodes : settled[s][n] # Pending
  BY <1>1 DEF CollectionInv, VerdictsFollow
<1>3. verdict[s].mode = "bootstrap"
  BY DEF ConcludesBootstrap
<1>4. Join.mode # "bootstrap" /\ \A code : Blocked(code).mode # "bootstrap"
  BY DEF Join, Blocked
<1>5. \A outcome \in PartialVerdicts(s) : outcome.mode # "bootstrap"
  BY <1>4 DEF PartialVerdicts
<1>6. \A outcome \in {Blocked(quality) : quality \in QualityOf(Evidence(s)) \ {"ok"}} :
        outcome.mode # "bootstrap"
  BY <1>4
<1>7. Failures(s) = {} /\ verdict[s] = CompleteVerdict(Evidence(s))
  BY <1>2, <1>3, <1>4, <1>5, <1>6 DEF Verdicts
<1>8. decision.eligible /\ verdict[s] = Bootstrap(decision, Evidence(s))
  BY <1>3, <1>4, <1>7 DEF CompleteVerdict
<1>9. ASSUME NEW n \in Nodes PROVE settled[s][n].status = "fulfilled"
  <2>1. settled[s][n].status # "rejected"
    BY <1>7 DEF Failures
  <2>2. settled[s][n] \in Results(n) /\ settled[s][n] # Pending
    BY <1>2 DEF CollectionInv, CollectionsTyped
  <2> QED
    BY <2>1, <2>2 DEF Results, Pending, Rejected, Fulfilled
<1> HIDE DEF decision
<1> QED
  BY <1>8, <1>9 DEF decision

\* Every item is about one member, and says what its data directory holds or held.
LEMMA EvidenceIsTrue ==
  ASSUME CollectionInv, NEW s \in Supervisors, NEW n \in Nodes, settled[s][n].status = "fulfilled"
  PROVE  LET item == settled[s][n].item
         IN /\ item.node = n /\ item.uuid = disk[n].uuid /\ item.seqno \in Positions(n)
            /\ item.galera \in {disk[n].uuid, Absent, NoGalera} /\ item.active \in BOOLEAN
<1>1. settled[s][n] \in Results(n)
  BY DEF CollectionInv, CollectionsTyped
<1>2. PICK item \in ReportedItems(n) : settled[s][n] = Fulfilled(item)
  BY <1>1 DEF Results, Pending, Rejected
<1>3. settled[s][n].item = item
  BY <1>2 DEF Fulfilled
<1> QED
  BY <1>3 DEF ReportedItems

\* A state file that was read has a uuid and an integer seqno.
LEMMA DiskIsTyped ==
  ASSUME CollectionInv, NEW n \in Nodes
  PROVE  disk[n].uuid # NoUuid /\ disk[n].seqno \in Int /\ n \in Nat
  BY EvidenceAssumption DEF CollectionInv, MembersTyped, EvidenceAssumption

\* The members that hold a history.
Holders(u) == {n \in Nodes : disk[n].uuid = u}

\* A complete collection counts every member once, under its own history.
LEMMA CompleteCollection ==
  ASSUME CollectionInv, NEW s \in Supervisors, \A n \in Nodes : settled[s][n].status = "fulfilled"
  PROVE  /\ Comparable(Evidence(s))
         /\ Histories(Evidence(s)) = {disk[n].uuid : n \in Nodes}
         /\ \A u : Cardinality(Candidates(Evidence(s), u)) = Cardinality(Holders(u))
<1> DEFINE E == Evidence(s)
           item(n) == settled[s][n].item
           f == [n \in Nodes |-> item(n)]
<1>1. E = {item(n) : n \in Nodes}
  BY DEF Evidence
<1>2. \A n \in Nodes : /\ item(n).node = n /\ item(n).uuid = disk[n].uuid
                       /\ item(n).seqno \in Int /\ n \in Nat
  BY EvidenceIsTrue, DiskIsTyped DEF Positions
<1> HIDE DEF item, E
<1>3. IsFiniteSet(E)
  <2>1. f \in [Nodes -> E] /\ \A y \in E : \E n \in Nodes : f[n] = y
    BY <1>1
  <2>2. IsFiniteSet(Nodes)
    BY EvidenceAssumption DEF EvidenceAssumption
  <2> HIDE DEF f
  <2> QED
    BY <2>1, <2>2, ImageIsFinite
<1>4. Comparable(E)
  BY <1>1, <1>2, <1>3 DEF Comparable
<1>5. Histories(E) = {disk[n].uuid : n \in Nodes}
  BY <1>1, <1>2 DEF Histories
<1>6. ASSUME NEW u PROVE Cardinality(Candidates(E, u)) = Cardinality(Holders(u))
  <2> DEFINE C == Candidates(E, u)
             H == Holders(u)
             g == [n \in H |-> item(n)]
  <2>1. H \in SUBSET Nodes /\ \A n \in H : disk[n].uuid = u
    BY DEF Holders
  <2>2. \A n \in H : item(n) \in C
    BY <1>1, <1>2, <2>1 DEF Candidates
  <2>3. \A y \in C : \E n \in H : item(n) = y
    BY <1>1, <1>2 DEF Candidates, Holders
  <2>4. \A n, m \in H : item(n) = item(m) => n = m
    BY <1>2, <2>1
  <2>5. IsFiniteSet(H)
    BY <2>1, EvidenceAssumption, FS_Subset DEF EvidenceAssumption
  <2> HIDE DEF C, H
  <2>6. g \in [H -> C]
    BY <2>2
  <2>7. (\A y \in C : \E n \in H : g[n] = y) /\ \A n, m \in H : g[n] = g[m] => n = m
    BY <2>3, <2>4
  <2> HIDE DEF g
  <2>8. g \in Bijection(H, C)
    BY <2>6, <2>7 DEF Bijection, Injection, Surjection, IsInjective
  <2>9. ExistsBijection(H, C)
    BY <2>8 DEF ExistsBijection
  <2> QED
    BY <2>5, <2>9, FS_Bijection DEF C, H
<1> QED
  BY <1>4, <1>5, <1>6 DEF E

\* A majority is one member at least.
LEMMA MajorityIsPositive == MajorityOf(Nodes) \in Nat /\ MajorityOf(Nodes) >= 1
<1>1. Cardinality(Nodes) \in Nat
  BY EvidenceAssumption, FS_CardinalityType DEF EvidenceAssumption
<1> QED
  BY <1>1 DEF MajorityOf

\* What the winner of a bootstrap is in the evidence it was elected from.
LEMMA BootstrapWinner ==
  ASSUME CollectionInv, NEW s \in Supervisors, ConcludesBootstrap(s)
  PROVE  \E u \in Histories(Evidence(s)) :
           /\ verdict[s].winner = WinnerOf(Evidence(s), u)
           /\ verdict[s].epoch.clusterId = u
           /\ Strongest(Evidence(s)) = {u}
           /\ Cardinality(Candidates(Evidence(s), u)) >= MajorityOf(Nodes)
<1> DEFINE decision == SelectCandidate(Evidence(s), MajorityOf(Nodes))
<1>1. /\ \A n \in Nodes : settled[s][n].status = "fulfilled"
      /\ decision.eligible /\ verdict[s] = Bootstrap(decision, Evidence(s))
  BY BootstrapIsElected
<1>2. Comparable(Evidence(s))
  BY <1>1, CompleteCollection
<1>3. PICK u \in Histories(Evidence(s)) :
        /\ decision = Elected(WinnerOf(Evidence(s), u), u)
        /\ Strongest(Evidence(s)) = {u}
        /\ Cardinality(Candidates(Evidence(s), u)) >= MajorityOf(Nodes)
  BY <1>1, <1>2, MajorityIsPositive, ElectedIsStrongest
<1> HIDE DEF decision
<1>4. verdict[s].winner = WinnerOf(Evidence(s), u) /\ verdict[s].epoch.clusterId = u
  BY <1>1, <1>3 DEF Bootstrap, Elected, EpochOf
<1> QED
  BY <1>3, <1>4

\* A supervisor that concludes a bootstrap names a member as the winner.
LEMMA WinnerIsMember ==
  ASSUME CollectionInv, NEW s \in Supervisors, ConcludesBootstrap(s)
  PROVE  verdict[s].winner \in Nodes
<1>1. PICK u \in Histories(Evidence(s)) : verdict[s].winner = WinnerOf(Evidence(s), u)
  BY BootstrapWinner
<1>2. \A n \in Nodes : settled[s][n].status = "fulfilled"
  BY BootstrapIsElected
<1>3. Comparable(Evidence(s))
  BY <1>2, CompleteCollection
<1>4. PICK item \in Candidates(Evidence(s), u) : item.node = WinnerOf(Evidence(s), u)
  BY <1>3, WinnerIsHighest
<1>5. PICK n \in Nodes : item = settled[s][n].item
  BY <1>4 DEF Candidates, Evidence
<1> QED
  BY <1>1, <1>2, <1>4, <1>5, EvidenceIsTrue

\* The position of a history over all members, and who is first to have it.
HighestHeld(u) == Max({disk[n].seqno : n \in Holders(u)})
FirstHolder(u) == Min({n \in Holders(u) : disk[n].seqno = HighestHeld(u)})

\* A collection is exact when every member stands where it was reported.
Exact(s) == \A n \in Nodes : settled[s][n].item.seqno = disk[n].seqno

\* A complete and exact collection ranks the histories as the data directories
\* themselves do.
LEMMA CollectionRanksDirectories ==
  ASSUME CollectionInv, NEW s \in Supervisors, Exact(s),
         \A n \in Nodes : settled[s][n].status = "fulfilled"
  PROVE  \A u : /\ Highest(Evidence(s), u) = HighestHeld(u)
                /\ WinnerOf(Evidence(s), u) = FirstHolder(u)
<1> DEFINE E == Evidence(s)
           item(n) == settled[s][n].item
<1>1. E = {item(n) : n \in Nodes}
  BY DEF Evidence
<1>2. \A n \in Nodes :
        item(n).node = n /\ item(n).uuid = disk[n].uuid /\ item(n).seqno = disk[n].seqno
  BY EvidenceIsTrue DEF Exact
<1> HIDE DEF item, E
<1>3. ASSUME NEW u PROVE Highest(E, u) = HighestHeld(u) /\ WinnerOf(E, u) = FirstHolder(u)
  <2>1. Candidates(E, u) = {item(n) : n \in Holders(u)}
    BY <1>1, <1>2 DEF Candidates, Holders
  <2>2. Holders(u) \subseteq Nodes
    BY DEF Holders
  <2>3. {state.seqno : state \in Candidates(E, u)} = {disk[n].seqno : n \in Holders(u)}
    BY <1>2, <2>1, <2>2
  <2>4. Highest(E, u) = HighestHeld(u)
    BY <2>3 DEF Highest, HighestHeld
  <2>5. {state.node : state \in {c \in Candidates(E, u) : c.seqno = Highest(E, u)}}
          = {n \in Holders(u) : disk[n].seqno = HighestHeld(u)}
    BY <1>2, <2>1, <2>2, <2>4
  <2> QED
    BY <2>4, <2>5 DEF WinnerOf, FirstHolder
<1> QED
  BY <1>3 DEF E

-----------------------------------------------------------------------------
(* Theorems                                                                 *)

\* For any instance: the collections and verdicts have the form the code gives
\* them, and a winner is named, a configured member, exactly to bootstrap.
LEMMA CollectionsAreTyped == CollectionInv => TypeOK
<1> SUFFICES ASSUME CollectionInv PROVE TypeOK
  OBVIOUS
<1>1. ASSUME NEW s \in Supervisors, NEW n \in Nodes
      PROVE  settled[s][n].status \in {"pending", "fulfilled", "rejected"}
  BY DEF CollectionInv, CollectionsTyped, Results, Pending, Rejected, Fulfilled
<1>2. ASSUME NEW s \in Supervisors
      PROVE  /\ verdict[s].mode \in {"none", "join", "blocked", "bootstrap"}
             /\ verdict[s].mode # "bootstrap" => verdict[s].winner = NoWinner
  <2>1. CASE verdict[s] = NoVerdict
    BY <2>1 DEF NoVerdict
  <2>2. CASE verdict[s] # NoVerdict
    <3>1. verdict[s] \in Verdicts(s)
      BY <2>2 DEF CollectionInv, VerdictsFollow
    <3>2. \/ verdict[s] = Join \/ \E code : verdict[s] = Blocked(code)
          \/ \E decision : verdict[s] = Bootstrap(decision, Evidence(s))
      BY <3>1 DEF Verdicts, PartialVerdicts, CompleteVerdict
    <3>3. CASE verdict[s] = Join
      BY <3>3 DEF Join
    <3>4. ASSUME NEW code, verdict[s] = Blocked(code)
          PROVE  verdict[s].mode = "blocked" /\ verdict[s].winner = NoWinner
      BY <3>4 DEF Blocked
    <3>5. ASSUME NEW decision, verdict[s] = Bootstrap(decision, Evidence(s))
          PROVE  verdict[s].mode = "bootstrap"
      BY <3>5 DEF Bootstrap
    <3> QED
      BY <3>2, <3>3, <3>4, <3>5
  <2> QED
    BY <2>1, <2>2
<1>3. \A s \in Supervisors : verdict[s].mode = "bootstrap" => verdict[s].winner \in Nodes
  BY WinnerIsMember DEF ConcludesBootstrap
<1>4. \A n \in Nodes, handler \in Handlers :
        recovered[n][handler].status \in {"unread", "failed", "found"}
  BY DEF CollectionInv, MemoriesTyped, Memories, Unread, Failed, Position
<1> QED
  BY <1>1, <1>2, <1>3, <1>4 DEF TypeOK, CollectionInv, MembersTyped

\* Every variable of the collections keeps its type, the verdicts included.
THEOREM CollectionTypeCorrect == Spec => []TypeOK
  BY CollectionInvariance, CollectionsAreTyped, PTL

\* A Primary that is joined is of the history of the own data directory.
LEMMA JoinFollowsOwnDirectory == CollectionInv => JoinsOwnHistory
<1> SUFFICES ASSUME CollectionInv, NEW s \in Supervisors, verdict[s].mode = "join",
                    settled[s][s].status = "fulfilled"
             PROVE  \E item \in Evidence(s) : item.active /\ item.galera = disk[s].uuid
  BY DEF JoinsOwnHistory
<1> DEFINE own == settled[s][s].item
           uuidOf(item) == IF item.galera \in {Absent, NoGalera} THEN item.uuid ELSE item.galera
<1>1. verdict[s] # NoVerdict
  BY DEF NoVerdict
<1>2. verdict[s] \in Verdicts(s)
  BY <1>1 DEF CollectionInv, VerdictsFollow
<1>3. /\ \A code : Blocked(code).mode # "join"
      /\ \A decision : Bootstrap(decision, Evidence(s)).mode # "join"
  BY DEF Blocked, Bootstrap
<1>4. PICK item \in Evidence(s) : IsActivePrimary(s, item)
  BY <1>2, <1>3 DEF Verdicts, PartialVerdicts, CompleteVerdict
<1>5. s \in Nodes
  BY EvidenceAssumption DEF EvidenceAssumption
<1>6. own \in Evidence(s)
  BY <1>5 DEF Evidence
<1>7. own.node = s /\ own.uuid = disk[s].uuid /\ own.galera \in {disk[s].uuid, Absent, NoGalera}
  BY <1>5, EvidenceIsTrue
<1>8. uuidOf(own) = disk[s].uuid /\ disk[s].uuid # NoUuid
  BY <1>5, <1>7, DiskIsTyped
<1>9. disk[s].uuid \in LocalUuid(s)
  <2> HIDE DEF own
  <2> QED
    BY <1>6, <1>7, <1>8 DEF LocalUuid
<1> QED
  BY <1>4, <1>9 DEF IsActivePrimary

\* For any instance: a supervisor that could read its own data directory joins
\* a Primary of the history in it, never one of another cluster.
THEOREM OwnHistoryJoined == Spec => []JoinsOwnHistory
  BY CollectionInvariance, JoinFollowsOwnDirectory, PTL

\* In every state the invariant allows, a history that was elected is held by a majority,
LEMMA BootstrapHasMajority == CollectionInv => MajorityHoldsTheHistory
<1> SUFFICES ASSUME CollectionInv, NEW s \in Supervisors, ConcludesBootstrap(s)
             PROVE  Cardinality(Holders(verdict[s].epoch.clusterId)) >= MajorityOf(Nodes)
  BY DEF MajorityHoldsTheHistory, Holders
<1>1. PICK u \in Histories(Evidence(s)) :
        /\ verdict[s].epoch.clusterId = u
        /\ Cardinality(Candidates(Evidence(s), u)) >= MajorityOf(Nodes)
  BY BootstrapWinner
<1>2. \A n \in Nodes : settled[s][n].status = "fulfilled"
  BY BootstrapIsElected
<1> QED
  BY <1>1, <1>2, CompleteCollection

\* For any number of members: the history a supervisor bootstraps is in the
\* data directories of a majority of them, whatever it saw running.
THEOREM MajorityHistory == Spec => []MajorityHoldsTheHistory
  BY CollectionInvariance, BootstrapHasMajority, PTL

\* no member that stands where it was reported is ahead of an elected winner,
LEMMA WinnerIsAhead == CollectionInv => HighestPositionWins
<1> SUFFICES ASSUME CollectionInv, NEW s \in Supervisors, NEW n \in Nodes,
                    ConcludesBootstrap(s), n \in Movers => ~Misreported(s, n)
             PROVE  disk[n].seqno <= disk[verdict[s].winner].seqno
  BY DEF HighestPositionWins
<1> DEFINE E == Evidence(s)
<1>1. PICK u \in Histories(E) : verdict[s].winner = WinnerOf(E, u) /\ Strongest(E) = {u}
  BY BootstrapWinner
<1>2. \A m \in Nodes : settled[s][m].status = "fulfilled"
  BY BootstrapIsElected
<1>3. Comparable(E)
  BY <1>2, CompleteCollection
<1>4. \A m \in Nodes : /\ settled[s][m].item \in E
                       /\ settled[s][m].item.node = m
                       /\ settled[s][m].item.uuid = disk[m].uuid
                       /\ settled[s][m].item.seqno \in Positions(m)
  BY <1>2, EvidenceIsTrue DEF Evidence
<1>5. PICK w \in Candidates(E, u) : w.node = WinnerOf(E, u) /\ w.seqno = Highest(E, u)
  BY <1>3, WinnerIsHighest
<1>6. PICK m \in Nodes : w = settled[s][m].item
  BY <1>5 DEF Candidates, Evidence
<1>7. Highest(E, u) <= disk[verdict[s].winner].seqno /\ disk[verdict[s].winner].seqno \in Int
  <2>1. verdict[s].winner = m /\ Highest(E, u) \in Positions(m)
    BY <1>1, <1>4, <1>5, <1>6
  <2> QED
    BY <2>1, DiskIsTyped DEF Positions
<1> DEFINE v == disk[n].uuid
<1>8. v \in Histories(E) /\ settled[s][n].item \in Candidates(E, v)
  BY <1>4 DEF Histories, Candidates
<1>9. settled[s][n].item.seqno = disk[n].seqno
  BY <1>2, <1>4 DEF Misreported, Positions
<1>10. disk[n].seqno <= Highest(E, v) /\ Highest(E, v) \in Int /\ Highest(E, u) \in Int
  BY <1>3, <1>8, <1>9, HighestIsReached
<1>11. ~(Highest(E, v) > Highest(E, u))
  <2>1. u \in Strongest(E)
    BY <1>1
  <2>2. ~Outranks(E, v, u)
    BY <1>8, <2>1 DEF Strongest
  <2> QED
    BY <2>2 DEF Outranks
<1>12. disk[n].seqno \in Int
  BY DiskIsTyped
<1> HIDE DEF E, v
<1> QED
  BY <1>7, <1>10, <1>11, <1>12

\* For any instance: only a member on which mariadbd runs, or has run since its
\* position was read, can be ahead of the winner.
THEOREM WinnerIsNeverBehind == Spec => []HighestPositionWins
  BY CollectionInvariance, WinnerIsAhead, PTL

\* Two histories that a majority holds each are one.
LEMMA MajorityHistoriesAgree ==
  ASSUME CollectionInv, NEW u, NEW v,
         Cardinality(Holders(u)) >= MajorityOf(Nodes),
         Cardinality(Holders(v)) >= MajorityOf(Nodes)
  PROVE  u = v
<1>1. IsFiniteSet(Nodes) /\ Cardinality(Nodes) \in Nat
  BY EvidenceAssumption, FS_CardinalityType DEF EvidenceAssumption
<1>2. Holders(u) \subseteq Nodes /\ Holders(v) \subseteq Nodes
  BY DEF Holders
<1>3. Cardinality(Holders(u)) \in Nat /\ Cardinality(Holders(v)) \in Nat
  BY <1>1, <1>2, FS_Subset, FS_CardinalityType
<1>4. Cardinality(Holders(u)) + Cardinality(Holders(v)) > Cardinality(Nodes)
  BY <1>1, <1>3 DEF MajorityOf
<1>5. Holders(u) \cap Holders(v) # {}
  BY <1>1, <1>2, <1>4, FS_MajoritiesIntersect
<1> QED
  BY <1>5 DEF Holders

\* and two supervisors that elect name one cluster, and one winner if both
\* were told where the members stand.
LEMMA ElectionsAgree == CollectionInv => WinnersAgree
<1> SUFFICES ASSUME CollectionInv, NEW s \in Supervisors, NEW t \in Supervisors,
                    ConcludesBootstrap(s), ConcludesBootstrap(t)
             PROVE  /\ verdict[s].epoch.clusterId = verdict[t].epoch.clusterId
                    /\ \/ verdict[s].winner = verdict[t].winner
                       \/ \E n \in Movers : Misreported(s, n) \/ Misreported(t, n)
  BY DEF WinnersAgree
<1>1. verdict[s].epoch.clusterId = verdict[t].epoch.clusterId
  <2>1. MajorityHoldsTheHistory
    BY BootstrapHasMajority
  <2>2. /\ Cardinality(Holders(verdict[s].epoch.clusterId)) >= MajorityOf(Nodes)
        /\ Cardinality(Holders(verdict[t].epoch.clusterId)) >= MajorityOf(Nodes)
    BY <2>1 DEF MajorityHoldsTheHistory, Holders
  <2> QED
    BY <2>2, MajorityHistoriesAgree
<1>2. SUFFICES ASSUME \A n \in Movers : ~Misreported(s, n) /\ ~Misreported(t, n)
               PROVE  verdict[s].winner = verdict[t].winner
  BY <1>1
<1>3. \A n \in Nodes : settled[s][n].status = "fulfilled" /\ settled[t][n].status = "fulfilled"
  BY BootstrapIsElected
<1>4. Exact(s) /\ Exact(t)
  <2>1. \A n \in Nodes : settled[s][n].item.seqno \in Positions(n)
                        /\ settled[t][n].item.seqno \in Positions(n)
    BY <1>3, EvidenceIsTrue
  <2> QED
    BY <1>2, <1>3, <2>1 DEF Exact, Misreported, Positions
<1>5. PICK u : verdict[s].winner = WinnerOf(Evidence(s), u) /\ verdict[s].epoch.clusterId = u
  BY BootstrapWinner
<1>6. PICK v : verdict[t].winner = WinnerOf(Evidence(t), v) /\ verdict[t].epoch.clusterId = v
  BY BootstrapWinner
<1>7. WinnerOf(Evidence(s), u) = FirstHolder(u) /\ WinnerOf(Evidence(t), v) = FirstHolder(v)
  BY <1>3, <1>4, CollectionRanksDirectories
<1> QED
  BY <1>1, <1>5, <1>6, <1>7

\* For any number of supervisors, each collecting at its own time, whatever
\* mariadbd does meanwhile: those that bootstrap name one cluster, and one
\* member unless one of them was told a position that its member has left.
THEOREM SameWinner == Spec => []WinnersAgree
  BY CollectionInvariance, ElectionsAgree, PTL

=============================================================================
