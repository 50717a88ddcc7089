---------------------- MODULE SupervisorStartup_proofs ----------------------
(***************************************************************************)
(* Proofs about SupervisorStartup for every set of members and epochs and  *)
(* any number of starts: the invariant StartupInv and what follows from    *)
(* it.  The lemmas follow the parts of StartupInv; each takes the actions  *)
(* that meet its variables one by one, and the others together.            *)
(***************************************************************************)
EXTENDS SupervisorStartup, TLAPS

-----------------------------------------------------------------------------
(* The operators                                                            *)

\* What RecoveryState.set leaves is a recovery state, with an epoch or without.
LEMMA SetType ==
  ASSUME NEW held \in Recoveries, NEW next \in RecoveryStates,
         NEW epoch \in Epochs \cup {Undefined, Null}
  PROVE  Set(held, next, epoch) \in Recoveries
  BY DEF Set, Recoveries

\* Where nothing but the epoch of the decision is ever set, a call is ignored
\* only to protect a completion.
LEMMA SetStarted ==
  ASSUME NEW held \in Recoveries, NEW epoch \in Epochs \cup {Undefined, Null},
         held.epoch \in {Undefined, epoch}, NEW next \in RecoveryStates
  PROVE  /\ Set(held, next, epoch).epoch \in {Undefined, epoch}
         /\ \/ /\ Set(held, next, epoch).state = next
               /\ epoch \in Epochs => Set(held, next, epoch).epoch = epoch
            \/ /\ held.state = "complete" /\ next = "cluster-unavailable"
               /\ Set(held, next, epoch) = held
         /\ held.epoch = epoch /\ held.state = "complete" /\ next = "cluster-unavailable"
              => Set(held, next, epoch) = held
  BY StartupAssumption DEF Set, Ignores, Recoveries, StartupAssumption, Undefined, Null

\* The values that the startup sets, and the epoch it sets with them.
LEMMA Values ==
  ASSUME TypeOK, NEW n \in Supervisors
  PROVE  /\ {"pending", "collecting-evidence", "awaiting-quorum", "recovery-authorized",
             "bootstrapping", "joining", "complete", "cluster-unavailable",
             "blocked-ambiguous"} \subseteq RecoveryStates
         /\ n \in Members
         /\ Epochs \subseteq Epochs \cup {Undefined, Null}
         /\ recovery[n] \in Recoveries
         /\ decision[n] \in Decisions
         /\ decision[n].epoch \in Epochs \cup {Null}
         /\ decision[n].epoch \in Epochs \cup {Undefined, Null}
         /\ decision[n].winner \in Members \cup {Nobody}
         /\ [decision[n] EXCEPT !.mode = "join"] \in Decisions
         /\ Fresh \in Recoveries
         /\ Undecided \in Decisions
  BY StartupAssumption
     DEF TypeOK, RecoveryStates, Recoveries, Decisions, Fresh, Undecided, Decided,
         StartupAssumption

\* A change of the recovery state keeps its type.
LEMMA SetsType ==
  ASSUME TypeOK, NEW n \in Supervisors, NEW next \in RecoveryStates,
         NEW epoch \in Epochs \cup {Undefined, Null}, Sets(n, next, epoch)
  PROVE  recovery' \in [Supervisors -> Recoveries]
<1>1. recovery[n] \in Recoveries
  BY Values
<1>2. Set(recovery[n], next, epoch) \in Recoveries
  BY <1>1, SetType
<1>3. QED
  BY <1>2 DEF Sets, TypeOK

\* So does a decision.
LEMMA DecidesType ==
  ASSUME TypeOK, NEW n \in Supervisors, NEW choice \in Decisions, Decides(n, choice)
  PROVE  decision' \in [Supervisors -> Decisions]
  BY DEF Decides, TypeOK

\* A decision is well formed.
LEMMA DecisionType ==
  ASSUME NEW mode \in {"none", "blocked", "bootstrap", "join", "rejoin"},
         NEW winner \in Members \cup {Nobody}, NEW epoch \in Epochs \cup {Null},
         NEW expected \in Sizes \cup {2}, NEW explicit \in BOOLEAN
  PROVE  Decided(mode, winner, epoch, expected, explicit) \in Decisions
  BY DEF Decided, Decisions

\* A member that falls back is left without a winner to bootstrap or to follow.
LEMMA FallbackType ==
  ASSUME NEW n, NEW epoch \in Epochs \cup {Null}
  PROVE  /\ Fallback(n, epoch) \in Decisions
         /\ Fallback(n, epoch).epoch = epoch
         /\ Fallback(n, epoch).mode \in {"rejoin", "blocked"}
         /\ Fallback(n, epoch).mode = "blocked" => n \notin initialized
  BY DEF Fallback, Decided, Decisions

-----------------------------------------------------------------------------
(* The steps                                                                *)

\* Every way in which a supervisor goes down.
GoesDown(n) ==
  /\ Gone(n)
  /\ marker' \in {marker, marker \cup {n}}
  /\ UNCHANGED <<listens, starts, initialized, leases, promoted>>

\* The other steps of a supervisor.
Steps(n) ==
  \/ Start(n) \/ JoinAfterCleanRestart(n) \/ PlanJoin(n) \/ PlanBootstrap(n)
  \/ PlanBlocked(n) \/ (\E m \in Members : Claim(n, m)) \/ AuthorizationFails(n)
  \/ Authorized(n) \/ ObserveCompletion(n) \/ CompletionTimesOut(n) \/ Launch(n)
  \/ Handoff(n) \/ Spawned(n) \/ SqlAnswers(n) \/ SqlTimesOut(n) \/ Verify(n)
  \/ WatchReady(n) \/ ConfirmJoin(n) \/ ConfirmBootstrap(n) \/ CompletionRefused(n)
  \/ WatchTimesOut(n)

\* A step is one of a supervisor, or of a member of the cluster.
LEMMA NextSteps ==
  ASSUME Next
  PROVE  \/ \E n \in Supervisors : Steps(n) \/ GoesDown(n)
         \/ \E m \in Members : BecomesPrimary(m) \/ LosesPrimary(m)
<1>1. ASSUME NEW n \in Supervisors, Prepare(n)
      PROVE  Steps(n) \/ GoesDown(n)
  BY <1>1 DEF Prepare, Steps, GoesDown, PlanFails, PromotionFails, ShutsDown
<1>2. ASSUME NEW n \in Supervisors, Continue(n)
      PROVE  Steps(n) \/ GoesDown(n)
  BY <1>2 DEF Continue, Steps, GoesDown, VerificationFails, ShutsDown
<1>3. ASSUME NEW n \in Supervisors, Watch(n)
      PROVE  Steps(n) \/ GoesDown(n)
  BY <1>3 DEF Watch, Steps, GoesDown, LaunchFails, ShutsDown
<1>4. ASSUME NEW n \in Supervisors, Start(n) \/ Handoff(n) \/ Exits(n) \/ Crash(n) \/ Terminates(n)
      PROVE  Steps(n) \/ GoesDown(n)
  BY <1>4 DEF Steps, GoesDown, Exits, Crash, Terminates, ShutsDown
<1>5. QED
  BY <1>1, <1>2, <1>3, <1>4 DEF Next, Environment

-----------------------------------------------------------------------------
\* Every step keeps the types.
LEMMA TypeStep ==
  ASSUME StartupInv, [Next]_vars
  PROVE  TypeOK'
<1>1. TypeOK /\ Stages
  BY DEF StartupInv
<1>2. ASSUME NEW n \in Supervisors,
             JoinAfterCleanRestart(n)
      PROVE  TypeOK'
  BY <1>1, <1>2, DecisionType, DecidesType
     DEF JoinAfterCleanRestart, Goes, Preparing, Claiming, TypeOK
<1>3. ASSUME NEW n \in Supervisors,
             PlanBlocked(n)
      PROVE  TypeOK'
  BY <1>1, <1>3, Values, SetsType, FallbackType, DecidesType
     DEF PlanBlocked, Goes, Preparing, Claiming, TypeOK
<1>4. ASSUME NEW n \in Supervisors,
             AuthorizationFails(n)
      PROVE  TypeOK'
  BY <1>1, <1>4, Values, SetsType, FallbackType, DecidesType
     DEF AuthorizationFails, Forgets, Goes, Claiming, TypeOK
<1>5. ASSUME NEW n \in Supervisors,
             Authorized(n)
      PROVE  TypeOK'
  BY <1>1, <1>5, Values, SetsType
     DEF Authorized, Forgets, Goes, Claiming, TypeOK
<1>6. ASSUME NEW n \in Supervisors,
             ObserveCompletion(n)
      PROVE  TypeOK'
  BY <1>1, <1>6, Values, DecidesType
     DEF ObserveCompletion, Goes, Preparing, Claiming, TypeOK
<1>7. ASSUME NEW n \in Supervisors,
             CompletionTimesOut(n)
      PROVE  TypeOK'
  BY <1>1, <1>7, Values, SetsType, FallbackType, DecidesType
     DEF CompletionTimesOut, Goes, Preparing, Claiming, TypeOK
<1>8. ASSUME NEW n \in Supervisors,
             Launch(n)
      PROVE  TypeOK'
  BY <1>1, <1>8, Values, SetsType
     DEF Launch, Goes, TypeOK
<1>9. ASSUME NEW n \in Supervisors,
             Spawned(n)
      PROVE  TypeOK'
  BY <1>1, <1>9, Values, SetsType
     DEF Spawned, Watches, Continuing, TypeOK
<1>10. ASSUME NEW n \in Supervisors,
             Verify(n)
      PROVE  TypeOK'
  BY <1>1, <1>10, Values, SetsType
     DEF Verify, Goes, Continuing, TypeOK
<1>11. ASSUME NEW n \in Supervisors,
             ConfirmJoin(n)
      PROVE  TypeOK'
  BY <1>1, <1>11, Values, SetsType
     DEF ConfirmJoin, Watches, Continuing, TypeOK
<1>12. ASSUME NEW n \in Supervisors,
             ConfirmBootstrap(n)
      PROVE  TypeOK'
  BY <1>1, <1>12, Values, SetsType
     DEF ConfirmBootstrap, Published, Watches, Continuing, TypeOK
<1>13. ASSUME NEW n \in Supervisors,
             CompletionRefused(n)
      PROVE  TypeOK'
  BY <1>1, <1>13, Values, SetsType
     DEF CompletionRefused, Watches, Continuing, TypeOK
<1>14. ASSUME NEW n \in Supervisors,
             WatchTimesOut(n)
      PROVE  TypeOK'
  BY <1>1, <1>14, Values, SetsType
     DEF WatchTimesOut, Watches, Continuing, TypeOK
<1>15. ASSUME NEW n \in Supervisors,
             GoesDown(n)
      PROVE  TypeOK'
  BY <1>1, <1>15, Values
     DEF GoesDown, TypeOK, Gone
<1>16. ASSUME NEW n \in Supervisors, Start(n)
      PROVE  TypeOK'
  <2>1. starts' \in 0..MaxStarts
    BY <1>1, <1>16, StartupAssumption DEF Start, TypeOK, StartupAssumption
  <2>2. recovery' \in [Supervisors -> Recoveries]
    BY <1>1, <1>16, Values, SetsType DEF Start
  <2>3. QED
    BY <1>1, <1>16, <2>1, <2>2 DEF Start, Goes, TypeOK
<1>17. ASSUME NEW n \in Supervisors, NEW m \in Members, Claim(n, m)
      PROVE  TypeOK'
  <2>1. [winner |-> n, epoch |-> decision[n].epoch] \in Leases
    BY <1>1, <1>17 DEF Claim, Stages, Leases
  <2>2. leases' \in [Members -> Leases]
    BY <1>1, <1>17, <2>1 DEF Claim, TypeOK
  <2>3. QED
    BY <1>1, <1>17, <2>2 DEF Claim, TypeOK
<1>18. ASSUME NEW n \in Supervisors, PlanJoin(n)
      PROVE  TypeOK'
  <2>1. PICK size \in Sizes : Decides(n, Decided("join", Nobody, Null, size, FALSE))
    BY <1>18 DEF PlanJoin
  <2>2. decision' \in [Supervisors -> Decisions]
    BY <1>1, <2>1, DecisionType, DecidesType
  <2>3. QED
    BY <1>1, <1>18, <2>2, Values, SetsType DEF PlanJoin, Goes, Preparing, Claiming, TypeOK
<1>19. ASSUME NEW n \in Supervisors, PlanBootstrap(n)
      PROVE  TypeOK'
  <2>1. PICK winner \in Members, epoch \in Epochs :
          /\ Decides(n, Decided("bootstrap", winner, epoch, 2, FALSE))
          /\ Sets(n, "awaiting-quorum", epoch)
          /\ Goes(n, IF winner = n THEN "claiming" ELSE "waiting")
    BY <1>19 DEF PlanBootstrap
  <2>2. decision' \in [Supervisors -> Decisions]
    BY <1>1, <2>1, DecisionType, DecidesType
  <2>3. recovery' \in [Supervisors -> Recoveries]
    BY <1>1, <2>1, Values, SetsType
  <2>4. QED
    BY <1>1, <1>19, <2>1, <2>2, <2>3 DEF PlanBootstrap, Goes, Preparing, Claiming, TypeOK
<1>20. ASSUME NEW n \in Supervisors, Handoff(n)
      PROVE  TypeOK'
  <2>1. PICK mode \in {"bootstrap", "join"} :
          Decides(n, Explicit(n, mode))
    BY <1>20 DEF Handoff
  <2>2. (IF mode = "bootstrap" THEN n ELSE Nobody) \in Members \cup {Nobody}
    BY <1>1, Values
  <2>3. decision' \in [Supervisors -> Decisions]
    BY <1>1, <2>1, <2>2, DecisionType, DecidesType DEF Explicit
  <2>4. QED
    BY <1>1, <1>20, <2>3, Values DEF Handoff, Goes, TypeOK
<1>21. ASSUME NEW n \in Supervisors,
             SqlAnswers(n) \/ SqlTimesOut(n) \/ WatchReady(n)
      PROVE  TypeOK'
  BY <1>1, <1>21
     DEF SqlAnswers, Goes, Continuing, SqlTimesOut, WatchReady, Watches,
         TypeOK
<1>22. ASSUME NEW m \in Members, BecomesPrimary(m) \/ LosesPrimary(m)
      PROVE  TypeOK'
  BY <1>1, <1>22
     DEF BecomesPrimary, LosesPrimary, Outside, control, TypeOK
<1>23. CASE UNCHANGED vars
  BY <1>1, <1>23
     DEF vars, control, TypeOK
<1>24. QED
  BY <1>2, <1>3, <1>4, <1>5, <1>6, <1>7, <1>8, <1>9, <1>10, <1>11, <1>12, <1>13, <1>14, <1>15, <1>16, <1>17, <1>18, <1>19, <1>20, <1>21, <1>22, <1>23, NextSteps DEF Steps

\* A lease that is counted is never given to another.
LEMMA LeaseStep ==
  ASSUME StartupInv, [Next]_vars
  PROVE  CountsOwnLeases' /\ PromotedHoldsLeases'
<1>1. TypeOK /\ CountsOwnLeases /\ PromotedHoldsLeases
  BY DEF StartupInv
<1>2. ASSUME NEW n \in Supervisors,
             (\E m \in Members : Claim(n, m))
      PROVE  CountsOwnLeases' /\ PromotedHoldsLeases'
  BY <1>1, <1>2, StartupAssumption
     DEF Claim, Grantable, FreeLease, TypeOK, StartupAssumption,
         CountsOwnLeases, PromotedHoldsLeases
<1>3. ASSUME NEW n \in Supervisors,
             AuthorizationFails(n)
      PROVE  CountsOwnLeases' /\ PromotedHoldsLeases'
  BY <1>1, <1>3
     DEF AuthorizationFails, Decides, Sets, Forgets, Goes, Claiming, TypeOK,
         CountsOwnLeases, PromotedHoldsLeases
<1>4. ASSUME NEW n \in Supervisors,
             Authorized(n)
      PROVE  CountsOwnLeases' /\ PromotedHoldsLeases'
  BY <1>1, <1>4
     DEF Authorized, Sets, Forgets, Goes, Claiming, Authorizes, TypeOK,
         CountsOwnLeases, PromotedHoldsLeases
<1>5. ASSUME NEW n \in Supervisors,
             GoesDown(n)
      PROVE  CountsOwnLeases' /\ PromotedHoldsLeases'
  BY <1>1, <1>5
     DEF GoesDown, TypeOK, CountsOwnLeases, PromotedHoldsLeases, Gone
<1>6. ASSUME NEW n \in Supervisors,
             Start(n) \/ JoinAfterCleanRestart(n) \/ PlanJoin(n)
             \/ PlanBootstrap(n) \/ PlanBlocked(n) \/ ObserveCompletion(n)
             \/ CompletionTimesOut(n) \/ Launch(n) \/ Handoff(n) \/ Spawned(n)
             \/ SqlAnswers(n) \/ SqlTimesOut(n) \/ Verify(n) \/ WatchReady(n)
             \/ ConfirmJoin(n) \/ ConfirmBootstrap(n) \/ CompletionRefused(n)
             \/ WatchTimesOut(n)
      PROVE  CountsOwnLeases' /\ PromotedHoldsLeases'
  BY <1>1, <1>6
     DEF Start, Sets, Goes, JoinAfterCleanRestart, Decides, Preparing,
         Claiming, PlanJoin, PlanBootstrap, PlanBlocked, ObserveCompletion,
         CompletionTimesOut, Launch, Handoff, Explicit, Spawned, Watches,
         Continuing, SqlAnswers, SqlTimesOut, Verify, WatchReady, ConfirmJoin,
         ConfirmBootstrap, Published, CompletionRefused, WatchTimesOut,
         CountsOwnLeases, PromotedHoldsLeases
<1>7. ASSUME NEW m \in Members, BecomesPrimary(m) \/ LosesPrimary(m)
      PROVE  CountsOwnLeases' /\ PromotedHoldsLeases'
  BY <1>1, <1>7
     DEF BecomesPrimary, LosesPrimary, Outside, control, CountsOwnLeases,
         PromotedHoldsLeases
<1>8. CASE UNCHANGED vars
  BY <1>1, <1>8
     DEF vars, control, CountsOwnLeases, PromotedHoldsLeases
<1>9. QED
  BY <1>2, <1>3, <1>4, <1>5, <1>6, <1>7, <1>8, NextSteps DEF Steps

\* Only a member without data is left without a way to start.
LEMMA BlockedStep ==
  ASSUME StartupInv, [Next]_vars
  PROVE  BlockedLacksData'
<1>1. TypeOK /\ BlockedLacksData
  BY DEF StartupInv
<1>2. ASSUME NEW n \in Supervisors,
             JoinAfterCleanRestart(n)
      PROVE  BlockedLacksData'
  BY <1>1, <1>2
     DEF JoinAfterCleanRestart, Decides, Goes, Preparing, Claiming, Fallback,
         Decided, TypeOK, BlockedLacksData
<1>3. ASSUME NEW n \in Supervisors,
             PlanJoin(n)
      PROVE  BlockedLacksData'
  BY <1>1, <1>3
     DEF PlanJoin, Decides, Sets, Goes, Preparing, Claiming, Fallback,
         Decided, TypeOK, BlockedLacksData
<1>4. ASSUME NEW n \in Supervisors,
             PlanBootstrap(n)
      PROVE  BlockedLacksData'
  BY <1>1, <1>4
     DEF PlanBootstrap, Decides, Sets, Goes, Preparing, Claiming, Fallback,
         Decided, TypeOK, BlockedLacksData
<1>5. ASSUME NEW n \in Supervisors,
             PlanBlocked(n)
      PROVE  BlockedLacksData'
  BY <1>1, <1>5
     DEF PlanBlocked, Decides, Sets, Goes, Preparing, Claiming, Fallback,
         Decided, TypeOK, BlockedLacksData
<1>6. ASSUME NEW n \in Supervisors,
             AuthorizationFails(n)
      PROVE  BlockedLacksData'
  BY <1>1, <1>6
     DEF AuthorizationFails, Decides, Sets, Forgets, Goes, Claiming, Fallback,
         Decided, TypeOK, BlockedLacksData
<1>7. ASSUME NEW n \in Supervisors,
             ObserveCompletion(n)
      PROVE  BlockedLacksData'
  BY <1>1, <1>7
     DEF ObserveCompletion, Decides, Goes, Preparing, Claiming, Fallback,
         Decided, TypeOK, BlockedLacksData
<1>8. ASSUME NEW n \in Supervisors,
             CompletionTimesOut(n)
      PROVE  BlockedLacksData'
  BY <1>1, <1>8
     DEF CompletionTimesOut, Decides, Sets, Goes, Preparing, Claiming,
         Fallback, Decided, TypeOK, BlockedLacksData
<1>9. ASSUME NEW n \in Supervisors,
             Handoff(n)
      PROVE  BlockedLacksData'
  BY <1>1, <1>9
     DEF Handoff, Explicit, Decides, Goes, Fallback, Decided, TypeOK,
         BlockedLacksData
<1>10. ASSUME NEW n \in Supervisors,
             GoesDown(n)
      PROVE  BlockedLacksData'
  BY <1>1, <1>10
     DEF GoesDown, Undecided, Decided, TypeOK, BlockedLacksData, Gone
<1>11. ASSUME NEW n \in Supervisors,
             Start(n) \/ (\E m \in Members : Claim(n, m)) \/ Authorized(n)
             \/ Launch(n) \/ Spawned(n) \/ SqlAnswers(n) \/ SqlTimesOut(n)
             \/ Verify(n) \/ WatchReady(n) \/ ConfirmJoin(n)
             \/ ConfirmBootstrap(n) \/ CompletionRefused(n) \/ WatchTimesOut(n)
      PROVE  BlockedLacksData'
  BY <1>1, <1>11
     DEF Start, Sets, Goes, Claim, Authorized, Forgets, Claiming, Launch,
         Spawned, Watches, Continuing, SqlAnswers, SqlTimesOut, Verify,
         WatchReady, ConfirmJoin, ConfirmBootstrap, Published,
         CompletionRefused, WatchTimesOut, BlockedLacksData
<1>12. ASSUME NEW m \in Members, BecomesPrimary(m) \/ LosesPrimary(m)
      PROVE  BlockedLacksData'
  BY <1>1, <1>12
     DEF BecomesPrimary, LosesPrimary, Outside, control, BlockedLacksData
<1>13. CASE UNCHANGED vars
  BY <1>1, <1>13
     DEF vars, control, BlockedLacksData
<1>14. QED
  BY <1>2, <1>3, <1>4, <1>5, <1>6, <1>7, <1>8, <1>9, <1>10, <1>11, <1>12, <1>13, NextSteps DEF Steps

\* The startup, the watcher and mariadbd stay in step.
LEMMA StagesStep ==
  ASSUME StartupInv, [Next]_vars
  PROVE  Stages'
<1>1. TypeOK /\ Stages
  BY DEF StartupInv
<1>2. ASSUME NEW n \in Supervisors,
             Start(n)
      PROVE  Stages'
  BY <1>1, <1>2, StartupAssumption
     DEF Start, Sets, Goes, Fallback, Decided, LocalWinner, ShouldStart,
         TypeOK, StartupAssumption, Stages
<1>3. ASSUME NEW n \in Supervisors,
             JoinAfterCleanRestart(n)
      PROVE  Stages'
  BY <1>1, <1>3, StartupAssumption
     DEF JoinAfterCleanRestart, Decides, Goes, Preparing, Claiming, Fallback,
         Decided, LocalWinner, ShouldStart, TypeOK, StartupAssumption, Stages
<1>4. ASSUME NEW n \in Supervisors,
             PlanJoin(n)
      PROVE  Stages'
  BY <1>1, <1>4, StartupAssumption
     DEF PlanJoin, Decides, Sets, Goes, Preparing, Claiming, Fallback,
         Decided, LocalWinner, ShouldStart, TypeOK, StartupAssumption, Stages
<1>5. ASSUME NEW n \in Supervisors,
             PlanBootstrap(n)
      PROVE  Stages'
  BY <1>1, <1>5, StartupAssumption
     DEF PlanBootstrap, Decides, Sets, Goes, Preparing, Claiming, Fallback,
         Decided, LocalWinner, ShouldStart, TypeOK, StartupAssumption, Stages
<1>6. ASSUME NEW n \in Supervisors,
             PlanBlocked(n)
      PROVE  Stages'
  BY <1>1, <1>6, StartupAssumption
     DEF PlanBlocked, Decides, Sets, Goes, Preparing, Claiming, Fallback,
         Decided, LocalWinner, ShouldStart, TypeOK, StartupAssumption, Stages
<1>7. ASSUME NEW n \in Supervisors,
             (\E m \in Members : Claim(n, m))
      PROVE  Stages'
  BY <1>1, <1>7, StartupAssumption
     DEF Claim, Fallback, Decided, LocalWinner, ShouldStart, TypeOK,
         StartupAssumption, Stages
<1>8. ASSUME NEW n \in Supervisors,
             AuthorizationFails(n)
      PROVE  Stages'
  BY <1>1, <1>8, StartupAssumption
     DEF AuthorizationFails, Decides, Sets, Forgets, Goes, Claiming, Fallback,
         Decided, LocalWinner, ShouldStart, TypeOK, StartupAssumption, Stages
<1>9. ASSUME NEW n \in Supervisors,
             Authorized(n)
      PROVE  Stages'
  BY <1>1, <1>9, StartupAssumption
     DEF Authorized, Sets, Forgets, Goes, Claiming, Fallback, Decided,
         LocalWinner, ShouldStart, TypeOK, StartupAssumption, Stages
<1>10. ASSUME NEW n \in Supervisors,
             ObserveCompletion(n)
      PROVE  Stages'
  BY <1>1, <1>10, StartupAssumption
     DEF ObserveCompletion, Decides, Goes, Preparing, Claiming, Fallback,
         Decided, LocalWinner, ShouldStart, TypeOK, StartupAssumption, Stages
<1>11. ASSUME NEW n \in Supervisors,
             CompletionTimesOut(n)
      PROVE  Stages'
  BY <1>1, <1>11, StartupAssumption
     DEF CompletionTimesOut, Decides, Sets, Goes, Preparing, Claiming,
         Fallback, Decided, LocalWinner, ShouldStart, TypeOK,
         StartupAssumption, Stages
<1>12. ASSUME NEW n \in Supervisors,
             Launch(n)
      PROVE  Stages'
  BY <1>1, <1>12, StartupAssumption
     DEF Launch, Sets, Goes, Fallback, Decided, LocalWinner, ShouldStart,
         TypeOK, StartupAssumption, Stages
<1>13. ASSUME NEW n \in Supervisors,
             Handoff(n)
      PROVE  Stages'
  BY <1>1, <1>13, StartupAssumption
     DEF Handoff, Explicit, Decides, Goes, Fallback, Decided, LocalWinner,
         ShouldStart, TypeOK, StartupAssumption, Stages
<1>14. ASSUME NEW n \in Supervisors,
             Spawned(n)
      PROVE  Stages'
  BY <1>1, <1>14, StartupAssumption
     DEF Spawned, Sets, Watches, Continuing, Fallback, Decided, LocalWinner,
         ShouldStart, TypeOK, StartupAssumption, Stages
<1>15. ASSUME NEW n \in Supervisors,
             SqlAnswers(n)
      PROVE  Stages'
  BY <1>1, <1>15, StartupAssumption
     DEF SqlAnswers, Goes, Continuing, Fallback, Decided, LocalWinner,
         ShouldStart, TypeOK, StartupAssumption, Stages
<1>16. ASSUME NEW n \in Supervisors,
             SqlTimesOut(n)
      PROVE  Stages'
  BY <1>1, <1>16, StartupAssumption
     DEF SqlTimesOut, Goes, Continuing, Fallback, Decided, LocalWinner,
         ShouldStart, TypeOK, StartupAssumption, Stages
<1>17. ASSUME NEW n \in Supervisors,
             Verify(n)
      PROVE  Stages'
  BY <1>1, <1>17, StartupAssumption
     DEF Verify, Sets, Goes, Continuing, Fallback, Decided, LocalWinner,
         ShouldStart, TypeOK, StartupAssumption, Stages
<1>18. ASSUME NEW n \in Supervisors,
             WatchReady(n)
      PROVE  Stages'
  BY <1>1, <1>18, StartupAssumption
     DEF WatchReady, Watches, Continuing, Fallback, Decided, LocalWinner,
         ShouldStart, TypeOK, StartupAssumption, Stages
<1>19. ASSUME NEW n \in Supervisors,
             ConfirmJoin(n)
      PROVE  Stages'
  BY <1>1, <1>19, StartupAssumption
     DEF ConfirmJoin, Sets, Watches, Continuing, Fallback, Decided,
         LocalWinner, ShouldStart, TypeOK, StartupAssumption, Stages
<1>20. ASSUME NEW n \in Supervisors,
             ConfirmBootstrap(n)
      PROVE  Stages'
  BY <1>1, <1>20, StartupAssumption
     DEF ConfirmBootstrap, Published, Sets, Watches, Continuing, Fallback,
         Decided, LocalWinner, ShouldStart, TypeOK, StartupAssumption, Stages
<1>21. ASSUME NEW n \in Supervisors,
             CompletionRefused(n)
      PROVE  Stages'
  BY <1>1, <1>21, StartupAssumption
     DEF CompletionRefused, Sets, Watches, Continuing, Fallback, Decided,
         LocalWinner, ShouldStart, TypeOK, StartupAssumption, Stages
<1>22. ASSUME NEW n \in Supervisors,
             WatchTimesOut(n)
      PROVE  Stages'
  BY <1>1, <1>22, StartupAssumption
     DEF WatchTimesOut, Sets, Watches, Continuing, Fallback, Decided,
         LocalWinner, ShouldStart, TypeOK, StartupAssumption, Stages
<1>23. ASSUME NEW n \in Supervisors,
             GoesDown(n)
      PROVE  Stages'
  BY <1>1, <1>23, StartupAssumption
     DEF GoesDown, LocalWinner, TypeOK, StartupAssumption, Stages, Gone
<1>24. ASSUME NEW m \in Members, BecomesPrimary(m) \/ LosesPrimary(m)
      PROVE  Stages'
  BY <1>1, <1>24, StartupAssumption
     DEF BecomesPrimary, LosesPrimary, Outside, control, LocalWinner, TypeOK,
         Stages, StartupAssumption
<1>25. CASE UNCHANGED vars
  BY <1>1, <1>25
     DEF vars, control, LocalWinner, TypeOK, Stages
<1>26. QED
  BY <1>2, <1>3, <1>4, <1>5, <1>6, <1>7, <1>8, <1>9, <1>10, <1>11, <1>12, <1>13, <1>14, <1>15, <1>16, <1>17, <1>18, <1>19, <1>20, <1>21, <1>22, <1>23, <1>24, <1>25, NextSteps DEF Steps

\* What set() makes of the recovery state of one supervisor.
Becomes(n, next, epoch) ==
  /\ recovery'[n].epoch \in {Undefined, epoch}
  /\ \/ /\ recovery'[n].state = next
        /\ epoch \in Epochs => recovery'[n].epoch = epoch
     \/ /\ recovery[n].state = "complete" /\ next = "cluster-unavailable"
        /\ recovery'[n] = recovery[n]
  /\ \A o \in Supervisors \ {n} : recovery'[o] = recovery[o]

\* Over an undefined epoch, or its own, set() makes of the state what Becomes says.
LEMMA SetRecorded ==
  ASSUME TypeOK, NEW n \in Supervisors, NEW next \in RecoveryStates,
         NEW epoch \in Epochs \cup {Undefined, Null}, Sets(n, next, epoch),
         recovery[n].epoch \in {Undefined, epoch}
  PROVE  Becomes(n, next, epoch)
<1>1. recovery[n] \in Recoveries
  BY Values
<1>2. recovery' = [recovery EXCEPT ![n] = Set(recovery[n], next, epoch)]
  BY DEF Sets
<1>3. recovery'[n] = Set(recovery[n], next, epoch)
  BY <1>2 DEF TypeOK
<1>4. \A o \in Supervisors \ {n} : recovery'[o] = recovery[o]
  BY <1>2 DEF TypeOK
<1>5. QED
  BY <1>1, <1>3, <1>4, SetStarted DEF Becomes

\* Before the decision the recovery state names no epoch.
LEMMA UndecidedEpoch ==
  ASSUME TypeOK, Stages, RunsRecorded, NEW n \in Supervisors, pc[n] \in {"off", "evidence"}
  PROVE  recovery[n].epoch = Undefined
<1>1. decision[n].epoch = Null
  BY DEF Stages, Undecided, Decided
<1>2. recovery[n].epoch \in Epochs \cup {Undefined} /\ recovery[n].epoch \in {Undefined, Null}
  BY <1>1, Values DEF Recoveries, RunsRecorded
<1>3. QED
  BY <1>2, StartupAssumption DEF StartupAssumption, Undefined, Null

\* The recovery state follows the decision and what mariadbd has reached.
LEMMA RecordedStep ==
  ASSUME StartupInv, [Next]_vars
  PROVE  RunsRecorded'
<1>1. TypeOK /\ Stages /\ RunsRecorded
  BY DEF StartupInv
<1>2. ASSUME NEW n \in Supervisors, Start(n)
      PROVE  RunsRecorded'
  <2>1. Becomes(n, "collecting-evidence", Undefined)
    BY <1>1, <1>2, Values, SetRecorded, UndecidedEpoch DEF Start
  <2>2. QED
    BY <1>1, <1>2, <2>1, Values
       DEF Start, Goes, Becomes, LocalWinner, Started, Stages, TypeOK,
         RunsRecorded
<1>3. ASSUME NEW n \in Supervisors, PlanJoin(n)
      PROVE  RunsRecorded'
  <2>1. Becomes(n, "joining", Null)
    BY <1>1, <1>3, Values, SetRecorded, UndecidedEpoch DEF PlanJoin
  <2>2. QED
    BY <1>1, <1>3, <2>1, Values
       DEF PlanJoin, Decides, Goes, Preparing, Claiming, Becomes, LocalWinner,
         Started, Stages, TypeOK, RunsRecorded, Decided
<1>4. ASSUME NEW n \in Supervisors, PlanBootstrap(n)
      PROVE  RunsRecorded'
  <2>1. PICK winner \in Members, epoch \in Epochs :
          /\ Decides(n, Decided("bootstrap", winner, epoch, 2, FALSE))
          /\ Sets(n, "awaiting-quorum", epoch)
          /\ Goes(n, IF winner = n THEN "claiming" ELSE "waiting")
    BY <1>4 DEF PlanBootstrap
  <2>2. Becomes(n, "awaiting-quorum", epoch)
    BY <1>1, <1>4, <2>1, Values, SetRecorded, UndecidedEpoch DEF PlanBootstrap
  <2>3. QED
    BY <1>1, <1>4, <2>1, <2>2
       DEF PlanBootstrap, Decides, Decided, Preparing, Claiming, Becomes, LocalWinner,
           Stages, TypeOK, RunsRecorded
<1>5. ASSUME NEW n \in Supervisors, PlanBlocked(n)
      PROVE  RunsRecorded'
  <2>1. Becomes(n, "blocked-ambiguous", Null)
    BY <1>1, <1>5, Values, SetRecorded, UndecidedEpoch DEF PlanBlocked
  <2>2. QED
    BY <1>1, <1>5, <2>1, Values, FallbackType
       DEF PlanBlocked, Decides, Goes, Preparing, Claiming, Becomes,
         LocalWinner, Started, Stages, TypeOK, RunsRecorded
<1>6. ASSUME NEW n \in Supervisors, AuthorizationFails(n)
      PROVE  RunsRecorded'
  <2>1. Becomes(n, "blocked-ambiguous", decision[n].epoch)
    BY <1>1, <1>6, Values, SetRecorded DEF AuthorizationFails, RunsRecorded
  <2>2. QED
    BY <1>1, <1>6, <2>1, Values, FallbackType
       DEF AuthorizationFails, Decides, Forgets, Goes, Claiming, Becomes,
         LocalWinner, Started, Stages, TypeOK, RunsRecorded
<1>7. ASSUME NEW n \in Supervisors, CompletionTimesOut(n)
      PROVE  RunsRecorded'
  <2>1. Becomes(n, "blocked-ambiguous", decision[n].epoch)
    BY <1>1, <1>7, Values, SetRecorded DEF CompletionTimesOut, RunsRecorded
  <2>2. /\ decision'[n].epoch = decision[n].epoch
        /\ decision'[n].mode # "bootstrap"
        /\ \A o \in Supervisors \ {n} : decision'[o] = decision[o]
    BY <1>1, <1>7, Values, FallbackType DEF CompletionTimesOut, Decides, TypeOK
  <2>3. watch'[n] = "idle"
    BY <1>1, <1>7 DEF CompletionTimesOut, Preparing, Claiming, Stages
  <2>4. QED
    BY <1>1, <1>7, <2>1, <2>2, <2>3
       DEF CompletionTimesOut, Preparing, Claiming, Becomes, LocalWinner, RunsRecorded
<1>8. ASSUME NEW n \in Supervisors, Authorized(n)
      PROVE  RunsRecorded'
  <2>1. Becomes(n, "recovery-authorized", decision[n].epoch)
    BY <1>1, <1>8, Values, SetRecorded DEF Authorized, RunsRecorded
  <2>2. QED
    BY <1>1, <1>8, <2>1, Values
       DEF Authorized, Forgets, Goes, Claiming, Becomes, LocalWinner, Started,
         Stages, TypeOK, RunsRecorded
<1>9. ASSUME NEW n \in Supervisors, Launch(n)
      PROVE  RunsRecorded'
  <2>1. ASSUME LocalWinner(n)
        PROVE  Becomes(n, "bootstrapping", decision[n].epoch)
    <3>1. Sets(n, "bootstrapping", decision[n].epoch)
      BY <1>9, <2>1 DEF Launch
    <3>2. QED
      BY <1>1, <3>1, Values, SetRecorded DEF RunsRecorded
  <2>2. ~LocalWinner(n) => recovery' = recovery
    BY <1>9 DEF Launch
  <2>3. QED
    BY <1>1, <1>9, <2>1, <2>2
       DEF Launch, Goes, Becomes, LocalWinner, Started, Stages, TypeOK, RunsRecorded,
           ShouldStart
<1>10. ASSUME NEW n \in Supervisors, Spawned(n)
      PROVE  RunsRecorded'
  <2>1. ASSUME ~LocalWinner(n)
        PROVE  Becomes(n, "joining", decision[n].epoch)
    <3>1. Sets(n, "joining", decision[n].epoch)
      BY <1>10, <2>1 DEF Spawned
    <3>2. QED
      BY <1>1, <3>1, Values, SetRecorded DEF RunsRecorded
  <2>2. LocalWinner(n) => recovery' = recovery
    BY <1>10 DEF Spawned
  <2>3. QED
    BY <1>1, <1>10, <2>1, <2>2
       DEF Spawned, Watches, Continuing, Becomes, LocalWinner, Started, Stages, TypeOK,
           RunsRecorded
<1>11. ASSUME NEW n \in Supervisors, Verify(n)
      PROVE  RunsRecorded'
  <2>1. Becomes(n, "complete", decision[n].epoch) \/ UNCHANGED recovery
    BY <1>1, <1>11, Values, SetRecorded DEF Verify, RunsRecorded
  <2>2. QED
    BY <1>1, <1>11, <2>1, Values
       DEF Verify, Goes, Continuing, Becomes, LocalWinner, Started, Stages,
         TypeOK, RunsRecorded
<1>12. ASSUME NEW n \in Supervisors, ConfirmJoin(n)
      PROVE  RunsRecorded'
  <2>1. Becomes(n, "complete", decision[n].epoch) \/ UNCHANGED recovery
    BY <1>1, <1>12, Values, SetRecorded DEF ConfirmJoin, RunsRecorded
  <2>2. QED
    BY <1>1, <1>12, <2>1, Values
       DEF ConfirmJoin, Watches, Continuing, Becomes, LocalWinner, Started,
         Stages, TypeOK, RunsRecorded
<1>13. ASSUME NEW n \in Supervisors, ConfirmBootstrap(n)
      PROVE  RunsRecorded'
  <2>1. Becomes(n, "complete", decision[n].epoch)
    BY <1>1, <1>13, Values, SetRecorded DEF ConfirmBootstrap, RunsRecorded
  <2>2. QED
    BY <1>1, <1>13, <2>1, Values
       DEF ConfirmBootstrap, Published, Watches, Continuing, Becomes,
         LocalWinner, Started, Stages, TypeOK, RunsRecorded
<1>14. ASSUME NEW n \in Supervisors, CompletionRefused(n)
      PROVE  RunsRecorded'
  <2>1. Becomes(n, "cluster-unavailable", decision[n].epoch)
    BY <1>1, <1>14, Values, SetRecorded DEF CompletionRefused, RunsRecorded
  <2>2. QED
    BY <1>1, <1>14, <2>1, Values
       DEF CompletionRefused, Watches, Continuing, Becomes, LocalWinner,
         Started, Stages, TypeOK, RunsRecorded
<1>15. ASSUME NEW n \in Supervisors, WatchTimesOut(n)
      PROVE  RunsRecorded'
  <2>1. Becomes(n, "cluster-unavailable", decision[n].epoch)
    BY <1>1, <1>15, Values, SetRecorded DEF WatchTimesOut, RunsRecorded
  <2>2. QED
    BY <1>1, <1>15, <2>1, Values
       DEF WatchTimesOut, Watches, Continuing, Becomes, LocalWinner, Started,
         Stages, TypeOK, RunsRecorded
<1>16. ASSUME NEW n \in Supervisors,
             JoinAfterCleanRestart(n)
      PROVE  RunsRecorded'
  BY <1>1, <1>16, Values
     DEF JoinAfterCleanRestart, Decides, Goes, Preparing, Claiming, Decided,
         Undecided, LocalWinner, Started, Fresh, TypeOK, Stages, RunsRecorded
<1>17. ASSUME NEW n \in Supervisors,
             ObserveCompletion(n)
      PROVE  RunsRecorded'
  BY <1>1, <1>17, Values
     DEF ObserveCompletion, Decides, Goes, Preparing, Claiming, Decided,
         Undecided, LocalWinner, Started, Fresh, TypeOK, Stages, RunsRecorded
<1>18. ASSUME NEW n \in Supervisors,
             Handoff(n)
      PROVE  RunsRecorded'
  BY <1>1, <1>18, Values
     DEF Handoff, Explicit, Decides, Goes, Decided, Undecided, LocalWinner,
         Started, Fresh, TypeOK, Stages, RunsRecorded
<1>19. ASSUME NEW n \in Supervisors,
             WatchReady(n)
      PROVE  RunsRecorded'
  BY <1>1, <1>19, Values
     DEF WatchReady, Watches, Continuing, Decided, Undecided, LocalWinner,
         Started, Fresh, TypeOK, Stages, RunsRecorded
<1>20. ASSUME NEW n \in Supervisors,
             GoesDown(n)
      PROVE  RunsRecorded'
  BY <1>1, <1>20
     DEF GoesDown, Undecided, Decided, Fresh, LocalWinner, TypeOK,
         RunsRecorded, Gone
<1>21. ASSUME NEW n \in Supervisors,
             (\E m \in Members : Claim(n, m)) \/ SqlAnswers(n)
             \/ SqlTimesOut(n)
      PROVE  RunsRecorded'
  BY <1>1, <1>21
     DEF Claim, SqlAnswers, Goes, Continuing, SqlTimesOut, LocalWinner,
         Started, RunsRecorded
<1>22. ASSUME NEW m \in Members, BecomesPrimary(m) \/ LosesPrimary(m)
      PROVE  RunsRecorded'
  BY <1>1, <1>22
     DEF BecomesPrimary, LosesPrimary, Outside, control, LocalWinner, Started,
         RunsRecorded
<1>23. CASE UNCHANGED vars
  BY <1>1, <1>23
     DEF vars, control, LocalWinner, Started, RunsRecorded
<1>24. QED
  BY <1>2, <1>3, <1>4, <1>5, <1>6, <1>7, <1>8, <1>9, <1>10, <1>11, <1>12, <1>13, <1>14, <1>15, <1>16, <1>17, <1>18, <1>19, <1>20, <1>21, <1>22, <1>23, NextSteps DEF Steps

-----------------------------------------------------------------------------
(* The theorems                                                             *)

\* The invariant holds before anything was started.
LEMMA InitInv ==
  ASSUME Init
  PROVE  StartupInv
<1>1. TypeOK
  BY StartupAssumption
     DEF Init, TypeOK, StartupAssumption, RecoveryStates, Recoveries, Decisions, Leases,
         Fresh, Undecided, Decided, FreeLease
<1>2. Stages /\ BlockedLacksData /\ CountsOwnLeases /\ PromotedHoldsLeases
  BY StartupAssumption
     DEF Init, Stages, BlockedLacksData, CountsOwnLeases, PromotedHoldsLeases, Undecided,
         Decided, StartupAssumption
<1>3. RunsRecorded
  BY DEF Init, RunsRecorded, Fresh, LocalWinner, Undecided, Decided
<1>4. QED
  BY <1>1, <1>2, <1>3 DEF StartupInv

\* The invariant of the startup: types, leases that are counted only while they
\* are held, and recovery states that follow mariadbd
\* (recovery-authorization.mjs:13-29, maria-startup.mjs:15-68).
THEOREM Invariance == Spec => []StartupInv
<1>1. Init => StartupInv
  BY InitInv
<1>2. StartupInv /\ [Next]_vars => StartupInv'
  BY TypeStep, LeaseStep, BlockedStep, StagesStep, RecordedStep DEF StartupInv
<1>3. QED
  BY <1>1, <1>2, PTL DEF Spec

\* At most one member makes its data safe to bootstrap from: its leases are those
\* of all members, and a member leases its recovery to one winner
\* (recovery-authorization.mjs:24,46).
THEOREM PromotesOne == Spec => []OnePromoted
<1>1. StartupInv => OnePromoted
  <2> SUFFICES ASSUME StartupInv, NEW a \in promoted, NEW b \in promoted
               PROVE  a = b
    BY DEF OnePromoted
  <2>1. a \in Members
    BY StartupAssumption DEF StartupInv, TypeOK, StartupAssumption
  <2>2. leases[a].winner = a /\ leases[a].winner = b
    BY <2>1 DEF StartupInv, PromotedHoldsLeases
  <2>3. QED
    BY <2>2
<1>2. QED
  BY <1>1, Invariance, PTL

\* Wherever mariadbd runs, its exit can be recorded: the handler of the exit
\* (process-wiring.mjs:8-11) does not throw.
THEOREM ExitsAreLegal == Spec => []ExitAlwaysLegal
<1>1. StartupInv => ExitAlwaysLegal
  <2> SUFFICES ASSUME StartupInv, NEW n \in Supervisors, engine[n] # "none"
               PROVE  ExitRecorded(n)
    BY DEF ExitAlwaysLegal
  <2>1. recovery[n].state \in Started
    BY DEF StartupInv, Stages, RunsRecorded
  <2>2. QED
    BY <2>1 DEF ExitRecorded, Accepts, Transitions, Started
<1>2. QED
  BY <1>1, Invariance, PTL

\* Whatever fails in its recovery, a member with data is never left to an
\* operator (recovery-startup.mjs:57-62).
THEOREM DataRejoins == Spec => []InitializedNeverPends
<1>1. StartupInv => InitializedNeverPends
  BY DEF StartupInv, Stages, BlockedLacksData, InitializedNeverPends
<1>2. QED
  BY <1>1, Invariance, PTL

\* A step of another supervisor leaves the recovery state alone.
LEMMA OthersRecovery ==
  ASSUME TypeOK, NEW k \in Supervisors, NEW n \in Supervisors, k # n, Steps(k)
  PROVE  recovery'[n] = recovery[n]
  BY DEF Steps, Start, JoinAfterCleanRestart, PlanJoin, PlanBootstrap, PlanBlocked, Claim,
         AuthorizationFails, Authorized, ObserveCompletion, CompletionTimesOut, Launch,
         Handoff, Spawned, SqlAnswers, SqlTimesOut, Verify, WatchReady, ConfirmJoin,
         ConfirmBootstrap, CompletionRefused, WatchTimesOut, Sets, TypeOK

\* The completion of an epoch is not taken back while the process lives
\* (recovery-state.mjs:35): no watcher that is late names another epoch.
THEOREM CompletionIsFinal == Spec => CompletedEpochStays
<1> DEFINE Keeps == \A n \in Supervisors :
              recovery[n].state = "complete" /\ decision[n].epoch \in Epochs
                => recovery'[n].state = "complete" \/ pc'[n] = "off"
<1>1. StartupInv /\ [Next]_vars => Keeps
  <2> SUFFICES ASSUME StartupInv, [Next]_vars, NEW n \in Supervisors,
                      recovery[n].state = "complete", decision[n].epoch \in Epochs
               PROVE  recovery'[n].state = "complete" \/ pc'[n] = "off"
    OBVIOUS
  <2>1. /\ TypeOK
        /\ recovery[n].epoch = decision[n].epoch
        /\ watch[n] \in {"watching", "confirming", "done"}
        /\ pc[n] \in {"readying", "verifying", "running"}
    BY DEF StartupInv, RunsRecorded, Stages
  <2>2. \A next \in {"complete", "cluster-unavailable"} :
          Sets(n, next, decision[n].epoch) => recovery'[n].state = "complete"
    <3> SUFFICES ASSUME NEW next \in {"complete", "cluster-unavailable"},
                        Sets(n, next, decision[n].epoch)
                 PROVE  recovery'[n].state = "complete"
      OBVIOUS
    <3>1. recovery'[n] = Set(recovery[n], next, decision[n].epoch)
      BY <2>1 DEF Sets, TypeOK
    <3>2. QED
      BY <2>1, <3>1 DEF Set, Ignores
  <2>3. ASSUME Steps(n)
        PROVE  recovery'[n].state = "complete"
    <3>1. \/ SqlAnswers(n) \/ SqlTimesOut(n) \/ Verify(n) \/ WatchReady(n) \/ ConfirmJoin(n)
          \/ ConfirmBootstrap(n) \/ CompletionRefused(n) \/ WatchTimesOut(n)
      BY <2>1, <2>3
         DEF Steps, Start, JoinAfterCleanRestart, PlanJoin, PlanBootstrap, PlanBlocked,
             Claim, AuthorizationFails, Authorized, ObserveCompletion, CompletionTimesOut,
             Launch, Handoff, Spawned
    <3>2. QED
      BY <2>2, <3>1
         DEF SqlAnswers, SqlTimesOut, Verify, WatchReady, ConfirmJoin, ConfirmBootstrap,
             CompletionRefused, WatchTimesOut, Continuing
  <2>4. ASSUME NEW k \in Supervisors, Steps(k) \/ GoesDown(k)
        PROVE  recovery'[n].state = "complete" \/ pc'[n] = "off"
    <3>1. CASE k # n /\ GoesDown(k)
      BY <2>1, <3>1 DEF GoesDown, Gone, TypeOK
    <3>2. CASE k = n /\ GoesDown(k)
      BY <2>1, <3>2 DEF GoesDown, Gone, TypeOK
    <3>3. CASE k # n /\ Steps(k)
      BY <2>1, <3>3, OthersRecovery
    <3>4. QED
      BY <2>3, <2>4, <3>1, <3>2, <3>3
  <2>5. ASSUME NEW m \in Members, BecomesPrimary(m) \/ LosesPrimary(m)
        PROVE  recovery'[n].state = "complete"
    BY <2>5 DEF BecomesPrimary, LosesPrimary, Outside, control
  <2>6. CASE UNCHANGED vars
    BY <2>6 DEF vars, control
  <2>7. QED
    BY <2>4, <2>5, <2>6, NextSteps
<1>2. Spec => [][Keeps]_vars
  BY <1>1, Invariance, PTL DEF Spec
<1>3. QED
  BY <1>2 DEF CompletedEpochStays

=============================================================================
