-------------------------- MODULE SupervisorStartup --------------------------
(***************************************************************************)
(* The startup of the supervisors of a cluster: from the start of the      *)
(* process to a mariadbd that is complete, or to the pending listener      *)
(* (src/runtime/startup-coordinator.mjs, recovery-startup.mjs,             *)
(* recovery-authorization.mjs, maria-startup.mjs, startup-readiness.mjs).  *)
(*                                                                         *)
(* A supervisor runs three flows: the startup proper (pc), the watcher of  *)
(* the mariadbd it has launched (watch), and the handlers that answer its  *)
(* peers.  What the evidence says is open: EvidenceCollection follows it.  *)
(***************************************************************************)
EXTENDS Integers, FiniteSets

CONSTANTS
  Members,      \* the configured members
  Supervisors,  \* those that start here; the others are up and answer
  Epochs,       \* the digests that name recoveries, ordered as strings are
  Sizes,        \* cluster sizes an active Primary may report
  Listens,      \* when the listener opens: {"before"} or {"after"} preparing
  MaxStarts     \* how many starts of processes are looked at

Undefined == 0    \* JavaScript's undefined epoch
Null == -1        \* ... and its null
Nobody == "nobody"

ASSUME StartupAssumption ==
  /\ IsFiniteSet(Members) /\ Nobody \notin Members
  /\ Supervisors \subseteq Members
  /\ Epochs \subseteq Nat \ {0}
  /\ Sizes \subseteq Nat
  /\ Listens \subseteq {"before", "after"}
  /\ MaxStarts \in Nat

VARIABLES
  listens,     \* the order of listener and preparation
  starts,      \* how many starts are left
  pc,          \* where the startup of each supervisor is
  recovery,    \* its recovery state
  decision,    \* its startup decision
  claims,      \* the members that have granted its lease claim
  watch,       \* where its watcher is
  completion,  \* the bootstrap completion it publishes: an epoch, or none
  engine,      \* the mariadbd of each member
  initialized, \* the members whose data directory is initialized
  marker,      \* the members with a valid clean-restart marker
  leases,      \* the recovery lease of each member
  promoted     \* the members whose grastate.dat was made safe to bootstrap
control == <<pc, recovery, decision, claims, watch, completion>>
vars == <<listens, starts, control, engine, initialized, marker, leases, promoted>>

-----------------------------------------------------------------------------
(* The recovery state                                                       *)
RecoveryStates ==
  {"pending", "collecting-evidence", "awaiting-quorum", "recovery-authorized",
   "bootstrapping", "joining", "complete", "cluster-unavailable", "blocked-ambiguous"}

Transitions(state) ==
  CASE state = "pending" -> {"collecting-evidence", "joining", "bootstrapping",
                             "cluster-unavailable", "blocked-ambiguous"}
    [] state = "collecting-evidence" -> {"awaiting-quorum", "joining",
                                         "blocked-ambiguous", "cluster-unavailable"}
    [] state = "awaiting-quorum" -> {"recovery-authorized", "blocked-ambiguous",
                                     "cluster-unavailable"}
    [] state = "recovery-authorized" -> {"bootstrapping", "blocked-ambiguous",
                                         "cluster-unavailable"}
    [] state = "bootstrapping" -> {"joining", "complete", "cluster-unavailable"}
    [] state = "joining" -> {"joining", "complete", "cluster-unavailable"}
    [] state = "complete" -> {"collecting-evidence", "cluster-unavailable"}
    [] state = "cluster-unavailable" -> {"collecting-evidence", "blocked-ambiguous",
                                         "complete", "joining"}
    [] state = "blocked-ambiguous" -> {"collecting-evidence", "joining"}

\* A call about an older epoch, or one that would undo the completion of its
\* own epoch, changes nothing.  null is neither older nor any epoch's equal.
Ignores(held, next, epoch) ==
  \/ epoch \in Epochs /\ held.epoch \in Epochs /\ epoch < held.epoch
  \/ held.state = "complete" /\ next = "cluster-unavailable" /\ epoch = held.epoch

Accepts(held, next, epoch) ==
  Ignores(held, next, epoch) \/ next = held.state \/ next \in Transitions(held.state)

\* Mutant of Set: the completed epoch does not protect its state.
SetUnguarded(held, next, epoch) ==
  [state |-> next, epoch |-> IF epoch \in Epochs THEN epoch ELSE held.epoch]

Set(held, next, epoch) ==
  IF Ignores(held, next, epoch) THEN held
  ELSE [state |-> next, epoch |-> IF epoch \in Epochs THEN epoch ELSE held.epoch]

\* recoveryState.set(next, { epoch }) of supervisor n, where it does not throw.
Sets(n, next, epoch) ==
  /\ Accepts(recovery[n], next, epoch)
  /\ recovery' = [recovery EXCEPT ![n] = Set(@, next, epoch)]

-----------------------------------------------------------------------------
(* Decisions                                                                *)
Decided(mode, winner, epoch, expected, explicit) ==
  [mode |-> mode, winner |-> winner, epoch |-> epoch,
   expected |-> expected, explicit |-> explicit]
Undecided == Decided("none", Nobody, Null, 2, FALSE)

LocalWinner(n) == decision[n].mode = "bootstrap" /\ decision[n].winner = n

\* shouldStartMariaDb
ShouldStart(n) == LocalWinner(n) \/ decision[n].mode \in {"join", "rejoin"}

\* Mutant of Fallback: a blocked member waits for an operator, data or not.
FallbackPends(n, epoch) == Decided("blocked", Nobody, epoch, 2, FALSE)

\* Where a blocked decision ends up: an initialized member rejoins, without
\* bootstrapping; for any other an operator has to decide.
Fallback(n, epoch) ==
  Decided(IF n \in initialized THEN "rejoin" ELSE "blocked", Nobody, epoch, 2, FALSE)

Primaries == {m \in Members : engine[m] = "primary"}

\* The supervisor of m answers an HTTP request.
Open == {"readying", "verifying", "running", "pending"}
Answers(m) ==
  m \in Supervisors =>
    pc[m] \in Open \/ (listens = "before" /\ pc[m] # "off")

\* The routes of the recovery are there to be called: the pending listener and
\* a process that was started explicitly have none for leases and completions.
ServesRecovery(m) ==
  /\ Answers(m)
  /\ m \in Supervisors => pc[m] # "pending" /\ ~decision[m].explicit

-----------------------------------------------------------------------------
Fresh == [state |-> "pending", epoch |-> Undefined]

FreeLease == [winner |-> Nobody, epoch |-> Undefined]

Init ==
  /\ listens \in Listens
  /\ starts = MaxStarts
  /\ pc = [n \in Supervisors |-> "off"]
  /\ recovery = [n \in Supervisors |-> Fresh]
  /\ decision = [n \in Supervisors |-> Undecided]
  /\ claims = [n \in Supervisors |-> {}]
  /\ watch = [n \in Supervisors |-> "idle"]
  /\ completion = [n \in Supervisors |-> Undefined]
  /\ \E active \in SUBSET (Members \ Supervisors) :
       engine = [m \in Members |-> IF m \in active THEN "primary" ELSE "none"]
  /\ initialized \in SUBSET Supervisors
  /\ marker \in {{}, initialized}
  /\ leases \in [Members -> {FreeLease} \cup [winner : Supervisors, epoch : Epochs]]
  /\ promoted = {}

\* The process is gone, and mariadbd with it: it is PID 1 of its container.
Gone(n) ==
  /\ pc' = [pc EXCEPT ![n] = "off"]
  /\ recovery' = [recovery EXCEPT ![n] = Fresh]
  /\ decision' = [decision EXCEPT ![n] = Undecided]
  /\ claims' = [claims EXCEPT ![n] = {}]
  /\ watch' = [watch EXCEPT ![n] = "idle"]
  /\ completion' = [completion EXCEPT ![n] = Undefined]
  /\ engine' = [engine EXCEPT ![n] = "none"]

\* shutdown() leaves the marker before it stops mariadbd.
ShutsDown(n) ==
  /\ Gone(n)
  /\ marker' = marker \cup {n}
  /\ UNCHANGED <<listens, starts, initialized, leases, promoted>>

Goes(n, where) == pc' = [pc EXCEPT ![n] = where]
Decides(n, choice) == decision' = [decision EXCEPT ![n] = choice]
Forgets(n) == claims' = [claims EXCEPT ![n] = {}]
Claiming == <<listens, starts, watch, completion, engine, initialized>>
Preparing == <<claims, Claiming>>

-----------------------------------------------------------------------------
(* Preparing the recovery                                                   *)
Start(n) ==
  /\ pc[n] = "off" /\ starts > 0
  /\ starts' = starts - 1
  /\ Sets(n, "collecting-evidence", Undefined)
  /\ Goes(n, "evidence")
  /\ UNCHANGED <<listens, decision, claims, watch, completion, engine, initialized,
                 marker, leases, promoted>>

\* A marker that has expired is as good as none.
ValidMarker(n) == n \in marker

\* A valid marker, and an active Primary among the peers that answer.
JoinAfterCleanRestart(n) ==
  /\ pc[n] = "evidence" /\ ValidMarker(n)
  /\ \E peer \in Primaries \ {n} : Answers(peer)
  /\ marker' = marker \ {n}
  /\ Decides(n, Decided("join", Nobody, Null, 2, FALSE))
  /\ Goes(n, "launching")
  /\ UNCHANGED <<Preparing, recovery, leases, promoted>>

\* The last plan of the retries becomes a decision, is recorded as recovery
\* state and written to the decision file.
PlanJoin(n) ==
  /\ pc[n] = "evidence"
  /\ \E peer \in Primaries \ {n} : Answers(peer)
  /\ \E size \in Sizes : Decides(n, Decided("join", Nobody, Null, size, FALSE))
  /\ Sets(n, "joining", Null)
  /\ Goes(n, "launching")
  /\ UNCHANGED <<Preparing, marker, leases, promoted>>

\* Every member has given evidence, and none is Primary.
PlanBootstrap(n) ==
  /\ pc[n] = "evidence"
  /\ \A m \in Members \ {n} : Answers(m)
  /\ Primaries = {}
  /\ \E winner \in Members, epoch \in Epochs :
       /\ Decides(n, Decided("bootstrap", winner, epoch, 2, FALSE))
       /\ Sets(n, "awaiting-quorum", epoch)
       /\ Goes(n, IF winner = n THEN "claiming" ELSE "waiting")
  /\ UNCHANGED <<Preparing, marker, leases, promoted>>

PlanBlocked(n) ==
  /\ pc[n] = "evidence"
  /\ Decides(n, Fallback(n, Null))
  /\ Sets(n, "blocked-ambiguous", Null)
  /\ Goes(n, "launching")
  /\ UNCHANGED <<Preparing, marker, leases, promoted>>

\* The decision file cannot be written.
PlanFails(n) == pc[n] = "evidence" /\ ShutsDown(n)

\* Mutant of Grantable: a lease is granted to whoever asks.
GrantableToAll(m, n) == TRUE

\* lease.claim at member m: the first one, or its repetition, is granted.
Grantable(m, n) ==
  leases[m] \in {FreeLease, [winner |-> n, epoch |-> decision[n].epoch]}

\* The answer may get lost after the lease was granted.  A claim that is
\* refused or never arrives counts as one that is not answered.
Claim(n, m) ==
  /\ pc[n] = "claiming" /\ m \notin claims[n]
  /\ ServesRecovery(m) /\ Grantable(m, n)
  /\ leases' = [leases EXCEPT ![m] = [winner |-> n, epoch |-> decision[n].epoch]]
  /\ \E granted \in {{}, {m}} : claims' = [claims EXCEPT ![n] = @ \cup granted]
  /\ UNCHANGED <<listens, starts, pc, recovery, decision, watch, completion, engine,
                 initialized, marker, promoted>>

Majority(set) == 2 * Cardinality(set) > Cardinality(Members)

\* No lease quorum; or authorize() asks for all members, or the evidence it
\* collects again has changed.
AuthorizationFails(n) ==
  /\ pc[n] = "claiming"
  /\ Decides(n, Fallback(n, decision[n].epoch))
  /\ Sets(n, "blocked-ambiguous", decision[n].epoch)
  /\ Forgets(n)
  /\ Goes(n, "launching")
  /\ UNCHANGED <<Claiming, marker, leases, promoted>>

\* Mutant of Authorizes: one lease is enough.
AuthorizesByOne(n) == claims[n] # {}

\* The protocol's authorize() asks for more than the majority of the claims.
Authorizes(n) == Majority(claims[n]) /\ claims[n] = Members

\* The winner makes its own grastate.dat safe to bootstrap from.
Authorized(n) ==
  /\ pc[n] = "claiming" /\ Authorizes(n)
  /\ Sets(n, "recovery-authorized", decision[n].epoch)
  /\ promoted' = promoted \cup {n}
  /\ Forgets(n)
  /\ Goes(n, "launching")
  /\ UNCHANGED <<Claiming, decision, marker, leases>>

PromotionFails(n) == pc[n] = "claiming" /\ Authorizes(n) /\ ShutsDown(n)

\* The winner publishes the completion of exactly this epoch.
ObserveCompletion(n) ==
  /\ pc[n] = "waiting"
  /\ LET winner == decision[n].winner IN
       /\ winner \in Supervisors /\ ServesRecovery(winner)
       /\ completion[winner] = decision[n].epoch
  /\ Decides(n, [decision[n] EXCEPT !.mode = "join"])
  /\ Goes(n, "launching")
  /\ UNCHANGED <<Preparing, recovery, marker, leases, promoted>>

\* Mutant of CompletionTimesOut: the wait ends only while the winner can be asked.
CompletionTimesOutWithWinner(n) ==
  /\ pc[n] = "waiting"
  /\ decision[n].winner \in Supervisors => ServesRecovery(decision[n].winner)
  /\ Decides(n, Fallback(n, decision[n].epoch))
  /\ Sets(n, "blocked-ambiguous", decision[n].epoch)
  /\ Goes(n, "launching")
  /\ UNCHANGED <<Preparing, marker, leases, promoted>>

CompletionTimesOut(n) ==
  /\ pc[n] = "waiting"
  /\ Decides(n, Fallback(n, decision[n].epoch))
  /\ Sets(n, "blocked-ambiguous", decision[n].epoch)
  /\ Goes(n, "launching")
  /\ UNCHANGED <<Preparing, marker, leases, promoted>>

-----------------------------------------------------------------------------
(* The coordinator                                                          *)

\* A blocked decision opens the pending listener; any other opens the listener
\* and, unless the start is refused, launches mariadbd beside it.
Launch(n) ==
  /\ pc[n] = "launching"
  /\ IF LocalWinner(n)
     THEN Sets(n, "bootstrapping", decision[n].epoch) ELSE UNCHANGED recovery
  /\ watch' = [watch EXCEPT ![n] = IF ShouldStart(n) THEN "spawning" ELSE @]
  /\ Goes(n, IF decision[n].mode = "blocked" THEN "pending" ELSE "readying")
  /\ UNCHANGED <<listens, starts, decision, claims, completion, engine, initialized,
                 marker, leases, promoted>>

\* The decision of a process that is told how to start.
Explicit(n, mode) ==
  Decided(mode, IF mode = "bootstrap" THEN n ELSE Nobody, Null, 2, TRUE)

\* An operator initializes the data, and a new process takes over.
Handoff(n) ==
  /\ pc[n] = "pending" /\ n \notin initialized
  /\ initialized' = initialized \cup {n}
  /\ \E mode \in {"bootstrap", "join"} : Decides(n, Explicit(n, mode))
  /\ recovery' = [recovery EXCEPT ![n] = Fresh]
  /\ Goes(n, "launching")
  /\ UNCHANGED <<listens, starts, claims, watch, completion, engine, marker, leases, promoted>>

Continuing == <<listens, starts, decision, claims, initialized, leases, promoted>>
Watches(n, where) == watch' = [watch EXCEPT ![n] = where]

\* Mutant of Spawned: only what was planned as a join is recorded as one.
SpawnedUnrecorded(n) ==
  /\ watch[n] = "spawning"
  /\ engine' = [engine EXCEPT ![n] = "spawned"]
  /\ IF decision[n].mode # "join" THEN UNCHANGED recovery
     ELSE Sets(n, "joining", decision[n].epoch)
  /\ Watches(n, "watching")
  /\ UNCHANGED <<Continuing, pc, completion, marker>>

\* mariadbd is spawned; a join is recorded before anything else can happen.
Spawned(n) ==
  /\ watch[n] = "spawning"
  /\ engine' = [engine EXCEPT ![n] = "spawned"]
  /\ IF LocalWinner(n) THEN UNCHANGED recovery ELSE Sets(n, "joining", decision[n].epoch)
  /\ Watches(n, "watching")
  /\ UNCHANGED <<Continuing, pc, completion, marker>>

\* The spawn fails, or the recovery state refuses `joining`.
LaunchFails(n) ==
  /\ watch[n] = "spawning"
  /\ ShutsDown(n)

(* Readiness: SQL answers, in time or not; a member that joined is verified. *)
SqlAnswers(n) ==
  /\ pc[n] = "readying" /\ engine[n] # "none"
  /\ Goes(n, IF decision[n].mode \in {"join", "rejoin"} THEN "verifying" ELSE "running")
  /\ UNCHANGED <<Continuing, recovery, watch, completion, engine, marker>>

SqlTimesOut(n) ==
  /\ pc[n] = "readying"
  /\ Goes(n, "running")
  /\ UNCHANGED <<Continuing, recovery, watch, completion, engine, marker>>

\* verifySupervisorJoin: a Primary of two or more is complete.
Joined(n) == engine[n] = "primary" /\ Cardinality(Primaries) >= 2

Verify(n) ==
  /\ pc[n] = "verifying" /\ engine[n] # "none"
  /\ IF Joined(n) THEN Sets(n, "complete", decision[n].epoch) ELSE UNCHANGED recovery
  /\ Goes(n, "running")
  /\ UNCHANGED <<Continuing, watch, completion, engine, marker>>

\* The status is not to be had any more, or the recovery state refuses.
VerificationFails(n) == pc[n] = "verifying" /\ ShutsDown(n)

(* The watcher                                                              *)
\* What the watcher waits for: all expected members, or the winner alone.
Ready(n) ==
  /\ engine[n] = "primary"
  /\ IF LocalWinner(n) THEN Cardinality(Primaries) = 1
     ELSE Cardinality(Primaries) >= decision[n].expected

WatchReady(n) ==
  /\ watch[n] = "watching" /\ Ready(n)
  /\ Watches(n, "confirming")
  /\ UNCHANGED <<Continuing, pc, recovery, completion, engine, marker>>

\* The join is looked at again, in a status that may be the one in the cache.
ConfirmJoin(n) ==
  /\ watch[n] = "confirming" /\ ~LocalWinner(n)
  /\ \/ Sets(n, "complete", decision[n].epoch)
     \/ ~Ready(n) /\ UNCHANGED recovery
  /\ Watches(n, "done")
  /\ UNCHANGED <<Continuing, pc, completion, engine, marker>>

\* A completion names an epoch.
Published(held, epoch) == IF epoch \in Epochs THEN epoch ELSE held

\* The winner's epoch is completed in the protocol, which may refuse; a winner
\* without an epoch, started explicitly, has nothing to complete or to publish.
ConfirmBootstrap(n) ==
  /\ watch[n] = "confirming" /\ LocalWinner(n)
  /\ Sets(n, "complete", decision[n].epoch)
  /\ completion' = [completion EXCEPT ![n] = Published(@, decision[n].epoch)]
  /\ Watches(n, "done")
  /\ UNCHANGED <<Continuing, pc, engine, marker>>

CompletionRefused(n) ==
  /\ watch[n] = "confirming" /\ LocalWinner(n) /\ decision[n].epoch \in Epochs
  /\ Sets(n, "cluster-unavailable", decision[n].epoch)
  /\ Watches(n, "done")
  /\ UNCHANGED <<Continuing, pc, completion, engine, marker>>

\* Nothing was ready in time: the winner, and who joined an active Primary,
\* stop mariadbd; who only rejoins leaves it running.  A failed completion that
\* the winner publishes is as good as none.
WatchTimesOut(n) ==
  /\ watch[n] = "watching"
  /\ Sets(n, "cluster-unavailable", decision[n].epoch)
  /\ engine' = [engine EXCEPT ![n] = IF decision[n].mode = "rejoin" THEN @ ELSE "none"]
  /\ Watches(n, "done")
  /\ UNCHANGED <<Continuing, pc, completion, marker>>

-----------------------------------------------------------------------------
(* mariadbd and the environment                                             *)
Outside == <<listens, starts, control, initialized, marker, leases, promoted>>

\* Only the winner's arguments found a new cluster.
FoundsCluster(m) == m \in Supervisors /\ LocalWinner(m)

\* A new cluster is founded, an active one joined, or a lost one formed again.
BecomesPrimary(m) ==
  /\ engine[m] = "spawned"
  /\ \/ FoundsCluster(m)
     \/ Primaries # {}
     \/ Majority({o \in Members : engine[o] # "none"})
  /\ engine' = [engine EXCEPT ![m] = "primary"]
  /\ UNCHANGED Outside

\* Primary is lost when another member is gone; a partition is left out.
LosesPrimary(m) ==
  /\ engine[m] = "primary" /\ \E o \in Members : engine[o] = "none"
  /\ engine' = [engine EXCEPT ![m] = "spawned"]
  /\ UNCHANGED Outside

\* An exit that was not asked for is recorded and ends the supervisor.
ExitRecorded(n) == Accepts(recovery[n], "cluster-unavailable", Undefined)

Exits(n) ==
  /\ engine[n] # "none" /\ ExitRecorded(n)
  /\ Gone(n)
  /\ UNCHANGED <<listens, starts, initialized, marker, leases, promoted>>

Crash(n) ==
  /\ pc[n] # "off"
  /\ Gone(n)
  /\ UNCHANGED <<listens, starts, initialized, marker, leases, promoted>>

\* A signal ends it in order, wherever it is.
Terminates(n) == pc[n] # "off" /\ ShutsDown(n)

-----------------------------------------------------------------------------
Prepare(n) ==
  \/ JoinAfterCleanRestart(n)
  \/ PlanJoin(n)
  \/ PlanBootstrap(n)
  \/ PlanBlocked(n)
  \/ PlanFails(n)
  \/ \E m \in Members : Claim(n, m)
  \/ AuthorizationFails(n)
  \/ Authorized(n)
  \/ PromotionFails(n)
  \/ ObserveCompletion(n)
  \/ CompletionTimesOut(n)

Continue(n) ==
  \/ Launch(n)
  \/ SqlAnswers(n)
  \/ SqlTimesOut(n)
  \/ Verify(n)
  \/ VerificationFails(n)

Watch(n) ==
  \/ Spawned(n)
  \/ LaunchFails(n)
  \/ WatchReady(n)
  \/ ConfirmJoin(n)
  \/ ConfirmBootstrap(n)
  \/ CompletionRefused(n)
  \/ WatchTimesOut(n)

Environment ==
  \/ \E m \in Members : BecomesPrimary(m) \/ LosesPrimary(m)
  \/ \E n \in Supervisors : Start(n) \/ Handoff(n) \/ Exits(n) \/ Crash(n) \/ Terminates(n)

Next == (\E n \in Supervisors : Prepare(n) \/ Continue(n) \/ Watch(n)) \/ Environment

Spec == Init /\ [][Next]_vars

\* The startup and the watcher are chains of awaits, every one of which ends by
\* an answer or a timeout.  Whether SQL answers in time, a claim is granted or
\* an operator comes is up to the others.
FairSpec ==
  Spec /\ \A n \in Supervisors : WF_vars(Prepare(n) \/ Continue(n)) /\ WF_vars(Watch(n))

-----------------------------------------------------------------------------
(* Properties                                                               *)
Recoveries == [state : RecoveryStates, epoch : Epochs \cup {Undefined}]
Decisions ==
  [mode : {"none", "blocked", "bootstrap", "join", "rejoin"},
   winner : Members \cup {Nobody}, epoch : Epochs \cup {Null},
   expected : Sizes \cup {2}, explicit : BOOLEAN]
Leases == [winner : Supervisors \cup {Nobody}, epoch : Epochs \cup {Undefined}]

TypeOK ==
  /\ listens \in Listens
  /\ starts \in 0..MaxStarts
  /\ pc \in [Supervisors -> {"off", "evidence", "claiming", "waiting", "launching",
                              "pending", "readying", "verifying", "running"}]
  /\ recovery \in [Supervisors -> Recoveries]
  /\ decision \in [Supervisors -> Decisions]
  /\ claims \in [Supervisors -> SUBSET Members]
  /\ watch \in [Supervisors -> {"idle", "spawning", "watching", "confirming", "done"}]
  /\ completion \in [Supervisors -> Epochs \cup {Undefined}]
  /\ engine \in [Members -> {"none", "spawned", "primary"}]
  /\ initialized \subseteq Supervisors /\ marker \subseteq Supervisors
  /\ leases \in [Members -> Leases]
  /\ promoted \subseteq Supervisors

\* A supervisor holds the leases that it counts, wherever it is with them.
CountsOwnLeases ==
  \A n \in Supervisors, m \in Members :
    m \in claims[n] => leases[m].winner = n

\* The data made safe to bootstrap belongs to a member that every other has
\* leased its recovery to.
PromotedHoldsLeases ==
  \A n \in promoted, m \in Members : leases[m].winner = n

\* Only a member without data is blocked.
BlockedLacksData ==
  \A n \in Supervisors : decision[n].mode = "blocked" => n \notin initialized

\* How far the startup, its watcher and mariadbd can be apart.
Stages ==
  \A n \in Supervisors :
    /\ pc[n] \in {"off", "evidence"} => decision[n] = Undecided
    /\ pc[n] = "pending" => decision[n].mode = "blocked"
    /\ pc[n] = "claiming" => LocalWinner(n) /\ decision[n].epoch \in Epochs
    /\ watch[n] # "idle" => pc[n] \in {"readying", "verifying", "running"}
    /\ engine[n] # "none" => watch[n] \in {"watching", "confirming", "done"}

\* The recovery state names no epoch but that of the decision, which it names
\* when it is complete.  It is one that mariadbd has reached where that runs.
Started == {"bootstrapping", "joining", "complete", "cluster-unavailable"}
RunsRecorded ==
  \A n \in Supervisors :
    /\ recovery[n].epoch \in {Undefined, decision[n].epoch}
    /\ recovery[n].state = "complete" =>
         /\ decision[n].epoch \in Epochs => recovery[n].epoch = decision[n].epoch
         /\ watch[n] \in {"watching", "confirming", "done"}
    /\ watch[n] \in {"watching", "confirming", "done"} => recovery[n].state \in Started
    /\ watch[n] = "spawning" /\ LocalWinner(n) => recovery[n].state \in Started

\* The inductive invariant of the proofs.
StartupInv ==
  /\ TypeOK
  /\ CountsOwnLeases
  /\ PromotedHoldsLeases
  /\ BlockedLacksData
  /\ Stages
  /\ RunsRecorded

\* At most one member of the cluster ever makes its own data safe to bootstrap
\* from (recovery-authorization.mjs:24,46), however the elections of the
\* supervisors differ and however often they are restarted, as long as the
\* leases do not expire.
OnePromoted == \A a, b \in promoted : a = b

\* An exit of mariadbd can be recorded wherever mariadbd runs: the exit handler
\* (process-wiring.mjs:8-11) calls set('cluster-unavailable') before it ends the
\* supervisor, and an illegal transition would throw instead.
ExitAlwaysLegal == \A n \in Supervisors : engine[n] # "none" => ExitRecorded(n)

\* A member that has data is never left to an operator: whichever of the plan,
\* the claims, the authorization or the wait for the winner fails, it rejoins
\* (recovery-startup.mjs:57-62).
InitializedNeverPends == \A n \in Supervisors : pc[n] = "pending" => n \notin initialized

\* The completion of an epoch is final while the process lives: neither the late
\* timeout of a watcher nor a late verification takes it back
\* (recovery-state.mjs:35).
CompletedEpochStays ==
  [][\A n \in Supervisors :
       recovery[n].state = "complete" /\ decision[n].epoch \in Epochs
         => recovery'[n].state = "complete" \/ pc'[n] = "off"]_vars

\* A supervisor that starts settles, also when those it waits for wait for it:
\* it runs or waits for an operator, with its watcher through, or is gone.
Settled(n) ==
  /\ pc[n] \in {"off", "pending", "running"}
  /\ watch[n] \notin {"spawning", "watching", "confirming"}
SettlesDown == \A n \in Supervisors : pc[n] = "evidence" ~> Settled(n)
=============================================================================
