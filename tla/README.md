# Verification of the Elera supervisor

The repository is the supervisor of one member of a MariaDB/Galera cluster: a
Node.js process that starts and stops `mariadbd`, decides whether a stopped
cluster may be bootstrapped and by whom, answers the control API, drains
traffic, and publishes routing decisions. This directory specifies its
protocols in TLA+, model-checks them with TLC, and proves theorems about them
with TLAPS. Source paths below are relative to `src/src/`;
those under `docs/`, `tests/` and `docker/` to `src/`.

Contents: [the system](#the-system), [the modules](#the-modules),
[the runs](#the-runs), [fairness](#fairness), [the proofs](#the-proofs),
[where code and documents disagree](#where-code-and-documents-disagree),
[what is not modelled](#what-is-not-modelled).

## The system

Every member runs one supervisor; they share no memory, and talk HTTP. Inside a
supervisor everything is one event loop: steps interleave only at `await`s, but
HTTP handlers, the startup flow, timers and child-process events all do.

| component | state | operations | what is hard | what makes it correct | module |
|---|---|---|---|---|---|
| candidate selection (`cluster/cold-bootstrap/candidate`) | none | `selectCandidate` | boundaries: ties, majority, negative positions | the winner is the member with the highest position, of a history a majority holds | `CandidateSelection` |
| evidence (`peer-evidence`, `startup-local-evidence`, `evidence-validation`, `collect` of `protocol`) | remembered result of `--wsrep-recover`, generation | `local`, `remote`, `readEvidence`, `collect`, `plan` | members answer at different times, while mariadbd starts, commits or stops; a remembered position grows old; failures, wrong members | two supervisors that elect agree on the history, and on the winner unless a member has moved; nobody joins a foreign cluster | `EvidenceCollection` |
| recovery epoch and protocol (`recovery-epoch`, `protocol`, `decision-store`, `runtime/recovery-decision`) | the record in memory, the file `cold-recovery.json`, the chain of writes | `plan`, `retry`, `authorize`, `beginBootstrap`, `complete`, `status` | concurrent calls over awaits, compare-and-set after memory was assigned, failed writes, restarts | no record without the acknowledgements it asked for; a record in the file is replaced only about the epoch it names | `ColdRecoveryProtocol`, `RecoveryDecision` |
| recovery lease (`lease`) | one file per member | `claim` | create and fill are two steps, stale takeover by path, crash | one winner at a time | `RecoveryLease` |
| startup (`runtime/startup-coordinator`, `recovery-startup`, `recovery-authorization`, `rejoin-decision`, `clean-restart-recovery`, `maria-startup`, `recovery-state`, `completion`) | recovery state, startup decision, completion, marker file | prepare, claim, authorize, rejoin, launch, watch, complete | a listener that opens late, watchers that time out against late readiness, exits of mariadbd, several supervisors waiting for one another | one member bootstraps; initialized data never waits for an operator; a completed epoch stays complete; everybody settles | `SupervisorStartup` |
| mariadbd process (`lifecycle/mariadb-process`, `action`, `startup`, `intent-application`, `process-wiring`) | child, `stopping`, `restarting` | `start`, `stop`, bootstrap, restart | exit events of old children, SIGKILL timeout, check-then-set over awaits | one child at work, the one the controller knows; an exit that was asked for ends nothing | `MariaDbProcess` |
| shutdown (`lifecycle/shutdown`, `state`, `sql-quiesce`) | lifecycle state | `shutdown` | restarts in progress | nothing runs after `stopped`; what it drained stays drained | `MariaDbProcess`, `TrafficDrain` |
| operator cold bootstrap (`service`, `coordinator`, `eligibility`, `operation-lock`, `idempotency-store`) | completed and in-flight keys, lock file, results file | `plan`, `execute` | one key twice, a stale lock removed by path, lost answers, crashes | one founder in an outage, one run per key, one holder of the lock | `OperatorBootstrap` |
| drain (`drain-manager`, `drain-events`, `drain-propagation`, `traffic-wiring`) | the gate, the last event, requests under way | `begin`, `end`, `set`, `recover`, shutdown | propagation without order or retry, a recovery against a drain, a shutdown while a caller is being authenticated | whoever was told to leave is told to come back; drains of shutdowns are lifted | `TrafficDrain` |
| observations, quorum and writer assignment (`observation-store`, `quorum`, `decision`, `bundle-service`, `quorum-assignment`, `metadata-assignments`, `event-snapshot`) | observations, cached routes, the cached assignment, the row in the database | `upsert`, `evaluateQuorum`, `lease`, `rebalance`, tick | caches of one second, state read before two awaits, writes nobody waits for | a lease with routes names the assignment in the database | `WriterAssignment` |
| routing events (`event-snapshot`, `event-version-store`, `event-bus`, `routing-publisher`, `routing-stream`) | fingerprints, versions in memory and file, last event, clients | snapshot, publish, subscribe | several applications over one bus, replay, restarts | versions never go back; clients end up with the routes there are | `EventStream` |
| intent (`intent/state`, `model`, `runtime/intent-application`, `startup-intent`) | `active.intent.json`, `mariadb.cnf`, `last-known-good.intent.json`, what mariadbd has read | `plan`, `apply`, start | failures and crashes between the writes, overlapping applies | the active intent is what is rendered and served; the cluster never changes | `IntentApply` |
| node data reset (`lifecycle/node-data-reset`) | fence, process, directory, keys | `reset` | failure after each step | data is removed only under a stopped mariadbd | `MariaDbProcess` (stop, removal, restart) |
| pending-init runtime and operator recovery (`lifecycle/pending-init/*`, `sequential-joiners`, `recovery-join-*`) | temporary listener, joiners done | initialize, bootstrap, join one by one | partial failure among joiners | joiners start only after the winner | - |
| metadata, accounts, artifacts, API, telemetry, configuration | the database's | SQL, HTTP formats | none beyond the database's | - | - |

`PROJECT.json` lists every source file under one component, with its status.

How they interact. At startup `prepareSupervisorRecovery` lets the protocol
collect evidence from every member (each answers by its startup routes, which
stay mounted), records its decision in the decision store, claims a lease from
every member when it is the winner, authorizes in the protocol, makes its own
`grastate.dat` safe to bootstrap, and starts mariadbd; the readiness watcher
completes the epoch and publishes the completion that the others wait for.
Before mariadbd is started the active intent is applied again, which renders
`mariadb.cnf`; once SQL answers `recover()` opens the gate of the whole
cluster. From then on every supervisor publishes an observation of its member
every second, calculates routes from those it holds, and sends events to the
clients of its stream; a lease of an application reads the assigned writer from
the database. Operators call the operator's cold bootstrap, intent, drain and
reset handlers. A signal drains the cluster, closes the
listeners, leaves the clean-restart marker and stops mariadbd.

Three connections that the code prepares are not made as it is wired.

- The control API has routes for the protocol, but `control-api.mjs:40` passes it as
  `coldRecoveryProtocol` and `routes/cold-recovery.mjs:4` reads `protocol`: an
  operator's request is answered "still initializing" or 503, and the startup flow is
  the only caller. The pending listener has routes for it too, and a timer that retries,
  but only on initialized data (`startup-coordinator.mjs:36,67`), where a blocked plan
  becomes a rejoin before (`recovery-startup.mjs:60`, `InitializedNeverPends`). What is
  shown of overlapping calls (`protocol`, `protocol_blocked`) is shown of the protocol
  object.
- The control API has a route for evidence, but `runtime/control-composition.mjs:18`
  gives it none, so it answers 503: peers are told what the startup routes tell (and a
  pending listener, by the same producer).
- `POST /cluster/cold-bootstrap/local` answers 202 without bootstrapping:
  `control-api.mjs:40` passes the getter, and calling it only returns
  `bootstrapExistingMember` (`control-composition.mjs:18`, `main.mjs:33`). A cold
  bootstrap of another member then succeeds, and its key is remembered, with nothing
  stopped or started.

The models cover the components as they are written, and these connections as they
are: `Endpoints` of `EvidenceCollection` may be the startup routes only, and `Call` of
`OperatorBootstrap` has the answer without effect besides the bootstrap.

## The modules

| module | models | depends on |
|---|---|---|
| `CandidateSelection` | `candidate.mjs`: pure operators over a set of evidence | - |
| `EvidenceCollection` | `collect()` and the verdict of `plan()` on several supervisors, both producers of evidence, mariadbd as environment | `CandidateSelection` |
| `RecoveryEpoch` | the records of an epoch and their legal moves (`recovery-epoch.mjs`) | - |
| `RecoveryDecision` | abstract specification: what `cold-recovery.json` promises its readers | `RecoveryEpoch` |
| `ColdRecoveryProtocol` | the protocol object of one supervisor and its store, with concurrent callers | `RecoveryEpoch`, instance of `RecoveryDecision` |
| `RecoveryLease` | `lease.mjs`: concurrent claims of one lease file | - |
| `SupervisorStartup` | the startups of several supervisors, from the start of the process to `complete` or the pending listener | - |
| `MariaDbProcess` | the mariadbd child of one supervisor, and every flow that stops or starts it | - |
| `OperatorBootstrap` | `POST /cluster/cold-bootstrap` at several supervisors | - |
| `TrafficDrain` | the gates of several supervisors, their events and the requests between them | - |
| `WriterAssignment` | the writer of one application: observations, routes, caches, the row | - |
| `EventStream` | the routing events of one supervisor and the clients of its stream | - |
| `IntentApply` | the files of the intent, applies and the start that applies again | - |
| `MCSupervisorServices` | `WriterAssignment`, `OperatorBootstrap`, `IntentApply`, one in each behaviour | these |
| `MCSupervisorSignals` | `TrafficDrain`, `EventStream`, `RecoveryLease`, one in each behaviour | these |
| other `MC...` | instances and their properties | the module named |
| `..._proofs` | theorems and proofs; those of `MCSupervisorServices` and `MCSupervisorSignals` cover the three components of the instance, with `OperatorBootstrap_proofs` and `IntentApply_proofs` as parts | the module named |

**EvidenceCollection.** `disk` is the history and the last position in a data
directory, `clean` whether `grastate.dat` has that position or -1, `engine` the
mariadbd on it, `recovered` what each of the two producers of evidence remembers of
`--wsrep-recover`: a position, a failure, or nothing yet. `endpoint` says which of
them answers a peer's request (`readEvidence` of the startup routes, or `local`,
which a supervisor always takes for itself). `settled[s][n]` is the settled promise
of supervisor `s`'s request to member `n`; `Answer`, `Fail` and `RecoveryFails` settle
one, in any order, and `Conclude` is the synchronous rest of `collect` and `plan` once
`Promise.allSettled` returns. The epoch is the set the digest is taken over. Where
the code takes the first failure or the first invalid item, `Verdicts` allows any:
the order of arrival is not in the state.

Between requests mariadbd starts (`StartEngine`), reaches the Primary component
(`ReachPrimary`), executes transactions (`Commit`), and is stopped or killed
(`StopEngine`, `KillEngine`), with its position in `grastate.dat` afterwards or not; and
a supervisor ends and starts (`RestartSupervisor`), which is the only thing that
empties `recovered`. A position that was remembered before such a run is an old one,
and the evidence has no sign of it: it carries the time of the request. This is
modelled as it is, and `HighestPositionWins` and `WinnersAgree` say what holds
nevertheless. An answer is one action: the two looks at the health in `local` see the
same member. One assumption is in the module: within a behaviour a data directory
keeps its uuid and its position only grows; a state transfer and a reset, which
change the history, come after the recovery.

**ColdRecoveryProtocol.** A caller is a flow with at most one call in flight.
`step` is the `await` its call is at, `existing` the local variable of that name,
`current` the protocol's variable, `stored` the file, `writes` the chain of
`decision-store.mjs`. One action is one turn of the event loop: from an `await`
to the next. `Persist` is `current = ...; await persist(...)`, in one action
because nothing can come between. `read()` yields only when memory is empty:
`ReadMemory` decides at once, `OpenFile`/`ReadFile`/`Adopt` over two awaits.
`Decide` contains every outcome of `authorize`, `beginBootstrap`, `complete` and
`status`; which method is called, with which arguments, is chosen there. All
refusals are one disjunct (`Answer`): they change nothing but `current ??=`.
Until the startup flow has finished, only it (`Starter`) has the protocol
(`stage`). It plans and retries until a plan is not blocked; its decision is made from
what the last `plan()` returned, not from `current`: after a plan that joins (`stage` is
then `joining`) `RecordDecision` writes a decision without an epoch, although a
`retry()` before it may have elected one that stays in memory. `EpochCoherent` excepts
this decision by name. A view stands for the complete evidence of all members: the digest
is over it and the cluster identity follows from it, so it is the epoch's
identity; `Winner` is any election over views.

**RecoveryLease.** One action per file access of `claim()`. `claimedAt` is read
before the file is opened, therefore `since` is kept from `Start`. The handle of
`open(wx)` belongs to the inode: `Fill` writes into the file only when its
creator's file is still at the path, and grants in any case, as the code does.

**MariaDbProcess.** A flow is a request of the control API, the startup, its
readiness watcher, or the shutdown. `pc` is the `await` a flow is at: `stopping`
in `stop()`, `resumed` when its promise is resolved, `spawning` until the
child's spawn event. Continuations of promises and the spawn event run before
the next event (`Settled`); what a flow does between two such points is one
action. Each flow starts mariadbd at most once, so that a child goes by its
flow's name: `os[c]` is the process, `child` the variable of that name, `on[f]`
the child whose exit event the `stop()` of `f` listens for. `Exit` and
`ExitEvent` are apart, for the event is delivered later; `exited` is
`exitCode !== null`, which is false also after an exit by a signal. `sent` keeps
the signals, by which a child that is still running but was killed
(`~Serving`) differs from one at work. `orderly` is chosen at the start and
never changes: it says that clients send the requests that stop or start
mariadbd one at a time, wait for the answer, and never ask for `recover`, whose
start comes without a stop. Most properties are stated of orderly clients,
because the code serialises such requests only in part: `restarting` is looked
at by the two bootstraps but not by an intent restart or a reset.

**SupervisorStartup.** A supervisor runs three flows: the startup proper (`pc`),
the watcher of the mariadbd it has launched (`watch`), and the handlers that
answer its peers (`Answers`, `ServesRecovery`). `recovery` is the object of
`recovery-state.mjs` with its transition table; `Sets` is its `set`, which is
disabled where the code throws, and `Ignores` are its two silent refusals, with
JavaScript's `undefined` and `null` as different epochs. `decision` is the
startup decision; `Fallback` turns a blocked decision of an initialized member
into `rejoin`. What the evidence says, and whether the protocol accepts, are open
choices: `EvidenceCollection` and `ColdRecoveryProtocol` say which occur.
`Listens` gives the order of listener and preparation. As wired
(`"after"`) the socket is opened in `startup-readiness.mjs:9`, when the
preparation is over; `recovery-startup.mjs:31-33` and
`tests/runtime/startup-coordinator.test.mjs:115` assume that it is open before
(`"before"`). Both are in one run, because a winner asks for the leases of all
members, its own included: with `"after"` its own claim fails, every
authorization fails, and everybody falls back. Leases do not expire
here (`RecoveryLease` is about that), and a marker that has expired is as good
as none. `LosesPrimary` happens only when another member is gone: a partition
is left out. An exit that is not asked for, a crash or a signal may come at any
step.

**OperatorBootstrap.** One request is one call of `execute()`: `at` is the
`await` it is at, `asked` and `read` are the members whose evidence the plan
has. `lock` is the lock file, named by the request that created it, `remembered`
and `recorded` are the map of results in memory and in its file. The candidate is
bootstrapped by its own supervisor (`busy`), which goes on when the caller has
given up (`GiveUp`). `Call` of another member has a third outcome, an answer
that accepts the request and does nothing, which is what the wired handler gives (see
above). Assumptions: one outage, in which positions do not change
and a member that is up stays up, but for the `stop()` of `Call`; a lock file is
older than `staleAfterMs` only when its creator is gone, that is a run is shorter
than two minutes. A write of the results leaves the map as it was when the write
began, and so may undo a later one that was faster (`Record`). A results file that
cannot be parsed makes every keyed request fail, and is left out.

**TrafficDrain.** `draining` is the gate (the two flags of drain manager and
wiring, which are set together), `lastEvent` the drain event that the bus
replays, `undraining` a `publishDrainEvent(false)` that awaits the health,
`announcing` the loop of `recover()`. `network` holds the propagated requests, in
no order, `admitted` those that wait for their authentication, at the supervisor
they are for. A request passes two turns: `Order` or `Deliver` is the look at the
shutdown (`probes.mjs:7`), `Handle` the effect after `managed.authenticate`
(`control-api.mjs:35`), where nobody looks again; `Refuse` is a failed
authentication. The root token is recognised without a query, so that a request with
it is handled in the turn that admits it; that propagated requests, which by default
carry the root token, wait as well is an over-approximation unless
`ELERA_PEER_TOKEN` is a scoped one. `recover()` is called by the startup flow whatever
the lifecycle state is, also in `stopping`. One request of a kind waits at a
supervisor at a time (`Order`). `faultless`, chosen at the start, says that none is lost and every
health is ready; the properties that need it name it.

**WriterAssignment.** `view` is a supervisor's store of observations, fresh ones
only; `assigned` is the row of `routing_assignments`, `known` the cache over it,
`routes` and `cached` the routes of the last second. A lease is split at its two
awaits: the cached routes and observations are taken in `Lease`, the row is read
in one of the three `Read...` actions, and written in `Write`. `Tick` is the
routing event of every second, which writes the cache and leaves the row to
`Insert`, a promise nobody waits for. A lease without routes, for want of a quorum
or of an eligible member, falls back to the routes of the metadata, which name the
supervisor's own node and no writer, and the bundle makes the first of them the writer
(`Named`; `bundle-service.mjs:37`, `internal/routing/bundle.mjs:33`). A client that
sends routes of its own gets these instead, which is left out. Weights, the order of readers and
addresses are left out.

**EventStream.** One turn of the publisher's timer is `StreamTick`: a snapshot
of every application it looks at, and the events that are new. `shown` is the
fingerprint a snapshot compares, `version` and `stored` the counters in memory
and in the file. Events carry no application in the code; the field `app` is
known to the model only, so that `seen` can be the version of the client's own.
`Connect` replays the last event of the bus, which the client's own follows;
when its version cannot be written (`ConnectFails`) the client stays on the bus with
the replay only.
`unfailing`, chosen at the start, says that the file can be written and that
clients can be sent to. A client that cannot be sent to leaves the bus with its
socket open.

**IntentApply.** A handler is an apply of a request, or the apply of a start
(`Boot`). `call` holds its stage, the desired intent, the one a failure restores
and the planned change. `mariadb.cnf` is the intent it renders. Writes of one
file by two handlers at a time go through one temporary file: `mixed` are the
handlers whose writes may meet, and `Outcomes` over-approximates what their write
leaves (either content, the old one, or a torn file, with success or error). A
reload sends SIGHUP only and is no change of what mariadbd has read.
`last-known-good.intent.json` is written and never read: only the failure of its
write is kept. `orderly`, chosen at the start, says that applies come one at a
time; `troubled` that a restore or a restart has failed.

**Composed instances.** `MCSupervisorServices` and `MCSupervisorSignals` check
three components each, in one run. They share no state and do not call each
other, so a behaviour follows one of them (`part`) and the others stay in their
initial state: nothing is lost, and the runs do not multiply their states.

**RecoveryDecision** is what a reader of the file may rely on: it is replaced
as a whole; a new epoch enters it as plain evidence, as a refusal or as the
startup decision; everything else is about the epoch the file already names,
with the acknowledgements its authorization asked for. It does not promise the
order of the phases of one epoch, and must not: see `BlockedEpochStaysBlocked`.

## The runs

| run | configuration | shows |
|---|---|---|
| `evidence` | `MCEvidenceCollection.cfg` | `HighestPositionWins`, `WinnersAgree`, `MajorityHoldsTheHistory`, `JoinsOwnHistory` |
| `evidence_epochs` | `EvidenceEpochs.cfg` | `EpochsConverge` violated |
| `protocol` | `MCColdRecoveryProtocol.cfg` | `IInv`, `WaitersAreQueued`, `KeepsPromise`, `CallsReturn` |
| `protocol_sequential` | `MCColdRecoverySequential.cfg` | `Acknowledged`, `EpochCoherent` |
| `protocol_blocked` | `ColdRecoveryBlocked.cfg` | `BlockedEpochStaysBlocked` violated |
| `lease_takeover` | `RecoveryLeaseTakeover.cfg` | `SingleLiveWinner` violated |
| `mariadb` | `MCMariaDbProcess.cfg` | `ServerInv`, `OneServer`, `ResetSparesServer`, `StoppedLeavesNone`, `BootstrapsExclusive`, `CallsEnd`, `ShutdownEnds` |
| `mariadb_forced_restart` | `MariaDbForcedRestart.cfg` | `RestartExitNotFatal` violated |
| `startup` | `MCSupervisorStartup.cfg` | `StartupInv`, `OnePromoted`, `ExitAlwaysLegal`, `InitializedNeverPends`, `CompletedEpochStays`, `SettlesDown` |
| `services` | `MCSupervisorServices.cfg` | `LeaseNamesTheAssignment`; `OneFounder`, `KeyRunsOnce`, `LockExcludes`; `ActiveIsServed`, `OneCluster` |
| `signals` | `MCSupervisorSignals.cfg` | `OpenGateIsAnnounced`, `ShutdownStaysDrained`, `DrainsAreLifted`; `VersionsNeverRewind`, `ClientsCatchUp`; `LeaseInv`, `SingleWinnerUntilStale`, `ClaimsReturn` |
| `writer_restart` | `WriterRestart.cfg` | `PersistedAssignmentStays` violated |

Every property of a passing run comes with a mutant in `PROJECT.json`: a
plausible bug in one mapped definition, under which TLC finds the property
violated by the same configuration.

Bounds, and why they are enough:

- *evidence*: three members, the smallest membership with a majority short of
  all; three data directories (two positions of one history, a rival at the
  higher position), so that a member can be behind, tied and divergent; two
  collecting supervisors, because the properties compare two; answers from a
  wrong member as the one fault (`unavailable` only shortens the evidence
  likewise, and malformed or stale items block whatever else is there); mariadbd,
  commits, kills and restarts of the supervisor on one member (`Movers`), which is
  itself one of the two that collect: it reports its own memory, and is asked about it
  by the other. The members that do not move start with a clean `grastate.dat` and
  answer by the startup routes (`MCInit`), which leaves out only that a memory or a
  recovery of an unmoved directory says the same by another way. About 3,556,000 states.
- *protocol*: two callers, so that every two calls overlap; two members, two
  views with different winners, so that evidence can change between two
  collections; the quorum of all members; failing writes; restarts at any
  point. The chain of writes is bounded by the callers (one call in flight
  each) and needs no bound of its own. About 55,000 states.
- *protocol_sequential*: the data instead of the interleavings: three members,
  a name that is no member, every quorum from 0 to one too many.
  `EpochCoherent` is a property of calls that do not overlap: `current` is
  assigned before the store has compared the epoch, so with two overlapping
  calls a refused write leaves memory ahead of the file until the next restart.
- *mariadb*: two requests of any kind, each made once, besides the startup, the
  watcher and the shutdown, so that every two operations overlap, or follow each
  other while the first one's child is still exiting. The run stops where a
  supervisor stops, so deadlock is not checked. About 340,000 states. A third
  bootstrap that finds the flags cleared by an intent restart under the first
  one needs three requests: that case rests on the theorem.
- *mariadb_forced_restart*: one request suffices.

- *startup*: two supervisors and two starts in all, so that both start at the same
  time, or one starts twice with the leases of its first life; a majority of two
  members is all of them, as `authorize` asks for. Any evidence, one epoch, every
  combination of earlier leases, initialized data and markers. About 277,000
  states. Epochs that sort the other way, and more members, rest on the theorems.
- *services*: three members, two of them with supervisors and a lease at each, and
  one change, lost contact or restart: enough for a cache of one supervisor to
  meet the write of the other. Three requests with one key or none, two of them
  at one supervisor, two members and one crash: two requests can find the same
  old lock. Two applies of three intents, of two clusters and two ports, and one
  end of the supervisor. About 1,007,000 states.
- *signals*: two supervisors, with two of three: an order of an operator and the
  end of either supervisor (`TrafficBound`); two applications with a client each, one topology or none, and two
  changes or restarts; two claims of a lease with `StaleAfter` 1 and a clock up
  to 3, so that a lease goes stale, is taken over, and goes stale again. About 502,000 states.
- *writer_restart*: one supervisor that sees three members, with three changes:
  the writer leaves, comes back, and the supervisor restarts.

`services`, `signals`, `startup` and `mariadb` let the supervisor stop for good at
the bound of its restarts, therefore deadlock is not checked there.

A member may report something else than what its directory holds, at the time of the
request or later: -1 while mariadbd runs outside a Primary component (its
`grastate.dat` says so, and it cannot be recovered), or a `--wsrep-recover` that its
supervisor remembers from before mariadbd ran. An election in its presence may leave it
behind, and the code has no defence against it. `HighestPositionWins` and `WinnersAgree`
say what holds of any election: how the members that were reported as they are stand to
its winner, and that two elections can differ only over a member that moved.

## Fairness

- `ColdRecoveryProtocol!FairSpec`: every caller's next turn and the store's next
  write. Requests of a collection carry `AbortSignal.timeout`
  (`peer-evidence.mjs:45`), `--wsrep-recover` a timer
  (`runtime/wsrep-recovery.mjs:8`), file accesses return, and the event loop runs
  their continuations.
- `RecoveryLease!FairSpec`: the file accesses of a claim.
- `MariaDbProcess!FairSpec`: the timer of `stop()` fires, what a request awaits
  settles, a spawned child emits its event, and a shutdown goes on once it may: its
  drain and its quiesce have timeouts of their own, and `server.close()` returns
  when the last client is answered or gone. No child is assumed to exit and no
  exit event to come.
- `SupervisorStartup!FairSpec`: the startup flow and the watcher of every
  supervisor. Each is a chain of awaits that end by an answer or a timeout.
  Whether SQL answers in time, a lease is granted, a member becomes Primary or an
  operator comes is up to the others; nothing of it is assumed.
- `TrafficDrain!TrafficFairness`: a request whose caller is being authenticated is
  handled or refused, a propagated request is answered or given up
  (`drain-propagation.mjs`, two seconds), a started supervisor calls `recover()`, a
  shutdown goes on to the exit, and the container runtime restarts what has
  ended. The publication of a recovery is not assumed.
- `EventStream!StreamFairness`: the publisher's timer of every second, and the
  five seconds after which routes that are gone no longer count.

Nobody is assumed to make a call, to retry, or to connect. `EvidenceCollection`,
`WriterAssignment`, `OperatorBootstrap` and `IntentApply` state no liveness and
assume nothing.

## The proofs

`ColdRecoveryProtocol_proofs` proves, for every finite membership, every set
of views with any election, every set of callers and quorums:

- `Invariance`: `Spec => []IInv`. `Acknowledged` alone is not inductive: a call
  writes a record that it read some turns ago, and a queued write reaches the
  file some turns later. `IInv` adds that what a call still holds
  (`existing`) is well formed, that a call that revalidates holds an authorized
  record, and that a queued write either expects nothing and proposes an epoch,
  or is certified and about the epoch it expects.
- `TypeCorrect` and `AcknowledgedAlways` are its consequences.
- `Refinement`: `Spec => KeepsPromise`. The compare-and-set of the store is
  used here: a write with an expectation is committed only when the file names
  that epoch, which is the guard of `Advance`. The mutant without it
  (`NeverConflicts`) violates exactly this.
- `WaitersQueue`: `WaitersAreQueued`, inductive with the types. It says where a
  call could be lost: between a write that was refused or has failed and the ones
  behind it. `CallsReturn` rests on it, with the fairness that the prover cannot use.
- `EpochsCohere`: `EpochCoherent` in every behaviour in which no two calls overlap
  (`OneCall`) and no write fails (`WriteIsDone`), for any callers; the corollary
  `SequentialEpochsCohere` is the case of the run. `CoherentInv` is the
  invariant: a queued write is that of the call in flight, stores what is in
  memory and expects the epoch of the file, so that it is never refused
  (`WriteInv`); what a call has read from the file is what is still there when it
  acts on it; and while the startup plans, memory holds only what `plan()` has
  made, so that the decision that then replaces the file names its epoch, or none
  (`PlanningInv`): after a plan that joins, the file may say that there is nothing to
  recover while memory still has the epoch of an earlier `retry()` (`joining`). `About`
  carries that case through the calls that follow.

The assumptions are those named in `RecoveryEpoch` (`EpochAssumption`: finite
membership, winners are members; `NothingAssumption`) and in
`ColdRecoveryProtocol` (`CallerAssumption`).

`EvidenceCollection_proofs` proves the five properties of its run for any finite
membership, any data directories, supervisors, movers and faults. The invariant,
`CollectionInv` (`CollectionInvariance`), is small: what a member remembers, and what a
request has settled to, is of the history in its data directory and of no position
beyond the one there, of exactly that one where mariadbd never runs (`Positions`); and
a verdict is one that can be drawn from the collection its supervisor holds. That a
position once read is never ahead of the directory is all that is left of a memory that
mariadbd has run past, and it is enough. The rest is about the election, for any
evidence:

- `HighestIsReached`, `StrongestExists`, `ElectedIsStrongest`, `WinnerIsHighest`: of
  comparable positions and names the election ends with one member, which holds
  the furthest position of the one strongest history. They rest on
  `MinimalExists`: a finite set has an element that no other precedes. The library's
  induction on finite sets cannot be used here (it takes an operator); its theorem
  that strict inclusion is well founded can, applied to the sets of what precedes
  an element.
- `MajorityHistory`: an election needs a majority of candidates of one history, and
  their histories are those of their directories. `WinnerIsNeverBehind` adds that
  nobody of another history is ahead (the refusal of a divergent member), unless the
  member no longer stands where it was reported; the winner itself can only have moved
  on. `SameWinner` says that two elections name the same history, since two majorities
  meet, and the same member when both are views of the directories as they are.
- `OwnHistoryJoined`: the look at the own history comes before that at a Primary.

Assumption: `EvidenceAssumption`; names are numbers there because ties are broken by
their order, a state file without a uuid or with a seqno below -1 is never evidence
(`parseStateFile`), and a directory keeps its history within a behaviour.

`MariaDbProcess_proofs` proves `ServerInvariance` (`Spec => []ServerInv`) for any
set of requests, and from it `OneServerAlways`, `ResetSparesServerAlways`,
`StoppedLeavesNoneAlways` and `BootstrapsExclusiveAlways`. Neither of the first
three is inductive: a start may only come when nothing is at work, which is so
because the flow that starts has stopped the child before (`Owned`: a flow past
its `stop()` finds the known child dead or killed, and only the known child is
ever at work) and no other flow has started one meanwhile (`Serial`: one request
in flight, none before the startup is done or once the listeners are closed).
`BootstrapsExclusive` rests on the flag `running` of the action, which stays set
as long as a cold bootstrap is under way, whatever happens to `restarting`. The
proof has one lemma for what many flows do (`StartPreserves`, `StopPreserves`,
`EndPreserves`), and then one per action. Its assumption is `FlowAssumption`: the
flows have different names.

`SupervisorStartup_proofs` proves `StartupInv` for any members, epochs, sizes and
number of starts, and from it `PromotesOne`, `ExitsAreLegal`, `DataRejoins` and the
action property `CompletionIsFinal`. `OnePromoted` needs that a counted claim is a
lease held (`CountsOwnLeases`), which a member that is promoted holds of everybody
(`PromotedHoldsLeases`), so that two of them would hold the same lease.
`ExitAlwaysLegal` needs to know how far flow, watcher and mariadbd can be apart
(`Stages`), and that the recovery state has followed (`RunsRecorded`), also when a
late timeout was ignored. Assumption: `StartupAssumption`.

`OperatorBootstrap_proofs` proves the three properties of the run for any finite
set of members with any positions, any requests, keys and number of crashes.
`OneMemberFounds` does not rest on the lock: a plan that succeeds has read every
member (`FounderInv`: `read = asked`), so that all plans of an outage choose the one
member that is furthest (`OneFurthest`). `KeysRunOnce` rests on the turn in which the
last look at the key and the entry of the run are one action (`Continue`); `LockIsExclusive` on
`LockInv`, that the file names its holder until a supervisor has died, and so does
`LocksAreReleased`: until then no failure leaves a lock file behind. Assumption:
`BootstrapAssumption`.

`IntentApply_proofs` proves `StaysInCluster` for any intents and any number of
overlapping applies, over `IntentInv`: until an active intent is on disk nothing
else is, and whatever an accepted plan is about to write or to restore is of the
cluster of what is there (`ClusterInv`). `AppliedIsServed` proves `ActiveIsServed` over
`ServedInv`, which says of each stage of an apply that is alone what it will leave
behind when it succeeds and what it leads back to when it fails (`ApplyOK`).
Assumption: `IntentAssumption`.

`MCSupervisorSignals_proofs` is about the components of the `signals` run, whose
specifications it takes one by one.

`OpenGatesAreAnnounced` and the action property
`ShutdownsStayDrained` are proved for any set of supervisors. The first is
inductive with the types; its lemma `GateOwes` says what every change of a gate
owes to those it has told to leave. The second goes action by action, for a gate that
is `Sealed`: closed, with the startup flow over and no undrain admitted. What lifts a
drain is the end of a startup or the handling of an admitted undrain, and a supervisor
that shuts down admits none.
Assumption: `TrafficAssumption`.

`ClientsNeverRewind` is proved for any applications, clients and routes. It rests on `CountersAreSaved`: the file holds every version that was
given, an application that was looked at has the event of its last version, and no
client has seen a later one. With it goes `LastTyped`: what the bus replays to a client
is an event, also when the version of its connection could not be written. Assumption:
`StreamAssumption`.

`LeaseInvariance` (`LeaseInv`) and `SingleWinner` are proved for any number of
requests and claims. `Exclusive` is the
strengthening: while nothing can be stale nobody unlinks, only the creator of an
empty file is about to fill it, and a granted claim is what the file says.

`SignalsTypeCorrect` gathers the types of all three. Those of the routing events
bound every version, which takes a count: a change of the routes or a restart of
the supervisor can use up two versions of an application, one for what is now
shown differently and one for when its routes are forgotten. `Due` is what an
application is still owed of these, `Budget` what the changes so far allow, and
`StreamInv` says that the version and what is due stay within the budget.

`MCSupervisorServices_proofs` is about those of the `services` run.
`LeasesNameTheAssignment` goes over the answers of a lease: each is given in the
turn that has read or written the row, or is one without routes, which names the
supervisor's own node.
`WriterTypeCorrect` and `ServicesTypeCorrect` need `ElectsOneOf`: an election among
any members that are there ends with one of them. Assumption: `WriterAssumption`,
which says that members have different ranks, as their names differ.

Only model-checked: liveness (`CallsReturn`, `ClaimsReturn`, `CallsEnd`,
`ShutdownEnds`, `SettlesDown`, `DrainsAreLifted`, `ClientsCatchUp`), because fairness
and `ENABLED` are out of the prover's reach. Every invariant and every action
property that a passing run checks is also a theorem. `EpochsCohere` has a premise
that the specification alone does not give: with two overlapping calls, or after a
write that failed, `EpochCoherent` does not hold.

## Where code and documents disagree

- **Epochs differ between supervisors** (`evidence_epochs`). A test says that
  three supervisors converge on the same epoch and winner. They agree on the
  winner (`WinnersAgree`), but the digest covers the `galera` field, which a
  supervisor's evidence about itself carries and a starting peer's does not. The
  epoch a winner announces is therefore not the one a peer computed, and a lease
  granted under one is refused under the other.
- **A blocked epoch can come back** (`protocol_blocked`). Two overlapping
  bootstrap requests revalidate; one finds the evidence changed and blocks the
  epoch; the other, possibly with the older evidence, writes `bootstrapping` over
  it, because the compare-and-set looks at the epoch and not at the phase. This is true
  of the protocol object, which has one caller as it is wired (see "The system").
- **A stale lease can have two heirs** (`lease_takeover`). Both requests read
  the stale file; the first unlinks it and creates its own; the second unlinks
  that.
- **A forced restart ends the supervisor** (`mariadb_forced_restart`). The test of
  the wiring says that an exit during a restart is not fatal. When the child
  outlives the timeout of the restart it is killed and `stop()` resolves at
  once; the new child is spawned, `stopping` and `restarting` are cleared, and
  then the exit event of the killed child counts as unexpected.
- **A restart replaces a healthy writer** (`writer_restart`). The comment in
  `routing/decision.mjs:62` says that a persisted assignment is authoritative while
  its node remains eligible. The event of every second takes the previous writer
  from the cache in memory, which is empty after a restart, elects by name alone,
  and writes the result over the row. Two supervisors with different caches can
  do the same to each other every second, without a restart.

Properties that hold only under a condition, because the code does no better
without it:

- The result of `--wsrep-recover` is remembered for the life of a supervisor
  (`startup-local-evidence.mjs:18`, `peer-evidence.mjs:22`) and answered with the time
  of the request. After a run of mariadbd that left no position in `grastate.dat` it is
  an old one, although `docs/cold-recovery.md:9` asks for evidence that is complete and
  fresh: a member that holds more transactions than the winner can be left behind
  (`Misreported` in `HighestPositionWins` and `WinnersAgree`).
- A `retry()` can elect an epoch before a `plan()` finds a Primary to join: memory then
  keeps the epoch, and the file has a decision without one (`EpochCoherent`).
- A lease given without a quorum or without an eligible member names the supervisor's
  own node as the writer, whatever the row says (`LeaseNamesTheAssignment` is about the
  others).
- After a restart of mariadbd that failed, the same intent is a no-op and mariadbd
  keeps the old port (`troubled` in `ActiveIsServed`). With overlapping applies the
  active intent of one and the rendering of the other can be left together.
- After the crash of a supervisor two requests that both find its old lock can
  both pass it (`LockExcludes`); a bootstrap whose caller has timed out still stops
  and starts the candidate, later.
- A lost undrain leaves a peer drained until the next recovery (`DrainsAreLifted`).
  A supervisor that gets a signal while it starts lifts its own drain again
  (`ShutdownStaysDrained`), against `docs/supervisor_plan.md:137`; so does one that gets
  it while the caller of an undrain is being authenticated, for the shutdown was looked
  at before (`control-api.mjs:35`). `publishDrainEvent(false)`
  does not look at the gate again when the health has answered.
- A client may be sent the bus's replay after its own newer event, within the turn
  of its connection; a version whose file write fails is lost with its event; and a
  client that connects while there is no quorum, for an application that is in
  nobody's cache, is not told when there is one (`ClientsCatchUp` names the
  applications the publisher looks at).

Found while reading, not shown by a run:

- `docs/drifts.md:72-74` says that hostname order is never recovery authority, but
  ties of position are broken by it (`candidate.mjs:16-19`);
  `docs/cold-recovery.md:11` prefers the sole `safe_to_bootstrap` member, which the
  election never looks at; the comment at `protocol.mjs:47-48` says that a divergent
  volume must not veto the majority's history, but a divergent member with a
  higher position makes the election refuse (`candidate.mjs:7-11`).
- The listener is not awaited before the recovery is prepared (see `Listens` above),
  so that no autonomous bootstrap is ever authorized; were it, `authorize()` would
  ask for all members where a majority of leases was enough
  (`recovery-authorization.mjs:24`, `protocol.mjs:77`).
- Three connections are not made as the supervisor is wired (see "The system"): the
  routes of the protocol, those of the evidence, and `POST /cluster/cold-bootstrap/local`,
  which answers 202 without effect.
- The recovery of the pending listener is never asked for (see there too). If it were, an
  authorized bootstrap would throw: `blocked-ambiguous` to `bootstrapping` is no legal
  transition
  (`recovery-process-start.mjs:8`, `recovery-state.mjs`), nor is `awaiting-quorum` to
  `joining`. `recovery-join-wiring.mjs:13` throws when the winner is local.
- `docker/mariadb-entrypoint.mjs:10` and `pending-init-cli.mjs:3` start the pending
  runtime without the identity it requires, which throws.
- The pending `POST /cluster/join` looks at no required recovery; a request whose body comes late may
  initialize after the handoff (`lifecycle/pending-init/server.mjs`).
- `control-composition.mjs:18` hands `main.mjs:31` a function that nobody calls:
  `POST /cluster/bootstrap` does nothing. `reinclude` is not wired
  (`control-composition.mjs:17`, `docs/api.md:238`).
- `docs/api.md:216` describes the drain of one node; every drain is propagated to
  all. A rebalance drops the cache of one second only (`docs/api.md:104`). The apply
  of a start, and a no-op apply, copy the active intent over the last known good
  one (`docs/api.md:33`).
- The watcher of a winner asks for a cluster of exactly one
  (`bootstrap-watch.mjs`): a peer that joins sooner makes it time out.
  A crash between the creation and the filling of a lease file refuses every
  later claim.

## What is not modelled

- **Pending-init runtime and operator recovery.** The rest of a first
  initialization over HTTP, and the recoveries an operator drives through the
  temporary listener. Started by the entry point of the container the runtime does
  not come up (its identity is missing, see above), and started by a blocked
  supervisor, whose data is then not initialized, it offers no recovery. `SupervisorStartup` has what a pending supervisor
  can lead to, a process that is told how to start (`Handoff`, `Explicit`).
- **Node data reset**: its checks of donors, fence and keys; its stop, removal and
  restart are in `MariaDbProcess`.
- **mariadbd process control**: SIGHUP of a reload. The recovery state that the exit handler sets is in
  `SupervisorStartup`.
- **Shutdown**: the SQL quiesce, the notifications, and uncaught errors.
- **Cluster operations**: stateless decisions and wrappers of SQL statements, but
  for `recover()`.
- **`startup-decision.mjs`** is called by nobody.
- **Metadata, accounts, artifacts; control API; telemetry, configuration, wiring**:
  SQL text, formats, counters and constructors, with no protocol of their own.

In the modelled components: names are model values, so that the FQDN checks are
left out; wording, audit events and logging are left out; a digest is its input,
which assumes that SHA-256 does not collide; timestamps matter only as "stale" or
not; `grastate.dat` and `--wsrep-recover` are the position they name; the
interaction of components goes through open choices, not through one large model:
the startup takes any answer of the protocol, the operator's bootstrap any state
of the candidate's process, the routes any order of observations.
