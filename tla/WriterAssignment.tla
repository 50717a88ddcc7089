-------------------------- MODULE WriterAssignment --------------------------
(***************************************************************************)
(* The writer of one application: the observations every supervisor holds  *)
(* of the members (src/cluster/observation-store.mjs, quorum.mjs), the     *)
(* routes it calculates from them (src/routing/decision.mjs), and the      *)
(* assignment in the database, which leases (bundle-service.mjs) and the   *)
(* routing events of every second (event-snapshot.mjs) read and write.     *)
(***************************************************************************)
EXTENDS Integers, FiniteSets

CONSTANTS
  Members,
  Observers,        \* the members whose supervisors are modelled
  Leases,           \* concurrent requests for a lease
  LeaseAt,          \*   and the supervisor each is made to
  Rank,             \* the order of the members' names
  Hash,             \* the digest of the application's name
  Unassigned,
  MaxChanges        \* bound: changes of members, lost contacts and restarts

ASSUME WriterAssumption ==
  /\ Observers \subseteq Members /\ IsFiniteSet(Members)
  /\ LeaseAt \in [Leases -> Observers]
  /\ Rank \in [Members -> Nat] /\ Hash \in Nat /\ MaxChanges \in Nat
  /\ \A m, n \in Members : Rank[m] = Rank[n] => m = n  \* no two have one name
  /\ Unassigned \notin Members

VARIABLES
  condition,   \* per member: healthy, drained, or not publishing
  view,        \* per observer and member: its fresh observation, if any
  assigned,    \* the row of the table routing_assignments
  known,       \* per observer: the cache of the metadata assignment store
  routes,      \* per observer: the writer of the cached routes, if any
  cached,      \* per observer: no routes, routes of this second, or older ones
  inserts,     \* the writes nobody waits for
  lease,       \* per lease: what it has read
  step,        \* per lease: where it is
  changes      \* how many changes are still to come
leases == <<lease, step>>
world == <<condition, view, changes>>
writerVars == <<world, assigned, known, routes, cached, inserts, leases>>

Writers == Members \cup {Unassigned}
Views == [Members -> {"none", "healthy", "drained"}]
LeaseRecords == [view : Views, kept : BOOLEAN, old : Writers, writer : Writers]

WriterTypeOK ==
  /\ condition \in [Members -> {"healthy", "drained", "silent"}]
  /\ view \in [Observers -> Views]
  /\ assigned \in Writers
  /\ known \in [Observers -> Writers]
  /\ routes \in [Observers -> Writers]
  /\ cached \in [Observers -> {"none", "fresh", "old"}]
  /\ inserts \subseteq [by : Observers, writer : Members]
  /\ lease \in [Leases -> LeaseRecords]
  /\ step \in [Leases -> {"idle", "reading", "writing", "answered"}]
  /\ changes \in 0 .. MaxChanges

Idle == [view |-> [m \in Members |-> "none"], kept |-> FALSE,
         old |-> Unassigned, writer |-> Unassigned]

WriterInit ==
  /\ condition = [m \in Members |-> "healthy"]
  /\ view = [s \in Observers |-> [m \in Members |-> "healthy"]]
  /\ assigned = Unassigned
  /\ known = [s \in Observers |-> Unassigned]
  /\ routes = [s \in Observers |-> Unassigned]
  /\ cached = [s \in Observers |-> "none"]
  /\ inserts = {}
  /\ lease = [l \in Leases |-> Idle]
  /\ step = [l \in Leases |-> "idle"]
  /\ changes = MaxChanges

-----------------------------------------------------------------------------
(* Decisions.                                                               *)

\* Observations of members that run are all of one cluster and all Primary:
\* peer-publisher.mjs publishes no others.
HasQuorum(seen) == 2 * Cardinality({m \in Members : seen[m] # "none"}) > Cardinality(Members)

Eligible(seen) == {m \in Members : seen[m] = "healthy"}

\* Without load or arrival order: every supervisor elects alike.
Elect(nodes) ==
  CHOOSE m \in nodes :
    Cardinality({x \in nodes : Rank[x] < Rank[m]}) = Hash % Cardinality(nodes)

\* calculateRoutes: the previous writer, as long as it is eligible.
WriterOf(seen, previous) ==
  LET nodes == IF HasQuorum(seen) THEN Eligible(seen) ELSE {}
  IN IF nodes = {} THEN Unassigned
     ELSE IF previous \in nodes THEN previous ELSE Elect(nodes)

-----------------------------------------------------------------------------
(* Members, and what the supervisors hear of them.                          *)

Change(m) ==
  /\ changes > 0
  /\ \E c \in {"healthy", "drained", "silent"} \ {condition[m]} :
       condition' = [condition EXCEPT ![m] = c]
  /\ changes' = changes - 1
  /\ UNCHANGED <<view, assigned, known, routes, cached, inserts, leases>>

\* A member that is ready publishes itself, to itself and to its peers, every
\* second; the store keeps the latest.
Observe(s, m) ==
  /\ condition[m] # "silent" /\ view[s][m] # condition[m]
  /\ view' = [view EXCEPT ![s][m] = condition[m]]
  /\ UNCHANGED <<condition, changes, assigned, known, routes, cached, inserts, leases>>

\* Three seconds without news: of a silent member, or of one out of contact.
Expire(s, m) ==
  /\ view[s][m] # "none"
  /\ \/ condition[m] = "silent" /\ UNCHANGED changes
     \/ condition[m] # "silent" /\ s # m /\ changes > 0 /\ changes' = changes - 1
  /\ view' = [view EXCEPT ![s][m] = "none"]
  /\ UNCHANGED <<condition, assigned, known, routes, cached, inserts, leases>>

-----------------------------------------------------------------------------
(* The routing event of every second.                                       *)

\* Its own drain is read from the gate, not from an observation.
Local(s) ==
  [view[s] EXCEPT ![s] = IF @ # "none" /\ condition[s] = "drained" THEN "drained" ELSE @]

\* set() of the metadata store: the cache first, the row later.
Tick(s) ==
  LET writer == WriterOf(Local(s), known[s])
  IN /\ writer \notin {Unassigned, known[s]}
     /\ known' = [known EXCEPT ![s] = writer]
     /\ inserts' = inserts \cup {[by |-> s, writer |-> writer]}
     /\ UNCHANGED <<world, assigned, routes, cached, leases>>

\* Its failure is ignored, and then the cache is ahead of the row.
Insert(i) ==
  /\ i \in inserts
  /\ inserts' = inserts \ {i}
  /\ assigned' \in {assigned, i.writer}
  /\ UNCHANGED <<world, known, routes, cached, leases>>

-----------------------------------------------------------------------------
(* Leases.                                                                  *)

Move(l, place) == step' = [step EXCEPT ![l] = place]

\* The cached routes and the observations are read before two awaits.  A
\* rebalance drops the cached routes first.
Lease(l, rebalance) ==
  LET s == LeaseAt[l]
  IN /\ step[l] = "idle"
     /\ Move(l, "reading")
     /\ lease' = [lease EXCEPT ![l] =
          [view |-> view[s], kept |-> cached[s] = "fresh" /\ ~rebalance,
           old |-> IF rebalance THEN Unassigned ELSE routes[s], writer |-> Unassigned]]
     /\ cached' = IF rebalance THEN [cached EXCEPT ![s] = "none"] ELSE cached
     /\ routes' = IF rebalance THEN [routes EXCEPT ![s] = Unassigned] ELSE routes
     /\ UNCHANGED <<world, assigned, known, inserts>>

Abandon(l) == Move(l, "idle") /\ lease' = [lease EXCEPT ![l] = Idle]

\* The writer of a lease whose routes are empty: the routes of the metadata
\* take their place, which name the supervisor's own node and no writer, and
\* then the first of them is the writer.
Named(l, writer) == IF writer = Unassigned THEN LeaseAt[l] ELSE writer

\* Routes calculated now are cached, empty or not; the ones of this second
\* stay as they are.
Answer(l, writer) ==
  LET s == LeaseAt[l]
  IN /\ Move(l, "answered")
     /\ lease' = [lease EXCEPT ![l] = [Idle EXCEPT !.writer = Named(l, writer)]]
     /\ IF lease[l].kept THEN UNCHANGED <<routes, cached>>
        ELSE /\ routes' = [routes EXCEPT ![s] = writer]
             /\ cached' = [cached EXCEPT ![s] = "fresh"]

\* The database answers with its row.  A writer other than that is written, if
\* it was eligible to a majority.
Previous(l) == IF assigned # Unassigned THEN assigned ELSE lease[l].old
Chosen(l) == IF lease[l].kept THEN lease[l].old ELSE WriterOf(lease[l].view, Previous(l))
MayWrite(l) == HasQuorum(lease[l].view) /\ Chosen(l) \in Eligible(lease[l].view)

\* Mutant of Differs: routes of this second count as written.
DiffersUnlessKept(l) == Chosen(l) \notin {Unassigned, assigned} /\ ~lease[l].kept

Differs(l) == Chosen(l) \notin {Unassigned, assigned}

Learned(l) == IF assigned = Unassigned THEN known ELSE [known EXCEPT ![LeaseAt[l]] = assigned]

ReadAgrees(l) ==
  /\ step[l] = "reading" /\ ~Differs(l)
  /\ known' = Learned(l)
  /\ Answer(l, Chosen(l))
  /\ UNCHANGED <<world, assigned, inserts>>

ReadRefuses(l) ==
  /\ step[l] = "reading" /\ Differs(l) /\ ~MayWrite(l)
  /\ known' = Learned(l)
  /\ Abandon(l)
  /\ UNCHANGED <<world, assigned, routes, cached, inserts>>

ReadDiffers(l) ==
  /\ step[l] = "reading" /\ Differs(l) /\ MayWrite(l)
  /\ known' = [known EXCEPT ![LeaseAt[l]] = Chosen(l)]
  /\ lease' = [lease EXCEPT ![l].writer = Chosen(l)]
  /\ Move(l, "writing")
  /\ UNCHANGED <<world, assigned, routes, cached, inserts>>

Write(l) ==
  /\ step[l] = "writing"
  /\ assigned' = lease[l].writer
  /\ Answer(l, lease[l].writer)
  /\ UNCHANGED <<world, known, inserts>>

\* The database, or the authorisation before it, refuses.
DatabaseFails(l) ==
  /\ step[l] \in {"reading", "writing"}
  /\ Abandon(l)
  /\ UNCHANGED <<world, assigned, known, routes, cached, inserts>>

\* The answer is on its way; the client asks again.
Release(l) ==
  /\ step[l] = "answered"
  /\ Move(l, "idle")
  /\ lease' = [lease EXCEPT ![l] = Idle]
  /\ UNCHANGED <<world, assigned, known, routes, cached, inserts>>

\* One second later.
RoutesAge(s) ==
  /\ cached[s] = "fresh"
  /\ cached' = [cached EXCEPT ![s] = "old"]
  /\ UNCHANGED <<world, assigned, known, routes, inserts, leases>>

\* A new process; only the observations were saved.
RestartObserver(s) ==
  /\ changes > 0 /\ changes' = changes - 1
  /\ known' = [known EXCEPT ![s] = Unassigned]
  /\ routes' = [routes EXCEPT ![s] = Unassigned]
  /\ cached' = [cached EXCEPT ![s] = "none"]
  /\ inserts' = {i \in inserts : i.by # s}
  /\ step' = [l \in Leases |-> IF LeaseAt[l] = s THEN "idle" ELSE step[l]]
  /\ lease' = [l \in Leases |-> IF LeaseAt[l] = s THEN Idle ELSE lease[l]]
  /\ UNCHANGED <<condition, view, assigned>>

WriterNext ==
  \/ \E m \in Members : Change(m) \/ \E s \in Observers : Observe(s, m) \/ Expire(s, m)
  \/ \E s \in Observers : Tick(s) \/ RoutesAge(s) \/ RestartObserver(s)
  \/ \E s \in Observers, m \in Members : Insert([by |-> s, writer |-> m])
  \/ \E l \in Leases :
       \/ \E rebalance \in BOOLEAN : Lease(l, rebalance)
       \/ Release(l) \/ ReadAgrees(l) \/ ReadRefuses(l) \/ ReadDiffers(l) \/ Write(l) \/ DatabaseFails(l)

WriterSpec == WriterInit /\ [][WriterNext]_writerVars

-----------------------------------------------------------------------------
(* Properties.                                                              *)

\* The routes a lease reads have no writer: no majority is known, or nobody in
\* it may be one, now or when the cached routes were calculated.
Writerless(l) ==
  IF lease[l].kept THEN lease[l].old = Unassigned
  ELSE ~HasQuorum(lease[l].view) \/ Eligible(lease[l].view) = {}

\* At the moment a lease is answered, the writer it names is the one in the
\* database, also when the routes come from the cache or another supervisor
\* has changed the assignment meanwhile (bundle-service.mjs:35).  The one
\* exception is a lease without routes: that names the node it was asked of,
\* whatever the row says (bundle-service.mjs:38, internal/routing/bundle.mjs:33).
LeaseNamesTheAssignment ==
  [][\A l \in Leases :
       step'[l] = "answered" /\ step[l] # "answered"
         => \/ lease'[l].writer = assigned'
            \/ Writerless(l) /\ lease'[l].writer = LeaseAt[l]]_writerVars

\* "A persisted assignment is authoritative while its node remains eligible"
\* (the comment at decision.mjs:62): with no write under way, and with the
\* assigned writer healthy and seen so by every supervisor, no routing event
\* puts another writer in its place.
PersistedAssignmentStays ==
  [][inserts = {} /\ assigned # Unassigned /\ (\A s \in Observers : view[s] = condition)
       /\ condition[assigned] = "healthy"
       => \A i \in inserts' : i.writer = assigned]_writerVars

=============================================================================
