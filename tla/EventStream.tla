----------------------------- MODULE EventStream -----------------------------
(***************************************************************************)
(* The routing events of one supervisor: the snapshot of an application's  *)
(* routes (src/routing/event-snapshot.mjs), the counter of its versions in *)
(* a file (event-version-store.mjs), the publisher of every second, the    *)
(* bus (event-bus.mjs) and the clients of the WebSocket stream.            *)
(*                                                                         *)
(* An event names no application, so every client is sent the events of    *)
(* all of them; the field app is known to the model only.                  *)
(***************************************************************************)
EXTENDS Integers

CONSTANTS
  Applications,
  Default,          \* the application the publisher always looks at
  Clients,
  AppOf,            \* the application of a client
  Routes,           \* the routes the observations may give
  None,
  MaxEvents         \* bound: changes of the routes, and restarts

ASSUME StreamAssumption ==
  /\ Default \in Applications /\ AppOf \in [Clients -> Applications]
  /\ None \notin Routes /\ "unseen" \notin Routes \cup {None} /\ MaxEvents \in Nat

VARIABLES
  topology,     \* what the observations give now; None without a quorum
  healthy,      \* per application: its last routes, for five seconds
  shown,        \* per application: the fingerprint of its event
  version,      \* per application: the counter in memory
  stored,       \*   and in the file
  event,        \* per application: its event
  published,    \* per application: the version last put on the bus
  last,         \* the event the bus replays
  cachedApps,   \* the applications in the cache of the assignment store
  clients,      \* the clients on the bus
  held,         \* per client: the routes of the last event it received
  seen,         \*   and the version of the last one of its application
  moves,        \* how many changes are still to come
  unfailing     \* the file can be written and every client can be sent to
snapshots == <<healthy, shown, version, stored, event, cachedApps>>
bus == <<published, last>>
inboxes == <<clients, held, seen>>
streamVars == <<topology, snapshots, bus, inboxes, moves, unfailing>>

Topologies == Routes \cup {None}
Versions == 0 .. 2 * MaxEvents + 2
Events == [app : Applications, version : Versions, of : Topologies]
NoEvent == [app |-> Default, version |-> 0, of |-> None]

StreamTypeOK ==
  /\ topology \in Topologies
  /\ healthy \in [Applications -> Topologies]
  /\ shown \in [Applications -> Topologies \cup {"unseen"}]
  /\ version \in [Applications -> Versions] /\ stored \in [Applications -> Versions]
  /\ event \in [Applications -> Events] /\ last \in Events
  /\ published \in [Applications -> Versions]
  /\ cachedApps \subseteq Applications
  /\ clients \subseteq Clients
  /\ held \in [Clients -> Topologies]
  /\ seen \in [Clients -> Versions]
  /\ unfailing \in BOOLEAN
  /\ moves \in 0 .. MaxEvents

\* The memory of a supervisor that has just started.
Blank ==
  /\ healthy' = [a \in Applications |-> None]
  /\ shown' = [a \in Applications |-> "unseen"]
  /\ event' = [a \in Applications |-> NoEvent]
  /\ published' = [a \in Applications |-> 0]
  /\ last' = NoEvent
  /\ cachedApps' = {}
  /\ clients' = {}

StreamInit ==
  /\ topology = None
  /\ healthy = [a \in Applications |-> None]
  /\ shown = [a \in Applications |-> "unseen"]
  /\ version = [a \in Applications |-> 0] /\ stored = version
  /\ event = [a \in Applications |-> NoEvent]
  /\ published = [a \in Applications |-> 0]
  /\ last = NoEvent
  /\ cachedApps = {}
  /\ clients = {}
  /\ held = [c \in Clients |-> None]
  /\ seen = [c \in Clients |-> 0]
  /\ moves = MaxEvents
  /\ unfailing \in BOOLEAN

-----------------------------------------------------------------------------
(* The snapshot of an application.                                          *)

\* Routes that are gone still count for five seconds.
Selected(a) == IF topology # None THEN topology ELSE healthy[a]

\* Mutant of Changed: no event says that there are no routes.
ChangedToRoutes(a) == Selected(a) \notin {None, shown[a]}

Changed(a) == Selected(a) # shown[a]

\* Mutant of Save: the counter is kept in memory only.
SaveNothing(saved) == UNCHANGED stored

Save(saved) ==
  stored' = [a \in Applications |-> IF a \in saved THEN version[a] + 1 ELSE stored[a]]

\* Calls of snapshot() for several applications in one turn.  When the file of
\* one of them cannot be written, its call throws after the fingerprint was
\* kept, and its event stays the old one.
Snapshot(apps, broken) ==
  LET new == {a \in apps : Changed(a)}
  IN /\ broken \subseteq new
     /\ healthy' = [a \in Applications |-> IF a \in apps /\ topology # None THEN topology ELSE healthy[a]]
     /\ cachedApps' = cachedApps \cup (IF topology # None THEN apps ELSE {})
     /\ shown' = [a \in Applications |-> IF a \in new THEN Selected(a) ELSE shown[a]]
     /\ version' = [a \in Applications |-> IF a \in new THEN version[a] + 1 ELSE version[a]]
     /\ Save(new \ broken)
     /\ event' = [a \in Applications |->
          IF a \in new \ broken THEN [app |-> a, version |-> version[a] + 1, of |-> topology]
          ELSE event[a]]

\* The client c is sent an event.
Sent(c, e) ==
  /\ held' = [held EXCEPT ![c] = e.of]
  /\ seen' = IF e.app = AppOf[c] THEN [seen EXCEPT ![c] = e.version] ELSE seen

-----------------------------------------------------------------------------
(* Actions.                                                                 *)

\* All the events that are new to the publisher, the last of them at the end.
Publish(apps, final, reached) ==
  LET fresh == {a \in apps : event'[a].version # published[a]}
  IN /\ published' = [a \in Applications |-> IF a \in fresh THEN event'[a].version ELSE published[a]]
     /\ IF fresh = {} THEN UNCHANGED <<last, held, seen>>
        ELSE /\ final \in fresh
             /\ last' = event'[final]
             /\ held' = [c \in Clients |-> IF c \in reached THEN event'[final].of ELSE held[c]]
             /\ seen' = [c \in Clients |->
                  IF c \in reached /\ AppOf[c] \in fresh THEN event'[AppOf[c]].version ELSE seen[c]]

\* The publisher's timer.  A client that cannot be sent to leaves the bus.
StreamTick(final) ==
  \E reached \in SUBSET clients :
    /\ unfailing => reached = clients
    /\ Snapshot(cachedApps \cup {Default}, {})
    /\ Publish(cachedApps \cup {Default}, final, reached)
    /\ clients' = reached
    /\ UNCHANGED <<topology, moves, unfailing>>

\* One snapshot throws, and the applications after it wait for the next tick.
TickFails(broken, final) ==
  /\ ~unfailing
  /\ \E before \in SUBSET ((cachedApps \cup {Default}) \ {broken}) :
       /\ Snapshot(before \cup {broken}, {broken})
       /\ Publish(before, final, clients)
  /\ UNCHANGED <<topology, clients, moves, unfailing>>

\* subscribe() replays the last event, which the client's own follows.
Connect(c) ==
  /\ c \notin clients
  /\ Snapshot({AppOf[c]}, {})
  /\ Sent(c, event'[AppOf[c]])
  /\ clients' = clients \cup {c}
  /\ UNCHANGED <<topology, bus, moves, unfailing>>

\* The counter cannot be written while a client connects: the client stays on
\* the bus with what was replayed, if anything was published.
ConnectFails(c) ==
  /\ ~unfailing /\ c \notin clients
  /\ Snapshot({AppOf[c]}, {AppOf[c]})
  /\ IF last = NoEvent THEN UNCHANGED <<held, seen>> ELSE Sent(c, last)
  /\ clients' = clients \cup {c}
  /\ UNCHANGED <<topology, bus, moves, unfailing>>

Disconnect(c) ==
  /\ c \in clients
  /\ clients' = clients \ {c}
  /\ UNCHANGED <<topology, snapshots, bus, held, seen, moves, unfailing>>

\* A lease reads the assignment of its application into the cache.
LeaseReads(a) ==
  /\ a \notin cachedApps
  /\ cachedApps' = cachedApps \cup {a}
  /\ UNCHANGED <<topology, healthy, shown, version, stored, event, bus, inboxes, moves, unfailing>>

RoutesChange ==
  /\ moves > 0
  /\ topology' \in Topologies \ {topology}
  /\ moves' = moves - 1
  /\ UNCHANGED <<snapshots, bus, inboxes, unfailing>>

\* Five seconds without routes.
Forget(a) ==
  /\ topology = None /\ healthy[a] # None
  /\ healthy' = [healthy EXCEPT ![a] = None]
  /\ UNCHANGED <<topology, shown, version, stored, event, cachedApps, bus, inboxes, moves, unfailing>>

RestartStream ==
  /\ moves > 0 /\ moves' = moves - 1
  /\ Blank
  /\ version' = stored
  /\ UNCHANGED <<topology, stored, held, seen, unfailing>>

StreamNext ==
  \/ \E a \in Applications :
       \/ StreamTick(a) \/ LeaseReads(a) \/ Forget(a)
       \/ \E b \in Applications : TickFails(a, b)
  \/ \E c \in Clients : Connect(c) \/ ConnectFails(c) \/ Disconnect(c)
  \/ RoutesChange \/ RestartStream

\* The timers of the supervisor.
StreamFairness ==
  /\ WF_streamVars(\E a \in Applications : StreamTick(a))
  /\ \A a \in Applications : WF_streamVars(Forget(a))

StreamSpec == StreamInit /\ [][StreamNext]_streamVars
FairStreamSpec == StreamSpec /\ StreamFairness

-----------------------------------------------------------------------------
(* Properties.                                                              *)

\* Whatever a client receives in one turn, it never ends up with an event of
\* its application older than the one it had, over reconnections and restarts
\* (docs/routing-event-contract.md:59), as long as the file can be written.
\* Within the turn of a connection it may: the bus replays what was published,
\* and the request of another connection may have made a newer one since.
VersionsNeverRewind ==
  [][unfailing => \A c \in Clients : seen'[c] >= seen[c]]_streamVars

\* Once the routes no longer change, a client on the bus ends up with an event
\* of these routes, whether a tick or the connection of another client made
\* it; its application must be one the publisher looks at
\* (routing-publisher.mjs:4).
ClientsCatchUp ==
  \A c \in Clients :
    unfailing => <>[](c \in clients /\ AppOf[c] \in cachedApps \cup {Default} => held[c] = topology)
=============================================================================
