---------------------- MODULE MCSupervisorSignals_proofs ----------------------
(***************************************************************************)
(* Proofs about the signals of a supervisor, for any supervisors,          *)
(* applications, clients, requests and claims, and any number of orders,   *)
(* changes, restarts and ticks:                                            *)
(*   TrafficDrain   nobody stays told to leave a supervisor whose gate is  *)
(*                  open, and the sealed gate of a shutdown stays so;      *)
(*   EventStream    as long as the file of the versions can be written, no *)
(*                  client goes back to an older event;                    *)
(*   RecoveryLease  until a lease can have gone stale, one claim at most   *)
(*                  is granted.                                            *)
(***************************************************************************)
EXTENDS MCSupervisorSignals, TLAPS

-----------------------------------------------------------------------------
(* What a change of the gate leaves.                                        *)

\* The gate and its announcements, of every supervisor.
GateTyped ==
  /\ draining \in [Supervisors -> BOOLEAN]
  /\ undraining \in [Supervisors -> BOOLEAN]
  /\ lastEvent \in [Supervisors -> {"none", "drain", "recovery"}]

\* The life of every supervisor.
LifeTyped ==
  /\ phase \in [Supervisors -> Phases]
  /\ starting \in [Supervisors -> BOOLEAN]
  /\ announcing \in [Supervisors -> BOOLEAN]
  /\ stops \in [Supervisors -> 0 .. MaxStops]

\* The begin and the end of a drain keep the types,
LEMMA GateType ==
  ASSUME GateTyped, NEW s \in Supervisors, Begin(s) \/ End(s)
  PROVE  GateTyped'
  BY DEF GateTyped, Begin, End

\* and so does a drain or undrain with its propagation.
LEMMA SetType ==
  ASSUME GateTyped, network \subseteq Messages,
         NEW s \in Supervisors, NEW drain \in BOOLEAN, NEW propagated \in BOOLEAN,
         SetDrain(s, drain, propagated)
  PROVE  GateTyped' /\ network' \subseteq Messages
<1>1. ToPeers(s, drain) \subseteq Messages
  BY DEF ToPeers, Messages, Calls
<1> QED
  BY <1>1, GateType DEF SetDrain

\* Only the supervisor itself is opened or closed, and only by End is it opened.
LEMMA OneGate ==
  ASSUME GateTyped, NEW s \in Supervisors, Begin(s) \/ End(s)
  PROVE  \A t \in Supervisors \ {s} :
           draining'[t] = draining[t] /\ undraining'[t] = undraining[t] /\ lastEvent'[t] = lastEvent[t]
  BY DEF GateTyped, Begin, End

-----------------------------------------------------------------------------
(* The type invariant                                                       *)

\* Initially every variable of the traffic has its type.
LEMMA TrafficInitType == TrafficInit => TrafficTypeOK
<1> SUFFICES ASSUME TrafficInit PROVE TrafficTypeOK
  OBVIOUS
<1> USE TrafficAssumption DEF TrafficInit, TrafficAssumption
<1>1. GateTyped
  BY DEF GateTyped
<1>2. LifeTyped
  <2>1. phase \in [Supervisors -> Phases]
    BY DEF Phases
  <2>2. stops \in [Supervisors -> 0 .. MaxStops]
    OBVIOUS
  <2> QED
    BY <2>1, <2>2 DEF LifeTyped
<1>3. orders \in 0 .. MaxOrders /\ network \subseteq Messages /\ admitted \subseteq Calls
  OBVIOUS
<1> QED
  BY <1>1, <1>2, <1>3 DEF TrafficTypeOK, GateTyped, LifeTyped

\* Every step preserves the types.
LEMMA TrafficStepType == TrafficTypeOK /\ [TrafficNext]_trafficVars => TrafficTypeOK'
<1> SUFFICES ASSUME TrafficTypeOK, [TrafficNext]_trafficVars PROVE TrafficTypeOK'
  OBVIOUS
<1> USE TrafficAssumption DEF TrafficAssumption
<1>0. GateTyped /\ LifeTyped /\ network \subseteq Messages
  BY DEF TrafficTypeOK, GateTyped, LifeTyped
<1>1. ASSUME NEW c \in Calls, Order(c) PROVE TrafficTypeOK'
  BY <1>1 DEF Order, Admits, TrafficTypeOK, gate
<1>2. ASSUME NEW s \in Supervisors, PublishRecovery(s) \/ RecoveryEnds(s) PROVE TrafficTypeOK'
  <2>1. GateTyped'
    BY <1>0, <1>2 DEF PublishRecovery, RecoveryEnds, Announce, GateTyped
  <2>2. LifeTyped'
    BY <1>0, <1>2 DEF PublishRecovery, RecoveryEnds, LifeTyped
  <2> QED
    BY <1>2, <2>1, <2>2 DEF PublishRecovery, RecoveryEnds, TrafficTypeOK, GateTyped, LifeTyped, calls, operators
<1>3. ASSUME NEW s \in Supervisors, Recover(s) PROVE TrafficTypeOK'
  <2>1. GateTyped' /\ network' \subseteq Messages
    BY <1>0, <1>3, SetType DEF Recover, Recovers
  <2>2. LifeTyped'
    BY <1>0, <1>3 DEF Recover, LifeTyped
  <2> QED
    BY <1>3, <2>1, <2>2 DEF Recover, TrafficTypeOK, GateTyped, LifeTyped, operators
<1>4. ASSUME NEW s \in Supervisors, Terminate(s) PROVE TrafficTypeOK'
  <2>1. GateTyped' /\ network' \subseteq Messages
    BY <1>0, <1>4, SetType DEF Terminate
  <2>2. LifeTyped'
    BY <1>0, <1>4 DEF Terminate, LifeTyped, Phases
  <2> QED
    BY <1>4, <2>1, <2>2 DEF Terminate, TrafficTypeOK, GateTyped, LifeTyped, operators
<1>5. ASSUME NEW s \in Supervisors, Quiesce(s) PROVE TrafficTypeOK'
  <2>1. GateTyped'
    BY <1>0, <1>5, GateType DEF Quiesce
  <2>2. LifeTyped'
    BY <1>0, <1>5 DEF Quiesce, LifeTyped, Phases
  <2> QED
    BY <1>5, <2>1, <2>2 DEF Quiesce, TrafficTypeOK, GateTyped, LifeTyped, calls, operators
<1>6. ASSUME NEW s \in Supervisors, Exit(s) PROVE TrafficTypeOK'
  BY <1>6 DEF Exit, TrafficTypeOK, gate, operators, Phases
<1>7. ASSUME NEW s \in Supervisors, Restart(s) PROVE TrafficTypeOK'
  BY <1>7 DEF Restart, TrafficTypeOK, calls, operators, Phases
<1>8. ASSUME NEW m \in Messages, Deliver(m) \/ Fail(m) PROVE TrafficTypeOK'
  <2>1. m \in Calls
    BY DEF Messages
  <2> QED
    BY <1>8, <2>1 DEF Deliver, Fail, Admits, TrafficTypeOK, gate, operators
<1>9. ASSUME NEW c \in Calls, Handle(c) PROVE TrafficTypeOK'
  <2>1. c.to \in Supervisors /\ c.drain \in BOOLEAN /\ (c.from # c.to) \in BOOLEAN
    BY DEF Calls
  <2>2. GateTyped' /\ network' \subseteq Messages
    BY <1>0, <1>9, <2>1, SetType DEF Handle
  <2> QED
    BY <1>9, <2>2 DEF Handle, TrafficTypeOK, GateTyped, operators
<1>10. ASSUME NEW c \in Calls, Refuse(c) PROVE TrafficTypeOK'
  BY <1>10 DEF Refuse, TrafficTypeOK, gate, operators
<1>11. CASE UNCHANGED trafficVars
  BY <1>11 DEF TrafficTypeOK, trafficVars, gate, calls, operators
<1> QED
  BY <1>1, <1>2, <1>3, <1>4, <1>5, <1>6, <1>7, <1>8, <1>9, <1>10, <1>11 DEF TrafficNext

\* Every variable keeps its type, and no supervisor sends itself a drain.
THEOREM TrafficTypeCorrect == TrafficSpec => []TrafficTypeOK
<1> QED
  BY TrafficInitType, TrafficStepType, PTL DEF TrafficSpec

-----------------------------------------------------------------------------
(* Drains and recoveries                                                    *)

\* What the bus of one supervisor owes to those it has told to leave.
Owed(s) == ~draining[s] /\ lastEvent[s] = "drain" => undraining[s] \/ announcing[s]

\* A change of the gate keeps it, of its own supervisor and of the others.
LEMMA GateOwes ==
  ASSUME GateTyped, NEW s \in Supervisors, Begin(s) \/ End(s),
         \A t \in Supervisors : announcing[t] => announcing'[t],
         \A t \in Supervisors : Owed(t)
  PROVE  \A t \in Supervisors : Owed(t)'
  BY DEF GateTyped, Begin, End, Owed

\* Every step leaves an open gate announced.
LEMMA AnnounceStep ==
  TrafficTypeOK /\ OpenGateIsAnnounced /\ [TrafficNext]_trafficVars => OpenGateIsAnnounced'
<1> SUFFICES ASSUME TrafficTypeOK, OpenGateIsAnnounced, [TrafficNext]_trafficVars, faultless'
             PROVE  \A t \in Supervisors : Owed(t)'
  BY DEF OpenGateIsAnnounced, Owed
<1>1. faultless' = faultless
  BY DEF TrafficNext, trafficVars, Order, Deliver, Fail, Handle, Refuse, PublishRecovery, Recover,
         RecoveryEnds, Terminate, Quiesce, Exit, Restart
<1>2. GateTyped /\ \A t \in Supervisors : Owed(t)
  BY <1>1 DEF TrafficTypeOK, GateTyped, OpenGateIsAnnounced, Owed
<1>3. ASSUME NEW s \in Supervisors,
             Terminate(s) \/ Quiesce(s)
      PROVE  \A t \in Supervisors : Owed(t)'
  BY <1>2, <1>3, GateOwes DEF Terminate, Quiesce, SetDrain
<1>4. ASSUME NEW s \in Supervisors, Recover(s) PROVE \A t \in Supervisors : Owed(t)'
  <2>1. \A t \in Supervisors : announcing[t] => announcing'[t]
    BY <1>4 DEF Recover, TrafficTypeOK
  <2>2. Begin(s) \/ End(s)
    BY <1>4 DEF Recover, Recovers, SetDrain
  <2> QED
    BY <1>2, <2>1, <2>2, GateOwes
<1>5. ASSUME NEW s \in Supervisors, PublishRecovery(s) \/ RecoveryEnds(s)
      PROVE  \A t \in Supervisors : Owed(t)'
  <2>1. lastEvent' = [lastEvent EXCEPT ![s] = "recovery"] /\ draining' = draining
    BY <1>1, <1>5 DEF PublishRecovery, RecoveryEnds, Announce
  <2>2. \A t \in Supervisors \ {s} : undraining'[t] = undraining[t] /\ announcing'[t] = announcing[t]
    BY <1>5 DEF PublishRecovery, RecoveryEnds, TrafficTypeOK
  <2> QED
    BY <1>2, <2>1, <2>2 DEF Owed, GateTyped
<1>6. ASSUME NEW s \in Supervisors, Restart(s) PROVE \A t \in Supervisors : Owed(t)'
  BY <1>2, <1>6 DEF Restart, Owed, GateTyped, TrafficTypeOK
<1>7. ASSUME NEW c \in Calls, Handle(c) PROVE \A t \in Supervisors : Owed(t)'
  <2>1. c.to \in Supervisors
    BY DEF Calls
  <2> QED
    BY <1>2, <1>7, <2>1, GateOwes DEF Handle, SetDrain
<1>8. CASE UNCHANGED <<draining, undraining, announcing, lastEvent>>
  BY <1>2, <1>8 DEF Owed
<1> QED
  BY <1>3, <1>4, <1>5, <1>6, <1>7, <1>8
     DEF TrafficNext, trafficVars, Order, Deliver, Fail, Refuse, Exit, gate

\* However the drains and undrains of operators, peers and recover() are
\* ordered, an open gate is announced, or will be (drain-events.mjs:12).
THEOREM OpenGatesAreAnnounced == TrafficSpec => []OpenGateIsAnnounced
<1>1. TrafficInit => OpenGateIsAnnounced
  BY DEF TrafficInit, OpenGateIsAnnounced
<1> QED
  BY <1>1, AnnounceStep, TrafficTypeCorrect, PTL DEF TrafficSpec

-----------------------------------------------------------------------------
(* Shutdowns                                                                *)

\* No request enters a supervisor that shuts down, and only an undrain that
\* has entered before, or the startup flow, opens its gate.
LEMMA ShutdownStep ==
  ASSUME TrafficTypeOK, [TrafficNext]_trafficVars, NEW s \in Supervisors,
         phase[s] \in {"draining", "stopping"}, Sealed(s)
  PROVE  Sealed(s)'
<1>0. GateTyped /\ draining[s] /\ ~starting[s] /\ \A c \in admitted : c.to = s => c.drain
  BY DEF TrafficTypeOK, GateTyped, Sealed
<1>1. ASSUME NEW c \in Calls, Order(c) \/ (c \in Messages /\ Deliver(c)) PROVE Sealed(s)'
  <2>1. c.to # s /\ admitted' = admitted \cup {c} /\ UNCHANGED <<draining, starting>>
    BY <1>1 DEF Order, Deliver, Admits, Serves, gate
  <2> QED
    BY <1>0, <2>1 DEF Sealed
<1>2. ASSUME NEW c \in Calls, Handle(c) PROVE Sealed(s)'
  <2>1. c.to \in Supervisors /\ (Begin(c.to) \/ End(c.to)) /\ (c.to = s => Begin(c.to))
    BY <1>0, <1>2 DEF Handle, SetDrain, Calls
  <2>2. draining'[s]
    BY <1>0, <2>1, OneGate DEF Begin, GateTyped
  <2> QED
    BY <1>0, <1>2, <2>2 DEF Handle, Sealed
<1>3. ASSUME NEW t \in Supervisors, Terminate(t) \/ Quiesce(t) PROVE Sealed(s)'
  <2>1. Begin(t) /\ UNCHANGED <<starting, admitted>>
    BY <1>3 DEF Terminate, Quiesce, SetDrain, calls
  <2> QED
    BY <1>0, <2>1 DEF Begin, GateTyped, Sealed
<1>4. ASSUME NEW t \in Supervisors, Recover(t) PROVE Sealed(s)'
  <2>1. t # s /\ (Begin(t) \/ End(t))
    BY <1>0, <1>4 DEF Recover, Recovers, SetDrain
  <2>2. draining'[s] /\ ~starting'[s] /\ admitted' = admitted
    BY <1>0, <1>4, <2>1, OneGate DEF Recover, TrafficTypeOK
  <2> QED
    BY <1>0, <2>2 DEF Sealed
<1>5. ASSUME NEW t \in Supervisors, Restart(t) PROVE Sealed(s)'
  <2>1. t # s /\ admitted' = admitted
    BY <1>5 DEF Restart, calls
  <2>2. draining'[s] /\ ~starting'[s]
    BY <1>0, <1>5, <2>1 DEF Restart, GateTyped, TrafficTypeOK
  <2> QED
    BY <1>0, <2>1, <2>2 DEF Sealed
<1>6. CASE UNCHANGED <<draining, starting>> /\ admitted' \subseteq admitted
  BY <1>0, <1>6 DEF Sealed
<1>7. \A m \in Messages : m \in Calls
  BY DEF Messages
<1> QED
  BY <1>1, <1>2, <1>3, <1>4, <1>5, <1>6, <1>7
     DEF TrafficNext, trafficVars, gate, calls, PublishRecovery, RecoveryEnds, Exit, Fail, Refuse

\* Of any number of supervisors, none that shuts down with its gate closed
\* lets a peer or an operator open it, unless the request was admitted before
\* the signal, or its own startup flow, when the signal has overtaken that.
THEOREM ShutdownsStayDrained == TrafficSpec => ShutdownStaysDrained
<1>1. TrafficTypeOK /\ [TrafficNext]_trafficVars =>
        [\A s \in Supervisors :
           phase[s] \in {"draining", "stopping"} /\ Sealed(s) => Sealed(s)']_trafficVars
  BY ShutdownStep
<1> QED
  BY <1>1, TrafficTypeCorrect, PTL DEF TrafficSpec, ShutdownStaysDrained

-----------------------------------------------------------------------------
(* The versions of the events                                               *)

\* No more of the types than versions are compared by.
CountersTyped ==
  /\ topology \in Topologies
  /\ healthy \in [Applications -> Topologies]
  /\ shown \in [Applications -> Topologies \cup {"unseen"}]
  /\ version \in [Applications -> Nat] /\ stored \in [Applications -> Nat]
  /\ event \in [Applications -> [app : Applications, version : Nat, of : Topologies]]
  /\ cachedApps \subseteq Applications
  /\ seen \in [Clients -> Nat]

\* The file knows every version that was given; an application that has been
\* looked at since the start has the event of its last version; and no client
\* has seen a later one.
CountersInv ==
  /\ CountersTyped
  /\ unfailing =>
       /\ stored = version
       /\ \A a \in Applications : shown[a] # "unseen" => event[a].version = version[a]
       /\ \A c \in Clients : seen[c] <= version[AppOf[c]]

\* What the bus replays is an event.
LastTyped == last \in [app : Applications, version : Nat, of : Topologies]

-----------------------------------------------------------------------------
(* Steps                                                                    *)

\* Selected routes are routes, or none: they are never "unseen".
LEMMA SelectedType ==
  ASSUME CountersTyped, NEW a \in Applications
  PROVE  Selected(a) \in Topologies /\ Selected(a) # "unseen"
  BY StreamAssumption DEF CountersTyped, Selected, Topologies, StreamAssumption

\* A snapshot counts what has changed.
LEMMA SnapshotCounts ==
  ASSUME CountersTyped, topology' \in Topologies,
         NEW apps \in SUBSET Applications, NEW broken, Snapshot(apps, broken)
  PROVE  /\ healthy' \in [Applications -> Topologies]
         /\ shown' \in [Applications -> Topologies \cup {"unseen"}]
         /\ version' \in [Applications -> Nat] /\ stored' \in [Applications -> Nat]
         /\ event' \in [Applications -> [app : Applications, version : Nat, of : Topologies]]
         /\ cachedApps' \subseteq Applications
         /\ \A a \in Applications : version[a] <= version'[a]
<1> DEFINE new == {a \in apps : Changed(a)}
<1>1. healthy' \in [Applications -> Topologies]
  BY DEF Snapshot, CountersTyped
<1>2. shown' \in [Applications -> Topologies \cup {"unseen"}]
  BY SelectedType DEF Snapshot, CountersTyped
<1>3. /\ version' = [a \in Applications |-> IF a \in new THEN version[a] + 1 ELSE version[a]]
      /\ event' = [a \in Applications |->
           IF a \in new \ broken THEN [app |-> a, version |-> version[a] + 1, of |-> topology]
           ELSE event[a]]
      /\ cachedApps' \subseteq cachedApps \cup apps
  BY DEF Snapshot
<1> HIDE DEF new
<1>4. version' \in [Applications -> Nat] /\ \A a \in Applications : version[a] <= version'[a]
  BY <1>3 DEF CountersTyped
<1>7. stored' \in [Applications -> Nat]
  BY DEF Snapshot, Save, CountersTyped
<1>5. event' \in [Applications -> [app : Applications, version : Nat, of : Topologies]]
  BY <1>3 DEF CountersTyped
<1>6. cachedApps' \subseteq Applications
  BY <1>3 DEF CountersTyped
<1> QED
  BY <1>1, <1>2, <1>4, <1>5, <1>6, <1>7

\* A snapshot that is written gives every application it looks at the event of
\* its version, in memory and in the file.
LEMMA SnapshotWrites ==
  ASSUME CountersInv, unfailing, NEW apps \in SUBSET Applications, Snapshot(apps, {})
  PROVE  /\ stored' = version'
         /\ \A a \in Applications : shown'[a] # "unseen" => event'[a].version = version'[a]
         /\ \A a \in apps : event'[a].version = version'[a]
<1> DEFINE new == {a \in apps : Changed(a)}
<1>1. /\ version' = [a \in Applications |-> IF a \in new THEN version[a] + 1 ELSE version[a]]
      /\ event' = [a \in Applications |->
           IF a \in new THEN [app |-> a, version |-> version[a] + 1, of |-> topology] ELSE event[a]]
      /\ shown' = [a \in Applications |-> IF a \in new THEN Selected(a) ELSE shown[a]]
      /\ stored' = [a \in Applications |-> IF a \in new THEN version[a] + 1 ELSE stored[a]]
  BY DEF Snapshot, Save
<1>2. \A a \in apps \ new : shown[a] # "unseen"
  BY SelectedType DEF Changed, CountersInv
<1> HIDE DEF new
<1>3. stored' = version'
  BY <1>1 DEF CountersInv
<1>4. \A a \in Applications : shown'[a] # "unseen" => event'[a].version = version'[a]
  BY <1>1 DEF CountersInv
<1>5. \A a \in apps : event'[a].version = version'[a]
  BY <1>1, <1>2 DEF CountersInv
<1> QED
  BY <1>3, <1>4, <1>5

\* What the step of one action does to the invariant and to the clients.
Keeps == CountersInv' /\ (unfailing => \A c \in Clients : seen'[c] >= seen[c])

\* A client is sent nothing, or an event of the current version.
LEMMA SnapshotKeeps ==
  ASSUME CountersInv, NEW apps \in SUBSET Applications, Snapshot(apps, {}), topology' = topology,
         unfailing' = unfailing, unfailing,
         seen' \in [Clients -> Nat],
         \A c \in Clients :
           seen'[c] = seen[c] \/ (AppOf[c] \in apps /\ seen'[c] = event'[AppOf[c]].version)
  PROVE  Keeps
<1>1. CountersTyped
  BY DEF CountersInv
<1>2. topology' \in Topologies
  BY <1>1 DEF CountersTyped
<1>3. /\ healthy' \in [Applications -> Topologies]
      /\ shown' \in [Applications -> Topologies \cup {"unseen"}]
      /\ version' \in [Applications -> Nat] /\ stored' \in [Applications -> Nat]
      /\ event' \in [Applications -> [app : Applications, version : Nat, of : Topologies]]
      /\ cachedApps' \subseteq Applications
      /\ \A a \in Applications : version[a] <= version'[a]
  BY <1>1, <1>2, SnapshotCounts
<1>4. CountersTyped'
  BY <1>2, <1>3 DEF CountersTyped
<1>5. /\ stored' = version'
      /\ \A a \in Applications : shown'[a] # "unseen" => event'[a].version = version'[a]
      /\ \A a \in apps : event'[a].version = version'[a]
  BY SnapshotWrites
<1>6. \A c \in Clients : AppOf[c] \in Applications
  BY StreamAssumption DEF StreamAssumption
<1>7. \A c \in Clients : seen[c] <= version[AppOf[c]] /\ seen[c] \in Nat /\ version[AppOf[c]] \in Nat
  BY <1>1, <1>6 DEF CountersInv, CountersTyped
<1>8. \A c \in Clients : seen'[c] >= seen[c] /\ seen'[c] <= version'[AppOf[c]]
  <2> SUFFICES ASSUME NEW c \in Clients
               PROVE  seen'[c] >= seen[c] /\ seen'[c] <= version'[AppOf[c]]
    OBVIOUS
  <2>1. version[AppOf[c]] <= version'[AppOf[c]] /\ version'[AppOf[c]] \in Nat
    BY <1>3, <1>6
  <2>2. seen'[c] = seen[c] \/ seen'[c] = version'[AppOf[c]]
    BY <1>5
  <2> QED
    BY <1>7, <2>1, <2>2
<1> QED
  BY <1>4, <1>5, <1>8 DEF Keeps, CountersInv

\* While the file may fail, only the types matter.
LEMMA SnapshotTyped ==
  ASSUME CountersInv, NEW apps \in SUBSET Applications, NEW broken, Snapshot(apps, broken),
         topology' = topology, unfailing' = unfailing, ~unfailing, seen' \in [Clients -> Nat]
  PROVE  Keeps
<1>1. CountersTyped /\ topology' \in Topologies
  BY DEF CountersInv, CountersTyped
<1>2. /\ healthy' \in [Applications -> Topologies]
      /\ shown' \in [Applications -> Topologies \cup {"unseen"}]
      /\ version' \in [Applications -> Nat] /\ stored' \in [Applications -> Nat]
      /\ event' \in [Applications -> [app : Applications, version : Nat, of : Topologies]]
      /\ cachedApps' \subseteq Applications
  BY <1>1, SnapshotCounts
<1> QED
  BY <1>1, <1>2 DEF Keeps, CountersInv, CountersTyped

\* A publication gives a client the event of its own application, or none.
LEMMA PublishSends ==
  ASSUME CountersTyped, NEW apps \in SUBSET Applications, NEW final, NEW reached,
         Publish(apps, final, reached),
         event' \in [Applications -> [app : Applications, version : Nat, of : Topologies]]
  PROVE  /\ seen' \in [Clients -> Nat]
         /\ \A c \in Clients :
              seen'[c] = seen[c] \/ (AppOf[c] \in apps /\ seen'[c] = event'[AppOf[c]].version)
<1> DEFINE fresh == {a \in apps : event'[a].version # published[a]}
<1>1. fresh \subseteq apps
  OBVIOUS
<1>2. \/ seen' = seen
      \/ seen' = [c \in Clients |->
           IF c \in reached /\ AppOf[c] \in fresh THEN event'[AppOf[c]].version ELSE seen[c]]
  BY DEF Publish
<1> HIDE DEF fresh
<1>3. \A c \in Clients : AppOf[c] \in Applications /\ event'[AppOf[c]].version \in Nat
  BY StreamAssumption DEF StreamAssumption
<1> QED
  BY <1>1, <1>2, <1>3 DEF CountersTyped

\* A turn of the publisher takes no version back;
LEMMA StreamTickKeeps == ASSUME CountersInv, NEW final \in Applications, StreamTick(final) PROVE Keeps
<1> DEFINE apps == cachedApps \cup {Default}
<1>1. PICK reached \in SUBSET clients : Snapshot(apps, {}) /\ Publish(apps, final, reached)
  BY DEF StreamTick
<1>2. topology' = topology /\ unfailing' = unfailing
  BY DEF StreamTick
<1>3. apps \in SUBSET Applications /\ CountersTyped /\ topology' \in Topologies
  BY <1>2, StreamAssumption DEF CountersInv, CountersTyped, StreamAssumption
<1> HIDE DEF apps
<1>4. event' \in [Applications -> [app : Applications, version : Nat, of : Topologies]]
  BY <1>1, <1>3, SnapshotCounts
<1>5. /\ seen' \in [Clients -> Nat]
      /\ \A c \in Clients :
           seen'[c] = seen[c] \/ (AppOf[c] \in apps /\ seen'[c] = event'[AppOf[c]].version)
  BY <1>1, <1>3, <1>4, PublishSends
<1>6. CASE unfailing
  BY <1>1, <1>2, <1>3, <1>5, <1>6, SnapshotKeeps
<1>7. CASE ~unfailing
  BY <1>1, <1>2, <1>3, <1>5, <1>7, SnapshotTyped
<1> QED
  BY <1>6, <1>7

\* nor does one that fails on the way,
LEMMA TickFailsKeeps ==
  ASSUME CountersInv, NEW broken \in Applications, NEW final \in Applications, TickFails(broken, final)
  PROVE  Keeps
<1>1. PICK before \in SUBSET ((cachedApps \cup {Default}) \ {broken}) :
        Snapshot(before \cup {broken}, {broken}) /\ Publish(before, final, clients)
  BY DEF TickFails
<1>2. topology' = topology /\ unfailing' = unfailing /\ ~unfailing
  BY DEF TickFails
<1>3. /\ before \in SUBSET Applications /\ before \cup {broken} \in SUBSET Applications
      /\ CountersTyped /\ topology' \in Topologies
  BY <1>2, StreamAssumption DEF CountersInv, CountersTyped, StreamAssumption
<1>4. event' \in [Applications -> [app : Applications, version : Nat, of : Topologies]]
  BY <1>1, <1>3, SnapshotCounts
<1>5. seen' \in [Clients -> Nat]
  BY <1>1, <1>3, <1>4, PublishSends
<1> QED
  BY <1>1, <1>2, <1>3, <1>5, SnapshotTyped

\* nor the connection of a client.
LEMMA ConnectKeeps == ASSUME CountersInv, NEW c \in Clients, Connect(c) PROVE Keeps
<1>1. /\ Snapshot({AppOf[c]}, {}) /\ Sent(c, event'[AppOf[c]])
      /\ topology' = topology /\ unfailing' = unfailing
  BY DEF Connect
<1>2. {AppOf[c]} \in SUBSET Applications /\ CountersTyped /\ topology' \in Topologies
  BY <1>1, StreamAssumption DEF CountersInv, CountersTyped, StreamAssumption
<1>3. event' \in [Applications -> [app : Applications, version : Nat, of : Topologies]]
  BY <1>1, <1>2, SnapshotCounts
<1>4. /\ event'[AppOf[c]].version \in Nat
      /\ seen' = seen \/ seen' = [seen EXCEPT ![c] = event'[AppOf[c]].version]
  BY <1>1, <1>2, <1>3 DEF Sent
<1>5. /\ seen' \in [Clients -> Nat]
      /\ \A d \in Clients :
           seen'[d] = seen[d] \/ (AppOf[d] \in {AppOf[c]} /\ seen'[d] = event'[AppOf[d]].version)
  BY <1>2, <1>4 DEF CountersTyped
<1>6. CASE unfailing
  BY <1>1, <1>2, <1>5, <1>6, SnapshotKeeps
<1>7. CASE ~unfailing
  BY <1>1, <1>2, <1>5, <1>7, SnapshotTyped
<1> QED
  BY <1>6, <1>7

\* One that fails only has its types to keep, for the file was not written.
LEMMA ConnectFailsKeeps ==
  ASSUME CountersInv, LastTyped, NEW c \in Clients, ConnectFails(c) PROVE Keeps
<1>1. /\ Snapshot({AppOf[c]}, {AppOf[c]}) /\ (seen' = seen \/ Sent(c, last))
      /\ topology' = topology /\ unfailing' = unfailing /\ ~unfailing
  BY DEF ConnectFails
<1>2. {AppOf[c]} \in SUBSET Applications /\ CountersTyped /\ topology' \in Topologies
  BY <1>1, StreamAssumption DEF CountersInv, CountersTyped, StreamAssumption
<1>3. last.version \in Nat
  BY DEF LastTyped
<1>4. seen' \in [Clients -> Nat]
  BY <1>1, <1>2, <1>3 DEF Sent, CountersTyped
<1> QED
  BY <1>1, <1>2, <1>4, SnapshotTyped

\* A restart forgets the events and reads the versions from the file.
LEMMA RestartStreamKeeps == ASSUME CountersInv, RestartStream PROVE Keeps
<1>1. /\ UNCHANGED <<topology, stored, seen, unfailing>> /\ version' = stored
      /\ healthy' = [a \in Applications |-> None]
      /\ shown' = [a \in Applications |-> "unseen"]
      /\ event' = [a \in Applications |-> NoEvent]
      /\ cachedApps' = {}
  BY DEF RestartStream, Blank
<1>2. NoEvent \in [app : Applications, version : Nat, of : Topologies]
  BY StreamAssumption DEF NoEvent, Topologies, StreamAssumption
<1>3. CASE unfailing
  <2>1. CountersTyped'
    BY <1>1, <1>2, <1>3 DEF CountersInv, CountersTyped, Topologies
  <2> QED
    BY <1>1, <1>3, <2>1 DEF Keeps, CountersInv, CountersTyped
<1>4. CASE ~unfailing
  BY <1>1, <1>2, <1>4 DEF Keeps, CountersInv, CountersTyped, Topologies
<1> QED
  BY <1>3, <1>4

\* Everybody else leaves the counters and what the clients have seen alone.
LEMMA StreamStepKeeps == CountersInv /\ LastTyped /\ [StreamNext]_streamVars => Keeps
<1> SUFFICES ASSUME CountersInv, LastTyped, [StreamNext]_streamVars PROVE Keeps
  OBVIOUS
<1>1. ASSUME UNCHANGED <<topology, healthy, shown, version, stored, event, seen, unfailing>>,
             cachedApps' \subseteq Applications
      PROVE  Keeps
  BY <1>1 DEF Keeps, CountersInv, CountersTyped
<1>2. cachedApps \subseteq Applications
  BY DEF CountersInv, CountersTyped
<1>3. ASSUME NEW c \in Clients, Disconnect(c) PROVE Keeps
  BY <1>1, <1>2, <1>3 DEF Disconnect, snapshots
<1>4. ASSUME NEW a \in Applications, LeaseReads(a) PROVE Keeps
  BY <1>1, <1>2, <1>4 DEF LeaseReads, inboxes
<1>5. ASSUME NEW a \in Applications, Forget(a) PROVE Keeps
  BY <1>5 DEF Forget, inboxes, Keeps, CountersInv, CountersTyped, Topologies
<1>6. CASE RoutesChange
  <2>1. UNCHANGED <<healthy, shown, version, stored, event, cachedApps, seen, unfailing>>
    BY <1>6 DEF RoutesChange, snapshots, inboxes
  <2>2. topology' \in Topologies
    BY <1>6 DEF RoutesChange
  <2> QED
    BY <2>1, <2>2 DEF Keeps, CountersInv, CountersTyped
<1>7. CASE UNCHANGED streamVars
  BY <1>1, <1>2, <1>7 DEF streamVars, snapshots, inboxes
<1> QED
  BY <1>3, <1>4, <1>5, <1>6, <1>7, StreamTickKeeps, TickFailsKeeps, ConnectKeeps,
     ConnectFailsKeeps, RestartStreamKeeps DEF StreamNext

\* The bus replays an event some application has, or the one it replayed.
LEMMA LastStep == CountersInv /\ LastTyped /\ [StreamNext]_streamVars => LastTyped'
<1> SUFFICES ASSUME CountersInv, LastTyped, [StreamNext]_streamVars PROVE LastTyped'
  OBVIOUS
<1> DEFINE EventTypes == [app : Applications, version : Nat, of : Topologies]
<1>1. ASSUME NEW apps \in SUBSET Applications, NEW broken, Snapshot(apps, broken),
             topology' = topology, NEW sent \in SUBSET Applications, NEW final, NEW reached,
             Publish(sent, final, reached)
      PROVE  LastTyped'
  <2>1. event' \in [Applications -> EventTypes]
    BY <1>1, SnapshotCounts DEF CountersInv, CountersTyped
  <2>2. last' = last \/ (final \in Applications /\ last' = event'[final])
    BY <1>1 DEF Publish
  <2> QED
    BY <2>1, <2>2 DEF LastTyped
<1>2. cachedApps \cup {Default} \in SUBSET Applications
  BY StreamAssumption DEF CountersInv, CountersTyped, StreamAssumption
<1>3. ASSUME NEW a \in Applications, StreamTick(a) PROVE LastTyped'
  <2>1. PICK reached \in SUBSET clients :
          /\ Snapshot(cachedApps \cup {Default}, {}) /\ topology' = topology
          /\ Publish(cachedApps \cup {Default}, a, reached)
    BY <1>3 DEF StreamTick
  <2> QED
    BY <1>1, <1>2, <2>1
<1>4. ASSUME NEW a \in Applications, NEW b \in Applications, TickFails(a, b) PROVE LastTyped'
  <2>1. PICK before \in SUBSET ((cachedApps \cup {Default}) \ {a}) :
          /\ Snapshot(before \cup {a}, {a}) /\ Publish(before, b, clients)
          /\ topology' = topology
    BY <1>4 DEF TickFails
  <2>2. before \in SUBSET Applications /\ before \cup {a} \in SUBSET Applications
    BY <1>2
  <2> QED
    BY <1>1, <2>1, <2>2
<1>5. ASSUME last' = last PROVE LastTyped'
  BY <1>5 DEF LastTyped
<1>6. CASE RestartStream
  <2>1. last' = NoEvent
    BY <1>6 DEF RestartStream, Blank
  <2> QED
    BY <2>1, StreamAssumption DEF LastTyped, NoEvent, Topologies, StreamAssumption
<1> QED
  BY <1>3, <1>4, <1>5, <1>6 DEF StreamNext, streamVars, Connect, ConnectFails, Disconnect, LeaseReads,
     Forget, RoutesChange, bus

-----------------------------------------------------------------------------
(* Theorems                                                                 *)

\* Initially the file holds the versions in memory.
LEMMA StreamInitInv == StreamInit => CountersInv
<1> SUFFICES ASSUME StreamInit PROVE CountersInv
  OBVIOUS
<1>1. CountersTyped
  BY StreamAssumption DEF StreamInit, CountersTyped, Topologies, NoEvent, StreamAssumption
<1>2. \A c \in Clients : AppOf[c] \in Applications
  BY StreamAssumption DEF StreamAssumption
<1> QED
  BY <1>1, <1>2 DEF StreamInit, CountersInv, NoEvent

\* For any applications and clients, changes and restarts: while the file can
\* be written, it holds every version that was given, and no client has seen a
\* later one.
THEOREM CountersAreSaved == StreamSpec => [](CountersInv /\ LastTyped)
<1>1. StreamInit => LastTyped
  BY StreamAssumption DEF StreamInit, LastTyped, NoEvent, Topologies, StreamAssumption
<1>2. CountersInv /\ LastTyped /\ [StreamNext]_streamVars => CountersInv' /\ LastTyped'
  BY StreamStepKeeps, LastStep DEF Keeps
<1> QED
  BY <1>1, <1>2, StreamInitInv, PTL DEF StreamSpec

\* So no client is ever left with an older event of its application than the
\* one it had, over reconnections and restarts.
THEOREM ClientsNeverRewind == StreamSpec => VersionsNeverRewind
<1>1. CountersInv /\ LastTyped /\ [StreamNext]_streamVars =>
        [unfailing => \A c \in Clients : seen'[c] >= seen[c]]_streamVars
  BY StreamStepKeeps DEF Keeps
<1> QED
  BY <1>1, CountersAreSaved, PTL DEF StreamSpec, VersionsNeverRewind

-----------------------------------------------------------------------------
(* The recovery lease                                                       *)

\* The invariant holds at the start: no file, no request.
LEMMA InitHolds == ASSUME Init PROVE LeaseInv
  BY LeaseAssumption DEF Init, LeaseInv, TypeOK, Exclusive, Places

\* While nothing can be stale, no file is.
LEMMA NothingExpired == ASSUME TypeOK, NothingStale PROVE ~Expired
  BY LeaseAssumption DEF TypeOK, NothingStale, Expired, Stale, Files

\* Opening, filling and removing the file.
LEMMA FileStepPreserves ==
  ASSUME LeaseInv, NEW r \in Requests,
         Create(r) \/ Exists(r) \/ Fill(r) \/ Fails(r) \/ Unlink(r) \/ UnlinkRefused(r)
  PROVE  LeaseInv'
<1> USE DEF LeaseInv
<1>1. CASE Create(r)
  <2>1. TypeOK'
    BY <1>1, AbsentAssumption DEF Create, Move, TypeOK, Files, Places
  <2>2. ASSUME NothingStale, Exclusive PROVE Exclusive'
    <3>1. file' # Absent /\ file'.owner = r /\ file'.claim = Empty
      BY <1>1, <2>1, AbsentAssumption DEF Create, TypeOK, Files
    <3>2. \A c \in Claims : granted'[c] = Never
      BY <1>1, <2>2 DEF Create, Exclusive
    <3>3. \A s \in Requests : at[s].place # "filling"
      BY <1>1, <2>2 DEF Create, Exclusive
    <3>4. QED
      BY <1>1, <2>2, <3>1, <3>2, <3>3 DEF Create, Move, TypeOK, Exclusive
  <2>3. QED
    BY <1>1, <2>1, <2>2 DEF Create, NothingStale
<1>2. CASE Exists(r)
  BY <1>2 DEF Exists, Move, TypeOK, Places, NothingStale, Exclusive
<1>3. CASE Fill(r)
  <2>1. TypeOK'
    BY <1>3, AbsentAssumption DEF Fill, Move, TypeOK, Files, Places
  <2>2. ASSUME NothingStale, Exclusive PROVE Exclusive'
    <3>1. file # Absent /\ file.owner = r /\ file.claim = Empty
      BY <1>3, <2>2 DEF Fill, Exclusive
    <3>2. file' # Absent /\ file'.claim = at[r].claim
      BY <1>3, <2>1, <3>1, AbsentAssumption DEF Fill, TypeOK, Files
    <3>3. \A c \in Claims : granted[c] = Never
      BY <2>2, <3>1, LeaseAssumption DEF Exclusive
    <3>4. \A c \in Claims : granted'[c] # Never => c = at[r].claim
      BY <1>3, <3>3 DEF Fill, TypeOK
    <3>5. \A s \in Requests : at'[s].place # "unlinking" /\ at'[s].place # "filling"
      BY <1>3, <2>2, <3>1 DEF Fill, Move, TypeOK, Exclusive
    <3>6. QED
      BY <3>2, <3>4, <3>5 DEF Exclusive
  <2>3. QED
    BY <1>3, <2>1, <2>2 DEF Fill, NothingStale
<1>4. CASE Fails(r)
  BY <1>4 DEF Fails, Move, TypeOK, Places, NothingStale, Exclusive
<1>5. CASE Unlink(r)
  BY <1>5 DEF Unlink, Start, TypeOK, Places, NothingStale, Exclusive
<1>6. CASE UnlinkRefused(r)
  BY <1>6 DEF UnlinkRefused, Move, TypeOK, Places, NothingStale, Exclusive
<1>7. QED
  BY <1>1, <1>2, <1>3, <1>4, <1>5, <1>6

\* Asking for a lease and reading the one that is there.
LEMMA ReadStepPreserves ==
  ASSUME LeaseInv, NEW r \in Requests,
         Claim(r) \/ ReadOwn(r) \/ ReadStale(r) \/ ReadRefused(r)
  PROVE  LeaseInv'
<1> USE DEF LeaseInv
<1>1. CASE Claim(r)
  BY <1>1 DEF Claim, Start, TypeOK, Places, NothingStale, Exclusive
<1>2. CASE ReadOwn(r)
  <2>1. TypeOK'
    BY <1>2 DEF ReadOwn, Move, TypeOK, Files, Places
  <2>2. ASSUME NothingStale, Exclusive PROVE Exclusive'
    BY <1>2, <2>2 DEF ReadOwn, Move, TypeOK, Exclusive
  <2>3. QED
    BY <1>2, <2>1, <2>2 DEF ReadOwn, NothingStale
<1>3. CASE ReadStale(r)
  <2>1. TypeOK' /\ ~NothingStale
    BY <1>3, NothingExpired DEF ReadStale, Move, TypeOK, Places
  <2>2. QED
    BY <1>3, <2>1 DEF ReadStale, NothingStale
<1>4. CASE ReadRefused(r)
  BY <1>4 DEF ReadRefused, Move, TypeOK, Places, NothingStale, Exclusive
<1>5. QED
  BY <1>1, <1>2, <1>3, <1>4

\* The invariant is inductive.
THEOREM LeaseInvariance == Spec => []LeaseInv
<1>1. Init => LeaseInv
  BY InitHolds
<1>2. LeaseInv /\ [Next]_vars => LeaseInv'
  <2> SUFFICES ASSUME LeaseInv, [Next]_vars PROVE LeaseInv'
    OBVIOUS
  <2>1. ASSUME NEW r \in Requests, Claim(r) \/ Proceed(r) PROVE LeaseInv'
    BY <2>1, FileStepPreserves, ReadStepPreserves DEF Proceed
  <2>2. CASE Crash
    BY <2>2 DEF LeaseInv, Crash, TypeOK, Places, NothingStale, Exclusive
  <2>3. CASE Tick
    <3>1. TypeOK'
      BY <2>3, LeaseAssumption DEF LeaseInv, Tick, TypeOK
    <3>2. NothingStale' => NothingStale
      BY <2>3, LeaseAssumption DEF LeaseInv, Tick, TypeOK, NothingStale
    <3>3. QED
      BY <2>3, <3>1, <3>2 DEF LeaseInv, Tick, Exclusive
  <2>4. CASE UNCHANGED vars
    BY <2>4 DEF LeaseInv, vars, TypeOK, NothingStale, Exclusive
  <2>5. QED
    BY <2>1, <2>2, <2>3, <2>4 DEF Next
<1>3. QED
  BY <1>1, <1>2, PTL DEF Spec

\* Before the first lease can have gone stale, at most one claim holds one:
\* for any number of overlapping requests and any number of crashes.
THEOREM SingleWinner == Spec => []SingleWinnerUntilStale
<1>1. LeaseInv => SingleWinnerUntilStale
  BY DEF LeaseInv, Exclusive, SingleWinnerUntilStale, SingleLiveWinner, Live
<1>2. QED
  BY <1>1, LeaseInvariance, PTL

-----------------------------------------------------------------------------
(* The types of every part                                                  *)

\* What the bus and the inboxes hold.
BusTyped ==
  /\ last \in [app : Applications, version : Nat, of : Topologies]
  /\ published \in [Applications -> Nat]
  /\ clients \subseteq Clients /\ held \in [Clients -> Topologies]
  /\ unfailing \in BOOLEAN /\ moves \in 0 .. MaxEvents

\* The versions the changes and restarts so far can have used up, and those an
\* application is still due: for what it shows, and for forgetting its routes.
Budget == 2 * (MaxEvents - moves) + 1
Due(a) == (IF Changed(a) THEN 1 ELSE 0) + (IF topology = None /\ healthy[a] # None THEN 1 ELSE 0)

VersionsCounted ==
  /\ \A a \in Applications : /\ version[a] + Due(a) <= Budget /\ stored[a] <= version[a]
                             /\ event[a].version <= Budget /\ published[a] <= Budget
  /\ last.version <= Budget
  /\ \A c \in Clients : seen[c] <= Budget

StreamInv == CountersInv /\ BusTyped /\ VersionsCounted

\* A snapshot gives the versions that were due, and no more.
LEMMA SnapshotUsesDue ==
  ASSUME CountersTyped, BusTyped, VersionsCounted, NEW apps \in SUBSET Applications, NEW broken,
         Snapshot(apps, broken), topology' = topology, moves' = moves
  PROVE  \A a \in Applications :
           /\ version'[a] + Due(a)' <= Budget /\ stored'[a] <= version'[a]
           /\ event'[a].version <= Budget
<1> SUFFICES ASSUME NEW a \in Applications
             PROVE  /\ version'[a] + Due(a)' <= Budget /\ stored'[a] <= version'[a]
                    /\ event'[a].version <= Budget
  OBVIOUS
<1> DEFINE new == {b \in apps : Changed(b)}
           more(b) == IF topology = None /\ healthy[b] # None THEN 1 ELSE 0
<1>1. /\ version'[a] = IF a \in new THEN version[a] + 1 ELSE version[a]
      /\ stored'[a] = IF a \in new \ broken THEN version[a] + 1 ELSE stored[a]
      /\ event'[a] = IF a \in new \ broken
                     THEN [app |-> a, version |-> version[a] + 1, of |-> topology] ELSE event[a]
      /\ shown'[a] = IF a \in new THEN Selected(a) ELSE shown[a]
      /\ healthy'[a] = IF a \in apps /\ topology # None THEN topology ELSE healthy[a]
  BY DEF Snapshot, Save
<1>2. /\ version[a] \in Nat /\ stored[a] \in Nat /\ event[a].version \in Nat /\ Budget \in Int
      /\ version[a] + Due(a) <= Budget /\ stored[a] <= version[a] /\ event[a].version <= Budget
  BY StreamAssumption DEF CountersTyped, VersionsCounted, BusTyped, Budget, StreamAssumption
<1>3. Selected(a)' = Selected(a)
  BY <1>1 DEF Selected
<1>4. Due(a) = (IF Changed(a) THEN 1 ELSE 0) + more(a)
      /\ Due(a)' = (IF Changed(a)' THEN 1 ELSE 0) + more(a)
  BY <1>1 DEF Due
<1>5. more(a) \in {0, 1}
  OBVIOUS
<1>6. CASE a \in new
  <2>1. Changed(a) /\ ~Changed(a)'
    BY <1>1, <1>3, <1>6 DEF Changed
  <2>2. Due(a) = 1 + more(a) /\ Due(a)' = more(a)
    BY <1>4, <1>5, <2>1
  <2>3. version'[a] = version[a] + 1
    BY <1>1, <1>6
  <2>4. stored'[a] = version[a] + 1 \/ stored'[a] = stored[a]
    BY <1>1
  <2>5. event'[a].version = version[a] + 1 \/ event'[a].version = event[a].version
    BY <1>1
  <2> HIDE DEF new, more
  <2> QED
    BY <1>2, <1>5, <2>2, <2>3, <2>4, <2>5
<1>7. CASE a \notin new
  <2>1. Changed(a)' <=> Changed(a)
    BY <1>1, <1>3, <1>7 DEF Changed
  <2>2. Due(a)' = Due(a)
    BY <1>4, <2>1
  <2>3. version'[a] = version[a] /\ stored'[a] = stored[a] /\ event'[a] = event[a]
    BY <1>1, <1>7
  <2> HIDE DEF new
  <2> QED
    BY <1>2, <2>2, <2>3
<1> QED
  BY <1>6, <1>7

\* The budget is a natural number: two versions for every change or restart, and one.
LEMMA BudgetIsNat == ASSUME BusTyped PROVE Budget \in Nat /\ Budget <= 2 * MaxEvents + 1
  BY StreamAssumption DEF BusTyped, Budget, StreamAssumption

\* What is put on the bus and sent to the clients are events of the snapshot.
LEMMA PublishTyped ==
  ASSUME CountersTyped, BusTyped, VersionsCounted, NEW apps \in SUBSET Applications,
         NEW final, NEW reached, Publish(apps, final, reached), topology' = topology,
         event' \in [Applications -> [app : Applications, version : Nat, of : Topologies]],
         \A a \in Applications : event'[a].version <= Budget
  PROVE  /\ last' \in [app : Applications, version : Nat, of : Topologies]
         /\ published' \in [Applications -> Nat] /\ held' \in [Clients -> Topologies]
         /\ \A a \in Applications : published'[a] <= Budget
         /\ last'.version <= Budget
         /\ \A c \in Clients : seen'[c] <= Budget
<1> DEFINE fresh == {a \in apps : event'[a].version # published[a]}
<1>1. fresh \subseteq Applications
  OBVIOUS
<1>2. published' = [a \in Applications |-> IF a \in fresh THEN event'[a].version ELSE published[a]]
  BY DEF Publish
<1>3. \/ last' = last /\ held' = held
      \/ /\ final \in fresh /\ last' = event'[final]
         /\ held' = [c \in Clients |-> IF c \in reached THEN event'[final].of ELSE held[c]]
  BY DEF Publish
<1>4. \A c \in Clients :
        seen'[c] = seen[c] \/ (AppOf[c] \in apps /\ seen'[c] = event'[AppOf[c]].version)
  BY PublishSends
<1> HIDE DEF fresh
<1>5. published' \in [Applications -> Nat] /\ \A a \in Applications : published'[a] <= Budget
  BY <1>1, <1>2 DEF BusTyped, VersionsCounted
<1>6. /\ last' \in [app : Applications, version : Nat, of : Topologies]
      /\ last'.version <= Budget /\ held' \in [Clients -> Topologies]
  BY <1>1, <1>3 DEF BusTyped, VersionsCounted
<1>7. \A c \in Clients : seen'[c] <= Budget
  BY <1>4 DEF VersionsCounted
<1> QED
  BY <1>5, <1>6, <1>7

\* A turn of the publisher keeps the count of the versions,
LEMMA TickCounts ==
  ASSUME StreamInv, NEW a \in Applications,
         StreamTick(a) \/ \E b \in Applications : TickFails(a, b)
  PROVE  BusTyped' /\ VersionsCounted'
<1>1. PICK apps \in SUBSET Applications, sent \in SUBSET Applications, broken \in SUBSET Applications,
           final \in Applications, reached \in SUBSET Clients :
        /\ Snapshot(apps, broken) /\ Publish(sent, final, reached)
        /\ clients' \subseteq clients /\ UNCHANGED <<topology, moves, unfailing>>
  <2>1. cachedApps \cup {Default} \in SUBSET Applications /\ clients \subseteq Clients
    BY StreamAssumption DEF StreamInv, CountersInv, CountersTyped, BusTyped, StreamAssumption
  <2>2. CASE StreamTick(a)
    <3>1. PICK reached \in SUBSET clients :
            /\ Snapshot(cachedApps \cup {Default}, {})
            /\ Publish(cachedApps \cup {Default}, a, reached) /\ clients' = reached
      BY <2>2 DEF StreamTick
    <3>2. UNCHANGED <<topology, moves, unfailing>> /\ {} \in SUBSET Applications
      BY <2>2 DEF StreamTick
    <3>3. reached \in SUBSET Clients /\ clients' \subseteq clients
      BY <2>1, <3>1
    <3> QED
      BY <2>1, <3>1, <3>2, <3>3
  <2>3. ASSUME NEW b \in Applications, TickFails(a, b)
        PROVE  \E apps, sent, broken \in SUBSET Applications,
                  final \in Applications, reached \in SUBSET Clients :
                 /\ Snapshot(apps, broken) /\ Publish(sent, final, reached)
                 /\ clients' \subseteq clients /\ UNCHANGED <<topology, moves, unfailing>>
    <3>1. PICK before \in SUBSET ((cachedApps \cup {Default}) \ {a}) :
            Snapshot(before \cup {a}, {a}) /\ Publish(before, b, clients)
      BY <2>3 DEF TickFails
    <3>2. UNCHANGED <<topology, moves, unfailing>> /\ clients' \subseteq clients
      BY <2>3 DEF TickFails
    <3>3. before \cup {a} \in SUBSET Applications /\ before \in SUBSET Applications
          /\ {a} \in SUBSET Applications
      BY <2>1
    <3> QED
      BY <2>1, <3>1, <3>2, <3>3
  <2> QED
    BY <2>2, <2>3
<1>2. /\ CountersTyped /\ BusTyped /\ VersionsCounted /\ topology' = topology /\ moves' = moves
      /\ topology' \in Topologies
  BY <1>1 DEF StreamInv, CountersInv, CountersTyped
<1>3. event' \in [Applications -> [app : Applications, version : Nat, of : Topologies]]
  BY <1>1, <1>2, SnapshotCounts
<1>4. \A b \in Applications : /\ version'[b] + Due(b)' <= Budget /\ stored'[b] <= version'[b]
                              /\ event'[b].version <= Budget
  BY <1>1, <1>2, SnapshotUsesDue
<1>5. /\ last' \in [app : Applications, version : Nat, of : Topologies]
      /\ published' \in [Applications -> Nat] /\ held' \in [Clients -> Topologies]
      /\ \A b \in Applications : published'[b] <= Budget
      /\ last'.version <= Budget
      /\ \A c \in Clients : seen'[c] <= Budget
  BY <1>1, <1>2, <1>3, <1>4, PublishTyped
<1>6. Budget' = Budget
  BY <1>2 DEF Budget
<1> QED
  BY <1>1, <1>2, <1>4, <1>5, <1>6 DEF BusTyped, VersionsCounted

\* so does a client that connects,
LEMMA ConnectCounts ==
  ASSUME StreamInv, NEW c \in Clients, Connect(c) PROVE BusTyped' /\ VersionsCounted'
<1>1. /\ Snapshot({AppOf[c]}, {}) /\ Sent(c, event'[AppOf[c]]) /\ clients' = clients \cup {c}
      /\ UNCHANGED <<topology, published, last, moves, unfailing>>
  BY DEF Connect, bus
<1>2. /\ CountersTyped /\ BusTyped /\ VersionsCounted /\ topology' \in Topologies
      /\ AppOf[c] \in Applications /\ {AppOf[c]} \in SUBSET Applications
  BY <1>1, StreamAssumption DEF StreamInv, CountersInv, CountersTyped, StreamAssumption
<1>3. event' \in [Applications -> [app : Applications, version : Nat, of : Topologies]]
  BY <1>1, <1>2, SnapshotCounts
<1>4. \A b \in Applications : /\ version'[b] + Due(b)' <= Budget /\ stored'[b] <= version'[b]
                              /\ event'[b].version <= Budget
  BY <1>1, <1>2, SnapshotUsesDue
<1>5. held' \in [Clients -> Topologies] /\ \A d \in Clients : seen'[d] <= Budget
  <2>1. /\ event'[AppOf[c]].of \in Topologies /\ event'[AppOf[c]].version <= Budget
    BY <1>2, <1>3, <1>4
  <2> QED
    BY <1>1, <1>2, <2>1 DEF Sent, BusTyped, VersionsCounted, CountersTyped
<1>6. Budget' = Budget
  BY <1>1 DEF Budget
<1>7. VersionsCounted'
  BY <1>1, <1>2, <1>4, <1>5, <1>6 DEF VersionsCounted
<1> QED
  BY <1>1, <1>2, <1>5, <1>7 DEF BusTyped

\* also when its connection fails,
LEMMA ConnectFailsCounts ==
  ASSUME StreamInv, NEW c \in Clients, ConnectFails(c) PROVE BusTyped' /\ VersionsCounted'
<1>1. /\ Snapshot({AppOf[c]}, {AppOf[c]}) /\ (UNCHANGED <<held, seen>> \/ Sent(c, last))
      /\ clients' = clients \cup {c} /\ UNCHANGED <<topology, published, last, moves, unfailing>>
  BY DEF ConnectFails, bus
<1>2. /\ CountersTyped /\ BusTyped /\ VersionsCounted /\ topology' \in Topologies
      /\ AppOf[c] \in Applications /\ {AppOf[c]} \in SUBSET Applications
  BY <1>1, StreamAssumption DEF StreamInv, CountersInv, CountersTyped, StreamAssumption
<1>3. \A b \in Applications : /\ version'[b] + Due(b)' <= Budget /\ stored'[b] <= version'[b]
                              /\ event'[b].version <= Budget
  BY <1>1, <1>2, SnapshotUsesDue
<1>4. held' \in [Clients -> Topologies] /\ \A d \in Clients : seen'[d] <= Budget
  BY <1>1, <1>2 DEF Sent, BusTyped, VersionsCounted, CountersTyped
<1>5. Budget' = Budget
  BY <1>1 DEF Budget
<1>6. VersionsCounted'
  BY <1>1, <1>2, <1>3, <1>4, <1>5 DEF VersionsCounted
<1> QED
  BY <1>1, <1>2, <1>4, <1>6 DEF BusTyped

\* New routes make an application due for two versions at most: its new routes,
\* and none when the old ones are forgotten.
LEMMA RoutesChangeCounts ==
  ASSUME StreamInv, RoutesChange PROVE BusTyped' /\ VersionsCounted'
<1>1. /\ moves > 0 /\ moves' = moves - 1
      /\ UNCHANGED <<snapshots, published, last, clients, held, seen, unfailing>>
  BY DEF RoutesChange, bus, inboxes
<1>2. BusTyped /\ VersionsCounted /\ CountersTyped
  BY DEF StreamInv, CountersInv
<1>3. BusTyped'
  BY <1>1, <1>2, StreamAssumption DEF BusTyped, StreamAssumption
<1>4. Budget' = Budget + 2 /\ Budget \in Nat
  BY <1>1, <1>2, BudgetIsNat, StreamAssumption DEF Budget, BusTyped, StreamAssumption
<1>5. \A a \in Applications : Due(a) \in 0 .. 2 /\ Due(a)' \in 0 .. 2
  BY DEF Due
<1>6. ASSUME NEW a \in Applications PROVE version'[a] + Due(a)' <= Budget'
  <2>1. version[a] \in Nat /\ version'[a] = version[a] /\ version[a] + Due(a) <= Budget
    BY <1>1, <1>2 DEF snapshots, CountersTyped, VersionsCounted
  <2> QED
    BY <1>4, <1>5, <2>1
<1>7. \A a \in Applications : /\ stored'[a] <= version'[a] /\ event'[a].version <= Budget'
                              /\ published'[a] <= Budget'
  <2>1. \A a \in Applications : /\ event[a].version \in Nat /\ published[a] \in Nat
                                /\ event[a].version <= Budget /\ published[a] <= Budget
    BY <1>2 DEF CountersTyped, VersionsCounted, BusTyped
  <2> QED
    BY <1>1, <1>2, <1>4, <2>1 DEF snapshots, VersionsCounted
<1>8. last'.version <= Budget' /\ \A c \in Clients : seen'[c] <= Budget'
  <2>1. last.version \in Nat /\ \A c \in Clients : seen[c] \in Nat
    BY <1>2 DEF BusTyped, CountersTyped
  <2> QED
    BY <1>1, <1>2, <1>4, <2>1 DEF VersionsCounted
<1> QED
  BY <1>3, <1>6, <1>7, <1>8 DEF VersionsCounted

\* and so does an application that is forgotten.
LEMMA ForgetCounts ==
  ASSUME StreamInv, NEW a \in Applications, Forget(a) PROVE BusTyped' /\ VersionsCounted'
<1>1. /\ topology = None /\ healthy[a] # None /\ healthy' = [healthy EXCEPT ![a] = None]
      /\ UNCHANGED <<topology, shown, version, stored, event, published, last,
                     clients, held, seen, moves, unfailing>>
  BY DEF Forget, bus, inboxes
<1>2. BusTyped /\ VersionsCounted /\ CountersTyped
  BY DEF StreamInv, CountersInv
<1>3. Budget' = Budget
  BY <1>1 DEF Budget
<1>4. \A b \in Applications : Due(b)' <= Due(b) /\ Due(b) \in 0 .. 2 /\ Due(b)' \in 0 .. 2
  <2> SUFFICES ASSUME NEW b \in Applications
               PROVE  Due(b)' <= Due(b) /\ Due(b) \in 0 .. 2 /\ Due(b)' \in 0 .. 2
    OBVIOUS
  <2>1. CASE b = a
    BY <1>1, <1>2, <2>1 DEF Due, CountersTyped
  <2>2. CASE b # a
    <3>1. healthy'[b] = healthy[b]
      BY <1>1, <1>2, <2>2 DEF CountersTyped
    <3> QED
      BY <1>1, <3>1 DEF Due, Changed, Selected
  <2> QED
    BY <2>1, <2>2
<1>5. \A b \in Applications : version'[b] + Due(b)' <= Budget'
  <2>1. \A b \in Applications : version[b] \in Nat /\ version[b] + Due(b) <= Budget /\ Budget \in Nat
    BY <1>2, BudgetIsNat DEF CountersTyped, VersionsCounted
  <2> QED
    BY <1>1, <1>3, <1>4, <2>1
<1> QED
  BY <1>1, <1>2, <1>3, <1>5 DEF BusTyped, VersionsCounted

\* A restart uses up a move, and makes every application due for one version.
LEMMA RestartStreamCounts ==
  ASSUME StreamInv, RestartStream PROVE BusTyped' /\ VersionsCounted'
<1>1. /\ moves > 0 /\ moves' = moves - 1 /\ version' = stored
      /\ healthy' = [a \in Applications |-> None]
      /\ event' = [a \in Applications |-> NoEvent] /\ published' = [a \in Applications |-> 0]
      /\ last' = NoEvent /\ clients' = {}
      /\ UNCHANGED <<topology, stored, held, seen, unfailing>>
  BY DEF RestartStream, Blank
<1>2. BusTyped /\ VersionsCounted /\ CountersTyped
  BY DEF StreamInv, CountersInv
<1>3. NoEvent \in [app : Applications, version : Nat, of : Topologies] /\ NoEvent.version = 0
  BY StreamAssumption DEF NoEvent, Topologies, StreamAssumption
<1>4. BusTyped'
  <2>1. moves' \in 0 .. MaxEvents
    BY <1>1, <1>2, StreamAssumption DEF BusTyped, StreamAssumption
  <2> QED
    BY <1>1, <1>2, <1>3, <2>1 DEF BusTyped
<1>5. Budget' = Budget + 2 /\ Budget \in Nat
  BY <1>1, <1>2, BudgetIsNat, StreamAssumption DEF Budget, BusTyped, StreamAssumption
<1>6. \A a \in Applications : Due(a) \in 0 .. 2 /\ Due(a)' \in 0 .. 1
  BY <1>1 DEF Due
<1>7. ASSUME NEW a \in Applications
      PROVE  version'[a] + Due(a)' <= Budget' /\ stored'[a] <= version'[a]
  <2>1. /\ version[a] \in Nat /\ stored[a] \in Nat /\ stored[a] <= version[a]
        /\ version[a] + Due(a) <= Budget /\ version'[a] = stored[a] /\ stored'[a] = stored[a]
    BY <1>1, <1>2 DEF CountersTyped, VersionsCounted
  <2> QED
    BY <1>5, <1>6, <2>1
<1>8. \A a \in Applications : event'[a].version <= Budget' /\ published'[a] <= Budget'
  BY <1>1, <1>3, <1>5
<1>9. last'.version <= Budget' /\ \A c \in Clients : seen'[c] <= Budget'
  <2>1. \A c \in Clients : seen[c] \in Nat /\ seen[c] <= Budget
    BY <1>2 DEF CountersTyped, VersionsCounted
  <2> QED
    BY <1>1, <1>3, <1>5, <2>1
<1> QED
  BY <1>4, <1>7, <1>8, <1>9 DEF VersionsCounted

\* Every step keeps the count.
LEMMA StreamStepCounts == StreamInv /\ [StreamNext]_streamVars => StreamInv'
<1> SUFFICES ASSUME StreamInv, [StreamNext]_streamVars PROVE BusTyped' /\ VersionsCounted'
  BY StreamStepKeeps DEF StreamInv, BusTyped, LastTyped, Keeps
<1>1. ASSUME UNCHANGED <<topology, healthy, shown, version, stored, event, published, last,
                         held, seen, moves, unfailing>>,
             clients' \subseteq clients
      PROVE  BusTyped' /\ VersionsCounted'
  <2>1. Budget' = Budget /\ \A a \in Applications : Due(a)' = Due(a)
    BY <1>1 DEF Budget, Due, Changed, Selected
  <2>2. VersionsCounted'
    BY <1>1, <2>1 DEF StreamInv, VersionsCounted
  <2> QED
    BY <1>1, <2>2 DEF StreamInv, BusTyped
<1>2. ASSUME NEW c \in Clients, Disconnect(c) PROVE BusTyped' /\ VersionsCounted'
  BY <1>1, <1>2 DEF Disconnect, snapshots, bus
<1>3. ASSUME NEW a \in Applications, LeaseReads(a) PROVE BusTyped' /\ VersionsCounted'
  BY <1>1, <1>3 DEF LeaseReads, bus, inboxes
<1>4. CASE UNCHANGED streamVars
  BY <1>1, <1>4 DEF streamVars, snapshots, bus, inboxes
<1> QED
  BY <1>2, <1>3, <1>4, TickCounts, ConnectCounts, ConnectFailsCounts, ForgetCounts,
     RoutesChangeCounts, RestartStreamCounts DEF StreamNext

\* Initially nothing was published and the whole budget is left.
LEMMA StreamInitCounts == StreamInit => StreamInv
<1> SUFFICES ASSUME StreamInit PROVE BusTyped /\ VersionsCounted
  BY StreamInitInv DEF StreamInv
<1>1. NoEvent \in [app : Applications, version : Nat, of : Topologies] /\ NoEvent.version = 0
  BY StreamAssumption DEF NoEvent, Topologies, StreamAssumption
<1>2. BusTyped
  BY <1>1, StreamAssumption DEF StreamInit, BusTyped, Topologies, StreamAssumption
<1>3. Budget = 1
  BY StreamAssumption DEF StreamInit, Budget, StreamAssumption
<1>4. \A a \in Applications : Due(a) \in 0 .. 1
  BY DEF StreamInit, Due
<1> QED
  BY <1>1, <1>2, <1>3, <1>4 DEF StreamInit, VersionsCounted

\* The count bounds the versions, so every variable has its type.
LEMMA StreamIsTyped == StreamInv => StreamTypeOK
<1> SUFFICES ASSUME StreamInv PROVE StreamTypeOK
  OBVIOUS
<1>1. BusTyped /\ VersionsCounted /\ CountersTyped
  BY DEF StreamInv, CountersInv
<1>2. Budget \in Nat /\ Budget <= 2 * MaxEvents + 1 /\ MaxEvents \in Nat
  BY <1>1, BudgetIsNat, StreamAssumption DEF StreamAssumption
<1>3. \A n \in Nat : n <= Budget => n \in Versions
  BY <1>2 DEF Versions
<1>4. \A a \in Applications : Due(a) \in 0 .. 2
  BY DEF Due
<1>5. ASSUME NEW a \in Applications
      PROVE  /\ version[a] \in Versions /\ stored[a] \in Versions /\ published[a] \in Versions
             /\ event[a].version \in Versions
  <2>1. /\ version[a] \in Nat /\ stored[a] \in Nat /\ published[a] \in Nat
        /\ event[a].version \in Nat
    BY <1>1 DEF CountersTyped, BusTyped
  <2>2. /\ version[a] + Due(a) <= Budget /\ stored[a] <= version[a]
        /\ event[a].version <= Budget /\ published[a] <= Budget
    BY <1>1 DEF VersionsCounted
  <2>3. version[a] <= Budget /\ stored[a] <= Budget
    BY <1>2, <1>4, <2>1, <2>2
  <2> QED
    BY <1>3, <2>1, <2>2, <2>3
<1>6. /\ version \in [Applications -> Versions] /\ stored \in [Applications -> Versions]
      /\ published \in [Applications -> Versions]
  BY <1>1, <1>5 DEF CountersTyped, BusTyped
<1>7. event \in [Applications -> Events]
  BY <1>1, <1>5 DEF CountersTyped, Events
<1>8. last \in Events /\ seen \in [Clients -> Versions]
  BY <1>1, <1>3 DEF BusTyped, CountersTyped, VersionsCounted, Events
<1> QED
  BY <1>1, <1>6, <1>7, <1>8 DEF StreamTypeOK, CountersTyped, BusTyped

\* For any instance: the gates keep their types, and no version, in memory, in
\* the file or on its way to a client, is one that no change accounts for.
THEOREM SignalsTypeCorrect == SignalsSpec => []SignalsTypeOK
<1>1. SignalsInit => TrafficTypeOK /\ StreamInv
  BY TrafficInitType, StreamInitCounts DEF SignalsInit
<1>2. TrafficTypeOK /\ StreamInv /\ [SignalsNext]_signalsVars => (TrafficTypeOK /\ StreamInv)'
  <2>1. [SignalsNext]_signalsVars => [TrafficNext]_trafficVars /\ [StreamNext]_streamVars
    BY DEF SignalsNext, signalsVars
  <2> QED
    BY <2>1, TrafficStepType, StreamStepCounts
<1>3. TrafficTypeOK /\ StreamInv => SignalsTypeOK
  BY StreamIsTyped DEF SignalsTypeOK
<1> QED
  BY <1>1, <1>2, <1>3, PTL DEF SignalsSpec

=============================================================================
