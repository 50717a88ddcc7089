---------------------------- MODULE TrafficDrain ----------------------------
(***************************************************************************)
(* The traffic gate of every supervisor: the drain manager and its events  *)
(* (src/lifecycle), the wiring that recovers traffic after a start         *)
(* (src/runtime/traffic-wiring.mjs), and its propagation to the peers      *)
(* (src/cluster/drain-propagation.mjs), with the shutdowns and restarts in *)
(* between.                                                                *)
(*                                                                         *)
(* The two flags of the code, draining of the drain manager and drained of *)
(* the wiring, are set together and are one variable here.                 *)
(***************************************************************************)
EXTENDS Integers

CONSTANTS
  Supervisors,
  MaxOrders,     \* bound: requests of operators in a run
  MaxStops       \* bound: ends of each supervisor, each followed by a restart

ASSUME TrafficAssumption == MaxOrders \in Nat /\ MaxStops \in Nat

VARIABLES
  phase,         \* per supervisor: the lifecycle state
  starting,      \*   the startup flow has not called recover() yet
  draining,      \*   the gate
  undraining,    \*   a call of publishDrainEvent(false) awaits the health
  announcing,    \*   the loop of recover() goes on
  lastEvent,     \*   the last drain event that the event bus replays
  stops,         \*   how often it may still end
  network,       \* the propagated requests under way
  admitted,      \* the requests that wait for their authentication
  faultless,     \* the network loses none of them, and every health is ready
  orders,        \* how many requests operators may still make
  ordered        \* an operator has asked for a drain
gate == <<draining, undraining, lastEvent>>
calls == <<network, admitted>>
operators == <<orders, ordered>>
trafficVars == <<phase, starting, gate, announcing, stops, calls, faultless, operators>>

Phases == {"serving", "draining", "stopping", "stopped"}

\* A request is propagated by a peer, or an operator's: then from is to.
Calls == [from : Supervisors, to : Supervisors, drain : BOOLEAN]
Messages == {m \in Calls : m.from # m.to}

TrafficTypeOK ==
  /\ phase \in [Supervisors -> Phases]
  /\ starting \in [Supervisors -> BOOLEAN]
  /\ draining \in [Supervisors -> BOOLEAN]
  /\ undraining \in [Supervisors -> BOOLEAN]
  /\ announcing \in [Supervisors -> BOOLEAN]
  /\ lastEvent \in [Supervisors -> {"none", "drain", "recovery"}]
  /\ stops \in [Supervisors -> 0 .. MaxStops]
  /\ network \subseteq Messages
  /\ admitted \subseteq Calls
  /\ faultless \in BOOLEAN
  /\ orders \in 0 .. MaxOrders
  /\ ordered \in BOOLEAN

TrafficInit ==
  /\ phase = [s \in Supervisors |-> "serving"]
  /\ starting = [s \in Supervisors |-> TRUE]
  /\ draining = [s \in Supervisors |-> FALSE]
  /\ undraining = [s \in Supervisors |-> FALSE]
  /\ announcing = [s \in Supervisors |-> FALSE]
  /\ lastEvent = [s \in Supervisors |-> "none"]
  /\ stops \in [Supervisors -> 0 .. MaxStops]
  /\ network = {}
  /\ admitted = {}
  /\ faultless \in BOOLEAN
  /\ orders \in 0 .. MaxOrders
  /\ ordered = FALSE

-----------------------------------------------------------------------------
(* The drain manager, and what follows a change of the gate.                *)

\* A drain is announced at once.
Begin(s) ==
  /\ draining' = [draining EXCEPT ![s] = TRUE]
  /\ lastEvent' = IF draining[s] THEN lastEvent ELSE [lastEvent EXCEPT ![s] = "drain"]
  /\ UNCHANGED undraining

\* A recovery is announced only once the health has answered.
End(s) ==
  /\ draining' = [draining EXCEPT ![s] = FALSE]
  /\ undraining' = IF draining[s] THEN [undraining EXCEPT ![s] = TRUE] ELSE undraining
  /\ UNCHANGED lastEvent

\* Mutant of ToPeers: the sender is one of its own targets.
ToAll(s, drain) == [from : {s}, to : Supervisors, drain : {drain}]

ToPeers(s, drain) == [from : {s}, to : Supervisors \ {s}, drain : {drain}]

\* clusterDrain.set: a request that was itself propagated goes no further.
SetDrain(s, drain, propagated) ==
  /\ \/ drain /\ Begin(s)
     \/ ~drain /\ End(s)
  /\ network' = (IF propagated THEN network ELSE network \cup ToPeers(s, drain))

\* The control API answers 503 from the start of the shutdown.
\* Mutant of Serves: the API answers until the listener is closed.
ServesUntilClosed(s) == phase[s] \in {"serving", "draining"}

Serves(s) == phase[s] = "serving"

-----------------------------------------------------------------------------
(* Requests.  The listener looks at the shutdown before the control API     *)
(* authenticates the caller, and nobody looks again.  The token of the root *)
(* is recognised without waiting, a scoped one takes a query.               *)

\* Whoever calls the API is heard, and waits.
Admits(c) == Serves(c.to) /\ admitted' = admitted \cup {c}

\* An operator drains or undrains; so does a lifecycle action, and a data
\* reset, whose fence is a drain that nothing lifts.
Order(c) ==
  /\ orders > 0 /\ c.from = c.to /\ c \notin admitted
  /\ Admits(c)
  /\ orders' = orders - 1
  /\ ordered' = (ordered \/ c.drain)
  /\ UNCHANGED <<phase, starting, gate, announcing, stops, network, faultless>>

Deliver(m) ==
  /\ m \in network
  /\ Admits(m)
  /\ network' = network \ {m}
  /\ UNCHANGED <<phase, starting, gate, announcing, stops, faultless, operators>>

\* Refused, timed out or lost: nobody tries again.
Fail(m) ==
  /\ m \in network /\ (Serves(m.to) => ~faultless)
  /\ network' = network \ {m}
  /\ UNCHANGED <<phase, starting, gate, announcing, stops, admitted, faultless, operators>>

\* The caller is authenticated.
Handle(c) ==
  /\ c \in admitted
  /\ admitted' = admitted \ {c}
  /\ SetDrain(c.to, c.drain, c.from # c.to)
  /\ UNCHANGED <<phase, starting, announcing, stops, faultless, operators>>

\* The database does not answer, as in a shutdown.
Refuse(c) ==
  /\ c \in admitted /\ (Serves(c.to) => ~faultless)
  /\ admitted' = admitted \ {c}
  /\ UNCHANGED <<phase, starting, gate, announcing, stops, network, faultless, operators>>

\* Mutant of Announce: the promise of the health goes unanswered.
AnnounceNothing(s) == UNCHANGED lastEvent

\* The recovery is withheld when the health is not ready; the gate is not
\* looked at again.
Announce(s) ==
  \/ lastEvent' = [lastEvent EXCEPT ![s] = "recovery"]
  \/ ~faultless /\ UNCHANGED lastEvent

PublishRecovery(s) ==
  /\ undraining[s] /\ phase[s] # "stopped"
  /\ undraining' = [undraining EXCEPT ![s] = FALSE]
  /\ Announce(s)
  /\ UNCHANGED <<phase, starting, draining, announcing, stops, calls, faultless, operators>>

-----------------------------------------------------------------------------
(* The life of a supervisor.                                                *)

\* Mutant of Recovers: recover() clears only the gate of its own process.
RecoversAlone(s) == SetDrain(s, FALSE, TRUE)

\* It clears the drain of the whole cluster, which its own shutdown has set.
Recovers(s) == SetDrain(s, FALSE, FALSE)

\* The startup flow calls recover(), also when a shutdown has begun meanwhile
\* and whatever it waits for.  A restart takes longer than the two seconds
\* after which the requests of the life before have been given up or handled.
Recover(s) ==
  /\ starting[s] /\ phase[s] # "stopped"
  /\ phase[s] = "serving" => \A m \in Messages \cap (network \cup admitted) : m.from # s
  /\ Recovers(s)
  /\ starting' = [starting EXCEPT ![s] = FALSE]
  /\ announcing' = [announcing EXCEPT ![s] = TRUE]
  /\ UNCHANGED <<phase, stops, admitted, faultless, operators>>

\* The loop ends with a published recovery or at its deadline.
RecoveryEnds(s) ==
  /\ announcing[s] /\ phase[s] # "stopped"
  /\ announcing' = [announcing EXCEPT ![s] = FALSE]
  /\ Announce(s)
  /\ UNCHANGED <<phase, starting, draining, undraining, stops, calls, faultless, operators>>

\* shutdown() up to its first await.
Terminate(s) ==
  /\ phase[s] = "serving" /\ stops[s] > 0
  /\ phase' = [phase EXCEPT ![s] = "draining"]
  /\ SetDrain(s, TRUE, FALSE)
  /\ UNCHANGED <<starting, announcing, stops, admitted, faultless, operators>>

\* The streams are closed, and the gate once more; nothing enters the drain
\* manager, so its wait is over at once.
Quiesce(s) ==
  /\ phase[s] = "draining"
  /\ Begin(s)
  /\ phase' = [phase EXCEPT ![s] = "stopping"]
  /\ UNCHANGED <<starting, announcing, stops, calls, faultless, operators>>

\* The process is over, after its shutdown or in a crash.
Exit(s) ==
  /\ phase[s] # "stopped" /\ stops[s] > 0
  /\ phase[s] # "draining"
  /\ phase' = [phase EXCEPT ![s] = "stopped"]
  /\ stops' = [stops EXCEPT ![s] = @ - 1]
  /\ admitted' = {c \in admitted : c.to # s}
  /\ UNCHANGED <<starting, gate, announcing, network, faultless, operators>>

Restart(s) ==
  /\ phase[s] = "stopped"
  /\ phase' = [phase EXCEPT ![s] = "serving"]
  /\ starting' = [starting EXCEPT ![s] = TRUE]
  /\ draining' = [draining EXCEPT ![s] = FALSE]
  /\ undraining' = [undraining EXCEPT ![s] = FALSE]
  /\ announcing' = [announcing EXCEPT ![s] = FALSE]
  /\ lastEvent' = [lastEvent EXCEPT ![s] = "none"]
  /\ UNCHANGED <<stops, calls, faultless, operators>>

TrafficNext ==
  \/ \E s \in Supervisors :
       \/ PublishRecovery(s) \/ Recover(s) \/ RecoveryEnds(s)
       \/ Terminate(s) \/ Quiesce(s) \/ Exit(s) \/ Restart(s)
  \/ \E m \in Messages : Deliver(m) \/ Fail(m)
  \/ \E c \in Calls : Order(c) \/ Handle(c) \/ Refuse(c)

TrafficSpec == TrafficInit /\ [][TrafficNext]_trafficVars

\* A request is answered or given up within two seconds, a started supervisor
\* recovers within its timeouts, a shutdown goes on, and the container runtime
\* restarts a supervisor that has ended.
TrafficProgress ==
  \/ \E s \in Supervisors :
       Recover(s) \/ Quiesce(s) \/ (phase[s] = "stopping" /\ Exit(s)) \/ Restart(s)
  \/ \E m \in network : Deliver(m) \/ Fail(m)
  \/ \E c \in admitted : Handle(c) \/ Refuse(c)

TrafficFairness == WF_trafficVars(TrafficProgress)

FairTrafficSpec == TrafficSpec /\ TrafficFairness

-----------------------------------------------------------------------------
(* Properties.                                                              *)

\* Whoever was told to leave a supervisor is told to come back: once its gate
\* is open, either the last event on its bus is no longer the drain, or a
\* recovery is still to be announced, whatever order drains and undrains of
\* operators, peers and recover() come in (drain-events.mjs:12).
OpenGateIsAnnounced ==
  \A s \in Supervisors :
    faultless /\ ~draining[s] /\ lastEvent[s] = "drain" => undraining[s] \/ announcing[s]

\* Nothing that would open the gate is under way: the startup flow has called
\* recover(), and no undrain waits for its authentication.
Sealed(s) ==
  draining[s] /\ ~starting[s] /\ \A c \in admitted : c.to = s => c.drain

\* A supervisor that shuts down with its gate closed, and nothing under way
\* that would open it, lets nobody open it, until it is gone: /readyz stays 503
\* and no route names it (probes.mjs:7).  What was under way when the signal
\* came may still open it: its own startup flow (traffic-wiring.mjs:27), and an
\* undrain that was admitted before (control-api.mjs:35).
ShutdownStaysDrained ==
  [][\A s \in Supervisors :
       phase[s] \in {"draining", "stopping"} /\ Sealed(s) => Sealed(s)']_trafficVars

\* While no request is lost, the drains that shutdowns spread over the cluster
\* are all lifted again after the restarts, however these overlap, unless an
\* operator asked for one (the comment in recover(), traffic-wiring.mjs:24).
DrainsAreLifted ==
  faultless => \/ <>ordered
              \/ <>[](\A s \in Supervisors : ~draining[s])
=============================================================================
