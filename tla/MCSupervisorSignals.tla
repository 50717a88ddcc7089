------------------------- MODULE MCSupervisorSignals -------------------------
(***************************************************************************)
(* What a supervisor tells others over time: the drains of its traffic,    *)
(* the events of its routes, and the recovery leases it grants.  The three *)
(* do not call each other; a behaviour is one of one of them.              *)
(***************************************************************************)
EXTENDS TrafficDrain, EventStream, RecoveryLease, FiniteSets, TLC

CONSTANTS main, blog, c1, c2, e1

MCAppOf == (c1 :> main) @@ (c2 :> blog)

VARIABLE part
signalsVars == <<part, trafficVars, streamVars, vars>>

\* Bound: a run of the traffic has two of an order and the end of each
\* supervisor, in every combination.
TrafficBound == orders + Cardinality({s \in Supervisors : stops[s] > 0}) = 2

\* What an initial state leaves open is open for its own part only.
SignalsInit ==
  /\ part \in {"traffic", "stream", "lease"}
  /\ TrafficInit
  /\ IF part = "traffic" THEN TrafficBound
     ELSE faultless /\ orders = 0 /\ stops = [s \in Supervisors |-> 0]
  /\ StreamInit /\ (part # "stream" => unfailing)
  /\ Init /\ (part # "lease" => \A r \in Requests : at[r].claim = e1)

SignalsNext ==
  \/ part = "traffic" /\ TrafficNext /\ UNCHANGED <<part, streamVars, vars>>
  \/ part = "stream" /\ StreamNext /\ UNCHANGED <<part, trafficVars, vars>>
  \/ part = "lease" /\ Next /\ UNCHANGED <<part, trafficVars, streamVars>>

SignalsSpec == SignalsInit /\ [][SignalsNext]_signalsVars

\* TrafficFairness, StreamFairness and the fairness of RecoveryLease, each in
\* the behaviours of its part.
SignalsFairness ==
  /\ WF_trafficVars(part = "traffic" /\ TrafficProgress)
  /\ WF_streamVars(part = "stream" /\ \E a \in Applications : StreamTick(a))
  /\ \A a \in Applications : WF_streamVars(part = "stream" /\ Forget(a))
  /\ \A r \in Requests : WF_vars(part = "lease" /\ Proceed(r))

FairSignalsSpec == SignalsSpec /\ SignalsFairness

-----------------------------------------------------------------------------

\* The state of every part has the form its code gives it.
SignalsTypeOK == TrafficTypeOK /\ StreamTypeOK

=============================================================================
