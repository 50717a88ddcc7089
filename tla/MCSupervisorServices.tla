------------------------ MODULE MCSupervisorServices ------------------------
(***************************************************************************)
(* Three services of a supervisor that keep a state of their own and do    *)
(* not call each other: the assignment of a writer, the operator's cold    *)
(* bootstrap and the intent.  A behaviour is one of one of them.           *)
(***************************************************************************)
EXTENDS WriterAssignment, OperatorBootstrap, IntentApply, TLC

CONSTANTS m1, m2, m3, l1, l2, q1, q2, q3, i1, i2, i3

MCLeaseAt == (l1 :> m1) @@ (l2 :> m2)
MCRank == (m1 :> 0) @@ (m2 :> 1) @@ (m3 :> 2)
MCNodes == {1, 2}
MCPosition == (1 :> 5) @@ (2 :> 6)
MCRequestedAt == (q1 :> 1) @@ (q2 :> 1) @@ (q3 :> 2)
MCClusterOf == (i1 :> "shop") @@ (i2 :> "shop") @@ (i3 :> "test")
MCPortOf == (i1 :> 3306) @@ (i2 :> 3307) @@ (i3 :> 3306)

VARIABLE part
servicesVars == <<part, writerVars, bootstrapVars, intentVars>>

\* What an initial state leaves open is open for its own part only.
ServicesInit ==
  /\ part \in {"writer", "bootstrap", "intent"}
  /\ WriterInit
  /\ BootstrapInit
  /\ IntentInit /\ (part # "intent" => orderly /\ environment = i1)

ServicesNext ==
  \/ part = "writer" /\ WriterNext /\ UNCHANGED <<part, bootstrapVars, intentVars>>
  \/ part = "bootstrap" /\ BootstrapNext /\ UNCHANGED <<part, writerVars, intentVars>>
  \/ part = "intent" /\ IntentNext /\ UNCHANGED <<part, writerVars, bootstrapVars>>

ServicesSpec == ServicesInit /\ [][ServicesNext]_servicesVars

-----------------------------------------------------------------------------

\* The state of every service has the form its code gives it.
ServicesTypeOK == WriterTypeOK /\ BootstrapTypeOK /\ IntentTypeOK

=============================================================================
