----------------------------- MODULE IntentApply -----------------------------
(***************************************************************************)
(* The intent of a supervisor: the files active.intent.json and            *)
(* mariadb.cnf (intent/state.mjs), POST /api/v1/config/apply               *)
(* (intent-application.mjs), and the start of a supervisor, which applies  *)
(* the active intent again before mariadbd reads mariadb.cnf               *)
(* (startup-configuration.mjs).                                            *)
(*                                                                         *)
(* The handlers of two applies interleave at every await, and both write a *)
(* file through the same temporary file.                                   *)
(***************************************************************************)
EXTENDS Naturals, FiniteSets

CONSTANTS
  Intents,
  ClusterOf, PortOf,   \* what planIntent compares of an intent
  NoIntent, Torn,      \* no file; a file two writes are mixed in
  Applies,             \* requests to apply an intent
  Boot,                \* the apply of the start
  MaxEnds              \* bound: ends of the supervisor

ASSUME IntentAssumption ==
  /\ NoIntent \notin Intents /\ Torn \notin Intents /\ NoIntent # Torn
  /\ Boot \notin Applies /\ MaxEnds \in Nat
  /\ DOMAIN ClusterOf = Intents /\ DOMAIN PortOf = Intents

VARIABLES
  environment,   \* SUPERVISOR_INTENT_JSON
  active,        \* active.intent.json
  rendered,      \* mariadb.cnf, as the intent it renders
  running,       \* the mariadb.cnf that mariadbd has read; NoIntent: no mariadbd
  call,          \* per apply: its stage, the desired intent, the active one
                 \*   that a failure restores, and the planned change
  mixed,         \* the applies that write a file another one writes too
  orderly,       \* one apply at a time
  troubled,      \* a restore or a restart has failed
  ends
files == <<active, rendered>>
applies == <<call, mixed>>
faults == <<orderly, troubled>>
intentVars == <<environment, files, running, applies, faults, ends>>

Handlers == Applies \cup {Boot}
Writing == {"active", "rendered", "restoring"}

IntentTypeOK ==
  /\ environment \in Intents
  /\ {active, rendered, running} \subseteq Intents \cup {NoIntent, Torn}
  /\ call \in [Handlers -> [
       stage : Writing \cup {"idle", "planning", "reading", "previous", "acting"},
       desired : Intents \cup {NoIntent}, base : Intents \cup {NoIntent},
       change : {"restart", "reload", "no-op"}]]
  /\ mixed \subseteq Handlers
  /\ {orderly, troubled} \subseteq BOOLEAN
  /\ ends \in 0 .. MaxEnds

Over == [stage |-> "idle", desired |-> NoIntent, base |-> NoIntent, change |-> "no-op"]

\* No state directory yet.
IntentInit ==
  /\ environment \in Intents
  /\ active = NoIntent /\ rendered = NoIntent /\ running = NoIntent
  /\ call = [h \in Handlers |-> Over]
  /\ mixed = {}
  /\ orderly \in BOOLEAN /\ troubled = FALSE
  /\ ends = MaxEnds

NoneUnderWay == \A h \in Handlers : call[h] = Over

-----------------------------------------------------------------------------
(* applyIntent() and state.apply().                                         *)

\* The handler goes on as `next`: its write may meet another one's on the
\* same file.
Path(place) == IF place = "restoring" THEN "active" ELSE place
Proceed(h, next) ==
  /\ call' = [call EXCEPT ![h] = next]
  /\ LET meets == {g \in Handlers \ {h} : next.stage \in Writing /\ Path(call[g].stage) = Path(next.stage)}
     IN mixed' = (mixed \ {h}) \cup meets \cup (IF meets = {} THEN {} ELSE {h})
Enter(h, place) == Proceed(h, [call[h] EXCEPT !.stage = place])
Finish(h) == Proceed(h, Over)

\* The route refuses what the environment's intent does not allow.
RequestApply(h, d) ==
  /\ running # NoIntent /\ call[h] = Over /\ (orderly => NoneUnderWay)
  /\ ClusterOf[d] = ClusterOf[environment]
  /\ Proceed(h, [Over EXCEPT !.stage = "planning", !.desired = d])
  /\ UNCHANGED <<environment, files, running, faults, ends>>

\* Mutant of Against: the intent of the environment, whatever is active.
AgainstEnvironment(intent) == environment

\* What a desired intent is planned against.
Against(intent) == IF intent = NoIntent THEN environment ELSE intent

Changes(d, a) ==
  IF d = a THEN "no-op" ELSE IF PortOf[d] # PortOf[a] THEN "restart" ELSE "reload"

\* A file that cannot be parsed refuses every apply.
PlanChange(h) ==
  /\ call[h].stage = "planning"
  /\ LET d == call[h].desired
         a == Against(active)
     IN IF active = Torn \/ ClusterOf[d] # ClusterOf[a] THEN Finish(h)
        ELSE Proceed(h, [call[h] EXCEPT !.stage = "reading", !.change = Changes(d, a)])
  /\ UNCHANGED <<environment, files, running, faults, ends>>

ReadBase(h) ==
  /\ call[h].stage = "reading"
  /\ IF active = Torn THEN Finish(h)
     ELSE Proceed(h, [call[h] EXCEPT !.stage = "previous", !.base = active])
  /\ UNCHANGED <<environment, files, running, faults, ends>>

\* A write of state.apply() throws: the active intent there was is restored.
Undo(h) == IF call[h].base = NoIntent THEN Finish(h) ELSE Enter(h, "restoring")

\* last-known-good.intent.json
SavePrevious(h) ==
  /\ call[h].stage = "previous"
  /\ Enter(h, "active") \/ (call[h].base # NoIntent /\ Undo(h))
  /\ UNCHANGED <<environment, files, running, faults, ends>>

\* What a write leaves in a file, and whether the handler learns of an error.
\* Another write of the same temporary file can be moved in its place, be
\* mixed with it, or take the file away before it is moved.
Content(h) == IF call[h].stage = "restoring" THEN call[h].base ELSE call[h].desired
Outcomes(h, before) ==
  {<<Content(h), TRUE>>, <<before, FALSE>>}
    \cup (IF h \in mixed THEN ({before, Torn} \cup {Content(g) : g \in mixed}) \X BOOLEAN ELSE {})

WriteActive(h) ==
  /\ call[h].stage = "active"
  /\ \E out \in Outcomes(h, active) :
       active' = out[1] /\ IF out[2] THEN Enter(h, "rendered") ELSE Undo(h)
  /\ UNCHANGED <<environment, rendered, running, faults, ends>>

WriteRendered(h) ==
  /\ call[h].stage = "rendered"
  /\ \E out \in Outcomes(h, rendered) :
       rendered' = out[1] /\ IF out[2] THEN Enter(h, "acting") ELSE Undo(h)
  /\ UNCHANGED <<environment, active, running, faults, ends>>

\* The error of this write is swallowed.
RestoreActive(h) ==
  /\ call[h].stage = "restoring"
  /\ \E out \in Outcomes(h, active) :
       active' = out[1] /\ troubled' = (troubled \/ ~out[2])
  /\ Finish(h)
  /\ UNCHANGED <<environment, rendered, running, orderly, ends>>

\* mariadbd is restarted, or the restart fails with the intent applied; a
\* reload only sends SIGHUP.
Act(h) ==
  /\ call[h].stage = "acting" /\ h # Boot
  /\ IF call[h].change = "restart"
     THEN \/ running' = rendered /\ UNCHANGED troubled
          \/ troubled' = TRUE /\ UNCHANGED running
     ELSE UNCHANGED <<running, troubled>>
  /\ Finish(h)
  /\ UNCHANGED <<environment, files, orderly, ends>>

-----------------------------------------------------------------------------
(* The life of the supervisor.                                              *)

\* Mutant of BootApplies: an active intent is taken as applied.
BootTrusts ==
  /\ running = NoIntent /\ NoneUnderWay /\ active # Torn
  /\ Proceed(Boot, [Over EXCEPT !.stage = IF active = NoIntent THEN "reading" ELSE "acting",
                           !.desired = Against(active)])
  /\ UNCHANGED <<environment, files, running, faults, ends>>

\* loadStartupIntent: a file that cannot be parsed keeps the supervisor down.
BootApplies ==
  /\ running = NoIntent /\ NoneUnderWay /\ active # Torn
  /\ Proceed(Boot, [Over EXCEPT !.stage = "reading", !.desired = Against(active)])
  /\ UNCHANGED <<environment, files, running, faults, ends>>

BootStarts ==
  /\ call[Boot].stage = "acting"
  /\ running' = rendered
  /\ Finish(Boot)
  /\ UNCHANGED <<environment, files, faults, ends>>

\* An operator restarts mariadbd, or it is started for a cold bootstrap.
Respawn ==
  /\ running # NoIntent
  /\ running' = rendered
  /\ UNCHANGED <<environment, files, applies, faults, ends>>

\* The supervisor ends at any step; it may be started with another environment.
EndSupervisor ==
  /\ ends > 0 /\ ends' = ends - 1
  /\ running' = NoIntent
  /\ call' = [h \in Handlers |-> Over] /\ mixed' = {}
  /\ environment' \in Intents
  /\ UNCHANGED <<files, faults>>

IntentNext ==
  \/ \E h \in Applies, d \in Intents : RequestApply(h, d)
  \/ \E h \in Handlers : PlanChange(h) \/ ReadBase(h) \/ SavePrevious(h) \/ WriteActive(h)
                         \/ WriteRendered(h) \/ RestoreActive(h) \/ Act(h)
  \/ BootApplies \/ BootStarts \/ Respawn \/ EndSupervisor

IntentSpec == IntentInit /\ [][IntentNext]_intentVars

-----------------------------------------------------------------------------

\* Applied one at a time, an intent is served: when none is under way,
\* mariadb.cnf renders the active intent and mariadbd listens to its port,
\* whatever writes have failed and wherever the supervisor has ended; unless a
\* restore or a restart failed. (After a failed restart the same intent is a
\* no-op, and mariadbd keeps the old port.)
ActiveIsServed ==
  (orderly /\ ~troubled /\ running # NoIntent /\ NoneUnderWay) =>
    rendered = active /\ PortOf[running] = PortOf[active]

\* No sequence of applies, interleaved as they may be, of restarts and of
\* changes of the environment moves a supervisor to another cluster
\* (planIntent: a change of the cluster needs an explicit workflow).
OneCluster ==
  \A i, j \in {active, rendered, running} \cap Intents : ClusterOf[i] = ClusterOf[j]

=============================================================================
