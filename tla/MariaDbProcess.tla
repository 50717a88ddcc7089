--------------------------- MODULE MariaDbProcess ---------------------------
(***************************************************************************)
(* The mariadbd child of one supervisor (src/lifecycle/mariadb-process.mjs)*)
(* and everybody who starts and stops it: the startup flow, its readiness  *)
(* watcher, the requests of the control API, and the shutdown.             *)
(*                                                                         *)
(* One action is one turn of the event loop.  The continuation of a        *)
(* settled promise, and the 'spawn' event, which a child emits before any  *)
(* other, run before the next event: Settled.                              *)
(*                                                                         *)
(* Each flow starts mariadbd at most once, so a child goes by the name of  *)
(* the flow that started it.                                               *)
(***************************************************************************)
CONSTANTS
  Requests,                  \* requests of clients; each is made once
  Startup, Watch, Shutdown,  \* the supervisor's own flows
  None                       \* the variable child is undefined

Starters == Requests \cup {Startup}
Flows == Starters \cup {Watch, Shutdown}

ASSUME FlowAssumption ==
  /\ Startup \notin Requests /\ Watch \notin Starters
  /\ Shutdown \notin Starters \cup {Watch}
  /\ None \notin Flows

\* What a request may ask for: the cold bootstrap of an existing member, the
\* bootstrap of a node without data, an intent that needs a restart, a reset of
\* the data directory, the lifecycle action "recover".
Operations == {"bootstrap", "first", "intent", "reset", "recover"}
Places == {"idle", "asked", "checking", "stopping", "resumed", "removing", "spawning", "done"}

VARIABLES
  os,          \* per child: live, dead with its exit event to come, or off
  sent,        \* per child: the signals it was sent, until its exit event
  child,       \* the variable child: the last one started
  exited,      \* its exitCode is not null, which a signal leaves it
  stopping,    \* the variable stopping
  running,     \* the variable running of the cold bootstrap action
  restarting,  \* state.restarting
  fatal,       \* the child whose exit ended the supervisor
  lifecycle,
  op,          \* per request in flight: what it asks for
  pc,          \* per flow: where it is
  on,          \* per flow: the child whose exit its stop() listens for
  connected,   \* the requests in flight whose client has not hung up
  orderly      \* whether clients send such requests one by one, wait for the
               \*   answer, and never ask for "recover"
server == <<os, sent, child, exited, stopping>>
flags == <<running, restarting>>
clients == <<op, connected, orderly>>
vars == <<server, flags, fatal, lifecycle, pc, on, clients>>

Init ==
  /\ os = [c \in Starters |-> "off"]
  /\ sent = [c \in Starters |-> {}]
  /\ child = None
  /\ exited = FALSE /\ stopping = FALSE /\ running = FALSE /\ restarting = FALSE
  /\ fatal = None
  /\ lifecycle = "serving"
  /\ orderly \in BOOLEAN
  /\ op = [f \in Flows |-> "none"]
  /\ pc = [f \in Flows |-> "idle"]
  /\ on = [f \in Flows |-> None]
  /\ connected = {}

\* process.exit has not been called.
Alive == fatal = None /\ lifecycle # "stopped"
Settled == \A f \in Flows : pc[f] \notin {"resumed", "spawning"}
InFlight(r) == pc[r] \notin {"idle", "done"}

Move(f, place) == pc' = [pc EXCEPT ![f] = place]

\* A flow is over; a request is answered.
End(f) ==
  /\ Move(f, "done")
  /\ op' = [op EXCEPT ![f] = "none"]
  /\ connected' = connected \ {f}
  /\ UNCHANGED orderly

\* So it is with the finally clauses, which clear the flags of the flow.
Finish(f) ==
  /\ End(f)
  /\ running' = (running /\ op[f] # "bootstrap")
  /\ restarting' = (restarting /\ op[f] \notin {"bootstrap", "first", "intent"})

-----------------------------------------------------------------------------
(* start() and stop() of the process controller.                            *)

Spawn(f) ==
  /\ stopping' = FALSE
  /\ child' = f /\ exited' = FALSE
  /\ os' = [os EXCEPT ![f] = "live"]
  /\ Move(f, "spawning")
  /\ UNCHANGED <<flags, lifecycle, clients>>

\* spawn reports an error: the child has an exitCode and emits no exit.
SpawnFails(f) ==
  /\ stopping' = FALSE
  /\ child' = f /\ exited' = TRUE
  /\ UNCHANGED os
  /\ \/ /\ f # Startup
        /\ Finish(f)
        /\ UNCHANGED lifecycle
     \/ /\ f = Startup   \* signals.shutdown, and no watcher is created
        /\ pc' = [pc EXCEPT ![f] = "done", ![Watch] = "done"]
        /\ lifecycle' = IF lifecycle = "serving" THEN "draining" ELSE lifecycle
        /\ UNCHANGED <<flags, clients>>

Start(f) == (Spawn(f) \/ SpawnFails(f)) /\ UNCHANGED <<sent, fatal, on>>

\* Mutant of Gone: a stop in progress counts as done.
GoneOrStopping == child = None \/ exited \/ stopping

Gone == child = None \/ exited

\* A signal reaches the child while it runs.
Kill(signal) ==
  sent' = IF os[child] = "live" THEN [sent EXCEPT ![child] = @ \cup {signal}] ELSE sent

\* stop() sends SIGTERM and waits, unless there is nothing to stop.
StopServer(f) ==
  \/ /\ Gone
     /\ Move(f, "resumed")
     /\ UNCHANGED <<server, on>>
  \/ /\ ~Gone
     /\ stopping' = TRUE
     /\ Kill("TERM")
     /\ on' = [on EXCEPT ![f] = child]
     /\ Move(f, "stopping")
     /\ UNCHANGED <<os, child, exited>>

\* Mutant of Timeout: after SIGKILL, stop() waits on for the exit event.
TimeoutWaits(f) ==
  /\ Settled /\ pc[f] = "stopping"
  /\ Kill("KILL")
  /\ UNCHANGED <<os, child, exited, stopping, flags, fatal, lifecycle, pc, on, clients>>

\* Mutant of Timeout: stop() gives up without SIGKILL.
TimeoutSpares(f) ==
  /\ Settled /\ pc[f] = "stopping"
  /\ Move(f, "resumed")
  /\ on' = [on EXCEPT ![f] = None]
  /\ UNCHANGED <<server, flags, fatal, lifecycle, clients>>

\* The timer of stop() kills whatever child is by then, and resolves at once.
Timeout(f) ==
  /\ Settled /\ pc[f] = "stopping"
  /\ Kill("KILL")
  /\ Move(f, "resumed")
  /\ on' = [on EXCEPT ![f] = None]
  /\ UNCHANGED <<os, child, exited, stopping, flags, fatal, lifecycle, clients>>

\* The exit event: the handler of start() first, then those of the stop() calls
\* that wait for this child.  state.shuttingDown is never set.
ExitEvent(c) ==
  /\ Settled /\ os[c] = "dead"
  /\ os' = [os EXCEPT ![c] = "off"]
  /\ sent' = [sent EXCEPT ![c] = {}]
  /\ exited' \in (IF c = child THEN BOOLEAN ELSE {exited})
  /\ fatal' = IF stopping \/ restarting THEN fatal ELSE c
  /\ pc' = [f \in Flows |-> IF on[f] = c THEN "resumed" ELSE pc[f]]
  /\ on' = [f \in Flows |-> IF on[f] = c THEN None ELSE on[f]]
  /\ UNCHANGED <<child, stopping, flags, lifecycle, clients>>

\* mariadbd exits: by itself, or because of a signal.
Exit(c) ==
  /\ os[c] = "live"
  /\ os' = [os EXCEPT ![c] = "dead"]
  /\ UNCHANGED <<sent, child, exited, stopping, flags, fatal, lifecycle, pc, on, clients>>

-----------------------------------------------------------------------------
(* The flows.                                                               *)

StartUp ==
  /\ Settled /\ pc[Startup] = "idle"
  /\ Start(Startup)

\* The readiness watcher of a join or a bootstrap runs out of time.
WatchFires ==
  /\ Settled /\ pc[Watch] = "idle" /\ pc[Startup] = "done"
  /\ StopServer(Watch)
  /\ UNCHANGED <<flags, fatal, lifecycle, clients>>

\* The listener opens after mariadbd was started and refuses the control API
\* from the beginning of the shutdown.
Ask(r) ==
  /\ Settled /\ pc[r] = "idle" /\ pc[Startup] = "done" /\ lifecycle = "serving"
  /\ orderly => \A q \in Requests : ~InFlight(q)
  /\ \E o \in Operations :
       /\ orderly => o # "recover"
       /\ op' = [op EXCEPT ![r] = o]
  /\ Move(r, "asked")
  /\ connected' = connected \cup {r}
  /\ UNCHANGED <<server, flags, fatal, lifecycle, on, orderly>>

HangUp(r) ==
  /\ ~orderly /\ r \in connected
  /\ connected' = connected \ {r}
  /\ UNCHANGED <<server, flags, fatal, lifecycle, pc, on, op, orderly>>

\* Mutant of Bootstrap: no flag is looked at.
BootstrapAnyway(r) ==
  /\ running' = TRUE /\ restarting' = TRUE
  /\ StopServer(r)
  /\ UNCHANGED clients

\* bootstrapExistingMember
Bootstrap(r) ==
  \/ /\ running \/ restarting
     /\ End(r)
     /\ UNCHANGED <<server, flags, on>>
  \/ /\ ~running /\ ~restarting
     /\ running' = TRUE /\ restarting' = TRUE
     /\ StopServer(r)
     /\ UNCHANGED clients

\* createEleraBootstrap looks at the flag and then awaits the health.
FirstBootstrap(r) ==
  /\ \/ restarting /\ End(r)
     \/ ~restarting /\ Move(r, "checking") /\ UNCHANGED clients
  /\ UNCHANGED <<server, flags, on>>

\* The restart of applyIntent
Restart(r) ==
  /\ restarting' = TRUE
  /\ StopServer(r)
  /\ UNCHANGED <<running, clients>>

\* NodeDataReset.reset after its checks and its fence
Reset(r) == StopServer(r) /\ UNCHANGED <<flags, clients>>

Answers == \E c \in Starters : os[c] = "live"

\* "recover" needs an answer of SQL, and starts mariadbd.
Recover(r) ==
  \/ Answers /\ Start(r)
  \/ End(r) /\ UNCHANGED <<server, flags, fatal, lifecycle, on>>

\* The first turn of a request after the awaits that only read.
Begin(r) ==
  /\ Settled /\ pc[r] = "asked"
  /\ \/ /\ \/ op[r] = "bootstrap" /\ Bootstrap(r)
           \/ op[r] = "first" /\ FirstBootstrap(r)
           \/ op[r] = "intent" /\ Restart(r)
           \/ op[r] = "reset" /\ Reset(r)
        /\ UNCHANGED <<fatal, lifecycle>>
     \/ op[r] = "recover" /\ Recover(r)

\* It goes on unless the node is ready or its data directory initialized.
Checked(r) ==
  /\ Settled /\ pc[r] = "checking"
  /\ \/ /\ restarting' = TRUE
        /\ StopServer(r)
        /\ UNCHANGED <<running, clients>>
     \/ End(r) /\ UNCHANGED <<server, flags, on>>
  /\ UNCHANGED <<fatal, lifecycle>>

\* stop() has resolved.
Resume(r) ==
  /\ pc[r] = "resumed"
  /\ \/ op[r] # "reset" /\ Start(r)
     \/ /\ op[r] = "reset"
        /\ Move(r, "removing")
        /\ UNCHANGED <<server, flags, fatal, lifecycle, on, clients>>

\* The data is removed, or cannot be; a resync starts mariadbd again.
Removed(r) ==
  /\ Settled /\ pc[r] = "removing"
  /\ \/ Start(r)
     \/ End(r) /\ UNCHANGED <<server, flags, fatal, lifecycle, on>>

\* The 'spawn' event: start() has resolved.
Spawned(f) ==
  /\ pc[f] = "spawning"
  /\ Finish(f)
  /\ UNCHANGED <<server, fatal, lifecycle, on>>

WatchEnds ==
  /\ pc[Watch] = "resumed"
  /\ Move(Watch, "done")
  /\ UNCHANGED <<server, flags, fatal, lifecycle, on, clients>>

-----------------------------------------------------------------------------
(* createShutdown                                                           *)

Signal ==
  /\ Settled /\ lifecycle = "serving"
  /\ lifecycle' = "draining"
  /\ UNCHANGED <<server, flags, fatal, pc, on, clients>>

Quiesce ==
  /\ Settled /\ lifecycle = "draining"
  /\ lifecycle' = "stopping"
  /\ UNCHANGED <<server, flags, fatal, pc, on, clients>>

\* Mutant of Closed: closeServer is not awaited.
ClosedAtOnce == TRUE

\* server.close() waits for the connections, not for the handlers.
Closed == connected = {}

\* The listeners are closed, the marker is written, mariadbd is stopped; if the
\* marker cannot be written the shutdown is over.
StopLast ==
  /\ Settled /\ lifecycle = "stopping" /\ pc[Shutdown] = "idle" /\ Closed
  /\ \/ StopServer(Shutdown)
     \/ Move(Shutdown, "done") /\ UNCHANGED <<server, on>>
  /\ UNCHANGED <<flags, fatal, lifecycle, clients>>

Stopped ==
  /\ pc[Shutdown] = "resumed"
  /\ lifecycle' = "stopped"
  /\ Move(Shutdown, "done")
  /\ UNCHANGED <<server, flags, fatal, on, clients>>

-----------------------------------------------------------------------------
Request(r) == Ask(r) \/ HangUp(r) \/ Begin(r) \/ Checked(r) \/ Resume(r) \/ Removed(r)
Own == StartUp \/ WatchFires \/ WatchEnds \/ Signal \/ Quiesce \/ StopLast \/ Stopped

Next ==
  /\ Alive
  /\ \/ Own
     \/ \E r \in Requests : Request(r)
     \/ \E f \in Flows : Timeout(f)
     \/ \E f \in Starters : Spawned(f) \/ Exit(f) \/ ExitEvent(f)

Spec == Init /\ [][Next]_vars

\* Timers fire, what is awaited settles and its continuation runs; exit events
\* need not come.
Turn(r) == Begin(r) \/ Checked(r) \/ Resume(r) \/ Removed(r)
FairSpec ==
  /\ Spec
  /\ \A r \in Requests : WF_vars(Alive /\ Turn(r))
  /\ \A f \in Starters : WF_vars(Alive /\ Spawned(f))
  /\ \A f \in Flows : WF_vars(Alive /\ Timeout(f))
  /\ WF_vars(Alive /\ (WatchEnds \/ Quiesce \/ StopLast \/ Stopped))

-----------------------------------------------------------------------------
TypeOK ==
  /\ os \in [Starters -> {"off", "live", "dead"}]
  /\ sent \in [Starters -> SUBSET {"TERM", "KILL"}]
  /\ child \in Starters \cup {None} /\ fatal \in Starters \cup {None}
  /\ exited \in BOOLEAN /\ stopping \in BOOLEAN /\ running \in BOOLEAN /\ restarting \in BOOLEAN
  /\ lifecycle \in {"serving", "draining", "stopping", "stopped"}
  /\ op \in [Flows -> Operations \cup {"none"}]
  /\ pc \in [Flows -> Places]
  /\ on \in [Flows -> Starters \cup {None}]
  /\ connected \in SUBSET Requests
  /\ orderly \in BOOLEAN

Serving(c) == os[c] = "live" /\ "KILL" \notin sent[c]

\* Of orderly clients, whatever times out or exits meanwhile: only the child the
\* supervisor knows of may be at work; every other one was killed.
OneServer == orderly => \A c \in Starters : Serving(c) => c = child

\* A reset removes the data directory under no mariadbd that was not killed.
ResetSparesServer ==
  orderly => \A r \in Requests : pc[r] = "removing" => \A c \in Starters : ~Serving(c)

\* "MariaDB then receives SIGTERM ... If it remains alive, the supervisor sends
\* SIGKILL": a supervisor that has shut down leaves no mariadbd at work, also
\* when the signal came in the middle of a restart.
StoppedLeavesNone == orderly /\ lifecycle = "stopped" => \A c \in Starters : ~Serving(c)

\* Of any clients: two cold bootstraps never overlap, although every other
\* restart clears the busy flag under them.
Bootstrapping(r) == op[r] = "bootstrap" /\ pc[r] \in {"stopping", "resumed", "spawning"}
BootstrapsExclusive ==
  \A r, q \in Requests : Bootstrapping(r) /\ Bootstrapping(q) => r = q

\* The exit of a child that was asked to stop does not end the supervisor.
RestartExitNotFatal == [][orderly /\ fatal' # fatal => sent[fatal'] = {}]_vars

\* Every stop, restart and reset returns, also when the exit event never comes
\* or had come before: flows are made once each, so all come to rest.
CallsEnd == <>[](Alive => \A f \in Flows : pc[f] \in {"idle", "done"})

\* A shutdown gets through, whatever requests are in the middle of.
ShutdownEnds == lifecycle = "draining" ~> pc[Shutdown] = "done" \/ ~Alive

-----------------------------------------------------------------------------
(* The inductive invariant.  A flow that is past its stop() finds nothing at *)
(* work, because no other flow starts mariadbd meanwhile.                    *)
Idle == child # None => ~Serving(child)

Serial ==
  /\ \A r, q \in Requests : InFlight(r) /\ InFlight(q) => r = q
  /\ \A r \in Requests : op[r] # "recover"
  /\ \A r \in Requests : r \in connected <=> InFlight(r)
  /\ pc[Startup] # "done" => \A r \in Requests : pc[r] = "idle"
  /\ pc[Startup] = "idle" <=> child = None
  /\ pc[Shutdown] # "idle" => lifecycle \in {"stopping", "stopped"} /\ \A r \in Requests : ~InFlight(r)

Owned ==
  /\ OneServer
  /\ \A f \in Requests \cup {Shutdown} : on[f] \in {child, None}
  /\ \A f \in Requests \cup {Shutdown} : pc[f] \in {"resumed", "removing"} => Idle
  /\ exited => Idle
  /\ StoppedLeavesNone

ServerInv ==
  /\ TypeOK
  /\ BootstrapsExclusive
  /\ \A r \in Requests : Bootstrapping(r) => running
  /\ \A f \in Flows : (pc[f] = "checking" => op[f] = "first") /\ (pc[f] = "removing" => op[f] = "reset")
  /\ \A f \in Flows : pc[f] = "stopping" <=> on[f] # None
  /\ \A f \in Flows \ Requests : op[f] = "none"
  /\ pc[Startup] # "done" => pc[Watch] = "idle"
  /\ orderly => Serial /\ Owned
=============================================================================
