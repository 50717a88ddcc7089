----------------------- MODULE MariaDbProcess_proofs -----------------------
(***************************************************************************)
(* Proofs about MariaDbProcess for every set of requests: with orderly     *)
(* clients the supervisor keeps hold of the one mariadbd at work, removes  *)
(* data under none, and leaves none; with any clients two cold bootstraps  *)
(* never overlap.                                                          *)
(***************************************************************************)
EXTENDS MariaDbProcess, TLAPS

\* The part of the invariant that does not depend on the clients.
AnyClients ==
  /\ BootstrapsExclusive
  /\ \A r \in Requests : Bootstrapping(r) => running
  /\ \A f \in Flows : (pc[f] = "checking" => op[f] = "first") /\ (pc[f] = "removing" => op[f] = "reset")
  /\ \A f \in Flows : pc[f] = "stopping" <=> on[f] # None
  /\ \A f \in Flows \ Requests : op[f] = "none"
  /\ pc[Startup] # "done" => pc[Watch] = "idle"

\* The invariant is the types, that part and the part about orderly clients.
LEMMA Parts == ServerInv <=> TypeOK /\ AnyClients /\ (orderly => Serial /\ Owned)
  BY DEF ServerInv, AnyClients

\* The invariant holds at the start.
LEMMA InitHolds == ASSUME Init PROVE ServerInv
<1> USE FlowAssumption DEF Starters, Flows
<1>1. TypeOK
  BY DEF Init, TypeOK, Places
<1>2. AnyClients
  BY DEF Init, AnyClients, BootstrapsExclusive, Bootstrapping
<1>3. Serial
  BY DEF Init, Serial, InFlight
<1>4. Owned
  BY DEF Init, Owned, OneServer, StoppedLeavesNone, Serving, Idle
<1>5. QED
  BY <1>1, <1>2, <1>3, <1>4, Parts

\* A flow that may start mariadbd: the startup, a request whose stop() has
\* resolved or that has removed the data, a request to recover.
MayStart(f) ==
  \/ f = Startup /\ pc[f] = "idle" /\ Settled
  \/ f \in Requests /\ pc[f] \in {"resumed", "removing"}
  \/ f \in Requests /\ pc[f] = "asked" /\ op[f] = "recover"

\* Of orderly clients, nothing is at work when a flow starts mariadbd.
LEMMA NothingAtWork ==
  ASSUME ServerInv, orderly, NEW f \in Starters, MayStart(f)
  PROVE  \A c \in Starters : ~Serving(c)
<1>1. TypeOK /\ Serial /\ Owned
  BY Parts
<1>2. Idle
  BY <1>1 DEF Serial, Owned, Idle, MayStart
<1>3. QED
  BY <1>1, <1>2, FlowAssumption DEF Owned, OneServer, Idle, Flows

\* start() keeps the invariant when the child is spawned.
LEMMA SpawnPreserves ==
  ASSUME ServerInv, Alive, NEW f \in Starters, MayStart(f), Spawn(f), Start(f)
  PROVE  ServerInv'
<1> USE FlowAssumption DEF Starters, Flows
<1>1. TypeOK /\ AnyClients
  BY Parts
<1>2. /\ UNCHANGED <<running, restarting, lifecycle, fatal, op, connected, orderly, on, sent>>
      /\ pc' = [pc EXCEPT ![f] = "spawning"]
      /\ os' = [os EXCEPT ![f] = "live"]
      /\ child' = f /\ exited' = FALSE /\ stopping' = FALSE
  BY DEF Start, Spawn, Move, flags, clients
<1>3. TypeOK'
  BY <1>1, <1>2 DEF TypeOK, Places
<1>4. AnyClients'
  BY <1>1, <1>2 DEF TypeOK, AnyClients, BootstrapsExclusive, Bootstrapping, MayStart
<1>5. ASSUME orderly PROVE Serial'
  <2>1. Serial
    BY <1>5, Parts
  <2>2. QED
    BY <1>1, <1>2, <2>1 DEF TypeOK, Serial, InFlight, MayStart
<1>6. ASSUME orderly PROVE Owned'
  <2>1. Serial /\ Owned
    BY <1>6, Parts
  <2>2. \A c \in Starters : ~Serving(c)
    BY <1>6, NothingAtWork
  <2>3. OneServer'
    BY <1>1, <1>2, <2>2 DEF TypeOK, OneServer, Serving
  <2>4. lifecycle' # "stopped"
    BY <1>2 DEF Alive
  <2>5. \A g \in Requests \cup {Shutdown} : g # f => pc[g] \notin {"stopping", "resumed", "removing"}
    BY <1>1, <2>1 DEF TypeOK, AnyClients, Serial, Owned, InFlight, MayStart, Settled
  <2>6. QED
    BY <1>1, <1>2, <2>1, <2>3, <2>4, <2>5 DEF TypeOK, AnyClients, Owned, StoppedLeavesNone, MayStart
<1>7. QED
  BY <1>2, <1>3, <1>4, <1>5, <1>6 DEF ServerInv, AnyClients

\* start() keeps the invariant when spawn reports an error.
LEMMA SpawnFailsPreserves ==
  ASSUME ServerInv, Alive, NEW f \in Starters, MayStart(f), SpawnFails(f), Start(f)
  PROVE  ServerInv'
<1> USE FlowAssumption DEF Starters, Flows
<1>1. TypeOK /\ AnyClients
  BY Parts
<1>2. /\ UNCHANGED <<os, sent, fatal, on, orderly>>
      /\ child' = f /\ exited' = TRUE /\ stopping' = FALSE
  BY DEF Start, SpawnFails, Finish, End, clients
<1>3. \/ /\ f # Startup
         /\ pc' = [pc EXCEPT ![f] = "done"]
         /\ op' = [op EXCEPT ![f] = "none"]
         /\ connected' = connected \ {f}
         /\ running' = (running /\ op[f] # "bootstrap")
         /\ restarting' = (restarting /\ op[f] \notin {"bootstrap", "first", "intent"})
         /\ lifecycle' = lifecycle
      \/ /\ f = Startup
         /\ pc' = [pc EXCEPT ![f] = "done", ![Watch] = "done"]
         /\ lifecycle' = IF lifecycle = "serving" THEN "draining" ELSE lifecycle
         /\ UNCHANGED <<running, restarting, op, connected>>
  BY DEF SpawnFails, Finish, End, Move, flags, clients
<1>4. TypeOK'
  BY <1>1, <1>2, <1>3 DEF TypeOK, Places
<1>5. AnyClients'
  BY <1>1, <1>2, <1>3 DEF TypeOK, AnyClients, BootstrapsExclusive, Bootstrapping, MayStart
<1>6. ASSUME orderly PROVE Serial'
  <2>1. Serial
    BY <1>6, Parts
  <2>2. QED
    BY <1>1, <1>2, <1>3, <2>1 DEF TypeOK, Serial, InFlight, MayStart
<1>7. ASSUME orderly PROVE Owned'
  <2>1. Serial /\ Owned
    BY <1>7, Parts
  <2>2. \A c \in Starters : ~Serving(c)
    BY <1>7, NothingAtWork
  <2>3. \A c \in Starters : ~Serving(c)'
    BY <1>2, <2>2 DEF Serving
  <2>4. lifecycle' # "stopped"
    BY <1>1, <1>3 DEF Alive
  <2>5. \A g \in Requests \cup {Shutdown} : pc'[g] # "stopping"
    BY <1>1, <1>3, <2>1 DEF TypeOK, AnyClients, Serial, Owned, InFlight, MayStart, Settled
  <2>6. \A g \in Requests \cup {Shutdown} : on'[g] = None
    BY <1>5, <2>5 DEF AnyClients
  <2>7. Idle'
    BY <1>4, <2>3 DEF Idle, TypeOK
  <2>8. QED
    BY <2>3, <2>4, <2>6, <2>7 DEF Owned, OneServer, StoppedLeavesNone
<1>8. QED
  BY <1>2, <1>4, <1>5, <1>6, <1>7 DEF ServerInv, AnyClients

\* start() keeps the invariant.
LEMMA StartPreserves ==
  ASSUME ServerInv, Alive, NEW f \in Starters, MayStart(f), Start(f)
  PROVE  ServerInv'
BY SpawnPreserves, SpawnFailsPreserves DEF Start

\* A request that is answered without a change of the process keeps it.
LEMMA EndPreserves ==
  ASSUME ServerInv, Alive, NEW r \in Requests, pc[r] \in {"asked", "checking", "removing", "spawning"},
         End(r), UNCHANGED <<server, fatal, lifecycle, on>>, restarting' \in BOOLEAN,
         running' = (running /\ (pc[r] = "spawning" => op[r] # "bootstrap"))
  PROVE  ServerInv'
<1> USE FlowAssumption DEF Starters, Flows
<1>1. TypeOK /\ AnyClients
  BY Parts
<1>2. /\ UNCHANGED <<os, sent, child, exited, stopping, fatal, lifecycle, on, orderly>>
      /\ pc' = [pc EXCEPT ![r] = "done"]
      /\ op' = [op EXCEPT ![r] = "none"]
      /\ connected' = connected \ {r}
  BY DEF End, Move, server
<1>3. TypeOK'
  BY <1>1, <1>2 DEF TypeOK, Places
<1>4. AnyClients'
  BY <1>1, <1>2 DEF TypeOK, AnyClients, BootstrapsExclusive, Bootstrapping
<1>5. ASSUME orderly PROVE Serial' /\ Owned'
  <2>1. Serial /\ Owned
    BY <1>5, Parts
  <2>2. Serial'
    BY <1>1, <1>2, <2>1 DEF TypeOK, Serial, InFlight
  <2>3. Owned'
    BY <1>1, <1>2, <2>1 DEF TypeOK, Owned, OneServer, StoppedLeavesNone, Serving, Idle
  <2>4. QED
    BY <2>2, <2>3
<1>6. QED
  BY <1>2, <1>3, <1>4, <1>5 DEF ServerInv, AnyClients

\* A flow that may stop mariadbd: a request before its stop(), the watcher once
\* the startup is done, the shutdown when the listeners are closed.
MayStop(f) ==
  \/ f \in Requests /\ pc[f] \in {"asked", "checking"}
  \/ f = Watch /\ pc[f] = "idle" /\ pc[Startup] = "done"
  \/ f = Shutdown /\ pc[f] = "idle" /\ lifecycle = "stopping" /\ Closed

\* stop() keeps the invariant, whoever calls it.
LEMMA StopPreserves ==
  ASSUME ServerInv, Alive, NEW f \in Flows, MayStop(f), StopServer(f),
         UNCHANGED <<fatal, lifecycle, clients>>, restarting' \in BOOLEAN,
         IF op[f] = "bootstrap" THEN ~running /\ running' ELSE running' = running,
         running' \in BOOLEAN
  PROVE  ServerInv'
<1> USE FlowAssumption DEF Starters, Flows
<1>1. TypeOK /\ AnyClients
  BY Parts
<1>2. UNCHANGED <<os, child, exited, fatal, lifecycle, op, connected, orderly>>
  BY DEF StopServer, server, clients
<1>3. \/ /\ Gone
         /\ pc' = [pc EXCEPT ![f] = "resumed"]
         /\ UNCHANGED <<on, stopping, sent>>
      \/ /\ ~Gone
         /\ pc' = [pc EXCEPT ![f] = "stopping"]
         /\ on' = [on EXCEPT ![f] = child]
         /\ stopping' = TRUE
         /\ sent' = IF os[child] = "live" THEN [sent EXCEPT ![child] = @ \cup {"TERM"}] ELSE sent
  BY DEF StopServer, Move, Kill, server
<1>4. TypeOK'
  <2>1. sent' \in [Starters -> SUBSET {"TERM", "KILL"}]
    BY <1>1, <1>3 DEF TypeOK
  <2>2. on' \in [Flows -> Starters \cup {None}]
    BY <1>1, <1>3 DEF TypeOK
  <2>3. pc' \in [Flows -> Places]
    BY <1>1, <1>3 DEF TypeOK, Places
  <2>4. stopping' \in BOOLEAN
    BY <1>1, <1>3 DEF TypeOK
  <2>5. QED
    BY <1>1, <1>2, <2>1, <2>2, <2>3, <2>4 DEF TypeOK
<1>5. AnyClients'
  BY <1>1, <1>2, <1>3 DEF TypeOK, AnyClients, BootstrapsExclusive, Bootstrapping, MayStop, Gone
<1>6. ASSUME orderly PROVE Serial' /\ Owned'
  <2>1. Serial /\ Owned
    BY <1>6, Parts
  <2>2. Serial'
    BY <1>1, <1>2, <1>3, <2>1 DEF TypeOK, Serial, InFlight, MayStop, Closed
  <2>3. \A c \in Starters : Serving(c)' <=> Serving(c)
    BY <1>1, <1>2, <1>3 DEF TypeOK, Serving, Gone
  <2>4. Idle' <=> Idle
    BY <1>1, <1>2, <2>3 DEF TypeOK, Idle
  <2>5. Gone => Idle
    BY <2>1 DEF Owned, Gone, Idle
  <2>6. Owned'
    BY <1>1, <1>2, <1>3, <2>1, <2>3, <2>4, <2>5 DEF TypeOK, Owned, OneServer, StoppedLeavesNone, Gone
  <2>7. QED
    BY <2>2, <2>6
<1>7. QED
  BY <1>2, <1>4, <1>5, <1>6 DEF ServerInv, AnyClients

\* The timer of stop() keeps the invariant: what it kills is not at work.
LEMMA TimeoutPreserves ==
  ASSUME ServerInv, Alive, NEW f \in Flows, Timeout(f)
  PROVE  ServerInv'
<1> USE FlowAssumption DEF Starters, Flows
<1>1. TypeOK /\ AnyClients
  BY Parts
<1>2. /\ UNCHANGED <<os, child, exited, stopping, running, restarting, fatal, lifecycle, op, connected, orderly>>
      /\ pc[f] = "stopping"
      /\ pc' = [pc EXCEPT ![f] = "resumed"]
      /\ on' = [on EXCEPT ![f] = None]
      /\ sent' = IF os[child] = "live" THEN [sent EXCEPT ![child] = @ \cup {"KILL"}] ELSE sent
  BY DEF Timeout, Move, Kill, flags, clients
<1>3. TypeOK'
  BY <1>1, <1>2 DEF TypeOK, Places
<1>4. AnyClients'
  BY <1>1, <1>2 DEF TypeOK, AnyClients, BootstrapsExclusive, Bootstrapping
<1>5. ASSUME orderly PROVE Serial' /\ Owned'
  <2>1. Serial /\ Owned
    BY <1>5, Parts
  <2>2. Serial'
    BY <1>1, <1>2, <2>1 DEF TypeOK, Serial, InFlight
  <2>3. \A c \in Starters : Serving(c)' => Serving(c)
    BY <1>1, <1>2 DEF TypeOK, Serving
  <2>4. Idle'
    BY <1>1, <1>2 DEF TypeOK, Idle, Serving
  <2>5. Owned'
    BY <1>1, <1>2, <2>1, <2>3, <2>4 DEF TypeOK, Owned, OneServer, StoppedLeavesNone
  <2>6. QED
    BY <2>2, <2>5
<1>6. QED
  BY <1>2, <1>3, <1>4, <1>5 DEF ServerInv, AnyClients

\* The exit event keeps the invariant: the flows that waited for this child
\* resume, and it is not at work.
LEMMA ExitEventPreserves ==
  ASSUME ServerInv, Alive, NEW c \in Starters, ExitEvent(c)
  PROVE  ServerInv'
<1> USE FlowAssumption DEF Starters, Flows
<1>1. TypeOK /\ AnyClients
  BY Parts
<1>2. /\ UNCHANGED <<child, stopping, running, restarting, lifecycle, op, connected, orderly>>
      /\ os' = [os EXCEPT ![c] = "off"]
      /\ sent' = [sent EXCEPT ![c] = {}]
      /\ exited' \in (IF c = child THEN BOOLEAN ELSE {exited})
      /\ fatal' \in {fatal, c}
      /\ pc' = [f \in Flows |-> IF on[f] = c THEN "resumed" ELSE pc[f]]
      /\ on' = [f \in Flows |-> IF on[f] = c THEN None ELSE on[f]]
  BY DEF ExitEvent, flags, clients
<1>3. TypeOK'
  BY <1>1, <1>2 DEF TypeOK, Places
<1>4. \A f \in Flows : on[f] = c => pc[f] = "stopping"
  BY <1>1 DEF AnyClients
<1>5. AnyClients'
  <2>1. \A f \in Flows : Bootstrapping(f)' <=> Bootstrapping(f)
    BY <1>1, <1>2, <1>4 DEF TypeOK, Bootstrapping
  <2>2. BootstrapsExclusive' /\ (\A r \in Requests : Bootstrapping(r) => running)'
    BY <1>1, <1>2, <2>1 DEF AnyClients, BootstrapsExclusive
  <2>3. QED
    BY <1>1, <1>2, <1>4, <2>2 DEF TypeOK, AnyClients
<1>6. ASSUME orderly PROVE Serial' /\ Owned'
  <2>1. Serial /\ Owned
    BY <1>6, Parts
  <2>2. \A f \in Flows : /\ InFlight(f)' <=> InFlight(f)
                         /\ \A p \in {"idle", "done"} : pc'[f] = p <=> pc[f] = p
    BY <1>1, <1>2, <1>4 DEF TypeOK, InFlight
  <2>3. Serial'
    BY <1>1, <1>2, <2>1, <2>2 DEF Serial
  <2>4. \A d \in Starters : Serving(d)' => Serving(d) /\ d # c
    BY <1>1, <1>2 DEF TypeOK, Serving
  <2>5. OneServer' /\ StoppedLeavesNone' /\ (Idle => Idle') /\ (c = child => Idle')
    BY <1>1, <1>2, <2>1, <2>4 DEF TypeOK, Owned, OneServer, StoppedLeavesNone, Idle
  <2>6. \A f \in Requests \cup {Shutdown} : on'[f] \in {child', None}
    BY <1>1, <1>2, <2>1 DEF TypeOK, Owned
  <2>7. \A f \in Requests \cup {Shutdown} : pc'[f] \in {"resumed", "removing"} => Idle'
    BY <1>1, <1>2, <2>1, <2>5 DEF TypeOK, Owned
  <2>8. exited' => Idle'
    BY <1>2, <2>1, <2>5 DEF Owned
  <2>9. QED
    BY <2>3, <2>5, <2>6, <2>7, <2>8 DEF Owned
<1>7. QED
  BY <1>2, <1>3, <1>5, <1>6 DEF ServerInv, AnyClients

\* The exit of a child keeps the invariant.
LEMMA ExitPreserves ==
  ASSUME ServerInv, Alive, NEW c \in Starters, Exit(c)
  PROVE  ServerInv'
<1> USE FlowAssumption DEF Starters, Flows
<1>1. TypeOK /\ AnyClients
  BY Parts
<1>2. /\ UNCHANGED <<sent, child, exited, stopping, running, restarting, fatal, lifecycle,
                     pc, on, op, connected, orderly>>
      /\ os' = [os EXCEPT ![c] = "dead"]
  BY DEF Exit, flags, clients
<1>3. TypeOK'
  BY <1>1, <1>2 DEF TypeOK
<1>4. AnyClients'
  BY <1>1, <1>2 DEF AnyClients, BootstrapsExclusive, Bootstrapping
<1>5. ASSUME orderly PROVE Serial' /\ Owned'
  <2>1. Serial /\ Owned
    BY <1>5, Parts
  <2>2. Serial'
    BY <1>2, <2>1 DEF Serial, InFlight
  <2>3. \A d \in Starters : Serving(d)' => Serving(d)
    BY <1>1, <1>2 DEF TypeOK, Serving
  <2>4. Idle => Idle'
    BY <1>1, <1>2, <2>3 DEF Idle, TypeOK
  <2>5. Owned'
    BY <1>2, <2>1, <2>3, <2>4 DEF Owned, OneServer, StoppedLeavesNone
  <2>6. QED
    BY <2>2, <2>5
<1>6. QED
  BY <1>2, <1>3, <1>4, <1>5 DEF ServerInv, AnyClients

\* The turns of a request keep the invariant.
LEMMA RequestPreserves ==
  ASSUME ServerInv, Alive, NEW r \in Requests, Request(r)
  PROVE  ServerInv'
<1> USE FlowAssumption DEF Starters, Flows
<1>1. TypeOK /\ AnyClients
  BY Parts
<1>2. CASE Ask(r)
  <2>1. /\ UNCHANGED <<os, sent, child, exited, stopping, running, restarting, fatal, lifecycle, on, orderly>>
        /\ pc[r] = "idle" /\ pc[Startup] = "done" /\ lifecycle = "serving" /\ Settled
        /\ pc' = [pc EXCEPT ![r] = "asked"]
        /\ connected' = connected \cup {r}
        /\ \E o \in Operations : (orderly => o # "recover") /\ op' = [op EXCEPT ![r] = o]
        /\ orderly => \A q \in Requests : ~InFlight(q)
    BY <1>2 DEF Ask, Move, server, flags
  <2>2. TypeOK'
    BY <1>1, <2>1 DEF TypeOK, Places
  <2>3. AnyClients'
    BY <1>1, <2>1 DEF TypeOK, AnyClients, BootstrapsExclusive, Bootstrapping
  <2>4. ASSUME orderly PROVE Serial' /\ Owned'
    <3>1. Serial /\ Owned
      BY <2>4, Parts
    <3>2. Serial'
      BY <1>1, <2>1, <2>4, <3>1 DEF TypeOK, Serial, InFlight
    <3>3. Owned'
      BY <1>1, <2>1, <3>1 DEF TypeOK, Owned, OneServer, StoppedLeavesNone, Serving, Idle
    <3>4. QED
      BY <3>2, <3>3
  <2>5. QED
    BY <2>1, <2>2, <2>3, <2>4 DEF ServerInv, AnyClients
<1>3. CASE HangUp(r)
  <2>1. ~orderly /\ connected' = connected \ {r}
        /\ UNCHANGED <<os, sent, child, exited, stopping, running, restarting, fatal, lifecycle,
                       pc, on, op, orderly>>
    BY <1>3 DEF HangUp, server, flags
  <2>2. TypeOK' /\ AnyClients'
    BY <1>1, <2>1 DEF TypeOK, AnyClients, BootstrapsExclusive, Bootstrapping
  <2>3. QED
    BY <2>1, <2>2 DEF ServerInv, AnyClients
<1>4. CASE Begin(r)
  <2>1. pc[r] = "asked"
    BY <1>4 DEF Begin
  <2>2. CASE op[r] = "bootstrap" /\ Bootstrap(r) /\ UNCHANGED <<fatal, lifecycle>>
    <3>1. CASE End(r) /\ UNCHANGED <<server, flags, on>>
      <4>1. restarting' \in BOOLEAN /\ running' = running
        BY <1>1, <3>1 DEF flags, TypeOK
      <4>2. QED
        BY <1>1, <2>1, <2>2, <3>1, <4>1, EndPreserves DEF TypeOK
    <3>2. CASE ~running /\ running' = TRUE /\ restarting' = TRUE /\ StopServer(r) /\ UNCHANGED clients
      BY <2>1, <2>2, <3>2, StopPreserves DEF MayStop
    <3>3. QED
      BY <2>2, <3>1, <3>2 DEF Bootstrap
  <2>3. CASE op[r] = "first" /\ FirstBootstrap(r) /\ UNCHANGED <<fatal, lifecycle>>
    <3>1. CASE End(r)
      <4>1. restarting' \in BOOLEAN /\ running' = running /\ UNCHANGED <<server, on>>
        BY <1>1, <2>3 DEF FirstBootstrap, flags, TypeOK
      <4>2. QED
        BY <1>1, <2>1, <2>3, <3>1, <4>1, EndPreserves DEF TypeOK
    <3>2. CASE Move(r, "checking") /\ UNCHANGED clients
      <4>1. UNCHANGED <<os, sent, child, exited, stopping, running, restarting, fatal, lifecycle,
                        on, op, connected, orderly>> /\ pc' = [pc EXCEPT ![r] = "checking"]
        BY <2>3, <3>2 DEF FirstBootstrap, Move, server, flags, clients
      <4>2. TypeOK' /\ AnyClients'
        BY <1>1, <2>1, <2>3, <4>1 DEF TypeOK, Places, AnyClients, BootstrapsExclusive, Bootstrapping
      <4>3. ASSUME orderly PROVE Serial' /\ Owned'
        BY <1>1, <2>1, <4>1, <4>3, Parts DEF TypeOK, Serial, InFlight, Owned, OneServer,
           StoppedLeavesNone, Serving, Idle
      <4>4. QED
        BY <4>1, <4>2, <4>3 DEF ServerInv, AnyClients
    <3>3. QED
      BY <2>3, <3>1, <3>2 DEF FirstBootstrap
  <2>4. CASE op[r] = "intent" /\ Restart(r) /\ UNCHANGED <<fatal, lifecycle>>
    BY <1>1, <2>1, <2>4, StopPreserves DEF Restart, MayStop, TypeOK
  <2>5. CASE op[r] = "reset" /\ Reset(r) /\ UNCHANGED <<fatal, lifecycle>>
    <3>1. restarting' \in BOOLEAN /\ running' = running /\ running' \in BOOLEAN
      BY <1>1, <2>5 DEF Reset, flags, TypeOK
    <3>2. QED
      BY <2>1, <2>5, <3>1, StopPreserves DEF Reset, MayStop
  <2>6. CASE op[r] = "recover" /\ Recover(r)
    <3>1. CASE Start(r)
      BY <2>1, <2>6, <3>1, StartPreserves DEF MayStart
    <3>2. CASE End(r) /\ UNCHANGED <<server, flags, fatal, lifecycle, on>>
      <4>1. restarting' \in BOOLEAN /\ running' = running
        BY <1>1, <3>2 DEF flags, TypeOK
      <4>2. QED
        BY <1>1, <2>1, <3>2, <4>1, EndPreserves DEF TypeOK
    <3>3. QED
      BY <2>6, <3>1, <3>2 DEF Recover
  <2>7. QED
    BY <1>4, <2>2, <2>3, <2>4, <2>5, <2>6 DEF Begin
<1>5. CASE Checked(r)
  <2>1. pc[r] = "checking" /\ op[r] = "first" /\ UNCHANGED <<fatal, lifecycle>>
    BY <1>1, <1>5 DEF Checked, AnyClients
  <2>2. CASE restarting' = TRUE /\ StopServer(r) /\ UNCHANGED <<running, clients>>
    BY <1>1, <2>1, <2>2, StopPreserves DEF MayStop, TypeOK
  <2>3. CASE End(r) /\ UNCHANGED <<server, flags, on>>
    <3>1. restarting' \in BOOLEAN /\ running' = running
      BY <1>1, <2>3 DEF flags, TypeOK
    <3>2. QED
      BY <1>1, <2>1, <2>3, <3>1, EndPreserves DEF TypeOK
  <2>4. QED
    BY <1>5, <2>2, <2>3 DEF Checked
<1>6. CASE Resume(r)
  <2>1. CASE Start(r)
    BY <1>6, <2>1, StartPreserves DEF Resume, MayStart
  <2>2. CASE op[r] = "reset" /\ Move(r, "removing") /\ UNCHANGED <<server, flags, fatal, lifecycle, on, clients>>
    <3>1. UNCHANGED <<os, sent, child, exited, stopping, running, restarting, fatal, lifecycle,
                      on, op, connected, orderly>> /\ pc' = [pc EXCEPT ![r] = "removing"] /\ pc[r] = "resumed"
      BY <1>6, <2>2 DEF Resume, Move, server, flags, clients
    <3>2. TypeOK' /\ AnyClients'
      BY <1>1, <2>2, <3>1 DEF TypeOK, Places, AnyClients, BootstrapsExclusive, Bootstrapping
    <3>3. ASSUME orderly PROVE Serial' /\ Owned'
      BY <1>1, <3>1, <3>3, Parts DEF TypeOK, Serial, InFlight, Owned, OneServer,
         StoppedLeavesNone, Serving, Idle
    <3>4. QED
      BY <3>1, <3>2, <3>3 DEF ServerInv, AnyClients
  <2>3. QED
    BY <1>6, <2>1, <2>2 DEF Resume
<1>7. CASE Removed(r)
  <2>1. CASE Start(r)
    BY <1>7, <2>1, StartPreserves DEF Removed, MayStart
  <2>2. CASE End(r) /\ UNCHANGED <<server, flags, fatal, lifecycle, on>>
    <3>1. restarting' \in BOOLEAN /\ running' = running
      BY <1>1, <2>2 DEF flags, TypeOK
    <3>2. pc[r] = "removing"
      BY <1>7 DEF Removed
    <3>3. QED
      BY <1>1, <2>2, <3>1, <3>2, EndPreserves DEF TypeOK
  <2>3. QED
    BY <1>7, <2>1, <2>2 DEF Removed
<1>8. QED
  BY <1>2, <1>3, <1>4, <1>5, <1>6, <1>7 DEF Request

\* The spawn event keeps the invariant.
LEMMA SpawnedPreserves ==
  ASSUME ServerInv, Alive, NEW f \in Starters, Spawned(f)
  PROVE  ServerInv'
<1> USE FlowAssumption DEF Starters, Flows
<1>1. TypeOK /\ AnyClients
  BY Parts
<1>2. /\ UNCHANGED <<os, sent, child, exited, stopping, fatal, lifecycle, on, orderly>>
      /\ pc[f] = "spawning"
      /\ pc' = [pc EXCEPT ![f] = "done"]
      /\ op' = [op EXCEPT ![f] = "none"]
      /\ connected' = connected \ {f}
      /\ running' = (running /\ op[f] # "bootstrap")
      /\ restarting' = (restarting /\ op[f] \notin {"bootstrap", "first", "intent"})
  BY DEF Spawned, Finish, End, Move, server
<1>3. CASE f \in Requests
  <2>1. restarting' \in BOOLEAN
    BY <1>2
  <2>2. QED
    BY <1>2, <1>3, <2>1, EndPreserves DEF Spawned, Finish
<1>4. CASE f = Startup
  <2>1. TypeOK'
    BY <1>1, <1>2, <1>4 DEF TypeOK, Places
  <2>2. AnyClients'
    BY <1>1, <1>2, <1>4 DEF TypeOK, AnyClients, BootstrapsExclusive, Bootstrapping
  <2>3. ASSUME orderly PROVE Serial' /\ Owned'
    BY <1>1, <1>2, <1>4, <2>3, Parts DEF TypeOK, Serial, InFlight, Owned, OneServer,
       StoppedLeavesNone, Serving, Idle
  <2>4. QED
    BY <1>2, <2>1, <2>2, <2>3 DEF ServerInv, AnyClients
<1>5. QED
  BY <1>3, <1>4

\* The supervisor's own flows keep the invariant.
LEMMA OwnPreserves == ASSUME ServerInv, Alive, Own PROVE ServerInv'
<1> USE FlowAssumption DEF Starters, Flows
<1>1. TypeOK /\ AnyClients
  BY Parts
<1>2. CASE StartUp
  BY <1>2, StartPreserves DEF StartUp, MayStart
<1>3. CASE WatchFires
  <2>1. restarting' \in BOOLEAN /\ running' = running /\ running' \in BOOLEAN /\ op[Watch] # "bootstrap"
    BY <1>1, <1>3 DEF WatchFires, flags, TypeOK, AnyClients
  <2>2. QED
    BY <1>3, <2>1, StopPreserves DEF WatchFires, MayStop
<1>4. CASE WatchEnds
  <2>1. UNCHANGED <<os, sent, child, exited, stopping, running, restarting, fatal, lifecycle,
                    on, op, connected, orderly>>
        /\ pc' = [pc EXCEPT ![Watch] = "done"] /\ pc[Watch] = "resumed"
    BY <1>4 DEF WatchEnds, Move, server, flags, clients
  <2>2. TypeOK' /\ AnyClients'
    BY <1>1, <2>1 DEF TypeOK, Places, AnyClients, BootstrapsExclusive, Bootstrapping
  <2>3. ASSUME orderly PROVE Serial' /\ Owned'
    BY <1>1, <2>1, <2>3, Parts DEF TypeOK, Serial, InFlight, Owned, OneServer,
       StoppedLeavesNone, Serving, Idle
  <2>4. QED
    BY <2>1, <2>2, <2>3 DEF ServerInv, AnyClients
<1>5. CASE Signal \/ Quiesce
  <2>1. UNCHANGED <<os, sent, child, exited, stopping, running, restarting, fatal, pc,
                    on, op, connected, orderly>>
        /\ lifecycle' \in {"draining", "stopping"} /\ lifecycle \in {"serving", "draining"}
    BY <1>5 DEF Signal, Quiesce, server, flags, clients
  <2>2. TypeOK' /\ AnyClients'
    BY <1>1, <2>1 DEF TypeOK, AnyClients, BootstrapsExclusive, Bootstrapping
  <2>3. ASSUME orderly PROVE Serial' /\ Owned'
    BY <1>1, <2>1, <2>3, Parts DEF TypeOK, Serial, InFlight, Owned, OneServer,
       StoppedLeavesNone, Serving, Idle
  <2>4. QED
    BY <2>1, <2>2, <2>3 DEF ServerInv, AnyClients
<1>6. CASE StopLast
  <2>1. restarting' \in BOOLEAN /\ running' = running /\ running' \in BOOLEAN /\ op[Shutdown] # "bootstrap"
    BY <1>1, <1>6 DEF StopLast, flags, TypeOK, AnyClients
  <2>2. CASE StopServer(Shutdown)
    BY <1>6, <2>1, <2>2, StopPreserves DEF StopLast, MayStop
  <2>3. CASE Move(Shutdown, "done") /\ UNCHANGED <<server, on>>
    <3>1. UNCHANGED <<os, sent, child, exited, stopping, running, restarting, fatal, lifecycle,
                      on, op, connected, orderly>>
          /\ pc' = [pc EXCEPT ![Shutdown] = "done"] /\ pc[Shutdown] = "idle"
          /\ lifecycle = "stopping" /\ connected = {}
      BY <1>6, <2>3 DEF StopLast, Closed, Move, server, flags, clients
    <3>2. TypeOK' /\ AnyClients'
      BY <1>1, <3>1 DEF TypeOK, Places, AnyClients, BootstrapsExclusive, Bootstrapping
    <3>3. ASSUME orderly PROVE Serial' /\ Owned'
      BY <1>1, <3>1, <3>3, Parts DEF TypeOK, Serial, InFlight, Owned, OneServer,
         StoppedLeavesNone, Serving, Idle
    <3>4. QED
      BY <3>1, <3>2, <3>3 DEF ServerInv, AnyClients
  <2>4. QED
    BY <1>6, <2>2, <2>3 DEF StopLast
<1>7. CASE Stopped
  <2>1. UNCHANGED <<os, sent, child, exited, stopping, running, restarting, fatal,
                    on, op, connected, orderly>>
        /\ pc' = [pc EXCEPT ![Shutdown] = "done"] /\ pc[Shutdown] = "resumed" /\ lifecycle' = "stopped"
    BY <1>7 DEF Stopped, Move, server, flags, clients
  <2>2. TypeOK' /\ AnyClients'
    BY <1>1, <2>1 DEF TypeOK, Places, AnyClients, BootstrapsExclusive, Bootstrapping
  <2>3. ASSUME orderly PROVE Serial' /\ Owned'
    <3>1. Serial /\ Owned
      BY <2>3, Parts
    <3>2. \A c \in Starters : ~Serving(c)
      BY <2>1, <2>3, <3>1 DEF Owned, OneServer, Idle
    <3>3. Serial'
      BY <1>1, <2>1, <3>1 DEF TypeOK, Serial, InFlight
    <3>4. QED
      BY <1>1, <2>1, <3>1, <3>2, <3>3 DEF TypeOK, Owned, OneServer, StoppedLeavesNone, Serving, Idle
  <2>4. QED
    BY <2>1, <2>2, <2>3 DEF ServerInv, AnyClients
<1>8. QED
  BY <1>2, <1>3, <1>4, <1>5, <1>6, <1>7 DEF Own

\* A stuttering step keeps the invariant.
LEMMA StutterPreserves == ASSUME ServerInv, UNCHANGED vars PROVE ServerInv'
<1>1. UNCHANGED <<os, sent, child, exited, stopping, running, restarting, fatal, lifecycle,
                  pc, on, op, connected, orderly>>
  BY DEF vars, server, flags, clients
<1>2. TypeOK' <=> TypeOK
  BY <1>1 DEF TypeOK
<1>3. AnyClients' <=> AnyClients
  BY <1>1 DEF AnyClients, BootstrapsExclusive, Bootstrapping
<1>4. (Serial' <=> Serial) /\ (Owned' <=> Owned)
  BY <1>1 DEF Serial, InFlight, Owned, OneServer, StoppedLeavesNone, Serving, Idle
<1>5. QED
  BY <1>1, <1>2, <1>3, <1>4 DEF ServerInv, AnyClients

\* The invariant of the mariadbd process control, for every set of requests:
\* the supervisor keeps hold of the child at work, and whoever has stopped
\* mariadbd finds nothing at work until it starts it again.
THEOREM ServerInvariance == Spec => []ServerInv
<1>1. Init => ServerInv
  BY InitHolds
<1>2. ServerInv /\ [Next]_vars => ServerInv'
  <2> SUFFICES ASSUME ServerInv, [Next]_vars PROVE ServerInv'
    OBVIOUS
  <2>1. CASE Next
    <3>1. Alive
      BY <2>1 DEF Next
    <3>2. CASE Own
      BY <3>1, <3>2, OwnPreserves
    <3>3. CASE \E r \in Requests : Request(r)
      BY <3>1, <3>3, RequestPreserves
    <3>4. CASE \E f \in Flows : Timeout(f)
      BY <3>1, <3>4, TimeoutPreserves
    <3>5. CASE \E f \in Starters : Spawned(f) \/ Exit(f) \/ ExitEvent(f)
      BY <3>1, <3>5, SpawnedPreserves, ExitPreserves, ExitEventPreserves
    <3>6. QED
      BY <2>1, <3>2, <3>3, <3>4, <3>5 DEF Next
  <2>2. CASE UNCHANGED vars
    BY <2>2, StutterPreserves
  <2>3. QED
    BY <2>1, <2>2
<1>3. QED
  BY <1>1, <1>2, PTL DEF Spec

\* Of orderly clients, at most one mariadbd is at work, and it is the one the
\* supervisor would stop, whatever restart timed out before.
THEOREM OneServerAlways == Spec => []OneServer
<1>1. ServerInv => OneServer
  BY DEF ServerInv, Owned, OneServer
<1>2. QED
  BY <1>1, ServerInvariance, PTL

\* Of orderly clients, no reset removes the data under a mariadbd at work.
THEOREM ResetSparesServerAlways == Spec => []ResetSparesServer
<1>1. ServerInv => ResetSparesServer
  <2> SUFFICES ASSUME ServerInv, orderly, NEW r \in Requests, pc[r] = "removing", NEW c \in Starters
      PROVE ~Serving(c)
    BY DEF ResetSparesServer
  <2>1. OneServer /\ Idle
    BY DEF ServerInv, Owned
  <2>2. QED
    BY <2>1, FlowAssumption DEF OneServer, Idle, Flows
<1>2. QED
  BY <1>1, ServerInvariance, PTL

\* Of orderly clients, a supervisor that has stopped leaves no mariadbd at work,
\* whatever request was in the middle of a restart when the signal came.
THEOREM StoppedLeavesNoneAlways == Spec => []StoppedLeavesNone
<1>1. ServerInv => StoppedLeavesNone
  BY DEF ServerInv, Owned, StoppedLeavesNone
<1>2. QED
  BY <1>1, ServerInvariance, PTL

\* Of any clients, two cold bootstraps never stop or start mariadbd at once,
\* although every other restart clears the busy flag under them.
THEOREM BootstrapsExclusiveAlways == Spec => []BootstrapsExclusive
<1>1. ServerInv => BootstrapsExclusive
  BY DEF ServerInv
<1>2. QED
  BY <1>1, ServerInvariance, PTL
=============================================================================
