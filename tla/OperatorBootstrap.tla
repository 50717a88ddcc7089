-------------------------- MODULE OperatorBootstrap --------------------------
(***************************************************************************)
(* The cold bootstrap an operator asks for: POST                           *)
(* /api/v1/cluster/cold-bootstrap at any supervisor (service.mjs), its     *)
(* lock and its idempotency store, the evidence of all members it reads    *)
(* twice (eligibility.mjs, coordinator.mjs), and the bootstrap of the      *)
(* candidate, here or by a request to its supervisor (action.mjs).         *)
(*                                                                         *)
(* One outage: data directories do not change until a member is up, and a  *)
(* member that is up stays up.                                             *)
(***************************************************************************)
EXTENDS Integers, FiniteSets

CONSTANTS
  Nodes,            \* integers, in the order of the names; one per member
  Position,         \* per member: the last transaction of its data directory
  Requests,
  RequestedAt,      \* the supervisor a request is made to
  Keys, NoKey,      \* idempotency keys
  Nobody,
  MaxCrashes        \* bound: ends of supervisors, each followed by a restart

ASSUME BootstrapAssumption ==
  /\ Nodes \subseteq Int /\ IsFiniteSet(Nodes)
  /\ Position \in [Nodes -> Nat] /\ RequestedAt \in [Requests -> Nodes]
  /\ NoKey \notin Keys /\ Nobody \notin Requests /\ MaxCrashes \in Nat

VARIABLES
  mariadbd,     \* per member: down, spawned with --wsrep-new-cluster, or up
  busy,         \* per member: the request it is being bootstrapped for
  founders,     \* the members that were spawned as a new cluster
  lock,         \* per supervisor: the request that created its lock file
  remembered,   \* per supervisor: the keys whose results it knows
  recorded,     \*   and the ones it finds in its file after a restart
  key,          \* per request
  at,           \* per request: where it is
  asked,        \* per request: the members this plan has asked
  read,         \*   and the ones whose evidence it has
  candidate,    \* per request: the members its plans have chosen
  crashes       \* how many crashes are still to come
members == <<mariadbd, busy, founders>>
results == <<remembered, recorded>>
plans == <<asked, read, candidate>>
bootstrapVars == <<members, lock, results, key, at, plans, crashes>>

\* From the lock to its release.
Locked == {"planning", "replanning", "verifying", "calling", "waiting", "failing", "succeeding"}
Running == Locked \cup {"opening", "stealing"}

BootstrapTypeOK ==
  /\ mariadbd \in [Nodes -> {"down", "spawned", "up"}]
  /\ busy \in [Nodes -> Requests \cup {Nobody}]
  /\ \A n \in Nodes : busy[n] # Nobody => mariadbd[n] = "down"
  /\ founders \subseteq Nodes
  /\ lock \in [Nodes -> Requests \cup {Nobody}]
  /\ remembered \in [Nodes -> SUBSET Keys]
  /\ recorded \in [Nodes -> SUBSET Keys]
  /\ key \in [Requests -> Keys \cup {NoKey}]
  /\ at \in [Requests -> Running \cup {"new", "loading", "recording", "over"}]
  /\ asked \in [Requests -> SUBSET Nodes]
  /\ read \in [Requests -> SUBSET Nodes]
  /\ candidate \in [Requests -> SUBSET Nodes]
  /\ crashes \in 0 .. MaxCrashes

BootstrapInit ==
  /\ mariadbd = [s \in Nodes |-> "down"]
  /\ busy = [s \in Nodes |-> Nobody]
  /\ founders = {}
  /\ lock = [s \in Nodes |-> Nobody]
  /\ remembered = [s \in Nodes |-> {}] /\ recorded = remembered
  /\ key = [r \in Requests |-> NoKey]
  /\ at = [r \in Requests |-> "new"]
  /\ asked = [r \in Requests |-> {}] /\ read = asked
  /\ candidate = [r \in Requests |-> {}]
  /\ crashes = MaxCrashes

GoTo(r, place) == at' = [at EXCEPT ![r] = place]

-----------------------------------------------------------------------------
(* execute(): the key, then the lock.                                       *)

\* A confirmed request waits for the file of the results to be read.
Submit(r) ==
  /\ at[r] = "new"
  /\ \E k \in Keys \cup {NoKey} : key' = [key EXCEPT ![r] = k]
  /\ GoTo(r, "loading")
  /\ UNCHANGED <<members, lock, results, plans, crashes>>

\* Mutant of InFlight: a run counts from the moment it holds the lock.
InFlightOnceLocked(r) ==
  \E q \in Requests \ {r} : RequestedAt[q] = RequestedAt[r] /\ key[q] = key[r] /\ at[q] \in Locked

InFlight(r) ==
  \E q \in Requests \ {r} : RequestedAt[q] = RequestedAt[r] /\ key[q] = key[r] /\ at[q] \in Running

\* A request whose key is known, or under way, has the answer of the other.
Continue(r) ==
  /\ at[r] = "loading"
  /\ LET repeated == key[r] # NoKey /\ (key[r] \in remembered[RequestedAt[r]] \/ InFlight(r))
     IN GoTo(r, IF repeated THEN "over" ELSE "opening")
  /\ UNCHANGED <<members, lock, results, key, plans, crashes>>

\* open(path, 'wx')
OpenLock(r) ==
  /\ at[r] = "opening" /\ lock[RequestedAt[r]] = Nobody
  /\ lock' = [lock EXCEPT ![RequestedAt[r]] = r]
  /\ GoTo(r, "planning")
  /\ UNCHANGED <<members, results, key, plans, crashes>>

\* The file is less than two minutes old.
Refuse(r) ==
  /\ at[r] = "opening" /\ lock[RequestedAt[r]] # Nobody
  /\ GoTo(r, "over")
  /\ UNCHANGED <<members, lock, results, key, plans, crashes>>

\* Mutant of FindStale: the age of the file is not looked at.
FindAny(r) ==
  /\ at[r] = "opening" /\ lock[RequestedAt[r]] # Nobody
  /\ GoTo(r, "stealing")
  /\ UNCHANGED <<members, lock, results, key, plans, crashes>>

\* The file is older than any run: its creator is gone.
FindStale(r) ==
  /\ at[r] = "opening" /\ lock[RequestedAt[r]] # Nobody
  /\ at[lock[RequestedAt[r]]] = "over"
  /\ GoTo(r, "stealing")
  /\ UNCHANGED <<members, lock, results, key, plans, crashes>>

\* It is removed by its path, whoever has created it meanwhile.
Steal(r) ==
  /\ at[r] = "stealing"
  /\ lock' = [lock EXCEPT ![RequestedAt[r]] = Nobody]
  /\ GoTo(r, "opening")
  /\ UNCHANGED <<members, results, key, plans, crashes>>

-----------------------------------------------------------------------------
(* plan(), twice, and the last look at the candidate.                       *)

\* selectCandidate: of one history, the furthest; of several, the first.
Furthest(nodes) ==
  {n \in nodes : \A m \in nodes :
     Position[m] < Position[n] \/ (Position[m] = Position[n] /\ n <= m)}

\* The last member asked: the second plan must agree with the first.
PlanComplete(r, chosen) ==
  /\ asked' = [asked EXCEPT ![r] = {}] /\ read' = [read EXCEPT ![r] = {}]
  /\ candidate' = [candidate EXCEPT ![r] = chosen]
  /\ GoTo(r, IF at[r] = "planning" THEN "replanning"
           ELSE IF candidate[r] = chosen THEN "verifying" ELSE "failing")

Asked(r, n, found) ==
  IF asked[r] \cup {n} = Nodes THEN PlanComplete(r, Furthest(found))
  ELSE /\ asked' = [asked EXCEPT ![r] = @ \cup {n}]
       /\ read' = [read EXCEPT ![r] = found]
       /\ UNCHANGED <<at, candidate>>

\* Mutant of Unavailable: a member without evidence is left out.
UnavailableIsSkipped(r, n) == Asked(r, n, read[r])

\* A member that cannot be asked, or that is up, ends the plan.
Unavailable(r, n) == GoTo(r, "failing") /\ UNCHANGED plans

\* The members are asked in turn.
Evidence(r, n) ==
  /\ at[r] \in {"planning", "replanning"}
  /\ n \notin asked[r] /\ \A m \in Nodes \ asked[r] : n <= m
  /\ \/ Unavailable(r, n)
     \/ mariadbd[n] # "up" /\ Asked(r, n, read[r] \cup {n})
  /\ UNCHANGED <<members, lock, results, key, crashes>>

Verify(r) ==
  /\ at[r] = "verifying"
  /\ \/ GoTo(r, "failing")
     \/ (\A n \in candidate[r] : mariadbd[n] # "up") /\ GoTo(r, "calling")
  /\ UNCHANGED <<members, lock, results, key, plans, crashes>>

-----------------------------------------------------------------------------
(* bootstrapExistingMember() at the candidate, and the answer.              *)

\* Mutant of Stopped: mariadbd is started over the one that runs.
NotStopped(n) == mariadbd

\* mariadbd of the candidate is stopped first, whatever it is doing by now.
Stopped(n) == [mariadbd EXCEPT ![n] = "down"]

\*
\* The supervisor of another candidate may also answer that it has accepted the
\* request, and do nothing: the control API is given a function that returns
\* bootstrapExistingMember, and calls that (main.mjs:33, control-api.mjs:40).
\* The third outcome is what its handler does when it is given the function
\* itself.
Call(r) ==
  /\ at[r] = "calling"
  /\ \E n \in candidate[r] :
       \/ /\ n # RequestedAt[r] \/ busy[n] # Nobody      \* lost, or refused
          /\ GoTo(r, "failing") /\ UNCHANGED members
       \/ /\ n # RequestedAt[r]
          /\ GoTo(r, "succeeding") /\ UNCHANGED members
       \/ /\ busy[n] = Nobody
          /\ busy' = [busy EXCEPT ![n] = r]
          /\ mariadbd' = Stopped(n)
          /\ GoTo(r, "waiting") /\ UNCHANGED founders
  /\ UNCHANGED <<lock, results, key, plans, crashes>>

\* AbortSignal.timeout: the candidate goes on.
GiveUp(r) ==
  /\ at[r] = "waiting" /\ RequestedAt[r] \notin candidate[r]
  /\ GoTo(r, "failing")
  /\ UNCHANGED <<members, lock, results, key, plans, crashes>>

\* mariadbd is spawned, or cannot be stopped or spawned.
Spawned(n) ==
  /\ busy[n] # Nobody
  /\ busy' = [busy EXCEPT ![n] = Nobody]
  /\ \E ok \in BOOLEAN :
       /\ IF ok THEN mariadbd' = [mariadbd EXCEPT ![n] = "spawned"] /\ founders' = founders \cup {n}
          ELSE UNCHANGED <<mariadbd, founders>>
       /\ IF at[busy[n]] = "waiting" THEN GoTo(busy[n], IF ok THEN "succeeding" ELSE "failing")
          ELSE UNCHANGED at
  /\ UNCHANGED <<lock, results, key, plans, crashes>>

\* The lock is removed by its path; only a success is remembered.
Unlock(r) ==
  /\ at[r] \in {"failing", "succeeding"}
  /\ lock' = [lock EXCEPT ![RequestedAt[r]] = Nobody]
  /\ IF at[r] = "succeeding" /\ key[r] # NoKey
     THEN remembered' = [remembered EXCEPT ![RequestedAt[r]] = @ \cup {key[r]}] /\ GoTo(r, "recording")
     ELSE GoTo(r, "over") /\ UNCHANGED remembered
  /\ UNCHANGED <<members, recorded, key, plans, crashes>>

\* The map is written as it was when the write began, without the results that
\* later runs have added and perhaps recorded meanwhile; or the write fails.
Record(r) ==
  /\ at[r] = "recording"
  /\ \/ \E map \in SUBSET remembered[RequestedAt[r]] :
          key[r] \in map /\ recorded' = [recorded EXCEPT ![RequestedAt[r]] = map]
     \/ UNCHANGED recorded
  /\ GoTo(r, "over")
  /\ UNCHANGED <<members, lock, remembered, key, plans, crashes>>

-----------------------------------------------------------------------------
(* The members and their supervisors.                                       *)

BecomesUp(n) ==
  /\ mariadbd[n] = "spawned"
  /\ mariadbd' = [mariadbd EXCEPT ![n] = "up"]
  /\ UNCHANGED <<busy, founders, lock, results, key, at, plans, crashes>>

\* By the other ways to start: only a member of a cluster that is up joins it.
Joins(n) ==
  /\ mariadbd[n] = "down" /\ busy[n] = Nobody
  /\ \E m \in Nodes : mariadbd[m] = "up"
  /\ mariadbd' = [mariadbd EXCEPT ![n] = "up"]
  /\ UNCHANGED <<busy, founders, lock, results, key, at, plans, crashes>>

\* A supervisor ends, mariadbd with it, and is started again. Its files stay.
CrashSupervisor(s) ==
  /\ crashes > 0 /\ mariadbd[s] # "up"
  /\ crashes' = crashes - 1
  /\ mariadbd' = [mariadbd EXCEPT ![s] = "down"]
  /\ busy' = [busy EXCEPT ![s] = Nobody]
  /\ at' = [r \in Requests |->
       IF (RequestedAt[r] = s /\ at[r] # "new") THEN "over"
       ELSE IF busy[s] = r /\ at[r] = "waiting" THEN "failing" ELSE at[r]]
  /\ remembered' = [remembered EXCEPT ![s] = recorded[s]]
  /\ UNCHANGED <<founders, lock, recorded, key, plans>>

BootstrapNext ==
  \/ \E r \in Requests : Submit(r) \/ Continue(r) \/ OpenLock(r) \/ Refuse(r)
                         \/ FindStale(r) \/ Steal(r) \/ Verify(r) \/ Call(r)
                         \/ GiveUp(r) \/ Unlock(r) \/ Record(r)
  \/ \E r \in Requests, n \in Nodes : Evidence(r, n)
  \/ \E s \in Nodes : Spawned(s) \/ BecomesUp(s) \/ Joins(s) \/ CrashSupervisor(s)

BootstrapSpec == BootstrapInit /\ [][BootstrapNext]_bootstrapVars

-----------------------------------------------------------------------------

\* However many operators ask at however many supervisors, and whatever fails
\* or times out meanwhile, one member only is ever spawned as a new cluster in
\* an outage (eligibility.mjs: no member may be missing from the evidence).
OneFounder == Cardinality(founders) <= 1

\* A key runs once: no two runs for it are under way at a supervisor, and
\* none starts when its result is known there (service.mjs:17, 28: the check
\* follows an await).
KeyRunsOnce ==
  \A r \in Requests : (at[r] \in Running /\ key[r] # NoKey) =>
    /\ key[r] \notin remembered[RequestedAt[r]]
    /\ ~InFlight(r)

\* While no supervisor has died, one request at a time holds the lock of a
\* supervisor, although every holder removes the file by its path
\* (operation-lock.mjs:23). After a crash two requests that both find the old
\* file can: the second removes the file the first has created meanwhile.
LockExcludes ==
  crashes = MaxCrashes =>
    \A r, q \in Requests : (r # q /\ RequestedAt[r] = RequestedAt[q] /\ at[r] \in Locked) => at[q] \notin Locked

=============================================================================
