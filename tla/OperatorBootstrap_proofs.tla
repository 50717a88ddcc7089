----------------------- MODULE OperatorBootstrap_proofs -----------------------
(***************************************************************************)
(* Proofs about OperatorBootstrap for any number of members, requests,     *)
(* keys and crashes: what the evidence of all members allows, what the key *)
(* of a request excludes, and what the lock excludes until a supervisor    *)
(* dies.                                                                   *)
(***************************************************************************)
EXTENDS OperatorBootstrap, FiniteSetTheorems, TLAPS

-----------------------------------------------------------------------------
(* The type invariant                                                       *)

\* Initially every variable has its type.
LEMMA InitType == BootstrapInit => BootstrapTypeOK
  BY BootstrapAssumption DEF BootstrapInit, BootstrapTypeOK, BootstrapAssumption

\* A request goes on, and whatever else it has read and chosen.
LEMMA PlanType ==
  ASSUME BootstrapTypeOK, NEW r \in Requests, NEW n \in Nodes,
         NEW found \in SUBSET Nodes, Asked(r, n, found)
  PROVE  /\ at' \in [Requests -> Running \cup {"new", "loading", "recording", "over"}]
         /\ asked' \in [Requests -> SUBSET Nodes]
         /\ read' \in [Requests -> SUBSET Nodes]
         /\ candidate' \in [Requests -> SUBSET Nodes]
<1>1. Furthest(found) \in SUBSET Nodes
  BY DEF Furthest
<1> QED
  BY <1>1 DEF BootstrapTypeOK, Asked, PlanComplete, GoTo, Running, Locked

\* Every step preserves the types.
LEMMA StepType == BootstrapTypeOK /\ [BootstrapNext]_bootstrapVars => BootstrapTypeOK'
<1> SUFFICES ASSUME BootstrapTypeOK, [BootstrapNext]_bootstrapVars PROVE BootstrapTypeOK'
  OBVIOUS
<1> USE BootstrapAssumption DEF BootstrapAssumption
<1>1. ASSUME NEW r \in Requests, Submit(r) PROVE BootstrapTypeOK'
  BY <1>1 DEF Submit, GoTo, BootstrapTypeOK, members, results, plans
<1>2. ASSUME NEW r \in Requests, Continue(r) PROVE BootstrapTypeOK'
  <2>1. at' = [at EXCEPT ![r] = "over"] \/ at' = [at EXCEPT ![r] = "opening"]
    BY <1>2 DEF Continue, GoTo
  <2> QED
    BY <1>2, <2>1 DEF Continue, BootstrapTypeOK, members, results, plans, Running
<1>3. ASSUME NEW r \in Requests, OpenLock(r) PROVE BootstrapTypeOK'
  BY <1>3 DEF OpenLock, GoTo, BootstrapTypeOK, members, results, plans, Running, Locked
<1>4. ASSUME NEW r \in Requests, Refuse(r) PROVE BootstrapTypeOK'
  BY <1>4 DEF Refuse, GoTo, BootstrapTypeOK, members, results, plans
<1>5. ASSUME NEW r \in Requests, FindStale(r) \/ Steal(r) PROVE BootstrapTypeOK'
  BY <1>5 DEF FindStale, Steal, GoTo, BootstrapTypeOK, members, results, plans, Running
<1>6. ASSUME NEW r \in Requests, NEW n \in Nodes, Evidence(r, n) PROVE BootstrapTypeOK'
  <2>1. CASE Unavailable(r, n)
    BY <1>6, <2>1 DEF Evidence, Unavailable, GoTo, BootstrapTypeOK, members, results, plans, Running, Locked
  <2>2. CASE mariadbd[n] # "up" /\ Asked(r, n, read[r] \cup {n})
    <3>1. read[r] \cup {n} \in SUBSET Nodes
      BY DEF BootstrapTypeOK
    <3> QED
      BY <1>6, <2>2, <3>1, PlanType DEF Evidence, BootstrapTypeOK, members, results
  <2> QED
    BY <1>6, <2>1, <2>2 DEF Evidence
<1>7. ASSUME NEW r \in Requests, Verify(r) PROVE BootstrapTypeOK'
  BY <1>7 DEF Verify, GoTo, BootstrapTypeOK, members, results, plans, Running, Locked
<1>8. ASSUME NEW r \in Requests, Call(r) PROVE BootstrapTypeOK'
  <2>1. PICK n \in candidate[r] :
          \/ (GoTo(r, "failing") \/ GoTo(r, "succeeding")) /\ UNCHANGED members
          \/ /\ busy' = [busy EXCEPT ![n] = r]
             /\ mariadbd' = Stopped(n)
             /\ GoTo(r, "waiting") /\ UNCHANGED founders
    BY <1>8 DEF Call
  <2>2. n \in Nodes
    BY DEF BootstrapTypeOK
  <2>3. at' \in [Requests -> Running \cup {"new", "loading", "recording", "over"}]
    BY <2>1 DEF GoTo, BootstrapTypeOK, Running, Locked
  <2>4. /\ mariadbd' \in [Nodes -> {"down", "spawned", "up"}]
        /\ busy' \in [Nodes -> Requests \cup {Nobody}]
        /\ \A m \in Nodes : busy'[m] # Nobody => mariadbd'[m] = "down"
        /\ founders' = founders
    BY <2>1, <2>2 DEF Stopped, BootstrapTypeOK, members
  <2> QED
    BY <1>8, <2>3, <2>4 DEF Call, BootstrapTypeOK, results, plans
<1>9. ASSUME NEW r \in Requests, GiveUp(r) PROVE BootstrapTypeOK'
  BY <1>9 DEF GiveUp, GoTo, BootstrapTypeOK, members, results, plans, Running, Locked
<1>10. ASSUME NEW n \in Nodes, Spawned(n) PROVE BootstrapTypeOK'
  <2>1. \/ at' = at \/ at' = [at EXCEPT ![busy[n]] = "succeeding"]
        \/ at' = [at EXCEPT ![busy[n]] = "failing"]
    BY <1>10 DEF Spawned, GoTo
  <2>2. at' \in [Requests -> Running \cup {"new", "loading", "recording", "over"}]
    BY <2>1 DEF BootstrapTypeOK, Running, Locked
  <2>3. /\ mariadbd' \in [Nodes -> {"down", "spawned", "up"}]
        /\ busy' \in [Nodes -> Requests \cup {Nobody}]
        /\ \A m \in Nodes : busy'[m] # Nobody => mariadbd'[m] = "down"
        /\ founders' \subseteq Nodes
    BY <1>10 DEF Spawned, BootstrapTypeOK
  <2> QED
    BY <1>10, <2>2, <2>3 DEF Spawned, BootstrapTypeOK, results, plans
<1>11. ASSUME NEW r \in Requests, Unlock(r) PROVE BootstrapTypeOK'
  BY <1>11 DEF Unlock, GoTo, BootstrapTypeOK, members, plans
<1>12. ASSUME NEW r \in Requests, Record(r) PROVE BootstrapTypeOK'
  BY <1>12 DEF Record, GoTo, BootstrapTypeOK, members, plans
<1>13. ASSUME NEW n \in Nodes, BecomesUp(n) \/ Joins(n) PROVE BootstrapTypeOK'
  <2>1. busy[n] = Nobody /\ mariadbd' = [mariadbd EXCEPT ![n] = "up"] /\ busy' = busy
    BY <1>13 DEF BecomesUp, Joins, BootstrapTypeOK
  <2>2. /\ mariadbd' \in [Nodes -> {"down", "spawned", "up"}]
        /\ \A m \in Nodes : busy'[m] # Nobody => mariadbd'[m] = "down"
    BY <2>1 DEF BootstrapTypeOK
  <2> QED
    BY <1>13, <2>1, <2>2 DEF BecomesUp, Joins, BootstrapTypeOK, results, plans
<1>14. ASSUME NEW s \in Nodes, CrashSupervisor(s) PROVE BootstrapTypeOK'
  <2>1. at' \in [Requests -> Running \cup {"new", "loading", "recording", "over"}]
    BY <1>14 DEF CrashSupervisor, BootstrapTypeOK, Running, Locked
  <2> QED
    BY <1>14, <2>1 DEF CrashSupervisor, BootstrapTypeOK, plans
<1>15. CASE UNCHANGED bootstrapVars
  BY <1>15 DEF BootstrapTypeOK, bootstrapVars, members, results, plans
<1> QED
  BY <1>1, <1>2, <1>3, <1>4, <1>5, <1>6, <1>7, <1>8, <1>9, <1>10, <1>11, <1>12, <1>13, <1>14, <1>15
     DEF BootstrapNext

\* Every variable keeps its type, and no member that is being bootstrapped has
\* mariadbd running (action.mjs stops it first).
THEOREM BootstrapTypeCorrect == BootstrapSpec => []BootstrapTypeOK
<1>1. BootstrapInit => BootstrapTypeOK
  BY InitType
<1>2. BootstrapTypeOK /\ [BootstrapNext]_bootstrapVars => BootstrapTypeOK'
  BY StepType
<1> QED
  BY <1>1, <1>2, PTL DEF BootstrapSpec

-----------------------------------------------------------------------------
(* One founder                                                              *)

\* A plan that succeeds has read the evidence of every member, and chooses the
\* furthest of them all; so every plan of the outage chooses the same member.
FounderInv ==
  /\ \A r \in Requests : read[r] = asked[r] /\ candidate[r] \subseteq Furthest(Nodes)
  /\ \A n \in Nodes : busy[n] # Nobody => n \in Furthest(Nodes)
  /\ founders \subseteq Furthest(Nodes)

\* Positions and names order the members completely.
LEMMA OneFurthest ==
  ASSUME NEW m \in Furthest(Nodes), NEW n \in Furthest(Nodes)
  PROVE  m = n
  BY BootstrapAssumption DEF Furthest, BootstrapAssumption

\* Every step preserves the invariant about the founder of the cluster.
LEMMA FounderStep ==
  BootstrapTypeOK /\ FounderInv /\ [BootstrapNext]_bootstrapVars => FounderInv'
<1> SUFFICES ASSUME BootstrapTypeOK, FounderInv, [BootstrapNext]_bootstrapVars
             PROVE  FounderInv'
  OBVIOUS
<1> USE BootstrapAssumption DEF BootstrapAssumption
<1>1. ASSUME NEW r \in Requests, NEW n \in Nodes, Evidence(r, n) PROVE FounderInv'
  <2>1. CASE Unavailable(r, n)
    BY <1>1, <2>1 DEF Evidence, Unavailable, FounderInv, members, plans
  <2>2. CASE Asked(r, n, read[r] \cup {n})
    <3>1. CASE asked[r] \cup {n} = Nodes
      <4>1. read[r] \cup {n} = Nodes
        BY <3>1 DEF FounderInv
      <4>2. PlanComplete(r, Furthest(Nodes))
        BY <2>2, <3>1, <4>1 DEF Asked
      <4> QED
        BY <1>1, <4>2 DEF Evidence, PlanComplete, FounderInv, BootstrapTypeOK, members
    <3>2. CASE asked[r] \cup {n} # Nodes
      <4>1. /\ asked' = [asked EXCEPT ![r] = asked[r] \cup {n}]
            /\ read' = [read EXCEPT ![r] = read[r] \cup {n}]
            /\ candidate' = candidate
        BY <2>2, <3>2 DEF Asked
      <4>2. \A q \in Requests : read'[q] = asked'[q]
        BY <4>1 DEF FounderInv, BootstrapTypeOK
      <4> QED
        BY <1>1, <4>1, <4>2 DEF Evidence, FounderInv, members
    <3> QED
      BY <3>1, <3>2
  <2> QED
    BY <1>1, <2>1, <2>2 DEF Evidence
<1>2. ASSUME NEW r \in Requests, Call(r) PROVE FounderInv'
  <2>1. PICK n \in candidate[r] :
          UNCHANGED members \/ (busy' = [busy EXCEPT ![n] = r] /\ founders' = founders)
    BY <1>2 DEF Call
  <2>2. n \in Furthest(Nodes)
    BY DEF FounderInv
  <2>3. \A m \in Nodes : busy'[m] # Nobody => m \in Furthest(Nodes)
    BY <2>1, <2>2 DEF FounderInv, BootstrapTypeOK, members
  <2>4. founders' = founders
    BY <2>1 DEF members
  <2> QED
    BY <1>2, <2>3, <2>4 DEF Call, FounderInv, plans
<1>3. ASSUME NEW n \in Nodes, Spawned(n) PROVE FounderInv'
  <2>1. n \in Furthest(Nodes) /\ founders' \subseteq founders \cup {n}
    BY <1>3 DEF Spawned, FounderInv
  <2>2. busy' = [busy EXCEPT ![n] = Nobody] /\ UNCHANGED plans
    BY <1>3 DEF Spawned
  <2>3. \A m \in Nodes : busy'[m] # Nobody => m \in Furthest(Nodes)
    BY <2>2 DEF FounderInv, BootstrapTypeOK
  <2> QED
    BY <2>1, <2>2, <2>3 DEF FounderInv, plans
<1>4. ASSUME NEW s \in Nodes, CrashSupervisor(s) PROVE FounderInv'
  BY <1>4 DEF CrashSupervisor, FounderInv, BootstrapTypeOK, plans
<1>5. CASE UNCHANGED <<busy, founders, plans>>
  BY <1>5 DEF FounderInv, plans
<1> QED
  BY <1>1, <1>2, <1>3, <1>4, <1>5
     DEF BootstrapNext, bootstrapVars, members, Submit, Continue, OpenLock, Refuse, FindStale,
         Steal, Verify, GiveUp, Unlock, Record, BecomesUp, Joins

\* However many operators ask at however many supervisors, and whatever fails,
\* one member at most founds a cluster in an outage (eligibility.mjs: the
\* evidence of no member may be missing).
THEOREM OneMemberFounds == BootstrapSpec => []OneFounder
<1>1. BootstrapInit => FounderInv
  BY DEF BootstrapInit, FounderInv
<1>2. FounderInv => OneFounder
  <2> SUFFICES ASSUME FounderInv PROVE Cardinality(founders) <= 1
    BY DEF OneFounder
  <2>1. CASE founders = {}
    BY <2>1, FS_EmptySet
  <2>2. CASE founders # {}
    <3>1. PICK n : n \in founders
      BY <2>2
    <3>2. founders = {n}
      BY <3>1, OneFurthest DEF FounderInv
    <3> QED
      BY <3>2, FS_Singleton
  <2> QED
    BY <2>1, <2>2
<1> QED
  BY <1>1, <1>2, FounderStep, BootstrapTypeCorrect, PTL DEF BootstrapSpec

-----------------------------------------------------------------------------
(* One run per key                                                          *)

\* No step makes a second run for a key, or one whose result is known.
LEMMA KeyStep ==
  BootstrapTypeOK /\ KeyRunsOnce /\ [BootstrapNext]_bootstrapVars => KeyRunsOnce'
<1> SUFFICES ASSUME BootstrapTypeOK, KeyRunsOnce, [BootstrapNext]_bootstrapVars
             PROVE  KeyRunsOnce'
  OBVIOUS
<1> USE BootstrapAssumption DEF BootstrapAssumption
\* Most steps neither begin a run nor learn of a result.
<1>1. ASSUME key' = key, remembered' = remembered,
             \A r \in Requests : at'[r] \in Running => at[r] \in Running
      PROVE  KeyRunsOnce'
  BY <1>1 DEF KeyRunsOnce, InFlight
<1>2. ASSUME NEW r \in Requests, Submit(r) PROVE KeyRunsOnce'
  <2>1. PICK k \in Keys \cup {NoKey} : key' = [key EXCEPT ![r] = k]
    BY <1>2 DEF Submit
  <2>2. at'[r] \notin Running
    BY <1>2 DEF Submit, GoTo, BootstrapTypeOK, Running, Locked
  <2>3. \A q \in Requests \ {r} : at'[q] = at[q] /\ key'[q] = key[q]
    BY <1>2, <2>1 DEF Submit, GoTo, BootstrapTypeOK
  <2>4. remembered' = remembered
    BY <1>2 DEF Submit, results
  <2> QED
    BY <2>2, <2>3, <2>4 DEF KeyRunsOnce, InFlight
<1>3. ASSUME NEW r \in Requests, Continue(r) PROVE KeyRunsOnce'
  <2> DEFINE repeated == key[r] # NoKey /\ (key[r] \in remembered[RequestedAt[r]] \/ InFlight(r))
  <2>1. key' = key /\ remembered' = remembered /\ at[r] = "loading"
    BY <1>3 DEF Continue, results
  <2>2. \A q \in Requests \ {r} : at'[q] = at[q]
    BY <1>3 DEF Continue, GoTo, BootstrapTypeOK
  <2>3. CASE repeated
    <3>1. at'[r] = "over"
      BY <1>3, <2>3 DEF Continue, GoTo, BootstrapTypeOK
    <3> QED
      BY <1>1, <2>1, <2>2, <3>1 DEF Running, Locked
  <2>4. CASE ~repeated
    BY <2>1, <2>2, <2>4 DEF KeyRunsOnce, InFlight
  <2> QED
    BY <2>3, <2>4
<1>4. ASSUME NEW r \in Requests, Unlock(r) PROVE KeyRunsOnce'
  <2>1. key' = key /\ at[r] \in Running
    BY <1>4 DEF Unlock, Running, Locked
  <2>2. at'[r] \notin Running /\ \A q \in Requests \ {r} : at'[q] = at[q]
    BY <1>4 DEF Unlock, GoTo, BootstrapTypeOK, Running, Locked
  <2>3. \/ remembered' = remembered
        \/ /\ key[r] # NoKey
           /\ remembered' = [remembered EXCEPT ![RequestedAt[r]] = @ \cup {key[r]}]
    BY <1>4 DEF Unlock
  <2>4. ASSUME NEW q \in Requests, at'[q] \in Running, key'[q] # NoKey
        PROVE  key'[q] \notin remembered'[RequestedAt[q]] /\ ~InFlight(q)'
    <3>1. q # r /\ at[q] \in Running /\ key[q] # NoKey
      BY <2>1, <2>2, <2>4
    <3>2. key[q] \notin remembered[RequestedAt[q]] /\ ~InFlight(q)
      BY <3>1 DEF KeyRunsOnce
    <3>3. ~(RequestedAt[q] = RequestedAt[r] /\ key[q] = key[r])
      BY <2>1, <3>1, <3>2 DEF InFlight
    <3>4. CASE remembered'[RequestedAt[q]] = remembered[RequestedAt[q]]
      BY <2>1, <2>2, <3>2, <3>4 DEF InFlight
    <3>5. CASE /\ RequestedAt[q] = RequestedAt[r]
               /\ remembered'[RequestedAt[q]] = remembered[RequestedAt[q]] \cup {key[r]}
      BY <2>1, <2>2, <3>2, <3>3, <3>5 DEF InFlight
    <3> QED
      BY <2>3, <3>4, <3>5 DEF BootstrapTypeOK
  <2> QED
    BY <2>4 DEF KeyRunsOnce
<1>5. ASSUME NEW s \in Nodes, CrashSupervisor(s) PROVE KeyRunsOnce'
  <2>1. \A r \in Requests : at'[r] \in Running => RequestedAt[r] # s /\ at[r] \in Running
    BY <1>5 DEF CrashSupervisor, BootstrapTypeOK, Running, Locked
  <2>2. \A n \in Nodes \ {s} : remembered'[n] = remembered[n]
    BY <1>5 DEF CrashSupervisor, BootstrapTypeOK
  <2> QED
    BY <1>5, <2>1, <2>2 DEF CrashSupervisor, KeyRunsOnce, InFlight
<1>6. ASSUME NEW n \in Nodes, Spawned(n) PROVE KeyRunsOnce'
  <2>1. at' = at \/ at[busy[n]] = "waiting"
    BY <1>6 DEF Spawned
  <2>2. \A r \in Requests : at'[r] \in Running => at[r] \in Running
    BY <1>6, <2>1 DEF Spawned, GoTo, BootstrapTypeOK, Running, Locked
  <2> QED
    BY <1>1, <1>6, <2>2 DEF Spawned, results
<1>7. ASSUME NEW r \in Requests, NEW n \in Nodes, Evidence(r, n) PROVE KeyRunsOnce'
  <2>1. at[r] \in Running /\ \A q \in Requests \ {r} : at'[q] = at[q]
    BY <1>7 DEF Evidence, Unavailable, Asked, PlanComplete, GoTo, BootstrapTypeOK, Running, Locked
  <2> QED
    BY <1>1, <1>7, <2>1 DEF Evidence, results
<1>8. ASSUME NEW r \in Requests,
             OpenLock(r) \/ Refuse(r) \/ FindStale(r) \/ Steal(r) \/ Verify(r) \/ Call(r)
               \/ GiveUp(r) \/ Record(r)
      PROVE  KeyRunsOnce'
  <2>1. key' = key /\ remembered' = remembered
    BY <1>8 DEF OpenLock, Refuse, FindStale, Steal, Verify, Call, GiveUp, Record, results
  <2>2. \A q \in Requests \ {r} : at'[q] = at[q]
    BY <1>8 DEF OpenLock, Refuse, FindStale, Steal, Verify, Call, GiveUp, Record, GoTo, BootstrapTypeOK
  <2>3. at'[r] \in Running => at[r] \in Running
    BY <1>8 DEF OpenLock, Refuse, FindStale, Steal, Verify, Call, GiveUp, Record, GoTo,
                BootstrapTypeOK, Running, Locked
  <2> QED
    BY <1>1, <2>1, <2>2, <2>3
<1>9. CASE UNCHANGED <<key, remembered, at>>
  BY <1>9 DEF KeyRunsOnce, InFlight
<1> QED
  BY <1>2, <1>3, <1>4, <1>5, <1>6, <1>7, <1>8, <1>9
     DEF BootstrapNext, bootstrapVars, results, BecomesUp, Joins

\* For any number of requests with any keys, the check of the key after the
\* await lets no second run of a key begin at a supervisor while the first is
\* under way or once its result is known (service.mjs:17, 28).
THEOREM KeysRunOnce == BootstrapSpec => []KeyRunsOnce
<1>1. BootstrapInit => KeyRunsOnce
  BY DEF BootstrapInit, KeyRunsOnce, Running, Locked
<1> QED
  BY <1>1, KeyStep, BootstrapTypeCorrect, PTL DEF BootstrapSpec


-----------------------------------------------------------------------------
(* The lock                                                                 *)

\* Until a supervisor dies, the lock file of a supervisor names the request
\* that holds it: no file is ever found old, and none is removed by another.
LockInv ==
  crashes = MaxCrashes =>
    /\ \A r \in Requests :
         at[r] # "stealing" /\ (at[r] \in Locked => lock[RequestedAt[r]] = r)
    /\ \A s \in Nodes :
         lock[s] # Nobody => RequestedAt[lock[s]] = s /\ at[lock[s]] \in Locked

\* Every step preserves the invariant about the operation lock.
LEMMA LockStep == BootstrapTypeOK /\ LockInv /\ [BootstrapNext]_bootstrapVars => LockInv'
<1> SUFFICES ASSUME BootstrapTypeOK, LockInv, [BootstrapNext]_bootstrapVars,
                    crashes' = MaxCrashes
             PROVE  LockInv'
  BY DEF LockInv
<1> USE BootstrapAssumption DEF BootstrapAssumption
\* Most steps leave the lock alone, and stay on one side of it.
<1>1. ASSUME crashes' = crashes, lock' = lock,
             \A r \in Requests :
               \/ at'[r] = at[r]
               \/ at'[r] # "stealing" /\ (at'[r] \in Locked <=> at[r] \in Locked)
      PROVE  LockInv'
  BY <1>1 DEF LockInv, BootstrapTypeOK, Locked
<1>2. ASSUME NEW r \in Requests, Submit(r) \/ Continue(r) \/ Refuse(r) PROVE LockInv'
  <2>1. /\ at' = [at EXCEPT ![r] = "loading"] \/ at' = [at EXCEPT ![r] = "opening"]
           \/ at' = [at EXCEPT ![r] = "over"]
        /\ at[r] \notin Locked
    BY <1>2 DEF Submit, Continue, Refuse, GoTo, Locked
  <2>2. crashes' = crashes /\ lock' = lock
    BY <1>2 DEF Submit, Continue, Refuse
  <2> QED
    BY <1>1, <2>1, <2>2 DEF BootstrapTypeOK, Locked
<1>3. ASSUME NEW r \in Requests, OpenLock(r) PROVE LockInv'
  <2>1. /\ at[r] = "opening" /\ at' = [at EXCEPT ![r] = "planning"]
        /\ lock[RequestedAt[r]] = Nobody /\ lock' = [lock EXCEPT ![RequestedAt[r]] = r]
        /\ crashes' = crashes
    BY <1>3 DEF OpenLock, GoTo
  <2>2. \A q \in Requests : at'[q] # "stealing" /\ (at'[q] \in Locked => lock'[RequestedAt[q]] = q)
    BY <2>1 DEF LockInv, BootstrapTypeOK, Locked
  <2>3. ASSUME NEW s \in Nodes, lock'[s] # Nobody
        PROVE  RequestedAt[lock'[s]] = s /\ at'[lock'[s]] \in Locked
    BY <2>1, <2>3 DEF LockInv, BootstrapTypeOK, Locked
  <2> QED
    BY <2>2, <2>3 DEF LockInv
<1>4. ASSUME NEW r \in Requests, FindStale(r) \/ Steal(r) PROVE FALSE
  <2>1. crashes = MaxCrashes
    BY <1>4 DEF FindStale, Steal
  <2> QED
    BY <1>4, <2>1 DEF FindStale, Steal, LockInv, Locked
<1>5. ASSUME NEW r \in Requests, NEW n \in Nodes, Evidence(r, n) PROVE LockInv'
  <2>1. at[r] \in Locked /\ at'[r] \in Locked /\ \A q \in Requests \ {r} : at'[q] = at[q]
    BY <1>5 DEF Evidence, Unavailable, Asked, PlanComplete, GoTo, BootstrapTypeOK, Locked
  <2>2. crashes' = crashes /\ lock' = lock
    BY <1>5 DEF Evidence
  <2> QED
    BY <1>1, <2>1, <2>2 DEF Locked
<1>6. ASSUME NEW r \in Requests, Verify(r) \/ Call(r) \/ GiveUp(r) PROVE LockInv'
  <2>1. at[r] \in Locked /\ at'[r] \in Locked /\ \A q \in Requests \ {r} : at'[q] = at[q]
    BY <1>6 DEF Verify, Call, GiveUp, GoTo, BootstrapTypeOK, Locked
  <2>2. crashes' = crashes /\ lock' = lock
    BY <1>6 DEF Verify, Call, GiveUp
  <2> QED
    BY <1>1, <2>1, <2>2 DEF Locked
<1>7. ASSUME NEW n \in Nodes, Spawned(n) PROVE LockInv'
  <2>1. \A q \in Requests : at'[q] = at[q] \/ (at[q] \in Locked /\ at'[q] \in Locked)
    BY <1>7 DEF Spawned, GoTo, BootstrapTypeOK, Locked
  <2>2. crashes' = crashes /\ lock' = lock
    BY <1>7 DEF Spawned
  <2> QED
    BY <1>1, <2>1, <2>2 DEF Locked
<1>8. ASSUME NEW r \in Requests, Unlock(r) PROVE LockInv'
  <2>1. /\ at[r] \in Locked /\ lock' = [lock EXCEPT ![RequestedAt[r]] = Nobody]
        /\ at' = [at EXCEPT ![r] = "recording"] \/ at' = [at EXCEPT ![r] = "over"]
        /\ crashes' = crashes
    BY <1>8 DEF Unlock, GoTo, Locked
  <2>2. lock[RequestedAt[r]] = r
    BY <2>1 DEF LockInv
  <2>3. \A q \in Requests : at'[q] # "stealing" /\ (at'[q] \in Locked => lock'[RequestedAt[q]] = q)
    BY <2>1, <2>2 DEF LockInv, BootstrapTypeOK, Locked
  <2>4. ASSUME NEW s \in Nodes, lock'[s] # Nobody
        PROVE  RequestedAt[lock'[s]] = s /\ at'[lock'[s]] \in Locked
    BY <2>1, <2>2, <2>4 DEF LockInv, BootstrapTypeOK
  <2> QED
    BY <2>3, <2>4 DEF LockInv
<1>9. ASSUME NEW r \in Requests, Record(r) PROVE LockInv'
  BY <1>1, <1>9 DEF Record, GoTo, BootstrapTypeOK, Locked
<1>10. ASSUME NEW s \in Nodes, CrashSupervisor(s) PROVE FALSE
  BY <1>10 DEF CrashSupervisor, BootstrapTypeOK
<1>11. CASE UNCHANGED <<lock, at, crashes>>
  BY <1>11 DEF LockInv
<1> QED
  BY <1>2, <1>3, <1>4, <1>5, <1>6, <1>7, <1>8, <1>9, <1>10, <1>11
     DEF BootstrapNext, bootstrapVars, BecomesUp, Joins

\* As long as no supervisor has died, requests exclude each other between the
\* creation of the lock file and its removal (operation-lock.mjs:23).
THEOREM LockIsExclusive == BootstrapSpec => []LockExcludes
<1>1. BootstrapInit => LockInv
  BY BootstrapAssumption DEF BootstrapInit, LockInv, Locked, BootstrapAssumption
<1>2. BootstrapTypeOK /\ LockInv => LockExcludes
  BY DEF LockInv, LockExcludes
<1> QED
  BY <1>1, <1>2, LockStep, BootstrapTypeCorrect, PTL DEF BootstrapSpec

\* As long as no supervisor has died, a lock file belongs to a request that
\* will remove it: no failure, refusal or timeout leaves one behind, and none
\* is ever taken for stale (operation-lock.mjs:16, 23).
NoLockIsLeaked ==
  crashes = MaxCrashes =>
    /\ \A s \in Nodes : lock[s] # Nobody => RequestedAt[lock[s]] = s /\ at[lock[s]] \in Locked
    /\ \A r \in Requests : at[r] # "stealing"

\* Only the end of a supervisor leaves a lock file behind.
THEOREM LocksAreReleased == BootstrapSpec => []NoLockIsLeaked
<1>1. BootstrapInit => LockInv
  BY BootstrapAssumption DEF BootstrapInit, LockInv, Locked, BootstrapAssumption
<1>2. LockInv => NoLockIsLeaked
  BY DEF LockInv, NoLockIsLeaked
<1> QED
  BY <1>1, <1>2, LockStep, BootstrapTypeCorrect, PTL DEF BootstrapSpec

=============================================================================
