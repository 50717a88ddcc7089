------------------------- MODULE EvidenceCollection -------------------------
(***************************************************************************)
(* Every supervisor of a stopped cluster collects one piece of evidence    *)
(* from each configured member, itself included, and draws a verdict from  *)
(* it: join a running Primary, bootstrap under a winner, or stay blocked.  *)
(* The module covers collect() and the verdict of plan() in                *)
(* src/cluster/cold-bootstrap/protocol.mjs, the evidence they read         *)
(* (peer-evidence.mjs, startup-local-evidence.mjs, evidence-validation.mjs) *)
(* and the identity of the recovery epoch (recovery-epoch.mjs).            *)
(*                                                                         *)
(* The collections of two supervisors overlap, a member answers each of    *)
(* them at its own time, and mariadbd may start, commit and stop in        *)
(* between, after which a position that was remembered is an old one.      *)
(***************************************************************************)
EXTENDS CandidateSelection

CONSTANTS
  Nodes,        \* the configured members
  Supervisors,  \* the members whose collections are followed
  DiskStates,   \* [uuid, seqno] records: what a data directory can hold
  Endpoints,    \* subset of {"startup", "runtime"}: who answers a peer's request
  Faults,       \* subset of {"unavailable", "mismatch", "malformed", "stale"}
  Movers        \* the members on which mariadbd may run

\* A data directory changes its history only by a state transfer or a reset of
\* the member, which come after the recovery: within a behaviour it keeps its
\* uuid and its position only grows.
ASSUME EvidenceAssumption ==
  /\ Nodes \subseteq Nat \ {0} /\ IsFiniteSet(Nodes) /\ Nodes # {}
  /\ Supervisors \subseteq Nodes
  \* A state file without a uuid or with a seqno below -1 is not read.
  /\ \A state \in DiskStates : state.uuid # NoUuid /\ state.seqno \in Nat \cup {-1}
  /\ Endpoints \subseteq {"startup", "runtime"}
  /\ Faults \subseteq {"unavailable", "mismatch", "malformed", "stale"}
  /\ Movers \subseteq Nodes

VARIABLES
  disk,      \* per member: the history and the last position in its data directory
  clean,     \* per member: whether grastate.dat has that position, or seqno -1
  engine,    \* per member: "down", "running" (not Synced), "primary", "killed"
  endpoint,  \* per member: the handler behind its evidence URL
  recovered, \* per member and handler: the remembered result of --wsrep-recover
  settled,   \* per supervisor and member: the settled result of its request
  verdict    \* per supervisor: the outcome of its last plan
member == <<disk, clean, engine, endpoint, recovered>>
vars == <<disk, clean, engine, endpoint, recovered, settled, verdict>>

Pending == [status |-> "pending"]
Rejected(code) == [status |-> "rejected", code |-> code]
Fulfilled(item) == [status |-> "fulfilled", item |-> item]

Unread == [status |-> "unread"]
Failed == [status |-> "failed"]
Position(seqno) == [status |-> "found", seqno |-> seqno]

-----------------------------------------------------------------------------
(* Evidence.  `galera` is the Primary component the item names, NoGalera    *)
(* when it carries a galera field that names none, and Absent when it has   *)
(* no such field at all.                                                    *)
Absent == "absent"
NoGalera == "no-primary"

Handlers == {"startup", "runtime"}

\* A supervisor reads its own evidence in process, a peer's over HTTP.
HandlerOf(s, n) == IF s = n THEN "runtime" ELSE endpoint[n]

\* A mariadbd that has opened its data directory leaves seqno -1 in grastate.dat.
SavedSeqno(n) == IF clean[n] THEN disk[n].seqno ELSE -1

\* startup-local-evidence.mjs takes a child without an exit code for activity,
\* which a killed one is as well; peer-evidence.mjs a Synced Primary view.
Active(n, handler) ==
  IF handler = "startup" THEN engine[n] # "down" ELSE engine[n] = "primary"

GaleraOf(n, handler) ==
  IF handler = "startup" THEN Absent
  ELSE IF engine[n] = "primary" THEN disk[n].uuid ELSE NoGalera

Item(n, handler, seqno, quality) ==
  [node |-> n, uuid |-> disk[n].uuid, seqno |-> seqno, active |-> Active(n, handler),
   galera |-> GaleraOf(n, handler), quality |-> quality]

\* Both handlers look for the position with --wsrep-recover when the file has
\* none and they see no activity.
Recovers(n, handler) == SavedSeqno(n) < 0 /\ ~Active(n, handler)

\* What --wsrep-recover gives at this moment: the data directory of a running
\* mariadbd is in use, that of a killed one may still be.
Recoveries(n) ==
  {Position(seqno) : seqno \in IF engine[n] \in {"down", "killed"} THEN {disk[n].seqno} \cap Nat ELSE {}}
    \cup IF engine[n] = "down" /\ disk[n].seqno >= 0 /\ "unavailable" \notin Faults
         THEN {} ELSE {Failed}

\* The result is kept, a failure too, for as long as the supervisor lives.
Remembers(n, handler) ==
  IF Recovers(n, handler) /\ recovered[n][handler] = Unread
  THEN Recoveries(n) ELSE {recovered[n][handler]}

-----------------------------------------------------------------------------
(* The verdict of a collection whose requests have all settled.             *)
Evidence(s) == {settled[s][n].item : n \in {m \in Nodes : settled[s][m].status = "fulfilled"}}
Failures(s) == {settled[s][n].code : n \in {m \in Nodes : settled[s][m].status = "rejected"}}

LocalUuid(s) ==
  LET own == {item \in Evidence(s) : item.node = s}
      uuidOf(item) == IF item.galera \in {Absent, NoGalera} THEN item.uuid ELSE item.galera
  IN {uuidOf(item) : item \in own} \ {NoUuid}

\* Mutant of IsActivePrimary: a Primary of any cluster.
IsAnyPrimary(s, item) == item.active /\ item.galera \notin {Absent, NoGalera}

IsActivePrimary(s, item) ==
  /\ item.active
  /\ item.galera \notin {Absent, NoGalera}
  /\ LocalUuid(s) \subseteq {item.galera}

\* The digest is taken over what every item says, the galera field included.
EpochOf(clusterId, evidence) ==
  [clusterId |-> clusterId,
   digest |-> {[node |-> i.node, uuid |-> i.uuid, seqno |-> i.seqno,
                galera |-> i.galera, active |-> i.active] : i \in evidence}]
NoEpoch == [clusterId |-> NoUuid, digest |-> {}]

NoVerdict == [mode |-> "none", code |-> "none", winner |-> NoWinner, epoch |-> NoEpoch]
Blocked(code) == [mode |-> "blocked", code |-> code, winner |-> NoWinner, epoch |-> NoEpoch]
Join == [mode |-> "join", code |-> "none", winner |-> NoWinner, epoch |-> NoEpoch]
Bootstrap(decision, evidence) ==
  [mode |-> "bootstrap", code |-> "none", winner |-> decision.winner,
   epoch |-> EpochOf(decision.clusterId, evidence)]

QualityOf(evidence) == {item.quality : item \in evidence}

\* Mutant of CompleteVerdict: selectCandidate with its default history size.
VerdictOfAnyHistory(evidence) ==
  LET decision == SelectCandidate(evidence, 1)
  IN IF decision.eligible THEN Bootstrap(decision, evidence) ELSE Blocked(decision.reason)

\* What plan() does once every configured supervisor has answered.
CompleteVerdict(evidence) ==
  LET decision == SelectCandidate(evidence, MajorityOf(Nodes))
  IN IF decision.eligible THEN Bootstrap(decision, evidence) ELSE Blocked(decision.reason)

\* Mutant of PartialVerdicts: a majority of the members is enough to elect.
VerdictsOfMajority(s) ==
  IF Cardinality(Evidence(s)) < MajorityOf(Nodes)
  THEN {Blocked(code) : code \in Failures(s)}
  ELSE {CompleteVerdict(Evidence(s))}

\* What plan() does when a request failed; the code of the first failure is the
\* code of the error collect() rethrows.
PartialVerdicts(s) ==
  IF Cardinality(Evidence(s)) < MajorityOf(Nodes)
  THEN {Blocked(code) : code \in Failures(s)}
  ELSE IF "mismatch" \in Failures(s) THEN {Blocked("mismatch")}
                                     ELSE {Blocked("INSUFFICIENT_RECOVERY_EVIDENCE")}

Verdicts(s) ==
  IF \E item \in Evidence(s) : IsActivePrimary(s, item)
    THEN {Join}
  ELSE IF Evidence(s) # {} /\ QualityOf(Evidence(s)) # {"ok"}
    THEN {Blocked(quality) : quality \in QualityOf(Evidence(s)) \ {"ok"}}
  ELSE IF Failures(s) # {}
    THEN PartialVerdicts(s)
  ELSE {CompleteVerdict(Evidence(s))}

-----------------------------------------------------------------------------
Init ==
  /\ disk \in [Nodes -> DiskStates]
  /\ clean \in [Nodes -> BOOLEAN]
  /\ endpoint \in [Nodes -> Endpoints]
  /\ engine = [n \in Nodes |-> "down"]
  /\ recovered = [n \in Nodes |-> [handler \in Handlers |-> Unread]]
  /\ settled = [s \in Supervisors |-> [n \in Nodes |-> Pending]]
  /\ verdict = [s \in Supervisors |-> NoVerdict]

Settle(s, n, result) ==
  /\ settled[s][n] = Pending
  /\ settled' = [settled EXCEPT ![s][n] = result]
  /\ UNCHANGED <<disk, clean, engine, endpoint, verdict>>

\* A member's evidence arrives, fresh and well formed or not.  A remembered
\* position gets the time of the request, whenever it was found.
Answer(s, n) ==
  LET handler == HandlerOf(s, n) IN
  \E memory \in Remembers(n, handler), quality \in {"ok"} \cup (Faults \cap {"malformed", "stale"}) :
    /\ recovered' = [recovered EXCEPT ![n][handler] = memory]
    /\ Recovers(n, handler) => memory # Failed
    /\ LET seqno == IF Recovers(n, handler) THEN memory.seqno ELSE SavedSeqno(n)
       IN Settle(s, n, Fulfilled(Item(n, handler, seqno, quality)))

\* The member answers with the failure of --wsrep-recover, its last or its first.
RecoveryFails(s, n) ==
  LET handler == HandlerOf(s, n) IN
  /\ Recovers(n, handler) /\ Failed \in Remembers(n, handler)
  /\ recovered' = [recovered EXCEPT ![n][handler] = Failed]
  /\ Settle(s, n, Rejected("unavailable"))

\* The request fails, or another member's evidence comes back from the URL.
Fail(s, n) ==
  \E code \in Faults \cap {"unavailable", "mismatch"} :
    /\ code = "mismatch" => s # n
    /\ Settle(s, n, Rejected(code))
    /\ UNCHANGED recovered

Conclude(s) ==
  /\ verdict[s] = NoVerdict
  /\ \A n \in Nodes : settled[s][n] # Pending
  /\ \E outcome \in Verdicts(s) : verdict' = [verdict EXCEPT ![s] = outcome]
  /\ UNCHANGED <<member, settled>>

\* plan() again: the next attempt of a blocked supervisor, or an operator's.
PlanAgain(s) ==
  /\ verdict[s] # NoVerdict
  /\ settled' = [settled EXCEPT ![s] = [n \in Nodes |-> Pending]]
  /\ verdict' = [verdict EXCEPT ![s] = NoVerdict]
  /\ UNCHANGED member

-----------------------------------------------------------------------------
(* A member between two requests: mariadbd starts, reaches the Primary      *)
(* component of its own history, executes transactions, and stops; its      *)
(* supervisor ends and starts.                                              *)
EngineMoves(n, state) ==
  /\ engine' = [engine EXCEPT ![n] = state]
  /\ UNCHANGED <<disk, endpoint, recovered, settled, verdict>>

\* mariadbd has opened its data directory already, or does so on its way up.
StartEngine(n) ==
  /\ engine[n] \in {"down", "killed"}
  /\ EngineMoves(n, "running")
  /\ \E kept \in {clean[n], FALSE} : clean' = [clean EXCEPT ![n] = kept]

ReachPrimary(n) ==
  /\ engine[n] = "running"
  /\ EngineMoves(n, "primary")
  /\ clean' = [clean EXCEPT ![n] = FALSE]

\* The next transaction; DiskStates bounds how many there are.
Commit(n) ==
  LET next == [uuid |-> disk[n].uuid, seqno |-> disk[n].seqno + 1] IN
  /\ engine[n] = "primary"
  /\ next \in DiskStates
  /\ disk' = [disk EXCEPT ![n] = next]
  /\ UNCHANGED <<clean, engine, endpoint, recovered, settled, verdict>>

\* stop() under a supervisor that goes on: mariadbd writes its position or fails to.
StopEngine(n) ==
  /\ engine[n] \in {"running", "primary"}
  /\ EngineMoves(n, "down")
  /\ \E written \in BOOLEAN : clean' = [clean EXCEPT ![n] = written]

\* stop() times out: the child is killed and never gets an exit code.
KillEngine(n) ==
  /\ engine[n] \in {"running", "primary"}
  /\ EngineMoves(n, "killed")
  /\ clean' = [clean EXCEPT ![n] = FALSE]

\* The supervisor ends, mariadbd with it, and another one starts: what was
\* remembered and collected is lost.
RestartSupervisor(n) ==
  /\ engine' = [engine EXCEPT ![n] = "down"]
  /\ \E written \in IF engine[n] \in {"running", "primary"} THEN BOOLEAN ELSE {clean[n]} :
       clean' = [clean EXCEPT ![n] = written]
  /\ recovered' = [recovered EXCEPT ![n] = [handler \in Handlers |-> Unread]]
  /\ settled' = [s \in Supervisors |-> IF s = n THEN [m \in Nodes |-> Pending] ELSE settled[s]]
  /\ verdict' = [s \in Supervisors |-> IF s = n THEN NoVerdict ELSE verdict[s]]
  /\ UNCHANGED <<disk, endpoint>>

Next ==
  \/ \E s \in Supervisors : \/ \E n \in Nodes : Answer(s, n)
                            \/ \E n \in Nodes : Fail(s, n)
                            \/ \E n \in Nodes : RecoveryFails(s, n)
                            \/ Conclude(s)
                            \/ PlanAgain(s)
  \/ \E n \in Movers : \/ StartEngine(n)
                       \/ ReachPrimary(n)
                       \/ Commit(n)
                       \/ StopEngine(n)
                       \/ KillEngine(n)
  \/ \E n \in Nodes : RestartSupervisor(n)

Spec == Init /\ [][Next]_vars
=============================================================================
