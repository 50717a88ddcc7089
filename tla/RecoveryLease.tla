---------------------------- MODULE RecoveryLease ----------------------------
(***************************************************************************)
(* The recovery lease one member keeps in a file                           *)
(* (src/cluster/cold-bootstrap/lease.mjs).  Requests of would-be winners   *)
(* run concurrently; each is split at the file accesses of claim().        *)
(*                                                                         *)
(* A claim stands for a pair of epoch and winner.                          *)
(***************************************************************************)
EXTENDS Integers

CONSTANTS
  Requests,    \* the requests that may be in progress at the same time
  Claims,
  Absent,      \* there is no file
  Empty,       \* the content of a file that was created and not filled
  StaleAfter,  \* staleAfterMs; a negative value: a lease never goes stale
  MaxClock     \* bound of the clock

ASSUME LeaseAssumption ==
  /\ Empty \notin Claims
  /\ StaleAfter \in Int
  /\ MaxClock \in Nat

Never == -1

VARIABLES
  clock,
  file,     \* Absent, or who created it, what it says and since when
  at,       \* per request: its await, what it claims, and its claimedAt
  granted   \* per claim: the claimedAt of the lease it was last granted
vars == <<clock, file, at, granted>>

Files == [owner : Requests, claim : Claims \cup {Empty}, since : 0..MaxClock]
ASSUME AbsentAssumption == Absent \notin Files
Places == {"answered", "opening", "filling", "reading", "unlinking"}

Init ==
  /\ clock = 0
  /\ file = Absent
  /\ at \in [Requests -> [place : {"answered"}, claim : Claims, since : {0}]]
  /\ granted = [c \in Claims |-> Never]

Stale(since) == StaleAfter >= 0 /\ clock - since > StaleAfter

Move(r, place) == at' = [at EXCEPT ![r].place = place]

\* claim() writes down the time before it tries to create the file.
Start(r, c) ==
  /\ at' = [at EXCEPT ![r] = [place |-> "opening", claim |-> c, since |-> clock]]

Claim(r) ==
  /\ at[r].place = "answered"
  /\ \E c \in Claims : Start(r, c)
  /\ UNCHANGED <<clock, file, granted>>

\* Mutant of Create: open(path, 'w').
CreateAnyway(r) ==
  /\ at[r].place = "opening"
  /\ file' = [owner |-> r, claim |-> Empty, since |-> at[r].since]
  /\ Move(r, "filling")
  /\ UNCHANGED <<clock, granted>>

\* open(path, 'wx') creates the file, empty.
Create(r) ==
  /\ at[r].place = "opening" /\ file = Absent
  /\ file' = [owner |-> r, claim |-> Empty, since |-> at[r].since]
  /\ Move(r, "filling")
  /\ UNCHANGED <<clock, granted>>

Exists(r) ==
  /\ at[r].place = "opening" /\ file # Absent
  /\ Move(r, "reading")
  /\ UNCHANGED <<clock, file, granted>>

\* The handle keeps the file it created, also when the path has been unlinked
\* or created anew.
Fill(r) ==
  /\ at[r].place = "filling"
  /\ file' = IF file # Absent /\ file.owner = r
             THEN [file EXCEPT !.claim = at[r].claim] ELSE file
  /\ granted' = [granted EXCEPT ![at[r].claim] = at[r].since]
  /\ Move(r, "answered")
  /\ UNCHANGED clock

\* open or writeFile fails: the error goes to the requester, a created file
\* stays behind.
Fails(r) ==
  /\ at[r].place \in {"opening", "filling"}
  /\ Move(r, "answered")
  /\ UNCHANGED <<clock, file, granted>>

\* The lease is held already for the same epoch and winner.
ReadOwn(r) ==
  /\ at[r].place = "reading" /\ file # Absent /\ file.claim = at[r].claim
  /\ granted' = [granted EXCEPT ![at[r].claim] = file.since]
  /\ Move(r, "answered")
  /\ UNCHANGED <<clock, file>>

\* Mutant of Expired: every lease of another claim may be taken over.
ExpiredAlready == file # Absent

Expired == file # Absent /\ file.claim # Empty /\ Stale(file.since)

ReadStale(r) ==
  /\ at[r].place = "reading" /\ Expired /\ file.claim # at[r].claim
  /\ Move(r, "unlinking")
  /\ UNCHANGED <<clock, file, granted>>

\* Mutant of ReadRefused: claim() waits for the lease instead of giving up.
ReadWaits(r) ==
  /\ at[r].place = "reading" /\ ~Expired
  /\ file # Absent => file.claim # at[r].claim
  /\ Move(r, "opening")
  /\ UNCHANGED <<clock, file, granted>>

\* Another claim holds it, it does not parse, or it is gone.
ReadRefused(r) ==
  /\ at[r].place = "reading" /\ ~Expired
  /\ file # Absent => file.claim # at[r].claim
  /\ Move(r, "answered")
  /\ UNCHANGED <<clock, file, granted>>

\* unlink(path) removes what is there by now, and claim() starts over.
Unlink(r) ==
  /\ at[r].place = "unlinking" /\ file # Absent
  /\ file' = Absent
  /\ Start(r, at[r].claim)
  /\ UNCHANGED <<clock, granted>>

UnlinkRefused(r) ==
  /\ at[r].place = "unlinking" /\ file = Absent
  /\ Move(r, "answered")
  /\ UNCHANGED <<clock, file, granted>>

Proceed(r) ==
  \/ Create(r) \/ Exists(r) \/ Fill(r) \/ Fails(r)
  \/ ReadOwn(r) \/ ReadStale(r) \/ ReadRefused(r)
  \/ Unlink(r) \/ UnlinkRefused(r)

\* The supervisor dies: its requests are gone, the file is not.
Crash ==
  /\ at' = [r \in Requests |-> [at[r] EXCEPT !.place = "answered"]]
  /\ UNCHANGED <<clock, file, granted>>

Tick ==
  /\ clock < MaxClock
  /\ clock' = clock + 1
  /\ UNCHANGED <<file, at, granted>>

Next == (\E r \in Requests : Claim(r) \/ Proceed(r)) \/ Crash \/ Tick

Spec == Init /\ [][Next]_vars

\* Every file access comes back.
FairSpec == Spec /\ \A r \in Requests : WF_vars(Proceed(r))

-----------------------------------------------------------------------------
TypeOK ==
  /\ clock \in 0..MaxClock
  /\ file \in Files \cup {Absent}
  /\ at \in [Requests -> [place : Places, claim : Claims, since : 0..MaxClock]]
  /\ granted \in [Claims -> {Never} \cup 0..MaxClock]

Live(c) == granted[c] # Never /\ ~Stale(granted[c])

\* At no time do two claims hold a lease that has not gone stale.
SingleLiveWinner == \A c, d \in Claims : Live(c) /\ Live(d) => c = d

\* Before the first lease can have gone stale, however many requests overlap
\* and wherever the supervisor dies, one claim at most is granted.
NothingStale == StaleAfter < 0 \/ clock <= StaleAfter
SingleWinnerUntilStale == NothingStale => SingleLiveWinner

\* Every request is answered, also when it has to remove a stale lease.
ClaimsReturn == \A r \in Requests : at[r].place # "answered" ~> at[r].place = "answered"

-----------------------------------------------------------------------------
(* The inductive invariant behind SingleWinnerUntilStale: a claim that was  *)
(* granted is what the file says, and only the creator of an empty file is  *)
(* still going to fill it.                                                  *)
Exclusive ==
  /\ \A r \in Requests : at[r].place # "unlinking"
  /\ \A r \in Requests : at[r].place = "filling" =>
       file # Absent /\ file.owner = r /\ file.claim = Empty
  /\ \A c \in Claims : granted[c] # Never => file # Absent /\ file.claim = c

LeaseInv ==
  /\ TypeOK
  /\ NothingStale => Exclusive
=============================================================================
