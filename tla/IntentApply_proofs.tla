-------------------------- MODULE IntentApply_proofs --------------------------
(***************************************************************************)
(* Proofs about IntentApply for any intents, any number of overlapping     *)
(* applies and any number of restarts: a supervisor stays in its cluster.  *)
(***************************************************************************)
EXTENDS IntentApply, TLAPS

\* The records of IntentTypeOK.
Calls ==
  [stage : Writing \cup {"idle", "planning", "reading", "previous", "acting"},
   desired : Intents \cup {NoIntent}, base : Intents \cup {NoIntent},
   change : {"restart", "reload", "no-op"}]

\* An apply under way has an intent to write, and one that restores has one to
\* restore.
CallOK(r) ==
  /\ r.stage = "idle" => r = Over
  /\ r.stage # "idle" => r.desired \in Intents
  /\ r.stage = "restoring" => r.base \in Intents

\* Only applies that write are mixed; never the one of a start, which is alone
\* and comes before mariadbd runs.
CallsInv ==
  /\ \A h \in Handlers : CallOK(call[h])
  /\ \A h \in mixed : call[h].stage \in Writing
  /\ Boot \notin mixed
  /\ call[Boot].stage # "planning"
  /\ call[Boot] # Over => running = NoIntent /\ \A h \in Applies : call[h] = Over
  /\ \A h \in Applies : call[h] # Over => running # NoIntent

\* Until an active intent is on disk nothing else is, and the start that is to
\* write it takes it from the environment.
FilesInv ==
  /\ running # NoIntent => active # NoIntent /\ rendered # NoIntent
  /\ active = NoIntent =>
       /\ rendered = NoIntent
       /\ call[Boot].base = NoIntent /\ call[Boot].desired \in {environment, NoIntent}
       /\ call[Boot].stage \notin {"rendered", "acting"}
  /\ call[Boot].stage = "acting" => rendered # NoIntent

\* Whatever the supervisor has, or an accepted plan is about to write, is of
\* the cluster c.
InCluster(c) ==
  /\ \A i \in {active, rendered, running} : i \in Intents => ClusterOf[i] = c
  /\ \A h \in Handlers :
       /\ call[h].base \in Intents => ClusterOf[call[h].base] = c
       /\ call[h].stage \notin {"idle", "planning"} => ClusterOf[call[h].desired] = c

ClusterInv == \E c : InCluster(c)

IntentInv == IntentTypeOK /\ CallsInv /\ FilesInv /\ ClusterInv

-----------------------------------------------------------------------------
(* Steps of an apply                                                        *)

\* A call that is over is a call, which holds no intent.
LEMMA OverIsCall == Over \in Calls /\ CallOK(Over) /\ Over.stage = "idle" /\ Over.base = NoIntent
                    /\ Over.desired = NoIntent
  BY IntentAssumption DEF Over, Calls, CallOK, IntentAssumption

\* A handler that goes on is mixed with nobody but writers.
LEMMA ProceedMixes ==
  ASSUME IntentTypeOK, CallsInv, NEW h \in Handlers, NEW next \in Calls, Proceed(h, next)
  PROVE  /\ call' = [call EXCEPT ![h] = next]
         /\ call' \in [Handlers -> Calls]
         /\ mixed' \subseteq Handlers
         /\ \A g \in mixed' : call'[g].stage \in Writing
<1> DEFINE meets == {g \in Handlers \ {h} : next.stage \in Writing /\ Path(call[g].stage) = Path(next.stage)}
<1>1. /\ call' = [call EXCEPT ![h] = next]
      /\ mixed' = (mixed \ {h}) \cup meets \cup (IF meets = {} THEN {} ELSE {h})
  BY DEF Proceed
<1>2. call \in [Handlers -> Calls] /\ mixed \subseteq Handlers
  BY DEF IntentTypeOK, Calls
<1>3. \A g \in meets : call[g].stage \in Writing /\ next.stage \in Writing /\ g # h
  BY DEF Path, Writing
<1>4. \A g \in mixed' : call'[g].stage \in Writing
  <2> SUFFICES ASSUME NEW g \in mixed' PROVE call'[g].stage \in Writing
    OBVIOUS
  <2>1. CASE g = h
    BY <1>1, <1>2, <1>3, <2>1
  <2>2. CASE g # h
    BY <1>1, <1>2, <1>3, <2>2 DEF CallsInv
  <2> QED
    BY <2>1, <2>2
<1> QED
  BY <1>1, <1>2, <1>4

\* The start never meets anybody.
LEMMA BootAlone ==
  ASSUME IntentTypeOK, CallsInv, NEW h \in Handlers, NEW next \in Calls, Proceed(h, next),
         h = Boot => \A g \in Applies : call[g] = Over,
         h # Boot => call[Boot] = Over
  PROVE  Boot \notin mixed'
<1> DEFINE meets == {g \in Handlers \ {h} : next.stage \in Writing /\ Path(call[g].stage) = Path(next.stage)}
<1>1. mixed' = (mixed \ {h}) \cup meets \cup (IF meets = {} THEN {} ELSE {h})
  BY DEF Proceed
<1>2. \A g \in meets : call[g].stage # "idle" /\ g # h /\ g \in Handlers
  BY DEF Path, Writing
<1>3. CASE h = Boot
  <2>1. meets = {}
    BY <1>2, <1>3, OverIsCall DEF Handlers
  <2> QED
    BY <1>1, <1>3, <2>1
<1>4. CASE h # Boot
  <2>1. Boot \notin meets
    BY <1>2, <1>4, OverIsCall
  <2> QED
    BY <1>1, <1>4, <2>1 DEF CallsInv
<1> QED
  BY <1>3, <1>4

\* An apply under way goes on, or ends.
LEMMA GoesOn ==
  ASSUME IntentTypeOK, CallsInv, NEW h \in Handlers, call[h] # Over,
         NEW next \in Calls, CallOK(next), h = Boot => next.stage # "planning",
         Proceed(h, next), running' = running
  PROVE  CallsInv'
<1>1. /\ call' = [call EXCEPT ![h] = next] /\ mixed' \subseteq Handlers
      /\ \A g \in mixed' : call'[g].stage \in Writing
  BY ProceedMixes
<1>2. call \in [Handlers -> Calls]
  BY DEF IntentTypeOK, Calls
<1>3. Boot \notin Applies /\ Handlers = Applies \cup {Boot}
  BY IntentAssumption DEF IntentAssumption, Handlers
<1>4. (h = Boot => \A g \in Applies : call[g] = Over) /\ (h # Boot => call[Boot] = Over)
  BY <1>3 DEF CallsInv
<1>5. Boot \notin mixed'
  BY <1>4, BootAlone
<1>6. \A g \in Handlers : CallOK(call[g])'
  <2> SUFFICES ASSUME NEW g \in Handlers PROVE CallOK(call'[g])
    BY DEF CallOK, Over
  <2> QED
    BY <1>1, <1>2 DEF CallsInv
<1> QED
  BY <1>1, <1>2, <1>3, <1>4, <1>5, <1>6 DEF CallsInv

\* And leaves files of the cluster, of which none disappears.
LEMMA GoesOnInv ==
  ASSUME IntentInv, NEW h \in Handlers, call[h] # Over,
         NEW next \in Calls, CallOK(next), h = Boot => next.stage # "planning",
         Proceed(h, next), running' = running, environment' = environment,
         NEW c, InCluster(c),
         next.base \in Intents => ClusterOf[next.base] = c,
         next.stage \notin {"idle", "planning"} => ClusterOf[next.desired] = c,
         \A i \in {active', rendered'} : i \in Intents => ClusterOf[i] = c,
         active' = NoIntent => active = NoIntent /\ rendered' = NoIntent,
         active' = NoIntent /\ h = Boot =>
           /\ next.base = NoIntent /\ next.desired \in {environment, NoIntent}
           /\ next.stage \notin {"rendered", "acting"},
         rendered' = NoIntent => rendered = NoIntent /\ ~(h = Boot /\ next.stage = "acting")
  PROVE  /\ CallsInv' /\ FilesInv' /\ ClusterInv'
         /\ call' \in [Handlers -> Calls] /\ mixed' \subseteq Handlers
<1>1. IntentTypeOK /\ CallsInv /\ FilesInv
  BY DEF IntentInv
<1>2. /\ call' = [call EXCEPT ![h] = next] /\ call' \in [Handlers -> Calls]
      /\ mixed' \subseteq Handlers
  BY <1>1, ProceedMixes
<1>3. CallsInv'
  BY <1>1, GoesOn
<1>4. call \in [Handlers -> Calls]
  BY <1>1 DEF IntentTypeOK, Calls
<1>5. InCluster(c)'
  <2>1. \A i \in {active', rendered', running'} : i \in Intents => ClusterOf[i] = c
    BY DEF InCluster
  <2>2. ASSUME NEW g \in Handlers
        PROVE  /\ call'[g].base \in Intents => ClusterOf[call'[g].base] = c
               /\ call'[g].stage \notin {"idle", "planning"} => ClusterOf[call'[g].desired] = c
    <3>1. CASE g = h
      BY <1>2, <1>4, <3>1
    <3>2. CASE g # h
      BY <1>2, <1>4, <3>2 DEF InCluster
    <3> QED
      BY <3>1, <3>2
  <2> QED
    BY <2>1, <2>2 DEF InCluster
<1>6. FilesInv'
  <2>1. CASE h = Boot
    <3>1. call'[Boot] = next
      BY <1>2, <1>4, <2>1
    <3> QED
      BY <1>1, <2>1, <3>1 DEF FilesInv
  <2>2. CASE h # Boot
    <3>1. call'[Boot] = call[Boot]
      BY <1>2, <1>4, <2>2 DEF Handlers
    <3> QED
      BY <1>1, <2>2, <3>1 DEF FilesInv
  <2> QED
    BY <2>1, <2>2
<1> QED
  BY <1>2, <1>3, <1>5, <1>6 DEF ClusterInv

\* Whatever writes meet in a file, it is an intent of the cluster, torn, or
\* what there was.
LEMMA Written ==
  ASSUME IntentInv, NEW h \in Handlers, call[h].stage \in Writing,
         NEW before \in Intents \cup {NoIntent, Torn}, NEW c, InCluster(c),
         before \in Intents => ClusterOf[before] = c,
         NEW out \in Outcomes(h, before)
  PROVE  /\ out[1] \in Intents \cup {NoIntent, Torn}
         /\ out[2] \in BOOLEAN
         /\ out[1] \in Intents => ClusterOf[out[1]] = c
         /\ out[1] = NoIntent => before = NoIntent
         /\ h = Boot /\ out[2] => out[1] \in Intents
<1>1. \A g \in Handlers : call[g].stage \in Writing =>
        Content(g) \in Intents /\ ClusterOf[Content(g)] = c
  BY DEF IntentInv, CallsInv, CallOK, InCluster, Content, Writing
<1>2. \A g \in mixed : g \in Handlers /\ call[g].stage \in Writing /\ g # Boot
  BY DEF IntentInv, CallsInv, IntentTypeOK
<1>3. NoIntent \notin Intents /\ Torn \notin Intents /\ NoIntent # Torn
  BY IntentAssumption DEF IntentAssumption
<1>4. CASE out \in {<<Content(h), TRUE>>, <<before, FALSE>>}
  <2>1. CASE out = <<Content(h), TRUE>>
    <3>1. out[1] = Content(h) /\ out[2] = TRUE
      BY <2>1
    <3> QED
      BY <1>1, <1>3, <3>1
  <2>2. CASE out = <<before, FALSE>>
    <3>1. out[1] = before /\ out[2] = FALSE
      BY <2>2
    <3> QED
      BY <1>3, <3>1
  <2> QED
    BY <1>4, <2>1, <2>2
<1>5. CASE h \in mixed /\ out \in ({before, Torn} \cup {Content(g) : g \in mixed}) \X BOOLEAN
  <2>1. out[1] \in {before, Torn} \cup {Content(g) : g \in mixed} /\ out[2] \in BOOLEAN
    BY <1>5
  <2> QED
    BY <1>1, <1>2, <1>3, <1>5, <2>1
<1> QED
  BY <1>4, <1>5 DEF Outcomes

-----------------------------------------------------------------------------
(* The steps of an apply keep the invariant                                 *)

\* What the apply h goes on with: as before, at another place.
LEMMA Places ==
  ASSUME IntentInv, NEW h \in Handlers, call[h] # Over
  PROVE  /\ call[h] \in Calls /\ call[h].stage # "idle" /\ call[h].desired \in Intents
         /\ \A place \in {"previous", "active", "rendered", "acting"} :
              /\ [call[h] EXCEPT !.stage = place] \in Calls
              /\ CallOK([call[h] EXCEPT !.stage = place])
         /\ call[h].base # NoIntent => /\ [call[h] EXCEPT !.stage = "restoring"] \in Calls
                                       /\ CallOK([call[h] EXCEPT !.stage = "restoring"])
<1>1. call[h] \in Calls /\ CallOK(call[h])
  BY DEF IntentInv, IntentTypeOK, CallsInv, Calls
<1> QED
  BY <1>1 DEF Calls, CallOK, Writing

\* The steps that leave the environment and mariadbd alone, and files of the
\* cluster c that do not disappear.
FilesStay(c) ==
  /\ environment' = environment /\ running' = running
  /\ \A i \in {active', rendered'} : i \in Intents => ClusterOf[i] = c
  /\ active' = NoIntent => active = NoIntent /\ rendered' = NoIntent
  /\ rendered' = NoIntent => rendered = NoIntent

\* The end of a call keeps the calls, files and cluster as they must be.
LEMMA EndsInv ==
  ASSUME IntentInv, NEW h \in Handlers, call[h] # Over, Finish(h),
         NEW c, InCluster(c), FilesStay(c)
  PROVE  /\ CallsInv' /\ FilesInv' /\ ClusterInv'
         /\ call' \in [Handlers -> Calls] /\ mixed' \subseteq Handlers
<1>1. Proceed(h, Over)
  BY DEF Finish
<1>2. Over.base \notin Intents
  BY OverIsCall, IntentAssumption DEF IntentAssumption
<1> QED
  BY <1>1, <1>2, OverIsCall, GoesOnInv DEF FilesStay

\* So does a call that goes on to its next write.
LEMMA EntersInv ==
  ASSUME IntentInv, NEW h \in Handlers, call[h].stage \notin {"idle", "planning"},
         NEW place \in {"active", "rendered", "acting", "restoring"}, Enter(h, place),
         place = "restoring" => call[h].base # NoIntent,
         NEW c, InCluster(c), FilesStay(c),
         h = Boot /\ place \in {"rendered", "acting"} => active' # NoIntent,
         h = Boot /\ place = "acting" => rendered' # NoIntent
  PROVE  /\ CallsInv' /\ FilesInv' /\ ClusterInv'
         /\ call' \in [Handlers -> Calls] /\ mixed' \subseteq Handlers
<1> DEFINE next == [call[h] EXCEPT !.stage = place]
<1>1. Proceed(h, next)
  BY DEF Enter
<1>2. call[h] # Over
  BY OverIsCall
<1>3. next \in Calls /\ CallOK(next)
  BY <1>2, Places
<1>4. next.stage = place /\ next.base = call[h].base /\ next.desired = call[h].desired
  BY <1>2, Places DEF Calls
<1>5. ClusterOf[next.desired] = c /\ (next.base \in Intents => ClusterOf[next.base] = c)
  BY <1>4 DEF InCluster
<1>6. active' = NoIntent /\ h = Boot => next.base = NoIntent /\ next.desired \in {environment, NoIntent}
  BY <1>4 DEF IntentInv, FilesInv, FilesStay
<1> HIDE DEF next
<1>7. next.stage # "planning"
  BY <1>4
<1>8. active' = NoIntent /\ h = Boot =>
        /\ next.base = NoIntent /\ next.desired \in {environment, NoIntent}
        /\ next.stage \notin {"rendered", "acting"}
  BY <1>4, <1>6
<1>9. rendered' = NoIntent => rendered = NoIntent /\ ~(h = Boot /\ next.stage = "acting")
  BY <1>4 DEF FilesStay
<1>10. /\ running' = running /\ environment' = environment
       /\ \A i \in {active', rendered'} : i \in Intents => ClusterOf[i] = c
       /\ active' = NoIntent => active = NoIntent /\ rendered' = NoIntent
  BY DEF FilesStay
<1> QED
  BY <1>1, <1>2, <1>3, <1>5, <1>7, <1>8, <1>9, <1>10, GoesOnInv

\* The read of the active intent preserves the invariant;
LEMMA ReadBaseInv == ASSUME IntentInv, NEW h \in Handlers, ReadBase(h) PROVE IntentInv'
<1>1. call[h].stage = "reading" /\ call[h] # Over
  BY OverIsCall DEF ReadBase
<1>2. PICK c : InCluster(c)
  BY DEF IntentInv, ClusterInv
<1>3. UNCHANGED <<environment, active, rendered, running, orderly, troubled, ends>>
  BY DEF ReadBase, files, faults
<1>4. FilesStay(c)
  BY <1>2, <1>3 DEF FilesStay, InCluster, IntentInv, FilesInv
<1>5. /\ CallsInv' /\ FilesInv' /\ ClusterInv'
      /\ call' \in [Handlers -> Calls] /\ mixed' \subseteq Handlers
  <2>1. CASE Finish(h)
    BY <1>1, <1>2, <1>4, <2>1, EndsInv
  <2>2. CASE active # Torn /\ Proceed(h, [call[h] EXCEPT !.stage = "previous", !.base = active])
    <3> DEFINE next == [call[h] EXCEPT !.stage = "previous", !.base = active]
    <3>1. active \in Intents \cup {NoIntent}
      BY <2>2 DEF IntentInv, IntentTypeOK
    <3>2. /\ next \in Calls /\ CallOK(next) /\ next.stage = "previous" /\ next.base = active
          /\ next.desired = call[h].desired
      BY <1>1, <3>1, Places DEF Calls, CallOK
    <3>3. ClusterOf[next.desired] = c /\ (next.base \in Intents => ClusterOf[next.base] = c)
      BY <1>1, <1>2, <3>2 DEF InCluster
    <3>4. active' = NoIntent /\ h = Boot => next.desired \in {environment, NoIntent}
      BY <1>3, <3>2 DEF IntentInv, FilesInv
    <3>5. Proceed(h, next)
      BY <2>2
    <3> HIDE DEF next
    <3> QED
      BY <1>1, <1>2, <1>3, <1>4, <3>2, <3>3, <3>4, <3>5, GoesOnInv DEF FilesStay
  <2> QED
    BY <2>1, <2>2 DEF ReadBase
<1> QED
  BY <1>3, <1>5 DEF IntentInv, IntentTypeOK, Calls

\* so does the copy of the active intent,
LEMMA SavePreviousInv == ASSUME IntentInv, NEW h \in Handlers, SavePrevious(h) PROVE IntentInv'
<1>1. call[h].stage = "previous" /\ call[h] # Over
  BY OverIsCall DEF SavePrevious
<1>2. PICK c : InCluster(c)
  BY DEF IntentInv, ClusterInv
<1>3. UNCHANGED <<environment, active, rendered, running, orderly, troubled, ends>>
  BY DEF SavePrevious, files, faults
<1>4. FilesStay(c)
  BY <1>2, <1>3 DEF FilesStay, InCluster, IntentInv, FilesInv
<1>5. /\ CallsInv' /\ FilesInv' /\ ClusterInv'
      /\ call' \in [Handlers -> Calls] /\ mixed' \subseteq Handlers
  <2>1. CASE Enter(h, "active")
    BY <1>1, <1>2, <1>4, <2>1, EntersInv
  <2>2. CASE call[h].base # NoIntent /\ Enter(h, "restoring")
    BY <1>1, <1>2, <1>4, <2>2, EntersInv
  <2> QED
    BY <2>1, <2>2 DEF SavePrevious, Undo
<1> QED
  BY <1>3, <1>5 DEF IntentInv, IntentTypeOK, Calls

\* the write of the new intent,
LEMMA WriteActiveInv == ASSUME IntentInv, NEW h \in Handlers, WriteActive(h) PROVE IntentInv'
<1>1. call[h].stage = "active" /\ call[h] # Over
  BY OverIsCall DEF WriteActive
<1>2. PICK c : InCluster(c)
  BY DEF IntentInv, ClusterInv
<1>3. UNCHANGED <<environment, rendered, running, orderly, troubled, ends>>
  BY DEF WriteActive, faults
<1>4. PICK out \in Outcomes(h, active) :
        active' = out[1] /\ IF out[2] THEN Enter(h, "rendered") ELSE Undo(h)
  BY DEF WriteActive
<1>5. /\ out[1] \in Intents \cup {NoIntent, Torn} /\ out[2] \in BOOLEAN
      /\ out[1] \in Intents => ClusterOf[out[1]] = c
      /\ out[1] = NoIntent => active = NoIntent
      /\ h = Boot /\ out[2] => out[1] \in Intents
  <2>1. call[h].stage \in Writing
    BY <1>1 DEF Writing
  <2>2. active \in Intents \cup {NoIntent, Torn} /\ (active \in Intents => ClusterOf[active] = c)
    BY <1>2 DEF IntentInv, IntentTypeOK, InCluster
  <2> QED
    BY <1>2, <2>1, <2>2, Written
<1>6. FilesStay(c)
  BY <1>2, <1>3, <1>4, <1>5 DEF FilesStay, InCluster, IntentInv, FilesInv
<1>7. /\ CallsInv' /\ FilesInv' /\ ClusterInv'
      /\ call' \in [Handlers -> Calls] /\ mixed' \subseteq Handlers
  <2>1. CASE out[2] /\ Enter(h, "rendered")
    <3>1. h = Boot => active' # NoIntent
      BY <1>4, <1>5, <2>1, IntentAssumption DEF IntentAssumption
    <3> QED
      BY <1>1, <1>2, <1>6, <2>1, <3>1, EntersInv
  <2>2. CASE Finish(h)
    BY <1>1, <1>2, <1>6, <2>2, EndsInv
  <2>3. CASE call[h].base # NoIntent /\ Enter(h, "restoring")
    BY <1>1, <1>2, <1>6, <2>3, EntersInv
  <2> QED
    BY <1>4, <2>1, <2>2, <2>3 DEF Undo
<1> QED
  BY <1>3, <1>4, <1>5, <1>7 DEF IntentInv, IntentTypeOK, Calls

\* the write of its rendering,
LEMMA WriteRenderedInv == ASSUME IntentInv, NEW h \in Handlers, WriteRendered(h) PROVE IntentInv'
<1>1. call[h].stage = "rendered" /\ call[h] # Over
  BY OverIsCall DEF WriteRendered
<1>2. PICK c : InCluster(c)
  BY DEF IntentInv, ClusterInv
<1>3. UNCHANGED <<environment, active, running, orderly, troubled, ends>>
  BY DEF WriteRendered, faults
<1>4. PICK out \in Outcomes(h, rendered) :
        rendered' = out[1] /\ IF out[2] THEN Enter(h, "acting") ELSE Undo(h)
  BY DEF WriteRendered
<1>5. /\ out[1] \in Intents \cup {NoIntent, Torn} /\ out[2] \in BOOLEAN
      /\ out[1] \in Intents => ClusterOf[out[1]] = c
      /\ out[1] = NoIntent => rendered = NoIntent
      /\ h = Boot /\ out[2] => out[1] \in Intents
  <2>1. call[h].stage \in Writing
    BY <1>1 DEF Writing
  <2>2. rendered \in Intents \cup {NoIntent, Torn} /\ (rendered \in Intents => ClusterOf[rendered] = c)
    BY <1>2 DEF IntentInv, IntentTypeOK, InCluster
  <2> QED
    BY <1>2, <2>1, <2>2, Written
\* The active intent was written before.
<1>6. active # NoIntent
  BY <1>1 DEF IntentInv, CallsInv, FilesInv, Handlers
<1>7. FilesStay(c)
  BY <1>2, <1>3, <1>4, <1>5, <1>6 DEF FilesStay, InCluster
<1>8. /\ CallsInv' /\ FilesInv' /\ ClusterInv'
      /\ call' \in [Handlers -> Calls] /\ mixed' \subseteq Handlers
  <2>1. CASE out[2] /\ Enter(h, "acting")
    <3>1. h = Boot => rendered' # NoIntent
      BY <1>4, <1>5, <2>1, IntentAssumption DEF IntentAssumption
    <3> QED
      BY <1>1, <1>2, <1>3, <1>6, <1>7, <2>1, <3>1, EntersInv
  <2>2. CASE Finish(h)
    BY <1>1, <1>2, <1>7, <2>2, EndsInv
  <2>3. CASE call[h].base # NoIntent /\ Enter(h, "restoring")
    BY <1>1, <1>2, <1>7, <2>3, EntersInv
  <2> QED
    BY <1>4, <2>1, <2>2, <2>3 DEF Undo
<1> QED
  BY <1>3, <1>4, <1>5, <1>8 DEF IntentInv, IntentTypeOK, Calls

\* and the rollback.
LEMMA RestoreActiveInv == ASSUME IntentInv, NEW h \in Handlers, RestoreActive(h) PROVE IntentInv'
<1>1. call[h].stage = "restoring" /\ call[h] # Over
  BY OverIsCall DEF RestoreActive
<1>2. PICK c : InCluster(c)
  BY DEF IntentInv, ClusterInv
<1>3. UNCHANGED <<environment, rendered, running, orderly, ends>> /\ Finish(h)
  BY DEF RestoreActive
<1>4. PICK out \in Outcomes(h, active) : active' = out[1] /\ troubled' = (troubled \/ ~out[2])
  BY DEF RestoreActive
<1>5. /\ out[1] \in Intents \cup {NoIntent, Torn}
      /\ out[1] \in Intents => ClusterOf[out[1]] = c
      /\ out[1] = NoIntent => active = NoIntent
  <2>1. call[h].stage \in Writing
    BY <1>1 DEF Writing
  <2>2. active \in Intents \cup {NoIntent, Torn} /\ (active \in Intents => ClusterOf[active] = c)
    BY <1>2 DEF IntentInv, IntentTypeOK, InCluster
  <2> QED
    BY <1>2, <2>1, <2>2, Written
<1>6. FilesStay(c)
  BY <1>2, <1>3, <1>4, <1>5 DEF FilesStay, InCluster, IntentInv, FilesInv
<1>7. /\ CallsInv' /\ FilesInv' /\ ClusterInv'
      /\ call' \in [Handlers -> Calls] /\ mixed' \subseteq Handlers
  BY <1>1, <1>2, <1>3, <1>6, EndsInv
<1>8. troubled' \in BOOLEAN
  BY <1>4
<1> QED
  BY <1>3, <1>4, <1>5, <1>7, <1>8 DEF IntentInv, IntentTypeOK, Calls

-----------------------------------------------------------------------------
(* The other steps                                                          *)

\* A step that begins an apply, or the start, or ends one that only planned.
LEMMA PlanChangeInv == ASSUME IntentInv, NEW h \in Handlers, PlanChange(h) PROVE IntentInv'
<1>1. call[h].stage = "planning" /\ call[h] # Over /\ h # Boot
  BY OverIsCall DEF PlanChange, IntentInv, CallsInv
<1>2. PICK c : InCluster(c)
  BY DEF IntentInv, ClusterInv
<1>3. UNCHANGED <<environment, active, rendered, running, orderly, troubled, ends>>
  BY DEF PlanChange, files, faults
<1>4. FilesStay(c)
  BY <1>2, <1>3 DEF FilesStay, InCluster, IntentInv, FilesInv
<1>5. /\ CallsInv' /\ FilesInv' /\ ClusterInv'
      /\ call' \in [Handlers -> Calls] /\ mixed' \subseteq Handlers
  <2> DEFINE d == call[h].desired
             next == [call[h] EXCEPT !.stage = "reading", !.change = Changes(d, Against(active))]
  <2>1. CASE Finish(h)
    BY <1>1, <1>2, <1>4, <2>1, EndsInv
  <2>2. CASE /\ active # Torn /\ ClusterOf[d] = ClusterOf[Against(active)]
             /\ Proceed(h, next)
    <3>1. active \in Intents
      BY <1>1, <2>2 DEF IntentInv, IntentTypeOK, CallsInv, FilesInv, Handlers
    <3>2. ClusterOf[d] = c
      BY <1>2, <2>2, <3>1, IntentAssumption DEF Against, InCluster, IntentAssumption
    <3>3. Changes(d, Against(active)) \in {"restart", "reload", "no-op"}
      BY DEF Changes
    <3>4. /\ next \in Calls /\ CallOK(next) /\ next.stage = "reading"
          /\ next.base = call[h].base /\ next.desired = d
      BY <1>1, <3>3, Places DEF Calls, CallOK
    <3>5. next.base \in Intents => ClusterOf[next.base] = c
      BY <1>2, <3>4 DEF InCluster
    <3>6. Proceed(h, next)
      BY <2>2
    <3> HIDE DEF next, d
    <3> QED
      BY <1>1, <1>2, <1>4, <3>2, <3>4, <3>5, <3>6, GoesOnInv DEF FilesStay
  <2> QED
    BY <2>1, <2>2 DEF PlanChange
<1> QED
  BY <1>3, <1>5 DEF IntentInv, IntentTypeOK, Calls

\* An apply that is asked for: it holds nothing but its intent.
LEMMA RequestApplyInv ==
  ASSUME IntentInv, NEW h \in Applies, NEW d \in Intents, RequestApply(h, d) PROVE IntentInv'
<1> DEFINE next == [Over EXCEPT !.stage = "planning", !.desired = d]
<1>1. Proceed(h, next) /\ running # NoIntent
  BY DEF RequestApply
<1>2. UNCHANGED <<environment, active, rendered, running, orderly, troubled, ends>>
  BY DEF RequestApply, files, faults
<1>3. /\ next \in Calls /\ CallOK(next) /\ next.stage = "planning" /\ next.base = NoIntent
      /\ next # Over
  BY OverIsCall DEF Calls, CallOK, Over
<1>4. h \in Handlers /\ h # Boot /\ Handlers = Applies \cup {Boot}
  BY IntentAssumption DEF IntentAssumption, Handlers
<1>5. call \in [Handlers -> Calls] /\ IntentTypeOK /\ CallsInv /\ call[Boot] = Over
  BY <1>1 DEF IntentInv, IntentTypeOK, CallsInv, Calls
<1> HIDE DEF next
<1>6. /\ call' = [call EXCEPT ![h] = next] /\ call' \in [Handlers -> Calls]
      /\ mixed' \subseteq Handlers /\ \A g \in mixed' : call'[g].stage \in Writing
  BY <1>1, <1>3, <1>4, <1>5, ProceedMixes
<1>7. Boot \notin mixed'
  BY <1>1, <1>3, <1>4, <1>5, BootAlone
<1>8. call'[Boot] = call[Boot]
  BY <1>4, <1>5, <1>6
<1>9. CallsInv'
  <2>1. ASSUME NEW g \in Handlers PROVE CallOK(call'[g])
    BY <1>3, <1>5, <1>6 DEF CallsInv
  <2> QED
    BY <1>1, <1>2, <1>5, <1>6, <1>7, <1>8, <2>1 DEF CallsInv, CallOK, Over
<1>10. FilesInv'
  BY <1>2, <1>8 DEF IntentInv, FilesInv
<1>11. ClusterInv'
  <2>1. PICK c : InCluster(c)
    BY DEF IntentInv, ClusterInv
  <2>2. NoIntent \notin Intents
    BY IntentAssumption DEF IntentAssumption
  <2>3. ASSUME NEW g \in Handlers
        PROVE  /\ call'[g].base \in Intents => ClusterOf[call'[g].base] = c
               /\ call'[g].stage \notin {"idle", "planning"} => ClusterOf[call'[g].desired] = c
    BY <1>3, <1>5, <1>6, <2>1, <2>2 DEF InCluster
  <2> QED
    BY <1>2, <2>1, <2>3 DEF InCluster, ClusterInv
<1> QED
  BY <1>2, <1>6, <1>9, <1>10, <1>11 DEF IntentInv, IntentTypeOK, Calls

\* The start: there is nothing of another cluster, or it applies what there is.
LEMMA BootAppliesInv == ASSUME IntentInv, BootApplies PROVE IntentInv'
<1> DEFINE next == [Over EXCEPT !.stage = "reading", !.desired = Against(active)]
<1>1. Proceed(Boot, next) /\ running = NoIntent /\ NoneUnderWay /\ active # Torn
  BY DEF BootApplies
<1>2. UNCHANGED <<environment, active, rendered, running, orderly, troubled, ends>>
  BY DEF BootApplies, files, faults
<1>3. /\ Boot \in Handlers /\ Boot \notin Applies /\ Handlers = Applies \cup {Boot}
      /\ NoIntent \notin Intents /\ Torn \notin Intents /\ NoIntent # Torn
  BY IntentAssumption DEF IntentAssumption, Handlers
<1>4. /\ call \in [Handlers -> Calls] /\ IntentTypeOK /\ CallsInv /\ FilesInv
      /\ \A g \in Handlers : call[g] = Over
  BY <1>1 DEF IntentInv, IntentTypeOK, Calls, NoneUnderWay
<1>5. Against(active) \in Intents
  BY <1>1, <1>3 DEF IntentInv, IntentTypeOK, Against
<1>6. /\ next \in Calls /\ CallOK(next) /\ next.stage = "reading" /\ next.base = NoIntent
      /\ next.desired = Against(active)
  BY <1>5, OverIsCall DEF Calls, CallOK, Over
<1> HIDE DEF next
<1>7. /\ call' = [call EXCEPT ![Boot] = next] /\ call' \in [Handlers -> Calls]
      /\ mixed' \subseteq Handlers /\ \A g \in mixed' : call'[g].stage \in Writing
  BY <1>1, <1>3, <1>4, <1>6, ProceedMixes
<1>8. Boot \notin mixed'
  BY <1>1, <1>3, <1>4, <1>6, BootAlone
<1>9. call'[Boot] = next /\ \A g \in Applies : call'[g] = Over
  BY <1>3, <1>4, <1>7
<1>10. CallsInv'
  <2>1. \A g \in Handlers : CallOK(call'[g])
    BY <1>3, <1>6, <1>9, OverIsCall
  <2> QED
    BY <1>1, <1>2, <1>6, <1>7, <1>8, <1>9, <2>1 DEF CallsInv, CallOK, Over
<1>11. FilesInv'
  BY <1>2, <1>4, <1>6, <1>9 DEF FilesInv, Against
<1>12. ClusterInv'
  <2>1. \E c : /\ ClusterOf[Against(active)] = c
               /\ \A i \in {active, rendered, running} : i \in Intents => ClusterOf[i] = c
    <3>1. CASE active = NoIntent
      BY <1>1, <1>3, <1>4, <3>1 DEF FilesInv
    <3>2. CASE active # NoIntent
      <4>1. PICK c : InCluster(c)
        BY DEF IntentInv, ClusterInv
      <4>2. Against(active) = active /\ active \in Intents
        BY <1>5, <3>2 DEF Against
      <4> QED
        BY <4>1, <4>2 DEF InCluster
    <3> QED
      BY <3>1, <3>2
  <2>2. PICK c : /\ ClusterOf[Against(active)] = c
                 /\ \A i \in {active, rendered, running} : i \in Intents => ClusterOf[i] = c
    BY <2>1
  <2>3. ASSUME NEW g \in Handlers
        PROVE  /\ call'[g].base \in Intents => ClusterOf[call'[g].base] = c
               /\ call'[g].stage \notin {"idle", "planning"} => ClusterOf[call'[g].desired] = c
    BY <1>3, <1>6, <1>9, <2>2, OverIsCall
  <2> QED
    BY <1>2, <2>2, <2>3 DEF InCluster, ClusterInv
<1> QED
  BY <1>2, <1>7, <1>10, <1>11, <1>12 DEF IntentInv, IntentTypeOK, Calls

\* mariadbd reads mariadb.cnf at the end of an apply or of the start, or goes
\* on as it is.
LEMMA RunsInv ==
  ASSUME IntentInv, NEW h \in Handlers, call[h] # Over, Finish(h),
         active # NoIntent, rendered # NoIntent,
         running' \in {running, rendered}, running' # NoIntent,
         UNCHANGED <<environment, active, rendered>>
  PROVE  /\ CallsInv' /\ FilesInv' /\ ClusterInv'
         /\ call' \in [Handlers -> Calls] /\ mixed' \subseteq Handlers
<1>1. Proceed(h, Over) /\ IntentTypeOK /\ CallsInv /\ FilesInv /\ call \in [Handlers -> Calls]
  BY DEF Finish, IntentInv, IntentTypeOK, Calls
<1>2. /\ call' = [call EXCEPT ![h] = Over] /\ call' \in [Handlers -> Calls]
      /\ mixed' \subseteq Handlers /\ \A g \in mixed' : call'[g].stage \in Writing
  BY <1>1, ProceedMixes, OverIsCall
<1>3. /\ Boot \in Handlers /\ Boot \notin Applies /\ Handlers = Applies \cup {Boot}
      /\ NoIntent \notin Intents
  BY IntentAssumption DEF IntentAssumption, Handlers
<1>4. (h = Boot => \A g \in Applies : call[g] = Over) /\ (h # Boot => call[Boot] = Over)
  BY <1>1, <1>3 DEF CallsInv
<1>5. call'[Boot] = Over /\ \A g \in Handlers : call'[g] = call[g] \/ call'[g] = Over
  BY <1>1, <1>2, <1>3, <1>4
<1>6. CallsInv'
  <2>1. Boot \notin mixed'
    BY <1>1, <1>4, OverIsCall, BootAlone
  <2>2. \A g \in Handlers : CallOK(call'[g])
    BY <1>1, <1>5, OverIsCall DEF CallsInv
  <2> QED
    BY <1>2, <1>5, <2>1, <2>2, OverIsCall DEF CallsInv, CallOK, Over
<1>7. FilesInv'
  BY <1>5, OverIsCall DEF FilesInv
<1>8. ClusterInv'
  <2>1. PICK c : InCluster(c)
    BY DEF IntentInv, ClusterInv
  <2>2. ASSUME NEW g \in Handlers
        PROVE  /\ call'[g].base \in Intents => ClusterOf[call'[g].base] = c
               /\ call'[g].stage \notin {"idle", "planning"} => ClusterOf[call'[g].desired] = c
    BY <1>3, <1>5, <2>1, OverIsCall DEF InCluster
  <2>3. \A i \in {active', rendered', running'} : i \in Intents => ClusterOf[i] = c
    BY <2>1 DEF InCluster
  <2> QED
    BY <2>2, <2>3 DEF InCluster, ClusterInv
<1> QED
  BY <1>2, <1>6, <1>7, <1>8

\* The reload or restart of mariadbd that follows preserves the invariant.
LEMMA ActInv == ASSUME IntentInv, NEW h \in Handlers, Act(h) PROVE IntentInv'
<1>1. /\ call[h].stage = "acting" /\ call[h] # Over /\ h # Boot /\ Finish(h)
      /\ UNCHANGED <<environment, active, rendered, orderly, ends>>
      /\ running' \in {running, rendered}
  BY OverIsCall DEF Act, files
<1>2. troubled' \in BOOLEAN
  BY DEF Act, IntentInv, IntentTypeOK
<1>3. running # NoIntent /\ active # NoIntent /\ rendered # NoIntent
  BY <1>1 DEF IntentInv, CallsInv, FilesInv, Handlers
<1>4. /\ CallsInv' /\ FilesInv' /\ ClusterInv'
      /\ call' \in [Handlers -> Calls] /\ mixed' \subseteq Handlers
  BY <1>1, <1>3, RunsInv
<1> QED
  BY <1>1, <1>2, <1>4 DEF IntentInv, IntentTypeOK, Calls

\* So does the start of a supervisor, which applies the active intent again,
LEMMA BootStartsInv == ASSUME IntentInv, BootStarts PROVE IntentInv'
<1>1. /\ call[Boot].stage = "acting" /\ call[Boot] # Over /\ Finish(Boot)
      /\ UNCHANGED <<environment, active, rendered, orderly, troubled, ends>>
      /\ running' = rendered /\ Boot \in Handlers
  BY OverIsCall DEF BootStarts, files, faults, Handlers
<1>2. active # NoIntent /\ rendered # NoIntent
  BY <1>1 DEF IntentInv, FilesInv
<1>3. /\ CallsInv' /\ FilesInv' /\ ClusterInv'
      /\ call' \in [Handlers -> Calls] /\ mixed' \subseteq Handlers
  BY <1>1, <1>2, RunsInv
<1> QED
  BY <1>1, <1>3 DEF IntentInv, IntentTypeOK, Calls

\* the start of mariadbd,
LEMMA RespawnInv == ASSUME IntentInv, Respawn PROVE IntentInv'
<1>1. /\ UNCHANGED <<environment, active, rendered, call, mixed, orderly, troubled, ends>>
      /\ running' = rendered /\ running # NoIntent
  BY DEF Respawn, files, applies, faults
<1>2. running' # NoIntent
  BY <1>1 DEF IntentInv, FilesInv
<1>3. CallsInv' /\ FilesInv'
  BY <1>1, <1>2 DEF IntentInv, CallsInv, FilesInv, CallOK, Over
<1>4. ClusterInv'
  BY <1>1 DEF IntentInv, ClusterInv, InCluster
<1> QED
  BY <1>1, <1>3, <1>4 DEF IntentInv, IntentTypeOK

\* and the end of the supervisor, wherever its applies are.
LEMMA EndSupervisorInv == ASSUME IntentInv, EndSupervisor PROVE IntentInv'
<1>1. /\ UNCHANGED <<active, rendered, orderly, troubled>> /\ environment' \in Intents
      /\ running' = NoIntent /\ mixed' = {} /\ ends' = ends - 1 /\ ends > 0
      /\ call' = [h \in Handlers |-> Over]
  BY DEF EndSupervisor, files, faults
<1>2. Boot \in Handlers /\ NoIntent \notin Intents /\ Applies \subseteq Handlers
  BY IntentAssumption DEF IntentAssumption, Handlers
<1>3. CallsInv' /\ FilesInv'
  BY <1>1, <1>2, OverIsCall DEF IntentInv, CallsInv, FilesInv, CallOK, Over
<1>4. ClusterInv'
  <2>1. PICK c : InCluster(c)
    BY DEF IntentInv, ClusterInv
  <2> QED
    BY <1>1, <1>2, <2>1, OverIsCall DEF ClusterInv, InCluster
<1>5. call' \in [Handlers -> Calls] /\ ends' \in 0 .. MaxEnds
  BY <1>1, OverIsCall, IntentAssumption DEF IntentInv, IntentTypeOK, IntentAssumption
<1> QED
  BY <1>1, <1>3, <1>4, <1>5 DEF IntentInv, IntentTypeOK, Calls

-----------------------------------------------------------------------------
(* Theorems                                                                 *)

\* The invariant holds when nothing was ever applied.
LEMMA IntentInitInv == IntentInit => IntentInv
<1> SUFFICES ASSUME IntentInit PROVE IntentInv
  OBVIOUS
<1>1. Boot \in Handlers /\ NoIntent \notin Intents /\ Applies \subseteq Handlers /\ MaxEnds \in Nat
  BY IntentAssumption DEF IntentAssumption, Handlers
<1>2. IntentTypeOK
  <2>1. call \in [Handlers -> Calls] /\ mixed \subseteq Handlers
    BY OverIsCall DEF IntentInit
  <2>2. environment \in Intents /\ {active, rendered, running} \subseteq Intents \cup {NoIntent, Torn}
    BY DEF IntentInit
  <2>3. {orderly, troubled} \subseteq BOOLEAN
    BY DEF IntentInit
  <2>4. ends \in 0 .. MaxEnds
    BY <1>1 DEF IntentInit
  <2> QED
    BY <2>1, <2>2, <2>3, <2>4 DEF IntentTypeOK, Calls
<1>3. CallsInv /\ FilesInv
  BY <1>1, OverIsCall DEF IntentInit, CallsInv, FilesInv, CallOK, Over
<1>4. ClusterInv
  BY <1>1, OverIsCall DEF IntentInit, ClusterInv, InCluster
<1> QED
  BY <1>2, <1>3, <1>4 DEF IntentInv

\* Every step preserves it.
LEMMA IntentStepInv == IntentInv /\ [IntentNext]_intentVars => IntentInv'
<1> SUFFICES ASSUME IntentInv, [IntentNext]_intentVars PROVE IntentInv'
  OBVIOUS
<1>1. CASE UNCHANGED intentVars
  <2>1. UNCHANGED <<environment, active, rendered, running, call, mixed, orderly, troubled, ends>>
    BY <1>1 DEF intentVars, files, applies, faults
  <2>2. IntentTypeOK'
    BY <2>1 DEF IntentInv, IntentTypeOK
  <2>3. CallsInv' /\ FilesInv'
    BY <2>1 DEF IntentInv, CallsInv, FilesInv, CallOK, Over
  <2>4. ClusterInv'
    BY <2>1 DEF IntentInv, ClusterInv, InCluster
  <2> QED
    BY <2>2, <2>3, <2>4 DEF IntentInv
<1> QED
  BY <1>1, RequestApplyInv, PlanChangeInv, ReadBaseInv, SavePreviousInv, WriteActiveInv,
     WriteRenderedInv, RestoreActiveInv, ActInv, BootAppliesInv, BootStartsInv, RespawnInv,
     EndSupervisorInv
     DEF IntentNext

\* For any intents and any number of overlapping applies, failed writes, ends
\* of the supervisor and changes of its environment: what its files hold, what
\* mariadbd runs with and what an accepted apply is about to write is all of
\* one cluster.
THEOREM IntentInvariance == IntentSpec => []IntentInv
  BY IntentInitInv, IntentStepInv, PTL DEF IntentSpec

\* No sequence of applies, restarts and changes of the environment moves a
\* supervisor to another cluster (planIntent).
THEOREM StaysInCluster == IntentSpec => []OneCluster
<1>1. IntentInv => OneCluster
  BY DEF IntentInv, ClusterInv, InCluster, OneCluster
<1> QED
  BY <1>1, IntentInvariance, PTL

-----------------------------------------------------------------------------
(* Applied one at a time                                                    *)

Alone(h) == \A g \in Handlers \ {h} : call[g] = Over

Serving == rendered = active /\ PortOf[running] = PortOf[active]

\* Where an apply that is alone stands: what it was planned against is what is
\* served until the active intent is written, and what a failure leads back to
\* afterwards; the change it makes is the one between the two.
ApplyOK(h) ==
  LET r == call[h]
  IN /\ r.stage \in {"planning", "reading", "previous", "active"} => Serving
     /\ r.stage \in {"previous", "active"} => r.base = active
     /\ r.stage = "reading" => r.change = Changes(r.desired, active)
     /\ r.stage \in {"previous", "active", "rendered", "acting"} =>
          r.change = Changes(r.desired, r.base)
     /\ r.stage \in {"rendered", "restoring"} =>
          rendered = r.base /\ PortOf[running] = PortOf[r.base]
     /\ r.stage \in {"rendered", "acting"} => active = r.desired
     /\ r.stage = "acting" =>
          rendered = r.desired /\ PortOf[running] \in {PortOf[r.base], PortOf[r.desired]}

BootOK ==
  /\ call[Boot].stage \in {"rendered", "acting"} => active = call[Boot].desired
  /\ call[Boot].stage = "acting" => rendered = call[Boot].desired

ServedInv ==
  orderly /\ ~troubled =>
    /\ mixed = {}
    /\ \A h \in Handlers : call[h] # Over => Alone(h)
    /\ running # NoIntent /\ NoneUnderWay => Serving
    /\ \A h \in Applies : call[h] # Over => ApplyOK(h)
    /\ BootOK

\* An apply that is alone stays so, and its writes are its own.
LEMMA StaysAlone ==
  ASSUME IntentTypeOK, mixed = {}, NEW h \in Handlers, Alone(h), NEW next, Proceed(h, next)
  PROVE  mixed' = {} /\ call'[h] = next /\ Alone(h)'
<1> DEFINE meets == {g \in Handlers \ {h} : next.stage \in Writing /\ Path(call[g].stage) = Path(next.stage)}
<1>1. /\ call' = [call EXCEPT ![h] = next]
      /\ mixed' = (mixed \ {h}) \cup meets \cup (IF meets = {} THEN {} ELSE {h})
  BY DEF Proceed
<1>2. meets = {}
  BY OverIsCall DEF Alone, Path, Writing
<1> HIDE DEF meets
<1>3. call \in [Handlers -> Calls]
  BY DEF IntentTypeOK, Calls
<1> QED
  BY <1>1, <1>2, <1>3 DEF Alone

\* What is left to show of a step of the apply h.
LEMMA AloneServes ==
  ASSUME IntentTypeOK, mixed = {}, NEW h \in Handlers, Alone(h), NEW next, Proceed(h, next),
         h # Boot /\ next # Over => ApplyOK(h)',
         h = Boot /\ next # Over => BootOK',
         running' # NoIntent /\ next = Over => Serving'
  PROVE  ServedInv'
<1>1. mixed' = {} /\ call'[h] = next /\ Alone(h)'
  BY StaysAlone
<1>2. Boot \in Handlers /\ Boot \notin Applies /\ Applies \subseteq Handlers
  BY IntentAssumption DEF IntentAssumption, Handlers
<1>3. \A g \in Handlers : g # h => call'[g] = Over
  BY <1>1 DEF Alone
<1>4. \A g \in Handlers : call'[g] # Over => Alone(g)'
  BY <1>1, <1>3 DEF Over
<1>5. (running' # NoIntent /\ NoneUnderWay') => Serving'
  BY <1>1 DEF NoneUnderWay, Over
<1>6. \A g \in Applies : call'[g] # Over => ApplyOK(g)'
  BY <1>1, <1>2, <1>3
<1>7. BootOK'
  BY <1>1, <1>2, <1>3, OverIsCall DEF BootOK
<1> QED
  BY <1>1, <1>4, <1>5, <1>6, <1>7 DEF ServedInv, Over

\* What is known of the apply h under way, and of its calls.
LEMMA UnderWay ==
  ASSUME IntentInv, ServedInv, orderly, ~troubled, NEW h \in Handlers, call[h] # Over
  PROVE  /\ IntentTypeOK /\ mixed = {} /\ Alone(h) /\ BootOK
         /\ h # Boot => /\ h \in Applies /\ ApplyOK(h)
                        /\ running # NoIntent /\ active # NoIntent /\ rendered # NoIntent
         /\ h = Boot => running = NoIntent
         /\ call[h] \in Calls
         /\ \A before : Outcomes(h, before) = {<<Content(h), TRUE>>, <<before, FALSE>>}
<1>1. h # Boot => h \in Applies
  BY DEF Handlers
<1>2. IntentTypeOK /\ mixed = {} /\ call[h] \in Calls
  BY DEF IntentInv, IntentTypeOK, Calls, ServedInv
<1>3. \A before : Outcomes(h, before) = {<<Content(h), TRUE>>, <<before, FALSE>>}
  BY <1>2 DEF Outcomes
<1> QED
  BY <1>1, <1>2, <1>3 DEF IntentInv, CallsInv, FilesInv, ServedInv

\* A write that fails leads back to the intent there was.
LEMMA UndoServes ==
  ASSUME IntentInv, ServedInv, orderly, ~troubled, NEW h \in Handlers, call[h] # Over, Undo(h),
         running' = running,
         h # Boot => rendered' = call[h].base /\ PortOf[running] = PortOf[call[h].base]
                     /\ call[h].base # NoIntent
  PROVE  ServedInv'
<1>1. /\ IntentTypeOK /\ mixed = {} /\ Alone(h) /\ call[h] \in Calls
      /\ h = Boot => running = NoIntent
  BY UnderWay
<1>2. CASE call[h].base = NoIntent /\ Proceed(h, Over)
  BY <1>1, <1>2, AloneServes
<1>3. CASE Proceed(h, [call[h] EXCEPT !.stage = "restoring"])
  <2> DEFINE next == [call[h] EXCEPT !.stage = "restoring"]
  <2>1. next.stage = "restoring" /\ next.base = call[h].base
    BY <1>1 DEF Calls
  <2>2. Proceed(h, next)
    BY <1>3
  <2> HIDE DEF next
  <2>3. call'[h] = next /\ next # Over
    BY <1>1, <2>1, <2>2, StaysAlone, OverIsCall
  <2>4. h # Boot => ApplyOK(h)'
    BY <2>1, <2>3 DEF ApplyOK
  <2>5. h = Boot => BootOK'
    BY <2>1, <2>3 DEF BootOK
  <2> QED
    BY <1>1, <2>2, <2>3, <2>4, <2>5, AloneServes
<1> QED
  BY <1>2, <1>3 DEF Undo, Finish, Enter

\* The apply h goes on at another place.
LEMMA EnterServes ==
  ASSUME IntentInv, ServedInv, orderly, ~troubled, NEW h \in Handlers, call[h] # Over,
         NEW place \in {"active", "rendered", "acting"}, Enter(h, place),
         \A r \in Calls : (r = [call[h] EXCEPT !.stage = place] /\ call'[h] = r) =>
           /\ h # Boot => ApplyOK(h)'
           /\ h = Boot => BootOK'
  PROVE  ServedInv'
<1> DEFINE next == [call[h] EXCEPT !.stage = place]
<1>1. IntentTypeOK /\ mixed = {} /\ Alone(h) /\ call[h] \in Calls
  BY UnderWay
<1>2. next \in Calls /\ next.stage = place /\ Proceed(h, next)
  BY <1>1 DEF Calls, Writing, Enter
<1>3. next = [call[h] EXCEPT !.stage = place]
  OBVIOUS
<1> HIDE DEF next
<1>4. call'[h] = next /\ next # Over
  BY <1>1, <1>2, StaysAlone, OverIsCall
<1> QED
  BY <1>1, <1>2, <1>3, <1>4, AloneServes

\* Of orderly applies, planning leaves what is served alone.
LEMMA PlanningServes ==
  ASSUME IntentInv, ServedInv, orderly, ~troubled, NEW h \in Handlers,
         PlanChange(h) \/ ReadBase(h)
  PROVE  ServedInv'
<1>1. call[h].stage \in {"planning", "reading"} /\ call[h] # Over
      /\ UNCHANGED <<active, rendered, running>>
  BY OverIsCall DEF PlanChange, ReadBase, files
<1>2. /\ IntentTypeOK /\ mixed = {} /\ Alone(h) /\ BootOK /\ call[h] \in Calls
      /\ h # Boot => ApplyOK(h) /\ active # NoIntent
      /\ h = Boot => running = NoIntent
  BY <1>1, UnderWay
<1>3. h # Boot => Serving
  BY <1>1, <1>2 DEF ApplyOK
<1>4. CASE Proceed(h, Over)
  BY <1>1, <1>2, <1>3, <1>4, AloneServes DEF Serving
<1>5. CASE /\ call[h].stage = "planning"
           /\ Proceed(h, [call[h] EXCEPT !.stage = "reading",
                                         !.change = Changes(call[h].desired, Against(active))])
  <2> DEFINE next == [call[h] EXCEPT !.stage = "reading",
                                     !.change = Changes(call[h].desired, Against(active))]
  <2>1. /\ next.stage = "reading" /\ next.desired = call[h].desired
        /\ next.change = Changes(call[h].desired, Against(active))
    BY <1>2 DEF Calls
  <2>2. Proceed(h, next)
    BY <1>5
  <2> HIDE DEF next
  <2>3. call'[h] = next /\ next # Over
    BY <1>2, <2>1, <2>2, StaysAlone, OverIsCall
  <2>4. h # Boot
    BY <1>5 DEF IntentInv, CallsInv
  <2>5. ApplyOK(h)'
    <3>1. Against(active) = active
      BY <1>2, <2>4 DEF Against
    <3>2. Changes(call[h].desired, active) = Changes(call'[h].desired, active')
      BY <1>1, <2>1, <2>3
    <3> QED
      BY <1>1, <1>3, <2>1, <2>3, <2>4, <3>1, <3>2 DEF ApplyOK, Serving, Changes
  <2> QED
    BY <1>2, <2>2, <2>3, <2>4, <2>5, AloneServes
<1>6. CASE /\ call[h].stage = "reading"
           /\ Proceed(h, [call[h] EXCEPT !.stage = "previous", !.base = active])
  <2> DEFINE next == [call[h] EXCEPT !.stage = "previous", !.base = active]
  <2>1. /\ next.stage = "previous" /\ next.desired = call[h].desired
        /\ next.change = call[h].change /\ next.base = active
    BY <1>2 DEF Calls
  <2>2. Proceed(h, next)
    BY <1>6
  <2> HIDE DEF next
  <2>3. call'[h] = next /\ next # Over
    BY <1>2, <2>1, <2>2, StaysAlone, OverIsCall
  <2>4. h # Boot => ApplyOK(h)'
    BY <1>1, <1>2, <1>3, <1>6, <2>1, <2>3 DEF ApplyOK, Serving, Changes
  <2>5. h = Boot => BootOK'
    BY <2>1, <2>3 DEF BootOK
  <2> QED
    BY <1>2, <2>2, <2>3, <2>4, <2>5, AloneServes
<1> QED
  BY <1>4, <1>5, <1>6 DEF PlanChange, ReadBase, Finish

\* The writes of an apply leave what is served behind only while it is under way.
LEMMA WritingServes ==
  ASSUME IntentInv, ServedInv, orderly, ~troubled, NEW h \in Handlers,
         SavePrevious(h) \/ WriteActive(h) \/ WriteRendered(h)
  PROVE  ServedInv'
<1>1. call[h].stage \in {"previous", "active", "rendered"} /\ call[h] # Over /\ running' = running
  BY OverIsCall DEF SavePrevious, WriteActive, WriteRendered
<1>2. /\ IntentTypeOK /\ BootOK /\ call[h] \in Calls
      /\ h # Boot => ApplyOK(h) /\ active # NoIntent /\ rendered # NoIntent
      /\ h = Boot => running = NoIntent
      /\ \A before : Outcomes(h, before) = {<<Content(h), TRUE>>, <<before, FALSE>>}
  BY <1>1, UnderWay
<1>3. Content(h) = call[h].desired
  BY <1>1 DEF Content
\* The base of an apply is there, and its port is served.
<1>4. h # Boot => rendered = call[h].base /\ PortOf[running] = PortOf[call[h].base]
                  /\ call[h].base # NoIntent
  BY <1>1, <1>2 DEF ApplyOK, Serving
<1>5. CASE SavePrevious(h)
  <2>1. UNCHANGED <<active, rendered>> /\ call[h].stage = "previous"
    BY <1>5 DEF SavePrevious, files
  <2>2. CASE Enter(h, "active")
    <3>1. ASSUME NEW r \in Calls, r = [call[h] EXCEPT !.stage = "active"], call'[h] = r
          PROVE  (h # Boot => ApplyOK(h)') /\ (h = Boot => BootOK')
      <4>1. r.stage = "active" /\ r.base = call[h].base /\ r.desired = call[h].desired
            /\ r.change = call[h].change
        BY <1>2, <3>1 DEF Calls
      <4>2. /\ call'[h] = r /\ active' = active /\ rendered' = rendered /\ running' = running
        BY <1>1, <2>1, <3>1
      <4>3. h # Boot => /\ rendered = active /\ PortOf[running] = PortOf[active]
                        /\ call[h].base = active
                        /\ call[h].change = Changes(call[h].desired, call[h].base)
        BY <1>2, <2>1 DEF ApplyOK, Serving
      <4>4. h # Boot => ApplyOK(h)'
        BY <4>1, <4>2, <4>3 DEF ApplyOK, Serving
      <4> QED
        BY <4>1, <4>2, <4>4 DEF BootOK
    <3> QED
      BY <1>1, <2>2, <3>1, EnterServes
  <2>3. CASE Undo(h)
    BY <1>1, <1>4, <2>1, <2>3, UndoServes
  <2> QED
    BY <1>5, <2>2, <2>3 DEF SavePrevious
<1>6. CASE WriteActive(h)
  <2>1. PICK out \in Outcomes(h, active) :
          active' = out[1] /\ IF out[2] THEN Enter(h, "rendered") ELSE Undo(h)
    BY <1>6 DEF WriteActive
  <2>2. rendered' = rendered /\ call[h].stage = "active"
    BY <1>6 DEF WriteActive
  <2>3. CASE out = <<Content(h), TRUE>>
    <3>1. active' = call[h].desired /\ Enter(h, "rendered")
      BY <1>3, <2>1, <2>3
    <3>2. ASSUME NEW r \in Calls, r = [call[h] EXCEPT !.stage = "rendered"], call'[h] = r
          PROVE  (h # Boot => ApplyOK(h)') /\ (h = Boot => BootOK')
      <4>1. r.stage = "rendered" /\ r.base = call[h].base /\ r.desired = call[h].desired
            /\ r.change = call[h].change
        BY <1>2, <3>2 DEF Calls
      <4>2. /\ call'[h] = r /\ active' = call[h].desired /\ rendered' = rendered
            /\ running' = running
        BY <1>1, <2>2, <3>1, <3>2
      <4>3. h # Boot => call[h].change = Changes(call[h].desired, call[h].base)
        BY <1>2, <2>2 DEF ApplyOK
      <4>4. h # Boot => ApplyOK(h)'
        BY <1>4, <4>1, <4>2, <4>3 DEF ApplyOK
      <4> QED
        BY <4>1, <4>2, <4>4 DEF BootOK
    <3> QED
      BY <1>1, <3>1, <3>2, EnterServes
  <2>4. CASE out = <<active, FALSE>>
    BY <1>1, <1>4, <2>1, <2>2, <2>4, UndoServes
  <2> QED
    BY <1>2, <2>1, <2>3, <2>4
<1>7. CASE WriteRendered(h)
  <2>1. PICK out \in Outcomes(h, rendered) :
          rendered' = out[1] /\ IF out[2] THEN Enter(h, "acting") ELSE Undo(h)
    BY <1>7 DEF WriteRendered
  <2>2. active' = active /\ call[h].stage = "rendered"
    BY <1>7 DEF WriteRendered
  <2>3. CASE out = <<Content(h), TRUE>>
    <3>1. rendered' = call[h].desired /\ Enter(h, "acting")
      BY <1>3, <2>1, <2>3
    <3>2. ASSUME NEW r \in Calls, r = [call[h] EXCEPT !.stage = "acting"], call'[h] = r
          PROVE  (h # Boot => ApplyOK(h)') /\ (h = Boot => BootOK')
      <4>1. r.stage = "acting" /\ r.base = call[h].base /\ r.desired = call[h].desired
            /\ r.change = call[h].change
        BY <1>2, <3>2 DEF Calls
      <4>2. /\ call'[h] = r /\ active' = active /\ rendered' = call[h].desired
            /\ running' = running
        BY <1>1, <2>2, <3>1, <3>2
      <4>3. h # Boot => /\ active = call[h].desired
                        /\ PortOf[running] = PortOf[call[h].base]
                        /\ call[h].change = Changes(call[h].desired, call[h].base)
        BY <1>2, <1>4, <2>2 DEF ApplyOK
      <4>4. h # Boot => ApplyOK(h)'
        BY <4>1, <4>2, <4>3 DEF ApplyOK
      <4>5. h = Boot => active = call[h].desired
        BY <1>2, <2>2 DEF BootOK
      <4> QED
        BY <4>1, <4>2, <4>4, <4>5 DEF BootOK
    <3> QED
      BY <1>1, <3>1, <3>2, EnterServes
  <2>4. CASE out = <<rendered, FALSE>>
    BY <1>1, <1>4, <2>1, <2>2, <2>4, UndoServes
  <2> QED
    BY <1>2, <2>1, <2>3, <2>4
<1> QED
  BY <1>5, <1>6, <1>7

\* A rollback ends with the intent that is still served.
LEMMA RestoringServes ==
  ASSUME IntentInv, ServedInv, orderly, ~troubled, NEW h \in Handlers, RestoreActive(h)
  PROVE  ServedInv'
<1>1. call[h].stage = "restoring" /\ call[h] # Over /\ rendered' = rendered /\ running' = running
      /\ orderly' = orderly /\ Proceed(h, Over)
  BY OverIsCall DEF RestoreActive, Finish
<1>2. /\ IntentTypeOK /\ mixed = {} /\ Alone(h) /\ call[h] \in Calls
      /\ h # Boot => ApplyOK(h)
      /\ h = Boot => running = NoIntent
      /\ \A before : Outcomes(h, before) = {<<Content(h), TRUE>>, <<before, FALSE>>}
  BY <1>1, UnderWay
<1>3. Content(h) = call[h].base
  BY <1>1 DEF Content
<1>4. PICK out \in Outcomes(h, active) : active' = out[1] /\ troubled' = (troubled \/ ~out[2])
  BY DEF RestoreActive
<1>5. CASE out = <<Content(h), TRUE>>
  <2>1. active' = call[h].base
    BY <1>3, <1>4, <1>5
  <2>2. h # Boot => rendered = call[h].base /\ PortOf[running] = PortOf[call[h].base]
    BY <1>1, <1>2 DEF ApplyOK
  <2>3. running' # NoIntent => Serving'
    BY <1>1, <1>2, <2>1, <2>2 DEF Serving
  <2> QED
    BY <1>1, <1>2, <2>3, AloneServes
<1>6. CASE out = <<active, FALSE>>
  BY <1>4, <1>6 DEF ServedInv
<1> QED
  BY <1>2, <1>4, <1>5, <1>6

\* mariadbd listens to the port of the intent applied: it is restarted when
\* the port changes.
LEMMA ActingServes ==
  ASSUME IntentInv, ServedInv, orderly, ~troubled, NEW h \in Handlers, Act(h)
  PROVE  ServedInv'
<1>1. /\ call[h].stage = "acting" /\ call[h] # Over /\ h # Boot /\ Proceed(h, Over)
      /\ active' = active /\ rendered' = rendered
  BY OverIsCall DEF Act, Finish, files
<1>2. /\ IntentTypeOK /\ mixed = {} /\ Alone(h) /\ ApplyOK(h)
  BY <1>1, UnderWay
<1>3. /\ active = call[h].desired /\ rendered = call[h].desired
      /\ call[h].change = Changes(call[h].desired, call[h].base)
      /\ PortOf[running] \in {PortOf[call[h].base], PortOf[call[h].desired]}
  BY <1>1, <1>2 DEF ApplyOK
<1>4. CASE troubled'
  BY <1>4 DEF ServedInv
<1>5. CASE ~troubled'
  <2>1. call[h].change = "restart" => running' = rendered
    BY <1>5 DEF Act
  <2>2. call[h].change # "restart" => running' = running
    BY DEF Act
  <2>3. call[h].change # "restart" => PortOf[call[h].base] = PortOf[call[h].desired]
    BY <1>3 DEF Changes
  <2>4. PortOf[running'] = PortOf[call[h].desired]
    <3>1. CASE call[h].change = "restart"
      BY <1>3, <2>1, <3>1
    <3>2. CASE call[h].change # "restart"
      BY <1>3, <2>2, <2>3, <3>2
    <3> QED
      BY <3>1, <3>2
  <2>5. Serving'
    BY <1>1, <1>3, <2>4 DEF Serving
  <2> QED
    BY <1>1, <1>2, <2>5, AloneServes
<1> QED
  BY <1>4, <1>5

\* A request that comes when no other is under way finds the files served.
LEMMA RequestServes ==
  ASSUME IntentInv, ServedInv, orderly, ~troubled, NEW h \in Applies, NEW d \in Intents,
         RequestApply(h, d)
  PROVE  ServedInv'
<1> DEFINE next == [Over EXCEPT !.stage = "planning", !.desired = d]
<1>1. /\ running # NoIntent /\ NoneUnderWay /\ Proceed(h, next)
      /\ UNCHANGED <<active, rendered, running>>
  BY DEF RequestApply, files
<1>2. next.stage = "planning"
  BY DEF Over
<1> HIDE DEF next
<1>3. h \in Handlers /\ h # Boot
  BY IntentAssumption DEF IntentAssumption, Handlers
<1>4. IntentTypeOK /\ mixed = {} /\ Alone(h) /\ Serving
  BY <1>1 DEF IntentInv, ServedInv, Alone, NoneUnderWay
<1>5. call'[h] = next /\ next # Over
  BY <1>1, <1>2, <1>3, <1>4, StaysAlone, OverIsCall
<1>6. ApplyOK(h)'
  BY <1>1, <1>2, <1>4, <1>5 DEF ApplyOK, Serving
<1> QED
  BY <1>1, <1>3, <1>4, <1>5, <1>6, AloneServes

\* The apply of the start renders the active intent, and mariadbd reads it.
LEMMA StartingServes ==
  ASSUME IntentInv, ServedInv, orderly, ~troubled, BootApplies \/ BootStarts
  PROVE  ServedInv'
<1>1. Boot \in Handlers
  BY DEF Handlers
<1>2. CASE BootApplies
  <2> DEFINE next == [Over EXCEPT !.stage = "reading", !.desired = Against(active)]
  <2>1. running = NoIntent /\ running' = running /\ NoneUnderWay /\ Proceed(Boot, next)
    BY <1>2 DEF BootApplies
  <2>2. next.stage = "reading"
    BY DEF Over
  <2> HIDE DEF next
  <2>3. IntentTypeOK /\ mixed = {} /\ Alone(Boot)
    BY <1>1, <2>1 DEF IntentInv, ServedInv, Alone, NoneUnderWay
  <2>4. call'[Boot] = next /\ next # Over
    BY <1>1, <2>1, <2>2, <2>3, StaysAlone, OverIsCall
  <2>5. BootOK'
    BY <2>2, <2>4 DEF BootOK
  <2> QED
    BY <1>1, <2>1, <2>3, <2>4, <2>5, AloneServes
<1>3. CASE BootStarts
  <2>1. /\ call[Boot].stage = "acting" /\ running' = rendered /\ Proceed(Boot, Over)
        /\ active' = active /\ rendered' = rendered
    BY <1>3 DEF BootStarts, Finish, files
  <2>2. call[Boot] # Over
    BY <2>1, OverIsCall
  <2>3. IntentTypeOK /\ mixed = {} /\ Alone(Boot) /\ BootOK
    BY <1>1, <2>2, UnderWay
  <2>4. Serving'
    BY <2>1, <2>3 DEF BootOK, Serving
  <2> QED
    BY <1>1, <2>1, <2>3, <2>4, AloneServes
<1> QED
  BY <1>2, <1>3

\* mariadbd reads mariadb.cnf again at any time, also while an apply that has
\* written it has not yet acted.
LEMMA RespawnServes ==
  ASSUME IntentInv, ServedInv, orderly, ~troubled, Respawn
  PROVE  ServedInv'
<1>1. /\ running # NoIntent /\ running' = rendered
      /\ UNCHANGED <<active, rendered, call, mixed>>
  BY DEF Respawn, files, applies
<1>2. NoneUnderWay' => Serving'
  BY <1>1 DEF ServedInv, NoneUnderWay, Serving
<1>3. ASSUME NEW h \in Applies, call[h] # Over PROVE ApplyOK(h)'
  <2>1. ApplyOK(h)
    BY <1>3 DEF ServedInv
  <2>2. call' = call
    BY <1>1
  <2> QED
    BY <1>1, <2>1, <2>2 DEF ApplyOK, Serving
<1>4. \A h \in Handlers : call[h] # Over => Alone(h)'
  BY <1>1 DEF ServedInv, Alone
<1>5. mixed' = {} /\ BootOK'
  BY <1>1 DEF ServedInv, BootOK
<1>6. call' = call
  BY <1>1
<1> QED
  BY <1>2, <1>3, <1>4, <1>5, <1>6 DEF ServedInv, Over

\* After the end of a supervisor nothing is served, and the next start applies the files.
LEMMA EndServes ==
  ASSUME EndSupervisor
  PROVE  ServedInv'
<1>1. running' = NoIntent /\ mixed' = {} /\ \A h \in Handlers : call'[h] = Over
  BY DEF EndSupervisor
<1>2. Over.stage = "idle" /\ Over' = Over
  BY DEF Over
<1>3. Boot \in Handlers /\ Applies \subseteq Handlers
  BY DEF Handlers
<1> QED
  BY <1>1, <1>2, <1>3 DEF ServedInv, BootOK

\* Whatever order intents are applied in one at a time, and wherever an apply
\* or the supervisor ends, mariadb.cnf renders the active intent and mariadbd
\* listens to its port (state.mjs, apply; intent-application.mjs).
THEOREM AppliedIsServed == IntentSpec => []ActiveIsServed
<1>1. IntentInit => ServedInv
  <2>1. SUFFICES ASSUME IntentInit PROVE ServedInv
    OBVIOUS
  <2>2. running = NoIntent /\ mixed = {} /\ \A h \in Handlers : call[h] = Over
    BY <2>1 DEF IntentInit
  <2>3. Boot \in Handlers /\ Applies \subseteq Handlers
    BY DEF Handlers
  <2> QED
    BY <2>2, <2>3 DEF ServedInv, BootOK, Over
<1>2. IntentInv /\ ServedInv /\ [IntentNext]_intentVars => ServedInv'
  <2>1. SUFFICES ASSUME IntentInv, ServedInv, [IntentNext]_intentVars PROVE ServedInv'
    OBVIOUS
  <2>2. CASE ~(orderly /\ ~troubled)
    <3>1. CASE UNCHANGED faults
      BY <2>2, <3>1 DEF faults, ServedInv
    <3>2. ASSUME NEW h \in Handlers, RestoreActive(h) PROVE ServedInv'
      <4>1. orderly' = orderly /\ (troubled => troubled')
        BY <3>2 DEF RestoreActive
      <4> QED
        BY <2>2, <4>1 DEF ServedInv
    <3>3. ASSUME NEW h \in Handlers, Act(h) PROVE ServedInv'
      <4>1. orderly' = orderly /\ (troubled => troubled')
        BY <3>3 DEF Act
      <4> QED
        BY <2>2, <4>1 DEF ServedInv
    <3>4. UNCHANGED faults \/ \E h \in Handlers : RestoreActive(h) \/ Act(h)
      BY <2>1 DEF IntentNext, intentVars, RequestApply, PlanChange, ReadBase, SavePrevious,
         WriteActive, WriteRendered, BootApplies, BootStarts, Respawn, EndSupervisor
    <3> QED
      BY <3>1, <3>2, <3>3, <3>4
  <2>3. CASE orderly /\ ~troubled
    <3>1. ASSUME NEW h \in Applies, NEW d \in Intents, RequestApply(h, d) PROVE ServedInv'
      BY <2>1, <2>3, <3>1, RequestServes
    <3>2. ASSUME NEW h \in Handlers, PlanChange(h) \/ ReadBase(h) PROVE ServedInv'
      BY <2>1, <2>3, <3>2, PlanningServes
    <3>3. ASSUME NEW h \in Handlers, SavePrevious(h) \/ WriteActive(h) \/ WriteRendered(h)
          PROVE  ServedInv'
      BY <2>1, <2>3, <3>3, WritingServes
    <3>4. ASSUME NEW h \in Handlers, RestoreActive(h) PROVE ServedInv'
      BY <2>1, <2>3, <3>4, RestoringServes
    <3>5. ASSUME NEW h \in Handlers, Act(h) PROVE ServedInv'
      BY <2>1, <2>3, <3>5, ActingServes
    <3>6. CASE BootApplies \/ BootStarts
      BY <2>1, <2>3, <3>6, StartingServes
    <3>7. CASE Respawn
      BY <2>1, <2>3, <3>7, RespawnServes
    <3>8. CASE EndSupervisor
      BY <3>8, EndServes
    <3>9. CASE UNCHANGED intentVars
      BY <2>1, <3>9 DEF intentVars, files, applies, faults, ServedInv, Alone, Serving,
         NoneUnderWay, ApplyOK, BootOK, Over
    <3> QED
      BY <2>1, <3>1, <3>2, <3>3, <3>4, <3>5, <3>6, <3>7, <3>8, <3>9 DEF IntentNext
  <2> QED
    BY <2>2, <2>3
<1>3. ServedInv => ActiveIsServed
  BY DEF ServedInv, ActiveIsServed, Serving
<1> QED
  BY <1>1, <1>2, <1>3, IntentInvariance, PTL DEF IntentSpec

=============================================================================
