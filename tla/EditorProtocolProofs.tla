------------------------- MODULE EditorProtocolProofs -------------------------
(***************************************************************************)
(* Who serves an editor and what it is told, for any requests, files,      *)
(* mounts and cache bound.                                                 *)
(***************************************************************************)
EXTENDS EditorProtocol, DiagnosticsCacheProofs, FiniteSetTheorems

\* Disposal leaves no generation in service, so a mount finds none.
MountInv ==
  /\ uid \in Nat /\ mounts \in Nat
  /\ DOMAIN server = Generations
  /\ DeadMountsNothing

LEMMA MountStep == MountInv /\ [Next]_vars => MountInv'
<1> SUFFICES ASSUME MountInv, [Next]_vars PROVE MountInv'
  OBVIOUS
<1> USE DEF MountInv, DeadMountsNothing, Generations
<1>1. ASSUME apply PROVE MountInv'
  BY <1>1, BoundsAssumption DEF apply
<1>2. ASSUME dispose PROVE MountInv'
  BY <1>2 DEF dispose
<1>3. ASSUME NEW g \in Generations, resolveServers(g) PROVE MountInv'
  <2>1. server'[g] = "on" => uid = g
    BY <1>3 DEF resolveServers, refusesEntry, registered, mountsStill
  <2> QED
    BY <1>3, <2>1 DEF resolveServers, refusesEntry
<1>4. ASSUME UNCHANGED <<uid, mounts, server>> PROVE MountInv'
  BY <1>4
<1>5. ASSUME NEW g \in Generations, subscribe(g) \/ unsubscribe(g) PROVE MountInv'
  BY <1>4, <1>5 DEF subscribe, unsubscribe
<1>6. ASSUME NEW f \in Files, Observe(f) \/ Edit(f) PROVE MountInv'
  BY <1>4, <1>6 DEF Observe, Edit, mountVars
<1>7. ASSUME NEW r \in Requests, RunStep(r) PROVE MountInv'
  BY <1>4, <1>7 DEF RunStep, readStart, receive, lose, timesOut, readSource, diagnosed, edited, unchanged,
    writeText, recordWrite, fails, mountVars
<1> QED
  BY <1>1, <1>2, <1>3, <1>4, <1>5, <1>6, <1>7, BoundsAssumption DEF Next, vars, mountVars

\* Only the generation of the living fiber serves the editor (index.ts: nothing
\* is registered when the generation changed during the probes).
THEOREM OneGenerationServes == Spec => []DeadMountsNothing
<1>1. Init => MountInv
  BY DEF Init, MountInv, DeadMountsNothing
<1> QED
  BY <1>1, MountStep, PTL DEF Spec, MountInv

-----------------------------------------------------------------------------
(* Outcomes *)

\* Nothing is announced of a request that has not been answered yet.
HeardInv ==
  /\ DOMAIN phase = Requests /\ DOMAIN heard = Requests
  /\ \A r \in Requests : phase[r] \notin Answered => heard[r] = <<>>

\* A request that is not answered by this step has nothing announced by it, and
\* one that was in progress and is answered has heard of it, if it could.
Told ==
  \A r \in Requests :
    /\ phase'[r] \notin Answered => heard'[r] = <<>>
    /\ phase[r] \notin Idle /\ phase'[r] \in Answered /\ subscribed[by[r]]
         => heard'[r] = <<phase'[r]>>

LEMMA EndTells ==
  ASSUME HeardInv, NEW r \in Requests, NEW s \in {"succeeded", "failed"},
         phase[r] \notin Idle, End(r, s)
  PROVE  HeardInv' /\ Told
<1>1. /\ DOMAIN phase' = Requests /\ DOMAIN heard' = Requests
      /\ phase'[r] = s
      /\ heard'[r] = IF subscribed[by[r]] THEN Append(heard[r], s) ELSE heard[r]
      /\ \A q \in Requests \ {r} : phase'[q] = phase[q] /\ heard'[q] = heard[q]
  BY DEF HeardInv, End, ends, Status
<1>2. heard[r] = <<>>
  BY DEF HeardInv, Idle, Answered
<1>3. Append(<<>>, s) = <<s>>
  OBVIOUS
<1>4. s \in Answered
  BY DEF Answered
<1>5. ASSUME NEW q \in Requests \ {r}
      PROVE  /\ phase'[q] \notin Answered => heard'[q] = <<>>
             /\ ~(phase[q] \notin Idle /\ phase'[q] \in Answered)
  BY <1>1 DEF HeardInv, Idle
<1> QED
  BY <1>1, <1>2, <1>3, <1>4, <1>5 DEF HeardInv, Told

LEMMA HeardStep == HeardInv /\ [Next]_vars => HeardInv' /\ Told
<1> SUFFICES ASSUME HeardInv, [Next]_vars PROVE HeardInv' /\ Told
  OBVIOUS
<1>1. ASSUME UNCHANGED <<phase, heard>> PROVE HeardInv' /\ Told
  BY <1>1 DEF HeardInv, Told, Idle
<1>2. ASSUME NEW r \in Requests, receive(r) PROVE HeardInv' /\ Told
  <2>1. phase[r] \in Coming /\ heard[r] = <<>>
    <3>1. phase[r] \in {"unsent", "torn"}
      BY <1>2, Zenon DEF receive, readers
    <3> QED
      BY <3>1 DEF HeardInv, Coming, Answered
  <2>2. PICK p \in Answered \cup {"reading"} : phase' = [phase EXCEPT ![r] = p]
    BY <1>2 DEF receive, Answered
  <2>3. DOMAIN heard' = Requests /\ \A q \in Requests \ {r} : heard'[q] = heard[q]
    BY <1>2 DEF HeardInv, receive, Status
  <2>4. p = "reading" => heard' = heard
    <3>1. phase'[r] = p
      BY <2>2 DEF HeardInv
    <3> QED
      BY <1>2, <3>1, Zenon DEF receive, HeardInv
  <2> QED
    BY <2>1, <2>2, <2>3, <2>4 DEF HeardInv, Told, Idle, Coming, Answered
<1>3. ASSUME NEW r \in Requests, NEW p, p \notin Answered, phase[r] \notin Answered,
             phase' = [phase EXCEPT ![r] = p], UNCHANGED heard
      PROVE  HeardInv' /\ Told
  BY <1>3 DEF HeardInv, Told, Idle
<1>4. ASSUME NEW r \in Requests,
             readSource(r) \/ edited(r) \/ writeText(r) \/ recordWrite(r)
      PROVE  HeardInv' /\ Told
  BY <1>3, <1>4 DEF readSource, edited, writeText, recordWrite, Answered
<1>11. ASSUME NEW r \in Requests, readStart(r) \/ lose(r) PROVE HeardInv' /\ Told
  BY <1>3, <1>11 DEF readStart, lose, Answered
<1>5. ASSUME NEW r \in Requests, diagnosed(r) \/ unchanged(r) PROVE HeardInv' /\ Told
  BY <1>5, EndTells DEF diagnosed, unchanged, Idle, Coming, Answered
<1>6. ASSUME NEW r \in Requests, fails(r) PROVE HeardInv' /\ Told
  BY <1>6, EndTells DEF fails, failsAt, Idle, Coming, Answered
<1>7. ASSUME NEW r \in Requests, timesOut(r) PROVE HeardInv' /\ Told
  BY <1>1, <1>7 DEF timesOut
<1>8. ASSUME apply \/ dispose PROVE HeardInv' /\ Told
  BY <1>1, <1>8 DEF apply, dispose, runVars
<1>9. ASSUME NEW g \in Generations, resolveServers(g) \/ subscribe(g) \/ unsubscribe(g)
      PROVE  HeardInv' /\ Told
  BY <1>1, <1>9 DEF resolveServers, refusesEntry, subscribe, unsubscribe, runVars
<1>10. ASSUME NEW f \in Files, Observe(f) \/ Edit(f) PROVE HeardInv' /\ Told
  BY <1>1, <1>10 DEF Observe, Edit, runVars
<1> QED
  BY <1>1, <1>2, <1>4, <1>5, <1>6, <1>7, <1>8, <1>9, <1>10, <1>11, BoundsAssumption
  DEF Next, RunStep, vars, runVars

\* A subscribed editor hears of every run's end before its response, and once
\* (service.ts: one event per transition of a run), however its requests are
\* interleaved and whatever is mounted, disposed or observed meanwhile.
THEOREM OutcomesAreTold == Spec => OutcomeIsTold
<1>1. Init => HeardInv
  BY DEF Init, HeardInv
<1>2. HeardInv /\ [Next]_vars =>
        [\A r \in Requests :
           phase[r] \notin Idle /\ phase'[r] \in Answered /\ subscribed[by[r]]
             => heard'[r] = <<phase'[r]>>]_vars
  BY HeardStep DEF Told
<1> QED
  BY <1>1, <1>2, HeardStep, PTL DEF Spec, OutcomeIsTold

-----------------------------------------------------------------------------
(* Types *)

\* A run in progress has a generation, and what its phase says it has.
RunInv ==
  \A r \in Requests :
    /\ phase[r] \notin Idle => by[r] \in Generations
    /\ phase[r] \in {"asking", "writing", "wrote"} => read[r] \in Version
    /\ phase[r] = "wrote" => wrote[r] \in Files

TypeInv == TypeOK /\ HeardInv /\ RunInv

LEMMA TypeInit == Init => TypeInv
<1> SUFFICES ASSUME Init PROVE TypeInv
  OBVIOUS
<1> USE DEF Init
<1>1. MountTypeOK
  BY BoundsAssumption DEF MountTypeOK
<1>2. CacheTypeOK
  BY EmptyCache DEF CacheTypeOK
<1>3. RunTypeOK
  BY DEF RunTypeOK, Idle, Coming
<1>4. 0 \in Version
  BY BoundsAssumption DEF Version
<1>5. HeardInv /\ RunInv
  BY DEF HeardInv, RunInv, Idle, Coming
<1> QED
  BY <1>1, <1>2, <1>3, <1>4, <1>5 DEF TypeInv, TypeOK

LEMMA MountTypeStep == TypeInv /\ [Next]_vars => MountTypeOK'
<1> SUFFICES ASSUME TypeInv, [Next]_vars PROVE MountTypeOK'
  OBVIOUS
<1>1. MountTypeOK /\ {MaxMounts, Servers} \subseteq Nat
  BY BoundsAssumption DEF TypeInv, TypeOK
<1> USE DEF MountTypeOK, Generations
<1>2. ASSUME apply PROVE MountTypeOK'
  <2>1. mounts' \in 1..MaxMounts /\ uid' = mounts'
    BY <1>1, <1>2 DEF apply
  <2>2. PICK outcome \in {"probing", "failed"} : server' = [server EXCEPT ![mounts'] = outcome]
    BY <1>2 DEF apply
  <2> QED
    BY <1>1, <1>2, <2>1, <2>2 DEF apply
<1>3. ASSUME dispose PROVE MountTypeOK'
  <2>1. /\ uid' = 0 /\ UNCHANGED <<mounts, resolved>>
        /\ server' = [server EXCEPT ![uid] = IF @ = "on" THEN "off" ELSE @]
        /\ subscribed' = [subscribed EXCEPT ![uid] = FALSE]
    BY <1>3 DEF dispose
  <2>2. server' \in [Generations -> {"none", "probing", "failed", "on", "off"}]
    BY <1>1, <2>1
  <2>3. subscribed' \in [Generations -> BOOLEAN]
    BY <1>1, <2>1
  <2> QED
    BY <1>1, <2>1, <2>2, <2>3
<1>4. ASSUME NEW g \in Generations, resolveServers(g) PROVE MountTypeOK'
  <2>1. resolved[g] \in 0..Servers /\ registered(g) \in {"on", "failed"}
    BY <1>1 DEF registered
  <2>2. resolved' \in [Generations -> 0..Servers]
    BY <1>1, <1>4, <2>1 DEF resolveServers, refusesEntry
  <2>3. server' \in [Generations -> {"none", "probing", "failed", "on", "off"}]
    BY <1>1, <1>4, <2>1 DEF resolveServers, refusesEntry
  <2> QED
    BY <1>1, <1>4, <2>2, <2>3 DEF resolveServers
<1>5. ASSUME NEW g \in Generations, subscribe(g) \/ unsubscribe(g) PROVE MountTypeOK'
  BY <1>1, <1>5 DEF subscribe, unsubscribe
<1>6. ASSUME UNCHANGED mountVars PROVE MountTypeOK'
  BY <1>1, <1>6 DEF mountVars
<1>7. ASSUME NEW f \in Files, Observe(f) \/ Edit(f) PROVE UNCHANGED mountVars
  BY <1>7 DEF Observe, Edit
<1>8. ASSUME NEW r \in Requests, RunStep(r) PROVE UNCHANGED mountVars
  BY <1>8 DEF RunStep, readStart, receive, lose, timesOut, readSource, diagnosed, edited, unchanged,
    writeText, recordWrite, fails
<1> QED
  BY <1>2, <1>3, <1>4, <1>5, <1>6, <1>7, <1>8, BoundsAssumption DEF Next, vars

\* The caches that a step may drop a file's snapshot from.
Dropped(f) == \A g \in Generations : cache'[g] \in {cache[g], delete(cache[g], f)}

LEMMA DroppedType ==
  ASSUME CacheTypeOK, NEW f, DOMAIN cache' = Generations, Dropped(f)
  PROVE  CacheTypeOK'
<1> SUFFICES ASSUME NEW g \in Generations PROVE IsCache(cache'[g], Entry)
  BY DEF CacheTypeOK
<1>1. IsCache(cache[g], Entry) /\ IsCache(delete(cache[g], f), Entry)
  BY Deleted DEF CacheTypeOK
<1> QED
  BY <1>1 DEF Dropped

LEMMA CacheTypeStep == TypeInv /\ [Next]_vars => CacheTypeOK'
<1> SUFFICES ASSUME TypeInv, [Next]_vars PROVE CacheTypeOK'
  OBVIOUS
<1>1. CacheTypeOK
  BY DEF TypeInv, TypeOK
<1>2. ASSUME UNCHANGED cache PROVE CacheTypeOK'
  BY <1>1, <1>2 DEF CacheTypeOK
<1>3. ASSUME dispose PROVE CacheTypeOK'
  BY <1>1, <1>3, EmptyCache DEF dispose, CacheTypeOK
<1>4. ASSUME NEW f \in Files, Observe(f) PROVE CacheTypeOK'
  BY <1>1, <1>4, DroppedType DEF Observe, Dropped
<1>5. ASSUME NEW r \in Requests, recordWrite(r) PROVE CacheTypeOK'
  BY <1>1, <1>5, DroppedType DEF recordWrite, Dropped
<1>6. ASSUME NEW r \in Requests, readSource(r) PROVE CacheTypeOK'
  <2>1. ASSUME NEW g \in Generations PROVE IsCache(get(cache[g], FileOf[r]), Entry)
    BY <1>1, WasGot DEF CacheTypeOK
  <2> QED
    BY <1>1, <1>6, <2>1 DEF readSource, CacheTypeOK
<1>7. ASSUME NEW r \in Requests, diagnosed(r) PROVE CacheTypeOK'
  <2> DEFINE e == [file |-> FileOf[r], version |-> read[r]]
  <2>1. e \in Entry
    BY <1>7, FilesAssumption DEF diagnosed, TypeInv, RunInv, Entry
  <2> HIDE DEF e
  <2>2. ASSUME NEW g \in Generations PROVE IsCache(set(cache[g], e), Entry)
    BY <1>1, <2>1, WasSet DEF CacheTypeOK
  <2>3. cache' = [cache EXCEPT ![by[r]] = set(cache[by[r]], e)]
    BY <1>7 DEF diagnosed, e
  <2> QED
    BY <1>1, <2>2, <2>3 DEF CacheTypeOK
<1>8. ASSUME NEW r \in Requests,
             \/ readStart(r) \/ receive(r) \/ lose(r) \/ timesOut(r)
             \/ edited(r) \/ unchanged(r) \/ writeText(r) \/ fails(r)
      PROVE  UNCHANGED cache
  BY <1>8 DEF readStart, receive, lose, timesOut, edited, unchanged, writeText, fails
<1>9. ASSUME NEW g \in Generations, resolveServers(g) \/ subscribe(g) \/ unsubscribe(g)
      PROVE  UNCHANGED cache
  BY <1>9 DEF resolveServers, subscribe, unsubscribe
<1>10. ASSUME NEW f \in Files, Edit(f) PROVE UNCHANGED cache
  BY <1>10 DEF Edit
<1> QED
  BY <1>2, <1>3, <1>4, <1>5, <1>6, <1>7, <1>8, <1>9, <1>10, BoundsAssumption
  DEF Next, RunStep, apply, vars

\* What an editor has heard of a request: nothing, or one outcome.
HeardTypeOK == heard \in [Requests -> {<<>>} \cup {<<s>> : s \in Answered}]

LEMMA StatusType ==
  ASSUME HeardTypeOK, NEW r \in Requests, heard[r] = <<>>, NEW g, NEW s \in Answered,
         Status(r, g, s)
  PROVE  HeardTypeOK'
<1>1. Append(<<>>, s) = <<s>>
  OBVIOUS
<1>2. heard' = [heard EXCEPT ![r] = IF subscribed[g] THEN <<s>> ELSE <<>>]
  BY <1>1 DEF Status
<1> QED
  BY <1>2 DEF HeardTypeOK

LEMMA HeardTypeStep == TypeInv /\ [Next]_vars => HeardTypeOK'
<1> SUFFICES ASSUME TypeInv, [Next]_vars PROVE HeardTypeOK'
  OBVIOUS
<1>1. HeardTypeOK /\ HeardInv
  BY DEF TypeInv, TypeOK, RunTypeOK, HeardTypeOK
<1>2. ASSUME UNCHANGED heard PROVE HeardTypeOK'
  BY <1>1, <1>2 DEF HeardTypeOK
<1>3. ASSUME NEW r \in Requests, phase[r] \notin Idle, NEW s \in Answered, End(r, s)
      PROVE  HeardTypeOK'
  <2>1. heard[r] = <<>>
    BY <1>1, <1>3 DEF HeardInv, Idle
  <2> QED
    BY <1>1, <1>3, <2>1, StatusType DEF End, ends
<1>4. ASSUME NEW r \in Requests, diagnosed(r) \/ unchanged(r) \/ fails(r) PROVE HeardTypeOK'
  <2>1. phase[r] \notin Idle
    BY <1>4 DEF diagnosed, unchanged, fails, failsAt, Idle, Coming, Answered
  <2>2. End(r, "succeeded") \/ End(r, "failed")
    BY <1>4 DEF diagnosed, unchanged, fails
  <2> QED
    BY <1>3, <2>1, <2>2 DEF Answered
<1>5. ASSUME NEW r \in Requests, receive(r) PROVE HeardTypeOK'
  <2>1. phase[r] \in {"unsent", "torn"}
    BY <1>5, Zenon DEF receive, readers
  <2>2. heard[r] = <<>>
    BY <1>1, <2>1 DEF HeardInv, Answered
  <2>3. UNCHANGED heard \/ \E g \in readers(r) : Status(r, g, "failed")
    BY <1>5, Zenon DEF receive
  <2> QED
    BY <1>1, <1>2, <2>2, <2>3, StatusType DEF Answered
<1>6. ASSUME NEW r \in Requests,
             \/ readStart(r) \/ lose(r) \/ timesOut(r) \/ readSource(r)
             \/ edited(r) \/ writeText(r) \/ recordWrite(r)
      PROVE  UNCHANGED heard
  BY <1>6 DEF readStart, lose, timesOut, readSource, edited, writeText, recordWrite
<1>7. ASSUME NEW g \in Generations, resolveServers(g) \/ subscribe(g) \/ unsubscribe(g)
      PROVE  UNCHANGED heard
  BY <1>7 DEF resolveServers, subscribe, unsubscribe, runVars
<1>8. ASSUME NEW f \in Files, Observe(f) \/ Edit(f) PROVE UNCHANGED heard
  BY <1>8 DEF Observe, Edit, runVars
<1>9. ASSUME apply \/ dispose PROVE UNCHANGED heard
  BY <1>9 DEF apply, dispose, runVars
<1> QED
  BY <1>2, <1>4, <1>5, <1>6, <1>7, <1>8, <1>9, BoundsAssumption
  DEF Next, RunStep, vars, runVars

\* A request, and what its run holds in its phase.
RunsAre ==
  /\ phase \in [Requests -> Idle \cup {"reading", "asking", "writing", "wrote"}]
  /\ by \in [Requests -> {0} \cup Generations]
  /\ read \in [Requests -> Version \cup {None}]
  /\ todo \in [Requests -> SUBSET Files]
  /\ wrote \in [Requests -> Files \cup {None}]
  /\ expired \in [Requests -> BOOLEAN]
  /\ RunInv

\* A request that is read, or handled by nobody, holds nothing yet.
LEMMA RequestRuns ==
  ASSUME RunsAre, NEW r \in Requests, readStart(r) \/ receive(r) \/ lose(r)
  PROVE  RunsAre'
<1>1. PICK p \in Idle \cup {"reading"}, g \in {0} \cup Generations :
        /\ phase' = [phase EXCEPT ![r] = p]
        /\ by' = [by EXCEPT ![r] = g]
        /\ p = "reading" => g \in Generations
        /\ UNCHANGED <<read, todo, wrote, expired>>
  <2>1. readers(r) \subseteq Generations
    BY DEF readers, Serving
  <2>2. CASE readStart(r)
    <3>1. Serving # {} => (CHOOSE g \in Serving : TRUE) \in Serving
      OBVIOUS
    <3>2. (IF Serving = {} THEN 0 ELSE CHOOSE g \in Serving : TRUE) \in {0} \cup Generations
      BY <3>1 DEF Serving
    <3> QED
      BY <2>2, <3>2 DEF readStart, Idle, Coming
  <2>3. CASE receive(r)
    <3>1. PICK g \in readers(r) :
            \/ /\ phase' = [phase EXCEPT ![r] = "reading"]
               /\ by' = [by EXCEPT ![r] = g]
            \/ /\ phase' = [phase EXCEPT ![r] = "failed"]
               /\ by' = [by EXCEPT ![r] = 0]
            \/ /\ phase' = [phase EXCEPT ![r] = "succeeded"]
               /\ by' = [by EXCEPT ![r] = 0]
      BY <2>3, Zenon DEF receive
    <3> QED
      BY <2>1, <2>3, <3>1 DEF receive, Idle, Coming, Answered
  <2>4. CASE lose(r)
    <3>1. by' = [by EXCEPT ![r] = by[r]] /\ by[r] \in {0} \cup Generations
      BY <2>4 DEF lose, RunsAre
    <3> QED
      BY <2>4, <3>1 DEF lose, Idle
  <2> QED
    BY <2>2, <2>3, <2>4
<1>2. RunInv'
  BY <1>1 DEF RunsAre, RunInv, Idle, Coming, Answered
<1> QED
  BY <1>1, <1>2 DEF RunsAre

LEMMA EndRuns ==
  ASSUME RunsAre, NEW r \in Requests, NEW s \in Answered, End(r, s)
  PROVE  RunsAre'
<1>1. RunInv'
  BY DEF End, RunsAre, RunInv, Idle, Coming, Answered
<1> QED
  BY <1>1 DEF End, RunsAre, Idle

LEMMA PhaseRuns ==
  ASSUME RunsAre, disk \in [Files -> Version], NEW r \in Requests,
         \/ readSource(r) \/ edited(r) \/ writeText(r) \/ recordWrite(r) \/ timesOut(r)
  PROVE  RunsAre'
<1>1. CASE readSource(r)
  <2>1. disk[FileOf[r]] \in Version
    BY FilesAssumption
  <2>2. RunInv'
    BY <1>1, <2>1 DEF readSource, RunsAre, RunInv, Idle, Coming, Answered
  <2> QED
    BY <1>1, <2>1, <2>2 DEF readSource, RunsAre
<1>2. CASE edited(r)
  <2>1. PICK fs \in SUBSET Files : todo' = [todo EXCEPT ![r] = fs]
    <3>1. (IF ActionOf[r] = "format" THEN {FileOf[r]} ELSE Files) \subseteq Files
      BY FilesAssumption
    <3>2. PICK fs \in SUBSET (IF ActionOf[r] = "format" THEN {FileOf[r]} ELSE Files) \ {{}} :
            todo' = [todo EXCEPT ![r] = fs]
      BY <1>2, Zenon DEF edited
    <3> QED
      BY <3>1, <3>2
  <2>2. RunInv'
    BY <1>2 DEF edited, RunsAre, RunInv, Idle, Coming, Answered
  <2> QED
    BY <1>2, <2>1, <2>2 DEF edited, RunsAre
<1>3. CASE writeText(r)
  <2>1. PICK f \in todo[r] :
          /\ wrote' = [wrote EXCEPT ![r] = f]
          /\ todo' = [todo EXCEPT ![r] = @ \ {f}]
    BY <1>3 DEF writeText
  <2>2. f \in Files /\ todo[r] \ {f} \in SUBSET Files
    BY <2>1 DEF RunsAre
  <2>3. RunInv'
    BY <1>3, <2>1, <2>2 DEF writeText, RunsAre, RunInv, Idle, Coming, Answered
  <2> QED
    BY <1>3, <2>1, <2>2, <2>3 DEF writeText, RunsAre
<1>4. CASE recordWrite(r)
  <2>1. RunInv'
    BY <1>4 DEF recordWrite, RunsAre, RunInv, Idle, Coming, Answered
  <2> QED
    BY <1>4, <2>1 DEF recordWrite, RunsAre
<1>5. CASE timesOut(r)
  <2>1. RunInv'
    BY <1>5 DEF timesOut, RunsAre, RunInv
  <2> QED
    BY <1>5, <2>1 DEF timesOut, RunsAre
<1> QED
  BY <1>1, <1>2, <1>3, <1>4, <1>5

LEMMA RunsStep == TypeInv /\ [Next]_vars => RunsAre'
<1> SUFFICES ASSUME TypeInv, [Next]_vars PROVE RunsAre'
  OBVIOUS
<1>1. RunsAre /\ disk \in [Files -> Version]
  BY DEF TypeInv, TypeOK, RunTypeOK, RunsAre
<1>2. ASSUME UNCHANGED runVars PROVE RunsAre'
  BY <1>1, <1>2 DEF RunsAre, RunInv, runVars
<1>3. ASSUME NEW r \in Requests, diagnosed(r) \/ unchanged(r) \/ fails(r) PROVE RunsAre'
  BY <1>1, <1>3, EndRuns DEF diagnosed, unchanged, fails, Answered
<1>4. ASSUME NEW r \in Requests, RunStep(r) PROVE RunsAre'
  BY <1>1, <1>3, <1>4, RequestRuns, PhaseRuns DEF RunStep
<1>5. ASSUME NEW g \in Generations, resolveServers(g) \/ subscribe(g) \/ unsubscribe(g)
      PROVE  UNCHANGED runVars
  BY <1>5 DEF resolveServers, subscribe, unsubscribe
<1>6. ASSUME NEW f \in Files, Observe(f) \/ Edit(f) PROVE UNCHANGED runVars
  BY <1>6 DEF Observe, Edit
<1>7. ASSUME apply \/ dispose PROVE UNCHANGED runVars
  BY <1>7 DEF apply, dispose
<1> QED
  BY <1>2, <1>4, <1>5, <1>6, <1>7, BoundsAssumption DEF Next, vars

-----------------------------------------------------------------------------
(* What the editor sees *)

\* The versions on disk and in view.
SightTypeOK ==
  /\ disk \in [Files -> Version]
  /\ view \in [Files -> Version \cup {None}]
  /\ older \in [Generations -> SUBSET (Files \X Files)]
  /\ evicted \subseteq Files

\* The history of uses keeps its type.
LEMMA UsedAgain ==
  ASSUME older \in [Generations -> SUBSET (Files \X Files)], NEW g, NEW r \in Requests,
         older' \in {older, [older EXCEPT ![g] = usedLast(@, FileOf[r])]}
  PROVE  older' \in [Generations -> SUBSET (Files \X Files)]
  BY FilesAssumption DEF usedLast

LEMMA SightTypeStep == TypeInv /\ [Next]_vars => SightTypeOK'
<1> SUFFICES ASSUME TypeInv, [Next]_vars PROVE SightTypeOK'
  OBVIOUS
<1> USE DEF SightTypeOK
<1>1. SightTypeOK /\ RunInv
  BY DEF TypeInv, TypeOK
<1>2. ASSUME UNCHANGED <<disk, view, older, evicted>> PROVE SightTypeOK'
  BY <1>1, <1>2
<1>3. ASSUME NEW f \in Files, disk[f] < MaxVersion, disk' = [disk EXCEPT ![f] = @ + 1],
             UNCHANGED <<view, older, evicted>>
      PROVE  SightTypeOK'
  <2>1. disk[f] + 1 \in Version
    BY <1>1, <1>3, BoundsAssumption DEF Version
  <2> QED
    BY <1>1, <1>3, <2>1
<1>4. ASSUME Forget, UNCHANGED <<disk, older>> PROVE SightTypeOK'
  BY <1>1, <1>4 DEF Forget
<1>5. ASSUME NEW G, NEW f, FileChanged(G, f), UNCHANGED <<disk, older>> PROVE SightTypeOK'
  BY <1>1, <1>5 DEF FileChanged
<1>6. ASSUME NEW r \in Requests, diagnosed(r) PROVE SightTypeOK'
  <2>1. read[r] \in Version /\ UNCHANGED disk
    BY <1>1, <1>6 DEF diagnosed, RunInv
  <2>2. older' \in [Generations -> SUBSET (Files \X Files)]
    BY <1>1, <1>6, UsedAgain DEF diagnosed
  <2>3. evicted' \subseteq Files
    BY <1>1, <1>6 DEF diagnosed, leastUsed
  <2> QED
    BY <1>1, <1>6, <2>1, <2>2, <2>3 DEF diagnosed
<1>7. ASSUME NEW r \in Requests, writeText(r) PROVE SightTypeOK'
  <2>1. PICK f \in todo[r] : disk[f] < MaxVersion /\ disk' = [disk EXCEPT ![f] = @ + 1]
    BY <1>7 DEF writeText
  <2>2. f \in Files
    BY <2>1 DEF TypeInv, TypeOK, RunTypeOK
  <2> QED
    BY <1>3, <1>7, <2>1, <2>2 DEF writeText
<1>8. ASSUME NEW r \in Requests, readSource(r) PROVE SightTypeOK'
  <2>1. older' \in [Generations -> SUBSET (Files \X Files)] /\ UNCHANGED <<disk, view, evicted>>
    BY <1>1, <1>8, UsedAgain DEF readSource
  <2> QED
    BY <1>1, <2>1
<1>9. ASSUME dispose PROVE SightTypeOK'
  <2>1. older' \in [Generations -> SUBSET (Files \X Files)] /\ UNCHANGED disk /\ Forget
    BY <1>1, <1>9 DEF dispose
  <2> QED
    BY <1>1, <2>1 DEF Forget
<1>10. ASSUME NEW r \in Requests, RunStep(r) PROVE SightTypeOK'
  BY <1>2, <1>5, <1>6, <1>7, <1>10, <1>8 DEF RunStep, readStart, receive, lose, timesOut, edited,
    unchanged, recordWrite, fails
<1>11. ASSUME NEW g \in Generations, resolveServers(g) \/ subscribe(g) \/ unsubscribe(g)
      PROVE  SightTypeOK'
  BY <1>2, <1>4, <1>11 DEF resolveServers, subscribe, unsubscribe
<1>12. ASSUME NEW f \in Files, Observe(f) \/ Edit(f) PROVE SightTypeOK'
  BY <1>3, <1>5, <1>12 DEF Observe, Edit
<1>13. ASSUME apply \/ dispose PROVE SightTypeOK'
  BY <1>2, <1>13, <1>9 DEF apply
<1> QED
  BY <1>2, <1>10, <1>11, <1>12, <1>13, BoundsAssumption DEF Next, vars

LEMMA TypeStep == TypeInv /\ [Next]_vars => TypeInv'
<1> SUFFICES ASSUME TypeInv, [Next]_vars PROVE TypeInv'
  OBVIOUS
<1>1. HeardInv'
  BY HeardStep DEF TypeInv
<1>2. MountTypeOK' /\ CacheTypeOK' /\ RunsAre' /\ HeardTypeOK' /\ SightTypeOK'
  BY MountTypeStep, CacheTypeStep, RunsStep, HeardTypeStep, SightTypeStep
<1>3. RunTypeOK' /\ RunInv'
  BY <1>2 DEF RunsAre, HeardTypeOK, RunTypeOK
<1> QED
  BY <1>1, <1>2, <1>3 DEF TypeInv, TypeOK, SightTypeOK

\* Every variable keeps its type: above all, each cache stays within its bound
\* and holds one snapshot of a file, through every set, look-up and eviction.
THEOREM TypeCorrect == Spec => []TypeOK
<1> QED
  BY TypeInit, TypeStep, PTL DEF Spec, TypeInv

-----------------------------------------------------------------------------
(* What the bound drops *)

\* The entries of a cache stand in the order in which their files were used.
InOrder(s, o) == \A i, j \in DOMAIN s : i < j => <<s[i].file, s[j].file>> \in o

OneWay(o) == \A a, b \in Files : <<a, b>> \in o => <<b, a>> \notin o

RecencyInv ==
  \A g \in Generations : OneWay(older[g]) /\ InOrder(cache[g], older[g])

LEMMA UsedLast ==
  ASSUME NEW o \in SUBSET (Files \X Files), NEW f \in Files
  PROVE  /\ usedLast(o, f) \in SUBSET (Files \X Files)
         /\ \A a, b \in Files :
              <<a, b>> \in usedLast(o, f) <=> a # f /\ (b = f \/ <<a, b>> \in o)
         /\ OneWay(o) => OneWay(usedLast(o, f))
<1>1. \A a, b \in Files :
        <<a, b>> \in usedLast(o, f) <=> a # f /\ (b = f \/ <<a, b>> \in o)
  BY DEF usedLast
<1>2. usedLast(o, f) \in SUBSET (Files \X Files)
  BY DEF usedLast
<1> QED
  BY <1>1, <1>2 DEF OneWay

\* Map.delete keeps the order of the others.
LEMMA DeletedInOrder ==
  ASSUME NEW s, IsCache(s, Entry), NEW o, InOrder(s, o), NEW f
  PROVE  InOrder(delete(s, f), o)
<1>1. CASE ~Holds(s, f)
  BY <1>1 DEF delete
<1>2. CASE Holds(s, f)
  <2> DEFINE n == at(s, f)
             d == delete(s, f)
  <2>1. /\ s \in Seq(Entry) /\ Len(s) \in Nat /\ DOMAIN s = 1..Len(s) /\ n \in 1..Len(s)
    BY <1>2, HeldEntry, LenProperties DEF IsCache
  <2>2. /\ d \in Seq(Entry) /\ Len(d) = Len(s) - 1
        /\ \A i \in 1..(Len(s) - 1) : d[i] = s[IF i < n THEN i ELSE i + 1]
    BY <1>2, <2>1, Removed DEF delete
  <2>3. DOMAIN d = 1..(Len(s) - 1)
    BY <2>2, LenProperties
  <2> HIDE DEF n, d
  <2>4. ASSUME NEW i \in DOMAIN d, NEW j \in DOMAIN d, i < j
        PROVE  <<d[i].file, d[j].file>> \in o
    <3> DEFINE x == IF i < n THEN i ELSE i + 1
               y == IF j < n THEN j ELSE j + 1
    <3>1. x \in DOMAIN s /\ y \in DOMAIN s /\ x < y
      BY <2>1, <2>3, <2>4
    <3>2. d[i] = s[x] /\ d[j] = s[y]
      BY <2>2, <2>3
    <3> HIDE DEF x, y
    <3> QED
      BY <3>1, <3>2 DEF InOrder
  <2> QED
    BY <2>4 DEF InOrder, d
<1> QED
  BY <1>1, <1>2

\* What is set or looked up goes to the end, and comes after all others.
LEMMA UsedInOrder ==
  ASSUME NEW s, IsCache(s, Entry), NEW o \in SUBSET (Files \X Files), InOrder(s, o),
         NEW e \in Entry
  PROVE  InOrder(Append(delete(s, e.file), e), usedLast(o, e.file))
<1> DEFINE d == delete(s, e.file)
           a == Append(d, e)
<1>1. /\ IsCache(d, Entry) /\ ~Holds(d, e.file) /\ InOrder(d, o)
  BY Deleted, DeletedInOrder
<1>2. /\ d \in Seq(Entry) /\ Len(d) \in Nat /\ DOMAIN d = 1..Len(d)
      /\ \A i \in DOMAIN d : d[i] \in Entry
  BY <1>1, LenProperties, ElementOfSeq DEF IsCache
<1>3. /\ DOMAIN a = 1..(Len(d) + 1)
      /\ \A i \in 1..Len(d) : a[i] = d[i]
      /\ a[Len(d) + 1] = e
  BY <1>2, Appended, LenProperties
<1> HIDE DEF d, a
<1>4. /\ e.file \in Files
      /\ \A i \in DOMAIN d : d[i].file \in Files /\ d[i].file # e.file
  BY <1>1, <1>2 DEF Holds, Entry
<1>5. \A x, y \in Files :
        <<x, y>> \in usedLast(o, e.file) <=> x # e.file /\ (y = e.file \/ <<x, y>> \in o)
  BY <1>4, UsedLast
<1>6. ASSUME NEW i \in DOMAIN a, NEW j \in DOMAIN a, i < j
      PROVE  <<a[i].file, a[j].file>> \in usedLast(o, e.file)
  <2>1. i \in DOMAIN d /\ a[i] = d[i]
    BY <1>2, <1>3, <1>6
  <2>2. CASE j \in DOMAIN d
    <3>1. a[j] = d[j] /\ <<d[i].file, d[j].file>> \in o
      BY <1>1, <1>2, <1>3, <1>6, <2>1, <2>2 DEF InOrder
    <3> QED
      BY <1>4, <1>5, <2>1, <2>2, <3>1
  <2>3. CASE j \notin DOMAIN d
    <3>1. a[j] = e
      BY <1>2, <1>3, <2>3
    <3> QED
      BY <1>4, <1>5, <2>1, <3>1
  <2> QED
    BY <2>2, <2>3
<1> QED
  BY <1>6 DEF InOrder, a, d

LEMMA GotInOrder ==
  ASSUME NEW s, IsCache(s, Entry), NEW o \in SUBSET (Files \X Files), InOrder(s, o),
         NEW f, Holds(s, f)
  PROVE  InOrder(get(s, f), usedLast(o, f))
  BY HeldEntry, UsedInOrder DEF get

\* The files of a set and of the snapshots beside it.
HeldWith(s, f) == {h \in Files : h = f \/ Holds(s, h)}

\* a has one entry for each file of held, in the order o of their use.
LinesUp(a, o, held) ==
  /\ a \in Seq(Entry) /\ Len(a) \in Nat \ {0} /\ DOMAIN a = 1..Len(a)
  /\ \A i \in DOMAIN a : a[i].file \in Files
  /\ InOrder(a, o)
  /\ \A h \in held : \E i \in DOMAIN a : a[i].file = h
  /\ \A i \in DOMAIN a : a[i].file \in held
  /\ Cardinality(held) = Len(a)

\* What LruDiagnosticsCache.set holds before it evicts.
LEMMA BeforeEviction ==
  ASSUME NEW s, IsCache(s, Entry), NEW o \in SUBSET (Files \X Files), InOrder(s, o),
         NEW e \in Entry
  PROVE  LinesUp(Append(delete(s, e.file), e), usedLast(o, e.file), HeldWith(s, e.file))
<1> DEFINE a == Append(delete(s, e.file), e)
           held == HeldWith(s, e.file)
           d == delete(s, e.file)
<1>1. /\ IsCache(d, Entry) /\ ~Holds(d, e.file)
      /\ ToSet(d) = {x \in ToSet(s) : x.file # e.file}
  BY Deleted
<1>2. d \in Seq(Entry) /\ Len(d) \in Nat
  BY <1>1, LenProperties DEF IsCache
<1>3. /\ a \in Seq(Entry) /\ Len(a) \in Nat \ {0} /\ DOMAIN a = 1..Len(a)
      /\ ToSet(a) = ToSet(d) \cup {e}
  BY <1>2, Appended, LenProperties
<1>4. \A i, j \in DOMAIN a : a[i].file = a[j].file => i = j
  BY <1>1, <1>2, Inserted DEF IsCache
<1>5. \A i \in DOMAIN a : a[i].file \in Files /\ a[i] \in ToSet(a)
  <2>1. \A i \in DOMAIN a : a[i] \in Entry
    BY <1>3, ElementOfSeq
  <2>2. \A x \in Entry : x.file \in Files
    BY DEF Entry
  <2> QED
    BY <2>1, <2>2 DEF ToSet
<1>6. InOrder(a, usedLast(o, e.file))
  BY UsedInOrder
<1> HIDE DEF a, d
<1> USE DEF HeldWith
<1>7. ASSUME NEW h \in held PROVE \E i \in DOMAIN a : a[i].file = h
  <2>1. \E x \in ToSet(a) : x.file = h
    <3>1. CASE h = e.file
      BY <1>3, <3>1
    <3>2. CASE h # e.file
      <4>1. PICK x \in ToSet(s) : x.file = h
        BY <3>2, HeldEntry
      <4> QED
        BY <1>1, <1>3, <3>2, <4>1
    <3> QED
      BY <3>1, <3>2
  <2> QED
    BY <2>1 DEF ToSet
<1>8. ASSUME NEW i \in DOMAIN a PROVE a[i].file \in held
  <2>1. a[i] = e \/ a[i] \in ToSet(s)
    BY <1>1, <1>3, <1>5
  <2>2. a[i] \in ToSet(s) => Holds(s, a[i].file)
    BY HeldEntry
  <2> QED
    BY <1>5, <2>1, <2>2
<1>9. Cardinality(held) = Len(a)
  <2> DEFINE b == [i \in 1..Len(a) |-> a[i].file]
  <2>1. b \in Bijection(1..Len(a), held)
    <3>1. b \in [1..Len(a) -> held]
      BY <1>3, <1>8
    <3>2. b \in Injection(1..Len(a), held)
      BY <1>3, <1>4, <3>1 DEF Injection, IsInjective
    <3>3. b \in Surjection(1..Len(a), held)
      BY <1>3, <1>7, <3>1 DEF Surjection
    <3> QED
      BY <3>2, <3>3 DEF Bijection
  <2>2. ExistsBijection(1..Len(a), held)
    BY <2>1 DEF ExistsBijection
  <2> QED
    BY <1>3, <2>2, FS_CountingElements
<1> QED
  BY <1>3, <1>5, <1>6, <1>7, <1>8, <1>9 DEF LinesUp, a

\* LruDiagnosticsCache.set drops what was used longest ago, and only beyond the
\* bound.
LEMMA EvictsLeastUsed ==
  ASSUME NEW s, IsCache(s, Entry), NEW o \in SUBSET (Files \X Files),
         OneWay(o), InOrder(s, o), NEW e \in Entry
  PROVE  /\ InOrder(set(s, e), usedLast(o, e.file))
         /\ \A h \in HeldWith(s, e.file) : Holds(set(s, e), h)
              <=> h \notin leastUsed(usedLast(o, e.file), HeldWith(s, e.file))
<1> DEFINE a == Append(delete(s, e.file), e)
           u == usedLast(o, e.file)
           held == HeldWith(s, e.file)
<1>1. LinesUp(a, u, held)
  BY BeforeEviction
<1>2. OneWay(u)
  BY UsedLast DEF Entry
<1>3. set(s, e) = IF Len(a) > CacheMaxFiles THEN Tail(a) ELSE a
  BY DEF set
<1> HIDE DEF a, u, held
<1> USE DEF LinesUp
<1>4. CASE ~(Len(a) > CacheMaxFiles)
  <2>1. set(s, e) = a /\ leastUsed(u, held) = {}
    BY <1>1, <1>3, <1>4 DEF leastUsed
  <2> QED
    BY <1>1, <2>1 DEF Holds, u, held
<1>5. CASE Len(a) > CacheMaxFiles
  <2> DEFINE t == Tail(a)
  <2>1. set(s, e) = t
    BY <1>3, <1>5
  <2>2. a # <<>>
    BY <1>1, EmptySeq
  <2>3. /\ Len(t) = Len(a) - 1 /\ DOMAIN t = 1..(Len(a) - 1)
        /\ \A i \in 1..(Len(a) - 1) : t[i] = a[i + 1]
    BY <1>1, <2>2, HeadTailProperties, LenProperties
  <2> HIDE DEF t
  <2>4. \A i \in DOMAIN t : i + 1 \in DOMAIN a /\ t[i] = a[i + 1]
    BY <1>1, <2>3
  <2>5. 1 \in DOMAIN a /\ \A j \in DOMAIN a : j # 1 => 1 < j /\ j - 1 \in DOMAIN t /\ t[j - 1] = a[j]
    BY <1>1, <2>3
  <2>6. \A j \in DOMAIN a : j # 1 => <<a[1].file, a[j].file>> \in u /\ a[j].file # a[1].file
    <3>1. \A j \in DOMAIN a : j # 1 => <<a[1].file, a[j].file>> \in u
      BY <1>1, <2>5 DEF InOrder
    <3> QED
      BY <1>1, <1>2, <2>5, <3>1 DEF OneWay
  <2>7. InOrder(t, u)
    <3> SUFFICES ASSUME NEW i \in DOMAIN t, NEW j \in DOMAIN t, i < j
                 PROVE  <<t[i].file, t[j].file>> \in u
      BY DEF InOrder
    <3>1. i + 1 < j + 1
      BY <2>3
    <3> QED
      BY <1>1, <2>4, <3>1 DEF InOrder
  <2>8. leastUsed(u, held) = {h \in held : \A k \in held \ {h} : <<h, k>> \in u}
    BY <1>1, <1>5 DEF leastUsed
  <2>9. ASSUME NEW h \in held PROVE h \in leastUsed(u, held) <=> h = a[1].file
    <3>1. ASSUME h = a[1].file, NEW k \in held \ {h} PROVE <<h, k>> \in u
      <4>1. PICK j \in DOMAIN a : a[j].file = k
        BY <1>1
      <4> QED
        BY <2>6, <3>1, <4>1
    <3>2. ASSUME h # a[1].file PROVE <<h, a[1].file>> \notin u /\ a[1].file \in held \ {h}
      <4>1. PICK j \in DOMAIN a : a[j].file = h
        BY <1>1
      <4>2. <<a[1].file, h>> \in u /\ h \in Files /\ a[1].file \in Files
        BY <1>1, <2>5, <2>6, <3>2, <4>1
      <4> QED
        BY <1>1, <1>2, <2>5, <3>2, <4>2 DEF OneWay
    <3> QED
      BY <2>8, <3>1, <3>2
  <2>10. ASSUME NEW h \in held PROVE Holds(t, h) <=> h # a[1].file
    <3>1. ASSUME Holds(t, h) PROVE h # a[1].file
      <4>1. PICK i \in DOMAIN t : t[i].file = h
        BY <3>1 DEF Holds
      <4>2. i + 1 \in DOMAIN a /\ i + 1 # 1 /\ a[i + 1].file = h
        BY <2>3, <2>4, <4>1
      <4> QED
        BY <2>6, <4>2
    <3>2. ASSUME h # a[1].file PROVE Holds(t, h)
      <4>1. PICK j \in DOMAIN a : a[j].file = h
        BY <1>1
      <4>2. j - 1 \in DOMAIN t /\ t[j - 1].file = h
        BY <2>5, <3>2, <4>1
      <4> QED
        BY <4>2 DEF Holds
    <3> QED
      BY <3>1, <3>2
  <2> QED
    BY <2>1, <2>7, <2>9, <2>10 DEF u, held
<1> QED
  BY <1>4, <1>5

\* What is cached stands in the order of its use, however often a file is set,
\* looked up or dropped, in every generation.
LEMMA RecencyStep == TypeInv /\ RecencyInv /\ [Next]_vars => RecencyInv'
<1> SUFFICES ASSUME TypeInv, RecencyInv, [Next]_vars, NEW g \in Generations
             PROVE  OneWay(older'[g]) /\ InOrder(cache'[g], older'[g])
  BY DEF RecencyInv
<1>1. /\ DOMAIN cache = Generations /\ IsCache(cache[g], Entry)
      /\ older \in [Generations -> SUBSET (Files \X Files)]
      /\ OneWay(older[g]) /\ InOrder(cache[g], older[g])
  BY DEF TypeInv, TypeOK, CacheTypeOK, RecencyInv
<1>2. CASE UNCHANGED <<cache, older>>
  BY <1>1, <1>2
<1>3. ASSUME cache'[g] = cache[g], older'[g] = older[g]
      PROVE  OneWay(older'[g]) /\ InOrder(cache'[g], older'[g])
  BY <1>1, <1>3
<1>4. ASSUME NEW f, cache'[g] \in {cache[g], delete(cache[g], f)}, UNCHANGED older
      PROVE  OneWay(older'[g]) /\ InOrder(cache'[g], older'[g])
  BY <1>1, <1>4, DeletedInOrder
<1>5. CASE dispose
  <2>1. CASE g = uid
    <3>1. cache'[g] = <<>> /\ older'[g] = {}
      BY <1>1, <1>5, <2>1 DEF dispose
    <3> QED
      BY <3>1 DEF OneWay, InOrder
  <2>2. CASE g # uid
    <3>1. cache'[g] = cache[g] /\ older'[g] = older[g]
      BY <1>1, <1>5, <2>2 DEF dispose
    <3> QED
      BY <1>3, <3>1
  <2> QED
    BY <2>1, <2>2
<1>6. ASSUME NEW f \in Files, Observe(f)
      PROVE  OneWay(older'[g]) /\ InOrder(cache'[g], older'[g])
  BY <1>4, <1>6 DEF Observe
<1>7. ASSUME NEW r \in Requests, recordWrite(r)
      PROVE  OneWay(older'[g]) /\ InOrder(cache'[g], older'[g])
  BY <1>4, <1>7 DEF recordWrite
<1>8. ASSUME NEW r \in Requests, readSource(r)
      PROVE  OneWay(older'[g]) /\ InOrder(cache'[g], older'[g])
  <2> DEFINE f == FileOf[r]
  <2>1. f \in Files
    BY FilesAssumption
  <2>2. CASE UNCHANGED <<cache, older>>
    BY <1>2, <2>2
  <2>3. CASE /\ Holds(cache[by[r]], f)
             /\ cache' = [cache EXCEPT ![by[r]] = get(@, f)]
             /\ older' = [older EXCEPT ![by[r]] = usedLast(@, f)]
    <3>1. CASE g = by[r]
      <4>1. /\ cache'[g] = get(cache[g], f) /\ older'[g] = usedLast(older[g], f)
            /\ Holds(cache[g], f) /\ older[g] \in SUBSET (Files \X Files)
        BY <1>1, <2>3, <3>1
      <4> HIDE DEF f
      <4> QED
        BY <1>1, <2>1, <4>1, GotInOrder, UsedLast
    <3>2. CASE g # by[r]
      BY <1>1, <1>3, <2>3, <3>2
    <3> QED
      BY <3>1, <3>2
  <2> QED
    BY <1>8, <2>2, <2>3 DEF readSource
<1>9. ASSUME NEW r \in Requests, diagnosed(r)
      PROVE  OneWay(older'[g]) /\ InOrder(cache'[g], older'[g])
  <2> DEFINE e == [file |-> FileOf[r], version |-> read[r]]
  <2>1. e \in Entry /\ e.file = FileOf[r] /\ FileOf[r] \in Files
    BY <1>9, FilesAssumption DEF diagnosed, TypeInv, RunInv, Idle, Coming, Answered, Entry
  <2>2. /\ cache' = [cache EXCEPT ![by[r]] = set(@, e)]
        /\ older' = [older EXCEPT ![by[r]] = usedLast(@, FileOf[r])]
    BY <1>9 DEF diagnosed
  <2> HIDE DEF e
  <2>3. CASE g = by[r]
    <3>1. /\ cache'[g] = set(cache[g], e) /\ older'[g] = usedLast(older[g], e.file)
          /\ older[g] \in SUBSET (Files \X Files)
      BY <1>1, <2>1, <2>2, <2>3
    <3> QED
      BY <1>1, <2>1, <3>1, EvictsLeastUsed, UsedLast
  <2>4. CASE g # by[r]
    BY <1>1, <1>3, <2>2, <2>4
  <2> QED
    BY <2>3, <2>4
<1>10. ASSUME NEW r \in Requests,
              \/ readStart(r) \/ receive(r) \/ lose(r) \/ timesOut(r)
              \/ edited(r) \/ unchanged(r) \/ writeText(r) \/ fails(r)
       PROVE  UNCHANGED <<cache, older>>
  BY <1>10 DEF readStart, receive, lose, timesOut, edited, unchanged, writeText, fails
<1>11. ASSUME NEW h \in Generations, resolveServers(h) \/ subscribe(h) \/ unsubscribe(h)
       PROVE  UNCHANGED <<cache, older>>
  BY <1>11 DEF resolveServers, subscribe, unsubscribe
<1>12. ASSUME apply \/ \E f \in Files : Edit(f) PROVE UNCHANGED <<cache, older>>
  BY <1>12 DEF apply, Edit
<1>13. ASSUME NEW r \in Requests, RunStep(r)
       PROVE  OneWay(older'[g]) /\ InOrder(cache'[g], older'[g])
  BY <1>2, <1>7, <1>8, <1>9, <1>10, <1>13 DEF RunStep
<1> QED
  BY <1>2, <1>5, <1>6, <1>11, <1>12, <1>13, BoundsAssumption DEF Next, vars

-----------------------------------------------------------------------------
(* What the editor holds *)

\* Only a server in service has a subscriber, and nothing is in view without one.
SubscriberInv ==
  /\ \A g \in Generations : subscribed[g] => server[g] = "on"
  /\ \A f \in Files : view[f] # None => \E g \in Generations : subscribed[g]

ViewInv == MountInv /\ SubscriberInv /\ ViewIsCache

\* With nothing in view, the editor sees nothing that is not in the cache.
LEMMA NothingInView ==
  ASSUME \A f \in Files : view[f] = None
  PROVE  ViewIsCache
  BY DEF ViewIsCache

\* A server that is not in service has no subscriber, and with no other in
\* service there is nothing in view.
LEMMA NobodyWatches ==
  ASSUME ViewInv, NEW g \in Generations, ~subscribed[g],
         server[g] = "on" \/ \A h \in Generations : server[h] # "on"
  PROVE  \A f \in Files : view[f] = None
<1> SUFFICES ASSUME NEW h \in Generations, subscribed[h] PROVE FALSE
  BY DEF ViewInv, SubscriberInv
<1>1. server[h] = "on" /\ uid = h
  BY DEF ViewInv, SubscriberInv, MountInv, DeadMountsNothing
<1>2. server[g] = "on" => uid = g
  BY DEF ViewInv, MountInv, DeadMountsNothing
<1> QED
  BY <1>1, <1>2

LEMMA MountView ==
  ASSUME TypeInv, ViewInv, MountInv',
         apply \/ dispose \/ \E g \in Generations : resolveServers(g) \/ subscribe(g) \/ unsubscribe(g)
  PROVE  ViewInv'
<1>1. /\ server \in [Generations -> {"none", "probing", "failed", "on", "off"}]
      /\ subscribed \in [Generations -> BOOLEAN]
      /\ uid \in 0..mounts /\ mounts \in 0..MaxMounts /\ MaxMounts \in Nat
  BY BoundsAssumption DEF TypeInv, TypeOK, MountTypeOK
<1>2. ASSUME NEW g \in Generations, subscribed[g] PROVE server[g] = "on" /\ uid = g
  BY <1>2 DEF ViewInv, SubscriberInv, MountInv, DeadMountsNothing
<1>3. CASE apply
  <2>1. uid = 0 /\ mounts' \in Generations /\ UNCHANGED <<subscribed, view, evicted, cache>>
    BY <1>1, <1>3 DEF apply, Generations
  <2>2. \A g \in Generations : ~subscribed[g]
    BY <1>2, <2>1 DEF Generations
  <2>3. \A f \in Files : view[f] = None
    BY <2>2 DEF ViewInv, SubscriberInv
  <2> QED
    BY <2>1, <2>2, <2>3, NothingInView DEF ViewInv, SubscriberInv, ViewIsCache
<1>4. CASE dispose
  <2>1. uid \in Generations
    BY <1>1, <1>4 DEF dispose, Generations
  <2>2. \A g \in Generations : subscribed'[g] = (subscribed[g] /\ g # uid)
    BY <1>1, <1>4, <2>1 DEF dispose
  <2>3. \A g \in Generations : ~subscribed'[g]
    BY <1>2, <2>2
  <2>4. \A f \in Files : view'[f] = None
    BY <1>4 DEF dispose, Forget
  <2> QED
    BY <2>3, <2>4 DEF ViewInv, SubscriberInv, ViewIsCache
<1>5. ASSUME NEW g \in Generations, resolveServers(g) PROVE ViewInv'
  <2>1. /\ server[g] = "probing" /\ UNCHANGED <<uid, subscribed, view, evicted, cache>>
        /\ \A h \in Generations : h # g => server'[h] = server[h]
    BY <1>1, <1>5 DEF resolveServers, refusesEntry
  <2>2. ~subscribed[g]
    BY <1>2, <2>1
  <2>3. SubscriberInv'
    BY <2>1, <2>2 DEF ViewInv, SubscriberInv
  <2>4. CASE \E f \in Files : view[f] # None
    <3>1. PICK h \in Generations : subscribed[h]
      BY <2>4 DEF ViewInv, SubscriberInv
    <3>2. server'[g] # "on"
      BY <1>2, <2>1, <2>2, <3>1 DEF MountInv, DeadMountsNothing
    <3> QED
      BY <2>1, <2>3, <3>2 DEF ViewInv, ViewIsCache
  <2>5. CASE \A f \in Files : view[f] = None
    BY <2>1, <2>3, <2>5 DEF ViewInv, ViewIsCache
  <2> QED
    BY <2>4, <2>5
<1>6. ASSUME NEW g \in Generations, subscribe(g) PROVE ViewInv'
  BY <1>1, <1>6 DEF subscribe, ViewInv, SubscriberInv, ViewIsCache
<1>7. ASSUME NEW g \in Generations, unsubscribe(g) PROVE ViewInv'
  <2>1. /\ \A f \in Files : view'[f] = None
        /\ \A h \in Generations : subscribed'[h] => subscribed[h]
        /\ UNCHANGED server
    BY <1>1, <1>7 DEF unsubscribe, Forget
  <2> QED
    BY <2>1 DEF ViewInv, SubscriberInv, ViewIsCache
<1> QED
  BY <1>3, <1>4, <1>5, <1>6, <1>7

\* A snapshot dropped by every server in service, and told to whom it matters.
LEMMA InvalidationView ==
  ASSUME TypeInv, ViewInv, MountInv', NEW f \in Files, NEW G \in SUBSET Generations,
         tells(f) \subseteq G, FileChanged(G, f), UNCHANGED mountVars,
         \A g \in Generations : server[g] = "on" => cache'[g] = delete(cache[g], f)
  PROVE  ViewInv'
<1> USE DEF mountVars
<1>1. view \in [Files -> Version \cup {None}]
  BY DEF TypeInv, TypeOK
<1>2. \A h \in Files : view'[h] # None =>
        /\ view'[h] = view[h]
        /\ h # f => (h \in evicted' <=> h \in evicted)
        /\ h = f => ~(\E g \in G : subscribed[g]) /\ evicted' = evicted
  BY <1>1 DEF FileChanged
<1>3. SubscriberInv'
  BY <1>2 DEF ViewInv, SubscriberInv
<1>4. ASSUME NEW g \in Generations, NEW h \in Files, server[g] = "on", view'[h] # None
      PROVE  IF h \in evicted' THEN ~Holds(cache'[g], h)
             ELSE [file |-> h, version |-> view'[h]] \in ToSet(cache'[g])
  <2>1. /\ view'[h] = view[h]
        /\ IF h \in evicted THEN ~Holds(cache[g], h)
           ELSE [file |-> h, version |-> view[h]] \in ToSet(cache[g])
    BY <1>2, <1>4 DEF ViewInv, ViewIsCache
  <2>2. /\ IsCache(cache[g], Entry) /\ IsCache(cache'[g], Entry)
        /\ ~Holds(cache'[g], f)
        /\ ToSet(cache'[g]) = {e \in ToSet(cache[g]) : e.file # f}
    BY <1>4, Deleted DEF TypeInv, TypeOK, CacheTypeOK
  <2>3. CASE h = f
    <3>1. PICK k \in Generations : subscribed[k]
      BY <1>4, <2>1 DEF ViewInv, SubscriberInv
    <3>2. k = g
      BY <1>4, <3>1 DEF ViewInv, SubscriberInv, MountInv, DeadMountsNothing
    <3>3. g \notin tells(f)
      BY <1>2, <1>4, <2>3, <3>1, <3>2
    <3>4. ~Holds(cache[g], f)
      BY <1>4, <3>3 DEF tells
    <3>5. h \in evicted
      <4>1. SUFFICES ASSUME h \notin evicted PROVE FALSE
        OBVIOUS
      <4>2. [file |-> h, version |-> view[h]] \in ToSet(cache[g])
        BY <2>1, <4>1
      <4> QED
        BY <2>2, <2>3, <3>4, <4>2, HeldEntry
    <3> QED
      BY <1>2, <1>4, <2>2, <2>3, <3>5
  <2>4. CASE h # f
    <3>1. Holds(cache'[g], h) => Holds(cache[g], h)
      BY <2>2, HeldEntry
    <3>2. h \in evicted' <=> h \in evicted
      BY <1>2, <1>4, <2>4
    <3> QED
      BY <2>1, <2>2, <2>4, <3>1, <3>2
  <2> QED
    BY <2>3, <2>4
<1> QED
  BY <1>3, <1>4 DEF ViewInv, ViewIsCache

LEMMA LookupView ==
  ASSUME TypeInv, ViewInv, MountInv', NEW r \in Requests, readSource(r)
  PROVE  ViewInv'
<1>1. UNCHANGED <<mountVars, view, evicted>>
  BY DEF readSource
<1>2. ASSUME NEW g \in Generations
      PROVE  ToSet(cache'[g]) = ToSet(cache[g]) /\ IsCache(cache'[g], Entry) /\ IsCache(cache[g], Entry)
  <2>1. IsCache(cache[g], Entry) /\ DOMAIN cache = Generations
    BY DEF TypeInv, TypeOK, CacheTypeOK
  <2>2. cache'[g] \in {cache[g], get(cache[g], FileOf[r])}
    BY <2>1 DEF readSource
  <2> QED
    BY <2>1, <2>2, WasGot
<1>3. \A g \in Generations, f \in Files : Holds(cache'[g], f) <=> Holds(cache[g], f)
  BY <1>2, HeldEntry
<1> QED
  BY <1>1, <1>2, <1>3 DEF ViewInv, SubscriberInv, ViewIsCache, mountVars

LEMMA DiagnosisView ==
  ASSUME TypeInv, ViewInv, RecencyInv, MountInv', NEW r \in Requests, diagnosed(r)
  PROVE  ViewInv'
<1> DEFINE f == FileOf[r]
           g == by[r]
           e == [file |-> f, version |-> read[r]]
           kept == set(cache[g], e)
           held == HeldWith(cache[g], f)
           gone == leastUsed(usedLast(older[g], f), held)
<1>1. /\ f \in Files /\ g \in Generations /\ e \in Entry /\ read[r] \in Version
      /\ UNCHANGED mountVars
  BY FilesAssumption DEF diagnosed, TypeInv, RunInv, Idle, Coming, Answered, Entry
<1>2. /\ view \in [Files -> Version \cup {None}]
      /\ DOMAIN cache = Generations /\ IsCache(cache[g], Entry)
      /\ older \in [Generations -> SUBSET (Files \X Files)]
      /\ OneWay(older[g]) /\ InOrder(cache[g], older[g])
  BY <1>1 DEF TypeInv, TypeOK, CacheTypeOK, RecencyInv
<1>3. /\ IsCache(kept, Entry) /\ e \in ToSet(kept)
      /\ \A x \in ToSet(kept) : x = e \/ (x \in ToSet(cache[g]) /\ x.file # e.file)
  BY <1>1, <1>2, WasSet
<1>4. /\ \A h \in held : Holds(kept, h) <=> h \notin gone
      /\ held = {h \in Files : h = f \/ Holds(cache[g], h)}
      /\ gone \subseteq held
  <2>1. older[g] \in SUBSET (Files \X Files) /\ e.file = f
    BY <1>1, <1>2
  <2>2. \A h \in HeldWith(cache[g], e.file) :
          Holds(kept, h) <=> h \notin leastUsed(usedLast(older[g], e.file), HeldWith(cache[g], e.file))
    BY <1>1, <1>2, <2>1, EvictsLeastUsed
  <2> QED
    BY <2>1, <2>2 DEF HeldWith, leastUsed
<1>5. cache' = [cache EXCEPT ![g] = kept]
  BY DEF diagnosed
<1>6. IF subscribed[g]
        THEN /\ view' = [view EXCEPT ![f] = read[r]]
             /\ evicted' = {h \in (evicted \ {f}) \cup gone : view'[h] # None}
        ELSE UNCHANGED <<view, evicted>>
  <2>1. older'[g] = usedLast(older[g], f)
    BY <1>1, <1>2 DEF diagnosed
  <2> QED
    BY <2>1 DEF diagnosed, HeldWith
<1> HIDE DEF f, g, kept, held, gone
<1>7. CASE ~subscribed[g]
  <2>1. UNCHANGED <<view, evicted>>
    BY <1>6, <1>7
  <2>2. SubscriberInv'
    BY <1>1, <2>1 DEF mountVars, ViewInv, SubscriberInv
  <2>3. CASE server[g] = "on"
    <3>1. \A h \in Files : view[h] = None
      BY <1>1, <1>7, <2>3, NobodyWatches
    <3> QED
      BY <2>1, <2>2, <3>1 DEF ViewInv, ViewIsCache
  <2>4. CASE server[g] # "on"
    BY <1>1, <1>2, <1>5, <2>1, <2>2, <2>4 DEF mountVars, ViewInv, ViewIsCache
  <2> QED
    BY <2>3, <2>4
<1>8. CASE subscribed[g]
  <2>1. SubscriberInv'
    BY <1>1, <1>2, <1>6, <1>8 DEF mountVars, ViewInv, SubscriberInv
  <2>2. ASSUME NEW k \in Generations, server[k] = "on" PROVE k = g
    BY <1>1, <1>8, <2>2 DEF ViewInv, SubscriberInv, MountInv, DeadMountsNothing
  <2>3. ASSUME NEW h \in Files, view'[h] # None, h \notin evicted'
        PROVE  [file |-> h, version |-> view'[h]] \in ToSet(kept)
    <3>1. CASE h = f
      BY <1>1, <1>2, <1>3, <1>6, <1>8, <3>1
    <3>2. CASE h # f
      <4>1. view'[h] = view[h] /\ h \notin evicted /\ h \notin gone
        BY <1>1, <1>2, <1>6, <1>8, <2>3, <3>2
      <4>2. server[g] = "on"
        BY <1>1, <1>8 DEF ViewInv, SubscriberInv
      <4>3. [file |-> h, version |-> view[h]] \in ToSet(cache[g])
        BY <1>1, <2>3, <4>1, <4>2, Zenon DEF ViewInv, ViewIsCache
      <4>4. Holds(cache[g], h)
        BY <1>2, <4>3, HeldEntry
      <4>5. Holds(kept, h)
        BY <1>4, <4>1, <4>4
      <4>6. PICK x \in ToSet(kept) : x.file = h
        BY <1>3, <4>5, HeldEntry
      <4>7. x \in ToSet(cache[g])
        BY <1>1, <1>3, <3>2, <4>6
      <4>8. x = [file |-> h, version |-> view[h]]
        BY <1>2, <4>3, <4>6, <4>7, HeldEntry
      <4> QED
        BY <4>1, <4>6, <4>8
    <3> QED
      BY <3>1, <3>2
  <2>4. ASSUME NEW h \in Files, h \in evicted', view'[h] # None PROVE ~Holds(kept, h)
    <3>1. h \in gone \/ (h \in evicted /\ h # f)
      BY <1>6, <1>8, <2>4
    <3>2. CASE h \in gone
      BY <1>4, <3>2
    <3>3. CASE h \in evicted /\ h # f
      <4>1. view[h] # None /\ server[g] = "on"
        BY <1>1, <1>2, <1>6, <1>8, <2>4, <3>3 DEF ViewInv, SubscriberInv
      <4>2. ~Holds(cache[g], h)
        BY <1>1, <3>3, <4>1, Zenon DEF ViewInv, ViewIsCache
      <4>3. SUFFICES ASSUME Holds(kept, h) PROVE FALSE
        OBVIOUS
      <4>4. PICK x \in ToSet(kept) : x.file = h
        BY <1>3, <4>3, HeldEntry
      <4>5. x \in ToSet(cache[g])
        BY <1>1, <1>3, <3>3, <4>4
      <4> QED
        BY <1>2, <4>2, <4>4, <4>5, HeldEntry
    <3> QED
      BY <3>1, <3>2, <3>3
  <2>5. cache'[g] = kept
    BY <1>1, <1>2, <1>5
  <2>6. ViewIsCache'
    BY <1>1, <2>2, <2>3, <2>4, <2>5 DEF mountVars, ViewIsCache
  <2> QED
    BY <2>1, <2>6 DEF ViewInv
<1> QED
  BY <1>7, <1>8

LEMMA ViewStep == TypeInv /\ RecencyInv /\ ViewInv /\ [Next]_vars => ViewInv'
<1> SUFFICES ASSUME TypeInv, RecencyInv, ViewInv, [Next]_vars PROVE ViewInv'
  OBVIOUS
<1>1. MountInv'
  BY MountStep DEF ViewInv
<1>2. ASSUME UNCHANGED <<mountVars, cache, view, evicted>> PROVE ViewInv'
  BY <1>1, <1>2 DEF ViewInv, SubscriberInv, ViewIsCache, mountVars
<1>3. ASSUME NEW f \in Files, Observe(f) PROVE ViewInv'
  <2>1. tells(f) \in SUBSET Generations
    BY DEF tells
  <2>2. \A g \in Generations : server[g] = "on" => cache'[g] = delete(cache[g], f)
    BY <1>3 DEF Observe
  <2> QED
    BY <1>1, <1>3, <2>1, <2>2, InvalidationView DEF Observe
<1>4. ASSUME NEW r \in Requests, recordWrite(r) PROVE ViewInv'
  <2>1. wrote[r] \in Files /\ by[r] \in Generations
    BY <1>4 DEF recordWrite, TypeInv, RunInv, Idle, Coming, Answered
  <2>2. /\ tells(wrote[r]) \cup {by[r]} \in SUBSET Generations
        /\ tells(wrote[r]) \subseteq tells(wrote[r]) \cup {by[r]}
    BY <2>1 DEF tells
  <2>3. \A g \in Generations : server[g] = "on" => cache'[g] = delete(cache[g], wrote[r])
    BY <1>4 DEF recordWrite
  <2> QED
    BY <1>1, <1>4, <2>1, <2>2, <2>3, InvalidationView DEF recordWrite
<1>5. ASSUME NEW r \in Requests,
             \/ readStart(r) \/ receive(r) \/ lose(r) \/ timesOut(r)
             \/ edited(r) \/ unchanged(r) \/ writeText(r) \/ fails(r)
      PROVE  UNCHANGED <<mountVars, cache, view, evicted>>
  BY <1>5 DEF readStart, receive, lose, timesOut, edited, unchanged, writeText, fails
<1>6. ASSUME NEW f \in Files, Edit(f) PROVE UNCHANGED <<mountVars, cache, view, evicted>>
  BY <1>6 DEF Edit
<1>7. ASSUME apply \/ dispose PROVE ViewInv'
  BY <1>1, <1>7, MountView
<1>8. ASSUME NEW g \in Generations, resolveServers(g) \/ subscribe(g) \/ unsubscribe(g)
      PROVE  ViewInv'
  BY <1>1, <1>8, MountView
<1>9. ASSUME NEW r \in Requests, RunStep(r) PROVE ViewInv'
  BY <1>1, <1>2, <1>4, <1>5, <1>9, LookupView, DiagnosisView DEF RunStep
<1> QED
  BY <1>2, <1>3, <1>6, <1>7, <1>8, <1>9, BoundsAssumption DEF Next, vars

\* What a subscribed editor shows is what the cache holds, until it is told
\* otherwise (service.ts and actions.ts: file.changed at every invalidation,
\* diagnostics.updated at every set), for any cache bound and any number of
\* files, whoever observes or writes them, and through reloads of the plugin.
THEOREM EditorSeesCache == Spec => []ViewIsCache
<1>1. Init => ViewInv
  BY BoundsAssumption DEF Init, ViewInv, MountInv, DeadMountsNothing, SubscriberInv, ViewIsCache
<1>2. Init => RecencyInv
  BY DEF Init, RecencyInv, OneWay, InOrder
<1> QED
  BY <1>1, <1>2, TypeInit, TypeStep, RecencyStep, ViewStep, PTL DEF Spec, ViewInv
=============================================================================
