------------------------- MODULE ActionClientProofs -------------------------
(***************************************************************************)
(* Theorems about the server pool, for any number of calls, keys, spawned  *)
(* processes and reap attempts: its types and invariants, and that it      *)
(* implements the serial service.                                          *)
(***************************************************************************)
EXTENDS ActionClient, SequenceTheorems, TLAPS

\* A reap that backs off has an attempt left, so its attempts stay in bounds.
BackoffInv ==
  \A i \in Instances : reapPhase[i] = "backoff" => reapAttempt[i] < ReapAttempts

TypeInv == TypeOK /\ BackoffInv

LEMMA TypeInit == Init => TypeInv
<1> SUFFICES ASSUME Init PROVE TypeInv
  OBVIOUS
<1>1. CallsTypeOK
  BY DEF Init, CallsTypeOK
<1>2. PoolTypeOK
  BY DEF Init, PoolTypeOK
<1>3. ProcessTypeOK
  BY DEF Init, ProcessTypeOK
<1>4. ReapTypeOK /\ BackoffInv
  BY ReapAssumption DEF Init, ReapTypeOK, BackoffInv
<1>5. LifeTypeOK
  BY DEF Init, LifeTypeOK
<1>6. QED
  BY <1>1, <1>2, <1>3, <1>4, <1>5 DEF TypeInv, TypeOK

\* Whatever instances one reap() is given, the reaper's state keeps its types.
LEMMA ReapTypes ==
  ASSUME ReapTypeOK, BackoffInv, NEW S, reap(S)
  PROVE  ReapTypeOK' /\ BackoffInv'
  BY ReapAssumption DEF ReapTypeOK, BackoffInv, reap, startTeardown

LEMMA TeardownTypes ==
  ASSUME ReapTypeOK, BackoffInv, NEW S, startTeardown(S) \/ UNCHANGED teardown,
         UNCHANGED <<reapPhase, reapAttempt, failedReaps>>
  PROVE  ReapTypeOK' /\ BackoffInv'
  BY DEF ReapTypeOK, BackoffInv, startTeardown

\* The calls' variables keep their types.
LEMMA CallsTypeStep == TypeInv /\ [Next]_vars => CallsTypeOK'
<1> SUFFICES ASSUME CallsTypeOK, ProcessTypeOK, PoolTypeOK, [Next]_vars PROVE CallsTypeOK'
  BY DEF TypeInv, TypeOK
<1> USE DEF CallsTypeOK, Running, Borrowing, callVars, Go, Settle
<1>1. ASSUME NEW c \in Calls, run(c) \/ canonicalizeFails(c) \/ leaveQueue(c)
      PROVE  CallsTypeOK'
  BY <1>1 DEF run, canonicalizeFails, leaveQueue, querySignal, CallerReason, LifetimeReason
<1>2. ASSUME NEW c \in Calls, enqueue(c) \/ answered(c) \/ transportLost(c) \/ Abort(c)
      PROVE  CallsTypeOK'
  BY <1>2 DEF enqueue, answered, transportLost, TearFirst, Abort
<1>3. ASSUME NEW c \in Calls, NEW n \in {1, 2}, Borrow(c, n) PROVE CallsTypeOK'
  <2>1. PICK i \in Instances : held' = [held EXCEPT ![c] = i]
    <3>1. instances[KeyOf[c]] \in Instances \cup {None}
      BY KeysAssumption DEF PoolTypeOK
    <3>2. <<c, n>> \in Instances
      BY DEF Instances
    <3>3. QED
      BY <1>3, <3>1, <3>2 DEF Borrow
  <2>2. held' \in [Calls -> Instances \cup {None}]
    BY <2>1
  <2>3. attempt' \in [Calls -> 0..2]
    BY <1>3 DEF Borrow
  <2>4. pc' \in [Calls -> {"new", "canon", "queued", "settled"} \cup Running]
    BY <1>3 DEF Borrow
  <2>5. error' \in [Calls -> {"none", "server", "other"}] /\ aborted' \in [Calls -> BOOLEAN]
    BY <1>3 DEF Borrow
  <2>6. QED
    BY <2>2, <2>3, <2>4, <2>5
<1>4. ASSUME NEW c \in Calls, NEW n \in {1, 2}, SpawnFails(c, n) PROVE CallsTypeOK'
  BY <1>4 DEF SpawnFails
<1>5. ASSUME NEW c \in Calls, start(c) \/ retry(c) PROVE CallsTypeOK'
  BY <1>3, <1>4, <1>5 DEF start, retry
<1>6. ASSUME NEW c \in Calls, enterGate(c) \/ cancelled(c) PROVE CallsTypeOK'
  BY <1>6 DEF enterGate, cancelled, TearFirst, bodySignal, querySignal,
              CallerReason, LifetimeReason
<1>7. ASSUME NEW c \in Calls, readyGate(c) PROVE CallsTypeOK'
  BY <1>7 DEF readyGate, TearFirst
<1>8. ASSUME NEW c \in Calls, unwind(c) PROVE CallsTypeOK'
  BY <1>8 DEF unwind
<1>9. ASSUME NEW i \in Instances, tearDownSucceeds(i) \/ tearDownFails(i)
      PROVE  CallsTypeOK'
  BY <1>9 DEF tearDownSucceeds, tearDownFails, ResumeTearing
<1>10. ASSUME UNCHANGED callVars PROVE CallsTypeOK'
  BY <1>10
<1>11. QED
  BY <1>1, <1>2, <1>5, <1>6, <1>7, <1>8, <1>9, <1>10
     DEF Next, CallStep, InstanceStep, KeyStep, handshake, Crash, reapRetries,
         settleTail, idleTimerFires, disposeAll, disposeAllReturns, vars

\* The queues, the pool and the timers keep their types.
LEMMA PoolTypeStep == TypeInv /\ [Next]_vars => PoolTypeOK'
<1> SUFFICES ASSUME CallsTypeOK, PoolTypeOK, [Next]_vars PROVE PoolTypeOK'
  BY DEF TypeInv, TypeOK
<1> USE DEF PoolTypeOK, poolVars
<1>1. ASSUME NEW c \in Calls, enqueue(c) PROVE PoolTypeOK'
  BY <1>1, KeysAssumption DEF enqueue, link
<1>2. ASSUME NEW c \in Calls, NEW n \in {1, 2}, Borrow(c, n), UNCHANGED tail
      PROVE  PoolTypeOK'
  BY <1>2, KeysAssumption DEF Borrow, clearIdleTimer, Instances
<1>3. ASSUME NEW c \in Calls, start(c) \/ retry(c) PROVE PoolTypeOK'
  BY <1>2, <1>3 DEF start, retry, SpawnFails
<1>4. ASSUME NEW c \in Calls, unwind(c) PROVE PoolTypeOK'
  BY <1>4, KeysAssumption DEF unwind, evict, clearIdleTimer, CallsTypeOK
<1>5. ASSUME NEW k \in Keys, settleTail(k) PROVE PoolTypeOK'
  BY <1>5 DEF settleTail
<1>6. ASSUME NEW k \in Keys, idleTimerFires(k) PROVE PoolTypeOK'
  BY <1>6 DEF idleTimerFires
<1>7. ASSUME disposeAll PROVE PoolTypeOK'
  BY <1>7 DEF disposeAll
<1>8. ASSUME UNCHANGED <<tail, poolVars>> PROVE PoolTypeOK'
  BY <1>8
<1>9. QED
  BY <1>1, <1>3, <1>4, <1>5, <1>6, <1>7, <1>8
     DEF Next, CallStep, InstanceStep, KeyStep, run, canonicalizeFails, leaveQueue,
         enterGate, readyGate, answered, transportLost, cancelled, Abort, handshake,
         Crash, tearDownSucceeds, tearDownFails, reapRetries, disposeAllReturns, vars

\* The processes' variables keep their types.
LEMMA ProcessTypeStep == TypeInv /\ [Next]_vars => ProcessTypeOK'
<1> SUFFICES ASSUME PoolTypeOK, ProcessTypeOK, [Next]_vars PROVE ProcessTypeOK'
  BY DEF TypeInv, TypeOK
<1> USE DEF ProcessTypeOK, procVars
<1>1. ASSUME NEW c \in Calls, NEW n \in {1, 2}, Borrow(c, n) PROVE ProcessTypeOK'
  BY <1>1 DEF Borrow
<1>2. ASSUME NEW c \in Calls, start(c) \/ retry(c) PROVE ProcessTypeOK'
  BY <1>1, <1>2 DEF start, retry, SpawnFails
<1>3. ASSUME NEW i \in Instances, handshake(i) \/ Crash(i) \/ tearDownSucceeds(i)
      PROVE  ProcessTypeOK'
  BY <1>3 DEF handshake, Crash, tearDownSucceeds, Unshaken
<1>4. ASSUME UNCHANGED procVars PROVE ProcessTypeOK'
  BY <1>4
<1>5. QED
  BY <1>2, <1>3, <1>4
     DEF Next, CallStep, InstanceStep, KeyStep, run, enqueue, canonicalizeFails,
         leaveQueue, enterGate, readyGate, answered, transportLost, cancelled, unwind,
         Abort, tearDownFails, reapRetries, settleTail, idleTimerFires, disposeAll,
         disposeAllReturns, vars

\* The reaper's variables keep their types, and its attempts their bound.
LEMMA ReapTypeStep == TypeInv /\ [Next]_vars => ReapTypeOK' /\ BackoffInv'
<1> SUFFICES ASSUME ReapTypeOK, BackoffInv, [Next]_vars PROVE ReapTypeOK' /\ BackoffInv'
  BY DEF TypeInv, TypeOK
<1>1. ASSUME NEW c \in Calls, readyGate(c) \/ transportLost(c) \/ cancelled(c)
      PROVE  ReapTypeOK' /\ BackoffInv'
  BY <1>1, TeardownTypes DEF readyGate, transportLost, cancelled, TearFirst
<1>2. ASSUME NEW c \in Calls, unwind(c) PROVE ReapTypeOK' /\ BackoffInv'
  <2>1. CASE reap({held[c]})
    BY <2>1, ReapTypes
  <2>2. CASE UNCHANGED reapVars
    BY <2>2 DEF reapVars, ReapTypeOK, BackoffInv
  <2>3. QED
    BY <1>2, <2>1, <2>2 DEF unwind
<1>3. ASSUME NEW i \in Instances, tearDownSucceeds(i) PROVE ReapTypeOK' /\ BackoffInv'
  BY <1>3, ReapAssumption DEF tearDownSucceeds, reapSettles, ReapTypeOK, BackoffInv
<1>4. ASSUME NEW i \in Instances, tearDownFails(i) PROVE ReapTypeOK' /\ BackoffInv'
  BY <1>4, ReapAssumption DEF tearDownFails, reapSettles, mayRetry, ReapTypeOK, BackoffInv
<1>5. ASSUME NEW i \in Instances, reapRetries(i) PROVE ReapTypeOK' /\ BackoffInv'
  BY <1>5, ReapAssumption
     DEF reapRetries, reapSettles, startTeardown, ReapTypeOK, BackoffInv
<1>6. ASSUME NEW k \in Keys, idleTimerFires(k) PROVE ReapTypeOK' /\ BackoffInv'
  BY <1>6, ReapTypes DEF idleTimerFires
<1>7. ASSUME disposeAll PROVE ReapTypeOK' /\ BackoffInv'
  BY <1>7, ReapTypes DEF disposeAll
<1>8. ASSUME UNCHANGED reapVars PROVE ReapTypeOK' /\ BackoffInv'
  BY <1>8 DEF reapVars, ReapTypeOK, BackoffInv
<1>9. QED
  BY <1>1, <1>2, <1>3, <1>4, <1>5, <1>6, <1>7, <1>8
     DEF Next, CallStep, InstanceStep, KeyStep, run, enqueue, canonicalizeFails,
         leaveQueue, start, retry, enterGate, answered, Abort, handshake, Crash,
         settleTail, disposeAllReturns, vars

\* disposeAll's variables keep their types.
LEMMA LifeTypeStep == TypeInv /\ [Next]_vars => LifeTypeOK'
<1> SUFFICES ASSUME LifeTypeOK, [Next]_vars PROVE LifeTypeOK'
  BY DEF TypeInv, TypeOK
<1> USE DEF LifeTypeOK
<1>1. ASSUME NEW i \in Instances, tearDownSucceeds(i) \/ tearDownFails(i) \/ reapRetries(i)
      PROVE  LifeTypeOK'
  BY <1>1 DEF tearDownSucceeds, tearDownFails, reapRetries, reapSettles
<1>2. ASSUME disposeAll \/ disposeAllReturns PROVE LifeTypeOK'
  BY <1>2 DEF disposeAll, disposeAllReturns
<1>3. ASSUME UNCHANGED lifeVars PROVE LifeTypeOK'
  BY <1>3 DEF lifeVars
<1>4. QED
  BY <1>1, <1>2, <1>3
     DEF Next, CallStep, InstanceStep, KeyStep, run, enqueue, canonicalizeFails,
         leaveQueue, start, retry, enterGate, readyGate, answered, transportLost,
         cancelled, unwind, Abort, handshake, Crash, settleTail, idleTimerFires, vars

LEMMA TypeStep == TypeInv /\ [Next]_vars => TypeInv'
  BY CallsTypeStep, PoolTypeStep, ProcessTypeStep, ReapTypeStep, LifeTypeStep
     DEF TypeInv, TypeOK

\* Type correctness of the pool; with it, a reap never exceeds its attempts.
THEOREM TypeCorrect == Spec => []TypeOK
<1>1. TypeInv => TypeOK
  BY DEF TypeInv
<1>2. QED
  BY <1>1, TypeInit, TypeStep, PTL DEF Spec

-----------------------------------------------------------------------------
(* Every process tree has an owner *)

\* What reap() leaves: nothing it was given goes without a reap task unless
\* its teardown had succeeded, and nothing it was not given loses its owner.
LEMMA ReapOwns ==
  ASSUME ReapTypeOK, NEW S, reap(S), NEW i \in Instances
  PROVE  /\ teardown'[i] = "done" <=> teardown[i] = "done"
         /\ i \in S /\ teardown[i] # "done" => reapPhase'[i] # "none"
         /\ reapPhase[i] # "none" => reapPhase'[i] # "none"
         /\ i \in failedReaps /\ teardown[i] # "done" => i \in failedReaps'
  BY DEF ReapTypeOK, reap, startTeardown

LEMMA TeardownKeepsDone ==
  ASSUME ReapTypeOK, NEW S, startTeardown(S), NEW i \in Instances
  PROVE  teardown'[i] = "done" <=> teardown[i] = "done"
  BY DEF ReapTypeOK, startTeardown

LEMMA OwnedInit == Init => OwnedTrees
  BY DEF Init, OwnedTrees, MayBeAlive

LEMMA OwnedStep == TypeInv /\ OwnedTrees /\ [Next]_vars => OwnedTrees'
<1> SUFFICES ASSUME TypeInv, OwnedTrees, [Next]_vars PROVE OwnedTrees'
  OBVIOUS
<1> USE DEF OwnedTrees, MayBeAlive, Pooled
<1>t. CallsTypeOK /\ PoolTypeOK /\ ProcessTypeOK /\ ReapTypeOK
  BY DEF TypeInv, TypeOK
<1>1. ASSUME NEW c \in Calls, NEW n \in {1, 2}, Borrow(c, n), UNCHANGED reapVars
      PROVE  OwnedTrees'
  <2>1. KeyOf[c] \in Keys
    BY KeysAssumption
  <2>2. \A k \in Keys : instances[k] # None => instances'[k] = instances[k]
    BY <1>t, <1>1, <2>1 DEF Borrow, PoolTypeOK
  <2>3. \A i \in Instances : shake[i] = "unborn" /\ shake'[i] # "unborn"
                             => instances'[KeyOf[c]] = i
    BY <1>t, <1>1, <2>1 DEF Borrow, PoolTypeOK, ProcessTypeOK
  <2>4. QED
    BY <1>t, <1>1, <2>1, <2>2, <2>3, NoneAssumption DEF reapVars
<1>2. ASSUME NEW c \in Calls, start(c) \/ retry(c) PROVE OwnedTrees'
  <2>1. CASE UNCHANGED <<poolVars, procVars, reapVars>>
    BY <2>1 DEF poolVars, procVars, reapVars
  <2>2. QED
    BY <1>1, <1>2, <2>1 DEF start, retry, SpawnFails, reapVars
<1>3. ASSUME NEW c \in Calls, readyGate(c) \/ transportLost(c) \/ cancelled(c)
      PROVE  OwnedTrees'
  BY <1>t, <1>3, TeardownKeepsDone
     DEF readyGate, transportLost, cancelled, TearFirst, poolVars, procVars
<1>4. ASSUME NEW c \in Calls, unwind(c) PROVE OwnedTrees'
  <2>1. CASE dead(held[c]) /\ evict(KeyOf[c], held[c]) /\ reap({held[c]})
    <3>1. \A k \in Keys : instances'[k] = instances[k] \/ instances[k] = held[c]
      BY <1>t, <2>1 DEF evict, PoolTypeOK
    <3>2. QED
      BY <1>t, <1>4, <2>1, <3>1, ReapOwns DEF unwind, procVars
  <2>2. CASE UNCHANGED <<instances, reapVars>>
    BY <1>4, <2>2 DEF unwind, reapVars, procVars
  <2>3. QED
    BY <1>4, <2>1, <2>2 DEF unwind
<1>5. ASSUME NEW i \in Instances, handshake(i) \/ Crash(i) PROVE OwnedTrees'
  BY <1>t, <1>5 DEF handshake, Crash, Unshaken, poolVars, reapVars, ProcessTypeOK
<1>6. ASSUME NEW i \in Instances, tearDownSucceeds(i) PROVE OwnedTrees'
  BY <1>t, <1>6 DEF tearDownSucceeds, Unshaken, reapSettles, poolVars, ProcessTypeOK, ReapTypeOK
<1>7. ASSUME NEW i \in Instances, tearDownFails(i) PROVE OwnedTrees'
  BY <1>t, <1>7 DEF tearDownFails, reapSettles, poolVars, procVars, ReapTypeOK
<1>8. ASSUME NEW i \in Instances, reapRetries(i) PROVE OwnedTrees'
  <2>1. CASE teardown[i] = "done"
    BY <1>t, <1>8, <2>1 DEF reapRetries, reapSettles, poolVars, procVars, ReapTypeOK
  <2>2. CASE teardown[i] # "done"
    BY <1>t, <1>8, <2>2, TeardownKeepsDone
       DEF reapRetries, poolVars, procVars, ReapTypeOK
  <2>3. QED
    BY <2>1, <2>2
<1>9. ASSUME NEW k \in Keys, idleTimerFires(k) PROVE OwnedTrees'
  <2>1. \A l \in Keys : instances'[l] = instances[l] \/ instances[l] = timer[k]
    BY <1>t, <1>9 DEF idleTimerFires, PoolTypeOK
  <2>2. QED
    BY <1>t, <1>9, <2>1, ReapOwns DEF idleTimerFires, procVars
<1>10. ASSUME disposeAll PROVE OwnedTrees'
  <2>1. \A i \in Instances : Pooled(i) => i \in leftToReap
    BY NoneAssumption DEF leftToReap
  <2>2. QED
    BY <1>t, <1>10, <2>1, ReapOwns DEF disposeAll, procVars
<1>11. ASSUME UNCHANGED <<poolVars, procVars, reapVars>> PROVE OwnedTrees'
  BY <1>11 DEF poolVars, procVars, reapVars
<1>12. QED
  BY <1>2, <1>3, <1>4, <1>5, <1>6, <1>7, <1>8, <1>9, <1>10, <1>11
     DEF Next, CallStep, InstanceStep, KeyStep, run, enqueue, canonicalizeFails,
         leaveQueue, enterGate, answered, Abort, settleTail, disposeAllReturns, vars

\* Whatever crashes, fails or is cancelled, a process tree whose exit is not
\* confirmed stays in the pool, with a reap task or among the failed reaps.
THEOREM TreesAreOwned == Spec => []OwnedTrees
<1>1. Init => TypeInv /\ OwnedTrees
  BY TypeInit, OwnedInit
<1>2. TypeInv /\ OwnedTrees /\ [Next]_vars => (TypeInv /\ OwnedTrees)'
  BY TypeStep, OwnedStep
<1>3. QED
  BY <1>1, <1>2, PTL DEF Spec

-----------------------------------------------------------------------------
(* One action at a time per key *)

\* A call runs only while its link is the oldest of its key's tail.
QueueInv ==
  \A c \in Calls :
    pc[c] \in Running => tail[KeyOf[c]] # <<>> /\ Head(tail[KeyOf[c]]) = c

LEMMA QueueInit == Init => QueueInv
  BY DEF Init, QueueInv, Running, Borrowing

\* Calls that only go on running, or stop, keep the invariant.
LEMMA QueueKept ==
  ASSUME QueueInv, UNCHANGED tail,
         \A c \in Calls : pc'[c] \in Running => pc[c] \in Running
  PROVE  QueueInv'
  BY DEF QueueInv

LEMMA QueueStep == TypeInv /\ QueueInv /\ [Next]_vars => QueueInv'
<1> SUFFICES ASSUME TypeInv, QueueInv, [Next]_vars PROVE QueueInv'
  OBVIOUS
<1>t. CallsTypeOK /\ PoolTypeOK
  BY DEF TypeInv, TypeOK
<1>1. ASSUME NEW c \in Calls, enqueue(c) PROVE QueueInv'
  <2> DEFINE k == KeyOf[c]
  <2>1. k \in Keys /\ tail[k] \in Seq(Calls)
    BY <1>t, KeysAssumption DEF PoolTypeOK
  <2>2. \A d \in Calls : pc'[d] \in Running => pc[d] \in Running
    BY <1>t, <1>1 DEF enqueue, Go, CallsTypeOK, Running, Borrowing
  <2>3. \A l \in Keys : tail'[l] = IF l = k THEN Append(tail[k], c) ELSE tail[l]
    BY <1>t, <1>1 DEF enqueue, link, PoolTypeOK
  <2>4. tail[k] # <<>> => /\ Append(tail[k], c) # <<>>
                         /\ Head(Append(tail[k], c)) = Head(tail[k])
    BY <2>1
  <2>5. QED
    BY <2>2, <2>3, <2>4, KeysAssumption DEF QueueInv
<1>2. ASSUME NEW c \in Calls, start(c) PROVE QueueInv'
  <2>1. \A d \in Calls : pc'[d] \in Running => d = c \/ pc[d] \in Running
    BY <1>t, <1>2 DEF start, Borrow, SpawnFails, Go, CallsTypeOK
  <2>2. tail[KeyOf[c]] # <<>> /\ Head(tail[KeyOf[c]]) = c /\ UNCHANGED tail
    BY <1>2 DEF start
  <2>3. QED
    BY <2>1, <2>2 DEF QueueInv
<1>3. ASSUME NEW k \in Keys, settleTail(k) PROVE QueueInv'
  <2>1. pc' = pc /\ pc[Head(tail[k])] \notin Running
    BY <1>3 DEF settleTail, callVars, Running, Borrowing
  <2>2. \A d \in Calls : pc[d] \in Running => KeyOf[d] # k
    BY <2>1 DEF QueueInv
  <2>3. \A l \in Keys : l # k => tail'[l] = tail[l]
    BY <1>t, <1>3 DEF settleTail, PoolTypeOK
  <2>4. QED
    BY <2>1, <2>2, <2>3, KeysAssumption DEF QueueInv
<1>4. ASSUME NEW c \in Calls, run(c) \/ canonicalizeFails(c) \/ leaveQueue(c) \/ retry(c)
      PROVE  QueueInv'
  <2>1. \A d \in Calls : pc'[d] \in Running => pc[d] \in Running
    BY <1>t, <1>4 DEF run, canonicalizeFails, leaveQueue, retry, Borrow, SpawnFails,
                      Settle, Go, CallsTypeOK, Running, Borrowing
  <2>2. QED
    BY <1>4, <2>1, QueueKept DEF run, canonicalizeFails, leaveQueue, retry
<1>5. ASSUME NEW c \in Calls, enterGate(c) \/ readyGate(c) \/ answered(c) \/
                              transportLost(c) \/ cancelled(c) \/ unwind(c)
      PROVE  QueueInv'
  <2>1. \A d \in Calls : pc'[d] \in Running => pc[d] \in Running
    BY <1>t, <1>5 DEF enterGate, readyGate, answered, transportLost, cancelled, unwind,
                      TearFirst, Go, CallsTypeOK, Running, Borrowing
  <2>2. UNCHANGED tail
    BY <1>5 DEF enterGate, readyGate, answered, transportLost, cancelled, unwind
  <2>3. QED
    BY <2>1, <2>2, QueueKept
<1>6. ASSUME NEW i \in Instances, tearDownSucceeds(i) \/ tearDownFails(i) PROVE QueueInv'
  <2>1. \A d \in Calls : pc'[d] \in Running => pc[d] \in Running
    BY <1>t, <1>6 DEF tearDownSucceeds, tearDownFails, ResumeTearing, CallsTypeOK,
                      Running, Borrowing
  <2>2. QED
    BY <1>6, <2>1, QueueKept DEF tearDownSucceeds, tearDownFails
<1>7. ASSUME UNCHANGED <<pc, tail>> PROVE QueueInv'
  BY <1>7 DEF QueueInv
<1>8. QED
  BY <1>1, <1>2, <1>3, <1>4, <1>5, <1>6, <1>7
     DEF Next, CallStep, InstanceStep, KeyStep, Abort, handshake, Crash, reapRetries,
         idleTimerFires, disposeAll, disposeAllReturns, vars, callVars

\* No two calls of one key run at once, although callers leave the queue while
\* they wait, fail, retry, and have their instance torn down under them.
THEOREM CallsAreSerial == Spec => []SingleFlight
<1>1. Init => TypeInv /\ QueueInv
  BY TypeInit, QueueInit
<1>2. TypeInv /\ QueueInv /\ [Next]_vars => (TypeInv /\ QueueInv)'
  BY TypeStep, QueueStep
<1>3. QueueInv => SingleFlight
  BY DEF QueueInv, SingleFlight
<1>4. QED
  BY <1>1, <1>2, <1>3, PTL DEF Spec

-----------------------------------------------------------------------------
(* Disposal *)

\* disposeAll empties the pool for good.
EmptyInv == isDisposed => \A k \in Keys : instances[k] = None

\* Unless a reap it waits for failed, disposeAll waits for every living tree.
WaitingInv ==
  /\ disposal = "waiting" /\ ~lost => \A i \in Instances : MayBeAlive(i) => i \in awaited
  /\ DisposedMeansExited

\* After disposeAll a step publishes nothing and spawns nothing.
LEMMA DisposedStep ==
  ASSUME TypeInv, EmptyInv, [Next]_vars, isDisposed
  PROVE  /\ instances' = instances
         /\ \A i \in Instances : shake[i] = "unborn" => shake'[i] = "unborn"
<1>t. PoolTypeOK /\ ProcessTypeOK
  BY DEF TypeInv, TypeOK
<1> USE DEF ProcessTypeOK
<1>1. ASSUME NEW c \in Calls, start(c) \/ retry(c)
      PROVE  UNCHANGED <<instances, shake>>
  BY <1>1 DEF start, retry, Borrow, SpawnFails, assertActive, poolVars, procVars
<1>2. ASSUME NEW c \in Calls, unwind(c) PROVE UNCHANGED <<instances, shake>>
  <2>1. evict(KeyOf[c], held[c]) => instances' = instances
    BY <1>t, KeysAssumption DEF evict, EmptyInv, PoolTypeOK
  <2>2. QED
    BY <1>2, <2>1 DEF unwind, procVars
<1>3. ASSUME NEW i \in Instances, handshake(i) \/ Crash(i) \/ tearDownSucceeds(i)
      PROVE  /\ instances' = instances
             /\ \A j \in Instances : shake[j] = "unborn" => shake'[j] = "unborn"
  BY <1>t, <1>3 DEF handshake, Crash, tearDownSucceeds, Unshaken, poolVars
<1>4. ASSUME NEW k \in Keys, idleTimerFires(k) PROVE FALSE
  BY <1>4 DEF idleTimerFires, EmptyInv
<1>5. ASSUME disposeAll PROVE FALSE
  BY <1>5 DEF disposeAll
<1>6. CASE UNCHANGED <<instances, shake>>
  BY <1>6
<1>7. QED
  BY <1>1, <1>2, <1>3, <1>4, <1>5, <1>6
     DEF Next, CallStep, InstanceStep, KeyStep, run, enqueue, canonicalizeFails,
         leaveQueue, enterGate, readyGate, answered, transportLost, cancelled, Abort,
         settleTail, tearDownFails, reapRetries, disposeAllReturns, vars, poolVars, procVars

LEMMA EmptyStep == TypeInv /\ EmptyInv /\ [Next]_vars => EmptyInv'
<1> SUFFICES ASSUME TypeInv, EmptyInv, [Next]_vars PROVE EmptyInv'
  OBVIOUS
<1>1. CASE isDisposed
  BY <1>1, DisposedStep DEF EmptyInv
<1>2. CASE ~isDisposed /\ disposeAll
  BY <1>2 DEF disposeAll, EmptyInv
<1>3. CASE ~isDisposed /\ ~disposeAll
  <2>1. UNCHANGED disposal
    BY <1>3 DEF Next, CallStep, InstanceStep, KeyStep, run, enqueue, canonicalizeFails,
         leaveQueue, start, retry, enterGate, readyGate, answered, transportLost, cancelled,
         unwind, Abort, handshake, Crash, tearDownSucceeds, tearDownFails, reapRetries,
         settleTail, idleTimerFires, disposeAllReturns, vars, lifeVars, isDisposed
  <2>2. QED
    BY <1>3, <2>1 DEF EmptyInv, isDisposed
<1>4. QED
  BY <1>1, <1>2, <1>3

\* After disposeAll no call spawns a process and none is published.
THEOREM DisposalIsFinal == Spec => NothingAfterDispose
<1>1. Init => TypeInv /\ EmptyInv
  BY TypeInit DEF Init, EmptyInv, isDisposed
<1>2. TypeInv /\ EmptyInv /\ [Next]_vars => (TypeInv /\ EmptyInv)'
  BY TypeStep, EmptyStep
<1>3. TypeInv /\ EmptyInv /\ [Next]_vars
      => [isDisposed => /\ instances' = instances
                        /\ \A i \in Instances : shake[i] = "unborn" => shake'[i] = "unborn"]_vars
  BY DisposedStep
<1>4. QED
  BY <1>1, <1>2, <1>3, PTL DEF Spec, NothingAfterDispose

LEMMA WaitingStep ==
  TypeInv /\ OwnedTrees /\ EmptyInv /\ WaitingInv /\ [Next]_vars => WaitingInv'
<1> SUFFICES ASSUME TypeInv, OwnedTrees, EmptyInv, WaitingInv, [Next]_vars
             PROVE  WaitingInv'
  OBVIOUS
<1> USE DEF WaitingInv, DisposedMeansExited, MayBeAlive
<1>t. ProcessTypeOK /\ ReapTypeOK /\ LifeTypeOK
  BY DEF TypeInv, TypeOK
<1>1. CASE disposeAll
  <2>1. \A i \in Instances : Pooled(i) => i \in leftToReap
    BY NoneAssumption DEF leftToReap, Pooled
  <2>2. \A i \in Instances : MayBeAlive(i)' => reapPhase'[i] # "none"
    BY <1>t, <1>1, <2>1, ReapOwns DEF disposeAll, procVars, OwnedTrees, leftToReap
  <2>3. QED
    BY <1>1, <2>2 DEF disposeAll
<1>2. CASE ~isDisposed /\ ~disposeAll
  <2>1. UNCHANGED disposal
    BY <1>2 DEF Next, CallStep, InstanceStep, KeyStep, run, enqueue, canonicalizeFails,
         leaveQueue, start, retry, enterGate, readyGate, answered, transportLost, cancelled,
         unwind, Abort, handshake, Crash, tearDownSucceeds, tearDownFails, reapRetries,
         settleTail, idleTimerFires, disposeAllReturns, vars, lifeVars, isDisposed
  <2>2. QED
    BY <1>2, <2>1 DEF isDisposed
<1>3. CASE isDisposed
  <2>1. \A i \in Instances : shake[i] = "unborn" => shake'[i] = "unborn"
    BY <1>3, DisposedStep
  <2>2. ASSUME NEW i \in Instances, tearDownSucceeds(i) \/ tearDownFails(i) \/ reapRetries(i)
        PROVE  WaitingInv'
    BY <1>t, <2>1, <2>2 DEF tearDownSucceeds, tearDownFails, reapRetries, reapSettles,
         startTeardown, ReapTypeOK, LifeTypeOK
  <2>3. ASSUME disposeAllReturns PROVE WaitingInv'
    BY <1>t, <2>3 DEF disposeAllReturns, procVars, reapVars
  <2>4. ASSUME NEW S, startTeardown(S), UNCHANGED <<lifeVars>> PROVE WaitingInv'
    BY <1>t, <2>1, <2>4, TeardownKeepsDone DEF lifeVars
  <2>5. ASSUME NEW S, reap(S), UNCHANGED lifeVars PROVE WaitingInv'
    BY <1>t, <2>1, <2>5, ReapOwns DEF lifeVars
  <2>6. ASSUME UNCHANGED <<teardown, lifeVars>> PROVE WaitingInv'
    BY <1>t, <2>1, <2>6 DEF lifeVars
  <2>7. ASSUME NEW c \in Calls, readyGate(c) \/ transportLost(c) \/ cancelled(c) \/ unwind(c)
        PROVE  WaitingInv'
    BY <2>4, <2>5, <2>6, <2>7
       DEF readyGate, transportLost, cancelled, unwind, TearFirst, reapVars
  <2>8. ASSUME NEW k \in Keys, idleTimerFires(k) PROVE WaitingInv'
    BY <2>5, <2>8 DEF idleTimerFires
  <2>9. QED
    BY <1>3, <2>2, <2>3, <2>6, <2>7, <2>8
       DEF Next, CallStep, InstanceStep, KeyStep, run, enqueue, canonicalizeFails,
         leaveQueue, start, retry, enterGate, answered, Abort, handshake, Crash,
         settleTail, disposeAll, vars, reapVars
<1>4. QED
  BY <1>1, <1>2, <1>3

\* disposeAll that resolves has ended every process tree the client spawned.
THEOREM DisposalEndsProcesses == Spec => []DisposedMeansExited
<1> DEFINE Inv == TypeInv /\ OwnedTrees /\ EmptyInv /\ WaitingInv
<1>1. Init => Inv
  BY TypeInit, OwnedInit DEF Init, EmptyInv, WaitingInv, DisposedMeansExited, isDisposed
<1>2. Inv /\ [Next]_vars => Inv'
  BY TypeStep, OwnedStep, EmptyStep, WaitingStep
<1>3. Inv => DisposedMeansExited
  BY DEF WaitingInv
<1>4. QED
  BY <1>1, <1>2, <1>3, PTL DEF Spec

-----------------------------------------------------------------------------
(* What the pool keeps under a running action: the instance its body runs  *)
(* on stays published for it alone, no timer is armed against it, and a    *)
(* torn instance is out of reach of every other call.                      *)


\* The name of an instance is taken: its call has made that attempt.
Used(i) == i[2] <= attempt[i[1]]

\* The first attempt is made by a queued call, the second by one that retries.
AttemptInv ==
  \A c \in Calls :
    /\ pc[c] \in {"new", "canon", "queued"} => attempt[c] = 0
    /\ pc[c] = "retry" => attempt[c] = 1

\* What is torn was spawned, and what is being reaped or failed to be is torn.
TornInv ==
  \A i \in Instances :
    /\ Torn(i) => Used(i)
    /\ reapPhase[i] # "none" \/ i \in failedReaps => Torn(i)

\* A body runs on the pooled instance of its key, on a torn one after disposal,
\* and fails with "server" on a dead one only.
HeldInv ==
  \A c \in Calls : pc[c] \in Borrowing =>
    /\ held[c] \in Instances
    /\ IF isDisposed THEN Torn(held[c]) ELSE held[c] = instances[KeyOf[c]]
    /\ error[c] = "server" => dead(held[c])

\* An instance is pooled under the key of the call that spawned it.
PooledInv ==
  \A k \in Keys : instances[k] # None => Used(instances[k]) /\ KeyOf[instances[k][1]] = k

PoolInv ==
  /\ AttemptInv /\ TornInv /\ HeldInv /\ PooledInv
  /\ TimerSparesRunning /\ NoTornInstanceBorrowed

IInv == TypeInv /\ QueueInv /\ EmptyInv /\ PoolInv

-----------------------------------------------------------------------------
(* What only grows *)

LEMMA TeardownTears ==
  ASSUME ReapTypeOK, NEW S, startTeardown(S), NEW i \in Instances
  PROVE  Torn(i)' <=> Torn(i) \/ i \in S
  BY DEF ReapTypeOK, startTeardown, Torn

\* reap() tears what it is given, and nothing else.
LEMMA ReapTears ==
  ASSUME ReapTypeOK, TornInv, NEW S, reap(S), NEW i \in Instances
  PROVE  /\ Torn(i)' <=> Torn(i) \/ i \in S
         /\ reapPhase'[i] # "none" \/ i \in failedReaps' => Torn(i)'
<1> DEFINE fresh == {j \in S : reapPhase[j] = "none"}
<1>1. startTeardown(fresh)
  BY DEF reap
<1>2. Torn(i)' <=> Torn(i) \/ i \in fresh
  BY <1>1, TeardownTears
<1>3. reapPhase[i] # "none" => Torn(i)
  BY DEF TornInv
<1>4. i \in failedReaps' => i \in failedReaps
  BY DEF reap
<1>5. reapPhase'[i] # "none" => reapPhase[i] # "none" \/ i \in fresh
  BY DEF reap, ReapTypeOK
<1> QED
  BY <1>2, <1>3, <1>4, <1>5 DEF TornInv

\* A call makes its first attempt from the queue and its second from its retry.
LEMMA AttemptStep == TypeInv /\ AttemptInv /\ [Next]_vars => AttemptInv'
<1> SUFFICES ASSUME TypeInv, AttemptInv, [Next]_vars PROVE AttemptInv'
  OBVIOUS
<1>t. CallsTypeOK
  BY DEF TypeInv, TypeOK
<1> USE <1>t DEF AttemptInv, CallsTypeOK
<1>1. ASSUME NEW c \in Calls, run(c) \/ enqueue(c) \/ canonicalizeFails(c) \/ leaveQueue(c)
      PROVE  AttemptInv'
  BY <1>1 DEF run, enqueue, canonicalizeFails, leaveQueue, Settle, Go
<1>2. ASSUME NEW c \in Calls, start(c) \/ retry(c) PROVE AttemptInv'
  BY <1>2 DEF start, retry, Borrow, SpawnFails, Settle, Go
<1>3. ASSUME NEW c \in Calls, enterGate(c) \/ readyGate(c) \/ answered(c) \/
                              transportLost(c) \/ cancelled(c)
      PROVE  AttemptInv'
  BY <1>3 DEF enterGate, readyGate, answered, transportLost, cancelled, TearFirst, Go
<1>4. ASSUME NEW c \in Calls, unwind(c) PROVE AttemptInv'
  BY <1>4 DEF unwind, Go
<1>5. ASSUME NEW i \in Instances, tearDownSucceeds(i) \/ tearDownFails(i) PROVE AttemptInv'
  BY <1>5 DEF tearDownSucceeds, tearDownFails, ResumeTearing
<1>6. CASE UNCHANGED <<pc, attempt>>
  BY <1>6
<1> QED
  BY <1>1, <1>2, <1>3, <1>4, <1>5, <1>6
     DEF Next, CallStep, InstanceStep, KeyStep, Abort, handshake, Crash, reapRetries,
         settleTail, idleTimerFires, disposeAll, disposeAllReturns, vars, callVars

LEMMA UsedGrows ==
  ASSUME TypeInv, AttemptInv, [Next]_vars, NEW i \in Instances, Used(i)
  PROVE  Used(i)'
<1>t. CallsTypeOK
  BY DEF TypeInv, TypeOK
<1> SUFFICES \A c \in Calls : attempt[c] <= attempt'[c]
  BY <1>t, CallsTypeStep DEF Used, Instances, CallsTypeOK
<1>1. ASSUME NEW c \in Calls, start(c) \/ retry(c)
      PROVE  \A d \in Calls : attempt[d] <= attempt'[d]
  BY <1>t, <1>1 DEF start, retry, Borrow, SpawnFails, Settle, AttemptInv, CallsTypeOK
<1>2. CASE UNCHANGED attempt
  BY <1>t, <1>2 DEF CallsTypeOK
<1> QED
  BY <1>1, <1>2
     DEF Next, CallStep, InstanceStep, KeyStep, run, enqueue, canonicalizeFails, leaveQueue,
         enterGate, readyGate, answered, transportLost, cancelled, unwind, Settle, Abort,
         handshake, Crash, tearDownSucceeds, tearDownFails, reapRetries, settleTail,
         idleTimerFires, disposeAll, disposeAllReturns, vars, callVars

-----------------------------------------------------------------------------
(* What a step does to the pool *)

\* A step that publishes, lends, tears and arms nothing.
Aside ==
  /\ UNCHANGED <<held, instances, timer>>
  /\ isDisposed' <=> isDisposed
  /\ \A i \in Instances :
       /\ Torn(i)' <=> Torn(i)
       /\ dead(i) => dead(i)'
       /\ reapPhase'[i] # "none" \/ i \in failedReaps' => Torn(i)
  /\ \A c \in Calls :
       /\ pc'[c] \in Borrowing => pc[c] \in Borrowing /\ error'[c] = error[c]
       /\ pc'[c] \in Running => pc[c] \in Running
       /\ pc[c] \in {"tearing", "unwind"} => pc'[c] \in {"tearing", "unwind"}

\* A step of the body of c, up to its finally.
Body(c) ==
  /\ pc[c] \in {"enter", "gate", "acting"}
  /\ pc'[c] \in Borrowing
  /\ \A d \in Calls \ {c} : pc'[d] = pc[d] /\ error'[d] = error[d]
  /\ UNCHANGED <<held, instances, timer, broken, reapPhase, failedReaps, disposal>>
  /\ \/ UNCHANGED teardown
     \/ startTeardown({held[c]}) /\ pc'[c] \in {"tearing", "unwind"}

LEMMA CallAside ==
  ASSUME TypeInv, TornInv, NEW c \in Calls,
         \/ run(c) \/ enqueue(c) \/ canonicalizeFails(c) \/ leaveQueue(c) \/ Abort(c)
         \/ \E n \in {1, 2} : pc[c] \in {"queued", "retry"} /\ SpawnFails(c, n) /\ UNCHANGED <<reapVars, lifeVars>>
         \/ pc[c] = "retry" /\ Settle(c, "server") /\ UNCHANGED <<poolVars, procVars, reapVars, lifeVars>>
  PROVE  Aside
<1>t. CallsTypeOK
  BY DEF TypeInv, TypeOK
<1>1. UNCHANGED <<held, instances, timer, disposal, teardown, broken, reapPhase, failedReaps>>
  BY DEF run, enqueue, canonicalizeFails, leaveQueue, Abort, SpawnFails, Settle,
         poolVars, procVars, reapVars, lifeVars
<1>2. \A d \in Calls \ {c} : pc'[d] = pc[d] /\ error'[d] = error[d]
  BY <1>t DEF run, enqueue, canonicalizeFails, leaveQueue, Abort, SpawnFails, Settle, Go, CallsTypeOK
<1>3. \/ pc'[c] = pc[c] /\ error'[c] = error[c]
      \/ pc[c] \in {"new", "canon", "queued", "retry"} /\ pc'[c] \in {"canon", "queued", "settled"}
  BY <1>t DEF run, enqueue, canonicalizeFails, leaveQueue, Abort, SpawnFails, Settle, Go, CallsTypeOK
<1>4. \A d \in Calls :
       /\ pc'[d] \in Borrowing => pc[d] \in Borrowing /\ error'[d] = error[d]
       /\ pc'[d] \in Running => pc[d] \in Running
       /\ pc[d] \in {"tearing", "unwind"} => pc'[d] \in {"tearing", "unwind"}
  BY <1>2, <1>3 DEF Running, Borrowing
<1> QED
  BY <1>1, <1>4 DEF Aside, isDisposed, Torn, dead, TornInv

LEMMA InstanceAside ==
  ASSUME TypeInv, TornInv, NEW i \in Instances, InstanceStep(i)
  PROVE  Aside
<1>t. CallsTypeOK /\ ProcessTypeOK /\ ReapTypeOK
  BY DEF TypeInv, TypeOK
<1>1. UNCHANGED <<held, error, instances, timer, disposal>>
  BY DEF InstanceStep, handshake, Crash, tearDownSucceeds, tearDownFails, reapRetries, poolVars,
         callVars, lifeVars
<1>2. \A d \in Calls : pc'[d] = pc[d] \/ (pc[d] = "tearing" /\ pc'[d] = "unwind")
  <2>1. CASE ResumeTearing(i)
    BY <1>t, <2>1 DEF ResumeTearing, CallsTypeOK
  <2>2. CASE UNCHANGED callVars
    BY <2>2 DEF callVars
  <2> QED
    BY <2>1, <2>2 DEF InstanceStep, handshake, Crash, tearDownSucceeds, tearDownFails, reapRetries
<1>3. \A d \in Calls :
       /\ pc'[d] \in Borrowing => pc[d] \in Borrowing /\ error'[d] = error[d]
       /\ pc'[d] \in Running => pc[d] \in Running
       /\ pc[d] \in {"tearing", "unwind"} => pc'[d] \in {"tearing", "unwind"}
  BY <1>1, <1>2 DEF Running, Borrowing
<1>4. reapPhase[i] = "backoff" => Torn(i)
  BY DEF TornInv
<1>5. \A j \in Instances : Torn(j)' <=> Torn(j)
  <2>1. CASE handshake(i) \/ Crash(i)
    BY <2>1 DEF handshake, Crash, reapVars, Torn
  <2>2. CASE tearDownSucceeds(i) \/ tearDownFails(i)
    BY <1>t, <2>2 DEF tearDownSucceeds, tearDownFails, Torn, ReapTypeOK
  <2>3. CASE reapRetries(i)
    <3>1. CASE startTeardown({i})
      BY <1>t, <1>4, <2>3, <3>1, TeardownTears DEF reapRetries
    <3>2. CASE UNCHANGED teardown
      BY <3>2 DEF Torn
    <3> QED
      BY <2>3, <3>1, <3>2 DEF reapRetries
  <2> QED
    BY <2>1, <2>2, <2>3 DEF InstanceStep
<1>6. \A j \in Instances : broken[j] => broken'[j]
  BY <1>t DEF InstanceStep, handshake, Crash, tearDownSucceeds, tearDownFails, reapRetries,
              procVars, ProcessTypeOK
<1>7. \A j \in Instances : reapPhase'[j] # "none" \/ j \in failedReaps' => Torn(j)
  <2>1. CASE handshake(i) \/ Crash(i)
    BY <2>1 DEF handshake, Crash, reapVars, TornInv
  <2>2. CASE tearDownSucceeds(i)
    BY <1>t, <2>2 DEF tearDownSucceeds, reapSettles, TornInv, ReapTypeOK, Torn
  <2>3. CASE tearDownFails(i)
    BY <1>t, <2>3 DEF tearDownFails, reapSettles, TornInv, ReapTypeOK, Torn
  <2>4. CASE reapRetries(i)
    BY <1>t, <1>4, <2>4 DEF reapRetries, reapSettles, TornInv, ReapTypeOK
  <2> QED
    BY <2>1, <2>2, <2>3, <2>4 DEF InstanceStep
<1> QED
  BY <1>1, <1>3, <1>5, <1>6, <1>7 DEF Aside, isDisposed, dead

LEMMA BodyDoes ==
  ASSUME TypeInv, NEW c \in Calls,
         enterGate(c) \/ readyGate(c) \/ answered(c) \/ transportLost(c) \/ cancelled(c)
  PROVE  Body(c)
<1>t. CallsTypeOK
  BY DEF TypeInv, TypeOK
<1>1. CASE enterGate(c) \/ answered(c)
  BY <1>t, <1>1 DEF enterGate, answered, Body, Go, poolVars, procVars, reapVars, lifeVars,
                    Borrowing, CallsTypeOK
<1>2. CASE readyGate(c)
  BY <1>t, <1>2 DEF readyGate, TearFirst, Body, Go, poolVars, procVars, lifeVars,
                    Borrowing, CallsTypeOK
<1>3. CASE transportLost(c) \/ cancelled(c)
  BY <1>t, <1>3 DEF transportLost, cancelled, TearFirst, Body, Go, poolVars, procVars, lifeVars,
                    Borrowing, CallsTypeOK
<1> QED
  BY <1>1, <1>2, <1>3

\* An instance is lent to a call that waits for its turn or its retry.
Lend(c, n) ==
  /\ pc[c] = IF n = 1 THEN "queued" ELSE "retry"
  /\ Borrow(c, n)
  /\ UNCHANGED <<reapVars, lifeVars>>

LEMMA StepKinds ==
  ASSUME TypeInv, TornInv, [Next]_vars
  PROVE  \/ Aside
         \/ \E c \in Calls, n \in {1, 2} : Lend(c, n)
         \/ \E c \in Calls :
              \/ enterGate(c) \/ readyGate(c) \/ answered(c) \/ transportLost(c) \/ cancelled(c)
              \/ unwind(c)
         \/ \E k \in Keys : idleTimerFires(k)
         \/ disposeAll
<1>1. ASSUME NEW c \in Calls, start(c) \/ retry(c)
      PROVE  Aside \/ \E n \in {1, 2} : Lend(c, n)
  BY <1>1, CallAside DEF start, retry, Lend
<1>2. ASSUME NEW c \in Calls,
             run(c) \/ enqueue(c) \/ canonicalizeFails(c) \/ leaveQueue(c) \/ Abort(c)
      PROVE  Aside
  BY <1>2, CallAside
<1>3. ASSUME NEW i \in Instances, InstanceStep(i) PROVE Aside
  BY <1>3, InstanceAside
<1>4. ASSUME UNCHANGED <<callVars, poolVars, procVars, reapVars>>, isDisposed' <=> isDisposed
      PROVE  Aside
  BY <1>4 DEF Aside, callVars, poolVars, procVars, reapVars, Torn, dead, TornInv, Running
<1>5. ASSUME NEW k \in Keys, settleTail(k) PROVE Aside
  BY <1>4, <1>5 DEF settleTail, lifeVars, isDisposed
<1>6. CASE disposeAllReturns
  BY <1>4, <1>6 DEF disposeAllReturns, isDisposed
<1>7. CASE UNCHANGED vars
  BY <1>4, <1>7 DEF vars, lifeVars, isDisposed
<1> QED
  BY <1>1, <1>2, <1>3, <1>5, <1>6, <1>7 DEF Next, CallStep, KeyStep

-----------------------------------------------------------------------------
(* The parts of the invariant *)

\* What a body runs on was spawned.
LEMMA HeldUsed ==
  ASSUME PoolInv, NEW c \in Calls, pc[c] \in Borrowing
  PROVE  held[c] \in Instances /\ Used(held[c])
  BY KeysAssumption, NoneAssumption DEF PoolInv, HeldInv, PooledInv, TornInv

\* No two keys pool one instance.
LEMMA OwnKey ==
  ASSUME PooledInv, NEW k \in Keys, NEW l \in Keys, k # l, instances[k] # None
  PROVE  instances[l] # instances[k]
  BY DEF PooledInv

\* No other call of its key runs with c.
LEMMA RunsAlone ==
  ASSUME QueueInv, NEW c \in Calls, NEW d \in Calls, c # d,
         pc[c] \in Running, pc[d] \in Running
  PROVE  KeyOf[c] # KeyOf[d]
  BY DEF QueueInv

LEMMA AsideInv ==
  ASSUME IInv, [Next]_vars, Aside
  PROVE  PoolInv'
<1>1. PoolInv /\ TypeInv
  BY DEF IInv
<1>t. PoolTypeOK /\ CallsTypeOK
  BY <1>1 DEF TypeInv, TypeOK
<1>2. AttemptInv'
  BY <1>1, AttemptStep DEF PoolInv
<1>u. \A i \in Instances : Used(i) => Used(i)'
  BY <1>1, UsedGrows DEF PoolInv
<1>3. TornInv'
  BY <1>1, <1>u DEF PoolInv, TornInv, Aside
<1>4. HeldInv'
  <2> SUFFICES ASSUME NEW c \in Calls, pc'[c] \in Borrowing
               PROVE  /\ held[c] \in Instances
                      /\ IF isDisposed THEN Torn(held[c])' ELSE held[c] = instances[KeyOf[c]]
                      /\ error'[c] = "server" => dead(held[c])'
    BY DEF HeldInv, Aside, Torn, dead
  <2>1. pc[c] \in Borrowing /\ error'[c] = error[c]
    BY DEF Aside
  <2> QED
    BY <1>1, <2>1 DEF PoolInv, HeldInv, Aside
<1>5. PooledInv'
  BY <1>t, <1>1, <1>u DEF PoolInv, PooledInv, Aside, PoolTypeOK, Used
<1>6. TimerSparesRunning'
  <2> SUFFICES ASSUME NEW k \in Keys, timer[k] # None
               PROVE  /\ timer[k] = instances[k]
                      /\ ~Torn(timer[k])'
                      /\ \A c \in Calls : pc'[c] \in Running => KeyOf[c] # k
    BY DEF TimerSparesRunning, Aside, Torn
  <2>1. timer[k] \in Instances
    BY <1>t DEF PoolTypeOK
  <2> QED
    BY <1>1, <2>1 DEF PoolInv, TimerSparesRunning, Aside
<1>7. NoTornInstanceBorrowed'
  <2> SUFFICES ASSUME NEW k \in Keys, instances[k] # None, Torn(instances[k])'
               PROVE  \E c \in Calls : held[c] = instances[k] /\ pc'[c] \in {"tearing", "unwind"}
    BY DEF NoTornInstanceBorrowed, Aside, Torn
  <2>1. instances[k] \in Instances
    BY <1>t DEF PoolTypeOK
  <2>2. Torn(instances[k])
    BY <2>1 DEF Aside
  <2>3. PICK c \in Calls : held[c] = instances[k] /\ pc[c] \in {"tearing", "unwind"}
    BY <1>1, <2>2 DEF PoolInv, NoTornInstanceBorrowed
  <2> QED
    BY <2>3 DEF Aside
<1> QED
  BY <1>2, <1>3, <1>4, <1>5, <1>6, <1>7 DEF PoolInv

LEMMA LendInv ==
  ASSUME IInv, [Next]_vars, NEW c \in Calls, NEW n \in {1, 2}, Lend(c, n)
  PROVE  PoolInv'
<1> DEFINE k == KeyOf[c]
           i == IF instances[k] = None THEN <<c, n>> ELSE instances[k]
<1>1. PoolInv /\ TypeInv /\ QueueInv
  BY DEF IInv
<1>t. PoolTypeOK /\ CallsTypeOK
  BY <1>1 DEF TypeInv, TypeOK
<1>k. k \in Keys /\ i \in Instances /\ i # None
  BY <1>t, KeysAssumption, NoneAssumption DEF PoolTypeOK, Instances
<1>l. /\ pc' = [pc EXCEPT ![c] = "enter"] /\ error' = [error EXCEPT ![c] = "none"]
      /\ attempt' = [attempt EXCEPT ![c] = n] /\ held' = [held EXCEPT ![c] = i]
      /\ instances' = [instances EXCEPT ![k] = i] /\ timer' = [timer EXCEPT ![k] = None]
      /\ UNCHANGED <<broken, teardown, reapPhase, failedReaps, disposal>>
      /\ ~isDisposed
  BY DEF Lend, Borrow, Go, clearIdleTimer, assertActive, reapVars, lifeVars
<1>p. pc[c] \notin Borrowing
  BY DEF Lend, Borrowing
<1>2. AttemptInv'
  BY <1>1, AttemptStep DEF PoolInv
<1>u. \A j \in Instances : Used(j) => Used(j)'
  BY <1>1, UsedGrows DEF PoolInv
<1>3. TornInv'
  BY <1>1, <1>u, <1>l DEF PoolInv, TornInv, Torn
<1>4. HeldInv'
  <2> SUFFICES ASSUME NEW d \in Calls, pc'[d] \in Borrowing
               PROVE  /\ held'[d] \in Instances
                      /\ held'[d] = instances'[KeyOf[d]]
                      /\ error'[d] = "server" => dead(held'[d])
    BY <1>l DEF HeldInv, isDisposed, Torn, dead
  <2>1. CASE d = c
    BY <1>t, <1>k, <1>l, <2>1 DEF CallsTypeOK, PoolTypeOK
  <2>2. CASE d # c
    <3>1. pc[d] \in Borrowing /\ held'[d] = held[d] /\ error'[d] = error[d]
      BY <1>t, <1>l, <2>2 DEF CallsTypeOK
    <3>2. /\ held[d] \in Instances /\ held[d] = instances[KeyOf[d]]
          /\ error[d] = "server" => dead(held[d])
      BY <1>1, <1>l, <3>1 DEF PoolInv, HeldInv
    <3>3. instances'[KeyOf[d]] = instances[KeyOf[d]]
      BY <1>t, <1>k, <1>l, <3>2, KeysAssumption, NoneAssumption DEF PoolTypeOK
    <3> QED
      BY <3>1, <3>2, <3>3
  <2> QED
    BY <2>1, <2>2
<1>5. PooledInv'
  <2> SUFFICES ASSUME NEW l \in Keys, instances'[l] # None
               PROVE  /\ instances'[l][2] <= attempt'[instances'[l][1]]
                      /\ KeyOf[instances'[l][1]] = l
    BY DEF PooledInv, Used
  <2>1. CASE instances'[l] = instances[l]
    <3>1. instances[l] \in Instances /\ Used(instances[l]) /\ KeyOf[instances[l][1]] = l
      BY <1>t, <1>1, <2>1 DEF PoolInv, PooledInv, PoolTypeOK
    <3> QED
      BY <1>u, <2>1, <3>1 DEF Used
  <2>2. CASE instances'[l] # instances[l]
    <3>1. l = k /\ instances'[l] = <<c, n>>
      BY <1>t, <1>k, <1>l, <2>2 DEF PoolTypeOK
    <3>2. attempt'[c] = n
      BY <1>t, <1>l DEF CallsTypeOK
    <3> QED
      BY <3>1, <3>2 DEF Used
  <2> QED
    BY <2>1, <2>2
<1>6. TimerSparesRunning'
  <2> SUFFICES ASSUME NEW l \in Keys, timer'[l] # None
               PROVE  /\ timer'[l] = instances'[l]
                      /\ ~Torn(timer'[l])
                      /\ \A d \in Calls : pc'[d] \in Running => KeyOf[d] # l
    BY <1>l DEF TimerSparesRunning, Torn
  <2>1. l # k /\ timer'[l] = timer[l] /\ instances'[l] = instances[l]
    BY <1>t, <1>k, <1>l DEF PoolTypeOK
  <2>2. timer[l] = instances[l] /\ ~Torn(timer[l]) /\ \A d \in Calls : pc[d] \in Running => KeyOf[d] # l
    BY <1>1, <2>1 DEF PoolInv, TimerSparesRunning
  <2> QED
    BY <1>t, <1>l, <2>1, <2>2 DEF CallsTypeOK
<1>7. NoTornInstanceBorrowed'
  <2> SUFFICES ASSUME NEW l \in Keys, instances'[l] # None, Torn(instances'[l])
               PROVE  \E d \in Calls : held'[d] = instances'[l] /\ pc'[d] \in {"tearing", "unwind"}
    BY <1>l DEF NoTornInstanceBorrowed, Torn
  <2>1. CASE instances'[l] = instances[l]
    <3>1. PICK d \in Calls : held[d] = instances[l] /\ pc[d] \in {"tearing", "unwind"}
      BY <1>1, <2>1 DEF PoolInv, NoTornInstanceBorrowed
    <3>2. d # c
      BY <1>p, <3>1 DEF Borrowing
    <3> QED
      BY <1>t, <1>l, <2>1, <3>1, <3>2 DEF CallsTypeOK
  <2>2. CASE instances'[l] # instances[l]
    <3>1. instances'[l] = <<c, n>> /\ instances[k] = None
      BY <1>t, <1>k, <1>l, <2>2 DEF PoolTypeOK
    <3>2. attempt[c] = n - 1
      BY <1>1 DEF PoolInv, AttemptInv, Lend
    <3>3. ~Used(<<c, n>>)
      BY <3>2 DEF Used
    <3> QED
      BY <1>1, <1>k, <3>1, <3>3 DEF PoolInv, TornInv
  <2> QED
    BY <2>1, <2>2
<1> QED
  BY <1>2, <1>3, <1>4, <1>5, <1>6, <1>7 DEF PoolInv

LEMMA BodyInv ==
  ASSUME IInv, [Next]_vars, NEW c \in Calls,
         enterGate(c) \/ readyGate(c) \/ answered(c) \/ transportLost(c) \/ cancelled(c)
  PROVE  PoolInv'
<1>1. PoolInv /\ TypeInv /\ QueueInv /\ EmptyInv
  BY DEF IInv
<1>t. PoolTypeOK /\ CallsTypeOK /\ ReapTypeOK
  BY <1>1 DEF TypeInv, TypeOK
<1>b. Body(c)
  BY <1>1, BodyDoes
<1>p. /\ pc[c] \in Borrowing /\ pc[c] \in Running /\ pc[c] \notin {"tearing", "unwind"}
      /\ isDisposed' <=> isDisposed
  BY <1>b DEF Body, Running, Borrowing, isDisposed
<1>h. held[c] \in Instances /\ Used(held[c])
  BY <1>1, <1>p, HeldUsed
<1>n. \A j \in Instances : /\ Torn(j) => Torn(j)'
                           /\ Torn(j)' => Torn(j) \/ (j = held[c] /\ pc'[c] \in {"tearing", "unwind"})
                           /\ dead(j) => dead(j)'
  <2>1. CASE UNCHANGED teardown
    BY <1>b, <2>1 DEF Body, Torn, dead
  <2>2. CASE startTeardown({held[c]}) /\ pc'[c] \in {"tearing", "unwind"}
    BY <1>b, <1>t, <2>2, TeardownTears DEF Body, dead
  <2> QED
    BY <1>b, <2>1, <2>2 DEF Body
<1>2. AttemptInv'
  BY <1>1, AttemptStep DEF PoolInv
<1>u. \A j \in Instances : Used(j) => Used(j)'
  BY <1>1, UsedGrows DEF PoolInv
<1>3. TornInv'
  BY <1>1, <1>u, <1>b, <1>h, <1>n DEF PoolInv, TornInv, Body
<1>s. error'[c] = "server" => dead(held[c])'
  <2>1. isDisposed => Torn(held[c])
    BY <1>1, <1>p DEF PoolInv, HeldInv
  <2>2. \A e \in bodySignal(c) : e = "server" => Torn(held[c])
    BY <2>1 DEF bodySignal, querySignal, CallerReason, LifetimeReason
  <2>3. CASE enterGate(c)
    BY <1>t, <1>h, <1>n, <2>2, <2>3 DEF enterGate, Go, CallsTypeOK, dead
  <2>4. CASE readyGate(c)
    BY <1>t, <1>h, <1>n, <2>2, <2>4, TeardownTears
       DEF readyGate, TearFirst, Go, CallsTypeOK, dead
  <2>5. CASE answered(c) \/ transportLost(c)
    BY <1>t, <2>5 DEF answered, transportLost, TearFirst, Go, CallsTypeOK
  <2>6. CASE cancelled(c)
    BY <1>t, <1>h, <1>n, <2>2, <2>6 DEF cancelled, TearFirst, Go, CallsTypeOK, dead
  <2> QED
    BY <2>3, <2>4, <2>5, <2>6
<1>4. HeldInv'
  <2> SUFFICES ASSUME NEW d \in Calls, pc'[d] \in Borrowing
               PROVE  /\ held[d] \in Instances
                      /\ IF isDisposed THEN teardown'[held[d]] # "none" ELSE held[d] = instances[KeyOf[d]]
                      /\ error'[d] = "server" => broken'[held[d]] \/ teardown'[held[d]] # "none"
    BY <1>b, <1>p DEF HeldInv, Body, Torn, dead
  <2>1. pc[d] \in Borrowing /\ (d # c => error'[d] = error[d])
    BY <1>b, <1>p DEF Body
  <2> QED
    BY <1>1, <1>b, <1>n, <1>s, <2>1 DEF PoolInv, HeldInv, Body, Torn, dead
<1>5. PooledInv'
  BY <1>t, <1>1, <1>u, <1>b DEF PoolInv, PooledInv, Body, PoolTypeOK, Used
<1>6. TimerSparesRunning'
  <2> SUFFICES ASSUME NEW l \in Keys, timer[l] # None
               PROVE  /\ timer[l] = instances[l]
                      /\ ~Torn(timer[l])'
                      /\ \A d \in Calls : pc'[d] \in Running => KeyOf[d] # l
    BY <1>b DEF TimerSparesRunning, Body, Torn
  <2>1. /\ timer[l] = instances[l] /\ ~Torn(timer[l])
        /\ \A d \in Calls : pc[d] \in Running => KeyOf[d] # l
    BY <1>1 DEF PoolInv, TimerSparesRunning
  <2>2. held[c] # timer[l]
    <3>1. ~isDisposed
      BY <1>1, <2>1 DEF EmptyInv
    <3>2. held[c] = instances[KeyOf[c]] /\ KeyOf[c] # l /\ KeyOf[c] \in Keys
      BY <1>1, <1>p, <2>1, <3>1, KeysAssumption DEF PoolInv, HeldInv
    <3> QED
      BY <1>1, <2>1, <3>2, OwnKey DEF PoolInv
  <2>3. timer[l] \in Instances
    BY <1>t DEF PoolTypeOK
  <2> QED
    BY <1>b, <1>n, <1>p, <2>1, <2>2, <2>3 DEF Body
<1>7. NoTornInstanceBorrowed'
  <2> SUFFICES ASSUME NEW l \in Keys, instances[l] # None, teardown'[instances[l]] # "none"
               PROVE  \E d \in Calls : held[d] = instances[l] /\ pc'[d] \in {"tearing", "unwind"}
    BY <1>b DEF NoTornInstanceBorrowed, Body, Torn
  <2>1. instances[l] \in Instances
    BY <1>t DEF PoolTypeOK
  <2>2. CASE Torn(instances[l])
    <3>1. PICK d \in Calls : held[d] = instances[l] /\ pc[d] \in {"tearing", "unwind"}
      BY <1>1, <2>2 DEF PoolInv, NoTornInstanceBorrowed
    <3> QED
      BY <1>b, <1>p, <3>1 DEF Body
  <2>3. CASE ~Torn(instances[l])
    BY <1>n, <2>1, <2>3 DEF Torn
  <2> QED
    BY <2>2, <2>3
<1> QED
  BY <1>2, <1>3, <1>4, <1>5, <1>6, <1>7 DEF PoolInv

\* runOnce's finally: a dead instance is unpublished and reaped, a living one
\* gets the timer.
LEMMA UnwindInv ==
  ASSUME IInv, [Next]_vars, NEW c \in Calls, unwind(c)
  PROVE  PoolInv'
<1> DEFINE k == KeyOf[c]
           i == held[c]
<1>1. PoolInv /\ TypeInv /\ QueueInv /\ EmptyInv
  BY DEF IInv
<1>t. PoolTypeOK /\ CallsTypeOK /\ ReapTypeOK
  BY <1>1 DEF TypeInv, TypeOK
<1>p. /\ pc[c] = "unwind" /\ pc[c] \in Borrowing /\ pc[c] \in Running
      /\ k \in Keys /\ disposal' = disposal
  BY KeysAssumption DEF unwind, Running, Borrowing, lifeVars, isDisposed
<1>h. i \in Instances /\ Used(i) /\ i # None
  BY <1>1, <1>p, HeldUsed, NoneAssumption
<1>a. IF isDisposed THEN Torn(i) ELSE i = instances[k]
  BY <1>1, <1>p DEF PoolInv, HeldInv
<1>c. /\ pc'[c] \in Running => dead(i)
      /\ pc'[c] \notin Borrowing
      /\ \A d \in Calls \ {c} : pc'[d] = pc[d] /\ error'[d] = error[d] /\ held'[d] = held[d]
      /\ broken' = broken
  BY <1>1, <1>p, <1>t DEF PoolInv, HeldInv, unwind, Go, CallsTypeOK, Running, Borrowing, procVars
<1>e. \/ /\ dead(i)
         /\ instances' = [instances EXCEPT ![k] = IF @ = i THEN None ELSE @]
         /\ timer' = [timer EXCEPT ![k] = None]
         /\ reap({i})
      \/ /\ ~dead(i)
         /\ timer' = IF IdleEviction THEN [timer EXCEPT ![k] = i] ELSE timer
         /\ UNCHANGED <<instances, teardown, reapPhase, failedReaps>>
  BY DEF unwind, evict, clearIdleTimer, reapVars
<1>n. \A j \in Instances : /\ Torn(j) => Torn(j)'
                           /\ Torn(j)' => Torn(j) \/ (j = i /\ dead(i))
                           /\ dead(j) => dead(j)'
                           /\ reapPhase'[j] # "none" \/ j \in failedReaps' => Torn(j)'
  <2>1. CASE dead(i) /\ reap({i})
    BY <1>1, <1>c, <1>t, <2>1, ReapTears DEF PoolInv, dead
  <2>2. CASE UNCHANGED <<teardown, reapPhase, failedReaps>>
    BY <1>1, <1>c, <2>2 DEF PoolInv, TornInv, Torn, dead
  <2> QED
    BY <1>e, <2>1, <2>2
<1>i. \A l \in Keys : /\ instances'[l] # None => instances'[l] = instances[l]
                      /\ l # k => instances'[l] = instances[l] /\ timer'[l] = timer[l]
                      /\ instances[l] # None /\ l # k => instances[l] # i
  <2>1. ASSUME NEW l \in Keys, instances[l] # None, l # k PROVE instances[l] # i
    <3>1. PooledInv /\ ~isDisposed
      BY <1>1, <2>1 DEF PoolInv, EmptyInv
    <3> QED
      BY <1>a, <1>h, <1>p, <2>1, <3>1, OwnKey
  <2> QED
    BY <1>e, <1>p, <1>t, <2>1 DEF PoolTypeOK
<1>2. AttemptInv'
  BY <1>1, AttemptStep DEF PoolInv
<1>u. \A j \in Instances : Used(j) => Used(j)'
  BY <1>1, UsedGrows DEF PoolInv
<1>3. TornInv'
  BY <1>1, <1>u, <1>h, <1>n DEF PoolInv, TornInv
<1>4. HeldInv'
  <2> SUFFICES ASSUME NEW d \in Calls, pc'[d] \in Borrowing
               PROVE  /\ held'[d] \in Instances
                      /\ IF isDisposed THEN teardown'[held'[d]] # "none"
                                       ELSE held'[d] = instances'[KeyOf[d]]
                      /\ error'[d] = "server" => broken'[held'[d]] \/ teardown'[held'[d]] # "none"
    BY <1>p DEF HeldInv, Torn, dead, isDisposed
  <2>1. d # c /\ pc[d] \in Borrowing /\ error'[d] = error[d] /\ held'[d] = held[d]
    BY <1>c
  <2>2. KeyOf[d] # k /\ KeyOf[d] \in Keys
    BY <1>1, <1>p, <2>1, RunsAlone, KeysAssumption DEF Running
  <2> QED
    BY <1>1, <1>i, <1>n, <2>1, <2>2 DEF PoolInv, HeldInv, Torn, dead
<1>5. PooledInv'
  BY <1>t, <1>1, <1>u, <1>i DEF PoolInv, PooledInv, PoolTypeOK, Used
<1>6. TimerSparesRunning'
  <2> SUFFICES ASSUME NEW l \in Keys, timer'[l] # None
               PROVE  /\ timer'[l] = instances'[l]
                      /\ teardown'[timer'[l]] = "none"
                      /\ \A d \in Calls : pc'[d] \in Running => KeyOf[d] # l
    BY DEF TimerSparesRunning, Torn
  <2>1. CASE l = k
    <3>1. timer[k] = None
      <4>1. TimerSparesRunning
        BY <1>1 DEF PoolInv
      <4>2. k \in Keys /\ pc[c] \in Running /\ KeyOf[c] = k
        BY <1>p
      <4> QED
        BY <4>1, <4>2 DEF TimerSparesRunning
    <3>2. timer'[k] = i /\ ~dead(i) /\ instances' = instances /\ teardown' = teardown
      BY <1>e, <1>p, <1>t, <2>1, <3>1 DEF PoolTypeOK
    <3>3. i = instances[k] /\ ~Torn(i)
      BY <1>a, <3>2 DEF dead
    <3>4. ASSUME NEW d \in Calls, pc'[d] \in Running PROVE KeyOf[d] # k
      <4>1. d # c
        BY <1>c, <3>2, <3>4
      <4> QED
        BY <1>1, <1>c, <1>p, <3>4, <4>1, RunsAlone
    <3> QED
      BY <2>1, <3>2, <3>3, <3>4 DEF Torn
  <2>2. CASE l # k
    <3>1. timer'[l] = timer[l] /\ instances'[l] = instances[l]
      BY <1>i, <2>2
    <3>2. /\ timer[l] = instances[l] /\ ~Torn(timer[l])
          /\ \A d \in Calls : pc[d] \in Running => KeyOf[d] # l
      BY <1>1, <3>1 DEF PoolInv, TimerSparesRunning
    <3>3. timer[l] \in Instances /\ timer[l] # i
      BY <1>i, <1>t, <2>2, <3>1, <3>2 DEF PoolTypeOK
    <3>4. teardown'[timer'[l]] = "none"
      BY <1>n, <3>1, <3>2, <3>3 DEF Torn
    <3> QED
      BY <1>c, <2>2, <3>1, <3>2, <3>4
  <2> QED
    BY <2>1, <2>2
<1>7. NoTornInstanceBorrowed'
  <2> SUFFICES ASSUME NEW l \in Keys, instances'[l] # None, teardown'[instances'[l]] # "none"
               PROVE  \E d \in Calls : held'[d] = instances'[l] /\ pc'[d] \in {"tearing", "unwind"}
    BY DEF NoTornInstanceBorrowed, Torn
  <2>1. instances'[l] = instances[l] /\ instances[l] \in Instances /\ ~isDisposed
    BY <1>1, <1>i, <1>t DEF PoolTypeOK, EmptyInv
  <2>2. l # k \/ ~dead(i)
    BY <1>a, <1>e, <1>h, <1>p, <1>t, <2>1 DEF PoolTypeOK
  <2>3. Torn(instances[l]) /\ l # k
    BY <1>a, <1>i, <1>n, <2>1, <2>2 DEF Torn, dead
  <2>4. PICK d \in Calls : held[d] = instances[l] /\ pc[d] \in {"tearing", "unwind"}
    BY <1>1, <2>1, <2>3 DEF PoolInv, NoTornInstanceBorrowed
  <2>5. d # c
    BY <1>i, <2>1, <2>3, <2>4
  <2> QED
    BY <1>c, <2>1, <2>4, <2>5
<1> QED
  BY <1>2, <1>3, <1>4, <1>5, <1>6, <1>7 DEF PoolInv

\* The idle timer fires for an instance nobody runs on.
LEMMA IdleInv ==
  ASSUME IInv, [Next]_vars, NEW k \in Keys, idleTimerFires(k)
  PROVE  PoolInv'
<1> DEFINE i == timer[k]
<1>1. PoolInv /\ TypeInv /\ QueueInv /\ EmptyInv
  BY DEF IInv
<1>t. PoolTypeOK /\ ReapTypeOK
  BY <1>1 DEF TypeInv, TypeOK
<1>e. /\ i \in Instances /\ i # None /\ instances[k] = i /\ ~isDisposed
      /\ instances' = [instances EXCEPT ![k] = None] /\ timer' = [timer EXCEPT ![k] = None]
      /\ UNCHANGED <<pc, error, attempt, held, broken, disposal>>
      /\ reap({i})
  BY <1>1, <1>t DEF idleTimerFires, callVars, procVars, lifeVars, PoolTypeOK, EmptyInv
<1>r. \A c \in Calls : pc[c] \in Running => KeyOf[c] # k
  BY <1>1, <1>e DEF PoolInv, TimerSparesRunning
<1>n. \A j \in Instances : /\ Torn(j)' <=> Torn(j) \/ j = i
                           /\ dead(j) => dead(j)'
                           /\ reapPhase'[j] # "none" \/ j \in failedReaps' => Torn(j)'
  BY <1>1, <1>e, <1>t, ReapTears DEF PoolInv, dead
<1>i. \A l \in Keys : /\ instances'[l] # None => l # k
                      /\ l # k => instances'[l] = instances[l] /\ timer'[l] = timer[l]
                      /\ l # k => instances[l] # i
                      /\ l = k => timer'[l] = None
  <2>1. ASSUME NEW l \in Keys, l # k PROVE instances[l] # i
    BY <1>1, <1>e, <2>1, OwnKey DEF PoolInv
  <2> QED
    BY <1>e, <1>t, <2>1 DEF PoolTypeOK
<1>2. AttemptInv'
  BY <1>1, AttemptStep DEF PoolInv
<1>u. \A j \in Instances : Used(j) => Used(j)'
  BY <1>1, UsedGrows DEF PoolInv
<1>3. TornInv'
  <2>1. Used(i)
    BY <1>1, <1>e DEF PoolInv, PooledInv
  <2> QED
    BY <1>1, <1>u, <1>n, <2>1 DEF PoolInv, TornInv
<1>4. HeldInv'
  <2> SUFFICES ASSUME NEW d \in Calls, pc[d] \in Borrowing
               PROVE  /\ held[d] \in Instances
                      /\ held[d] = instances'[KeyOf[d]]
                      /\ error[d] = "server" => broken[held[d]] \/ teardown'[held[d]] # "none"
    BY <1>e DEF HeldInv, Torn, dead, isDisposed
  <2>1. KeyOf[d] # k /\ KeyOf[d] \in Keys
    BY <1>r, KeysAssumption DEF Running
  <2> QED
    BY <1>1, <1>e, <1>i, <1>n, <2>1 DEF PoolInv, HeldInv, Torn, dead
<1>5. PooledInv'
  BY <1>t, <1>1, <1>u, <1>i DEF PoolInv, PooledInv, PoolTypeOK, Used
<1>6. TimerSparesRunning'
  <2> SUFFICES ASSUME NEW l \in Keys, timer'[l] # None
               PROVE  /\ timer'[l] = instances'[l]
                      /\ teardown'[timer'[l]] = "none"
                      /\ \A d \in Calls : pc[d] \in Running => KeyOf[d] # l
    BY <1>e DEF TimerSparesRunning, Torn
  <2>1. l # k /\ timer'[l] = timer[l] /\ instances'[l] = instances[l] /\ instances[l] # i
    BY <1>i
  <2>2. /\ timer[l] = instances[l] /\ ~Torn(timer[l]) /\ timer[l] \in Instances
        /\ \A d \in Calls : pc[d] \in Running => KeyOf[d] # l
    BY <1>1, <1>t, <2>1 DEF PoolInv, TimerSparesRunning, PoolTypeOK
  <2> QED
    BY <1>n, <2>1, <2>2 DEF Torn
<1>7. NoTornInstanceBorrowed'
  <2> SUFFICES ASSUME NEW l \in Keys, instances'[l] # None, teardown'[instances'[l]] # "none"
               PROVE  \E d \in Calls : held[d] = instances'[l] /\ pc[d] \in {"tearing", "unwind"}
    BY <1>e DEF NoTornInstanceBorrowed, Torn
  <2>1. instances'[l] = instances[l] /\ instances[l] \in Instances /\ instances[l] # i
    BY <1>i, <1>t DEF PoolTypeOK
  <2>2. Torn(instances[l])
    BY <1>n, <2>1 DEF Torn
  <2> QED
    BY <1>1, <2>1, <2>2 DEF PoolInv, NoTornInstanceBorrowed
<1> QED
  BY <1>2, <1>3, <1>4, <1>5, <1>6, <1>7 DEF PoolInv

\* disposeAll tears every pooled instance, the ones bodies run on included.
LEMMA DisposeInv ==
  ASSUME IInv, [Next]_vars, disposeAll
  PROVE  PoolInv'
<1>1. PoolInv /\ TypeInv
  BY DEF IInv
<1>t. PoolTypeOK /\ ReapTypeOK
  BY <1>1 DEF TypeInv, TypeOK
<1>e. /\ ~isDisposed /\ disposal' = "waiting"
      /\ instances' = [l \in Keys |-> None] /\ timer' = [l \in Keys |-> None]
      /\ UNCHANGED <<pc, error, attempt, held, broken>>
      /\ reap(leftToReap)
  BY DEF disposeAll, callVars, procVars
<1>n. \A j \in Instances : /\ Torn(j)' <=> Torn(j) \/ j \in leftToReap
                           /\ dead(j) => dead(j)'
                           /\ reapPhase'[j] # "none" \/ j \in failedReaps' => Torn(j)'
  BY <1>1, <1>e, <1>t, ReapTears DEF PoolInv, dead
<1>2. AttemptInv'
  BY <1>1, AttemptStep DEF PoolInv
<1>u. \A j \in Instances : Used(j) => Used(j)'
  BY <1>1, UsedGrows DEF PoolInv
<1>3. TornInv'
  <2>1. \A j \in Instances : j \in leftToReap => Used(j)
    BY <1>1 DEF leftToReap, PoolInv, PooledInv, TornInv
  <2> QED
    BY <1>1, <1>u, <1>n, <2>1 DEF PoolInv, TornInv
<1>4. HeldInv'
  <2> SUFFICES ASSUME NEW d \in Calls, pc[d] \in Borrowing
               PROVE  held[d] \in Instances /\ teardown'[held[d]] # "none"
    BY <1>e DEF HeldInv, Torn, dead, isDisposed
  <2>1. held[d] \in Instances /\ held[d] = instances[KeyOf[d]] /\ KeyOf[d] \in Keys
    BY <1>1, <1>e, KeysAssumption DEF PoolInv, HeldInv
  <2>2. held[d] \in leftToReap
    BY <2>1, NoneAssumption DEF leftToReap
  <2> QED
    BY <1>n, <2>1, <2>2 DEF Torn
<1>5. PooledInv' /\ TimerSparesRunning' /\ NoTornInstanceBorrowed'
  BY <1>e DEF PooledInv, TimerSparesRunning, NoTornInstanceBorrowed
<1> QED
  BY <1>2, <1>3, <1>4, <1>5 DEF PoolInv

-----------------------------------------------------------------------------

LEMMA InitIInv == Init => IInv
<1> SUFFICES ASSUME Init PROVE IInv
  OBVIOUS
<1>1. AttemptInv /\ TornInv /\ HeldInv
  BY DEF Init, AttemptInv, TornInv, HeldInv, Torn, Borrowing
<1>2. PooledInv /\ TimerSparesRunning /\ NoTornInstanceBorrowed
  BY DEF Init, PooledInv, TimerSparesRunning, NoTornInstanceBorrowed
<1>3. EmptyInv
  BY DEF Init, EmptyInv
<1> QED
  BY <1>1, <1>2, <1>3, TypeInit, QueueInit DEF IInv, PoolInv

LEMMA IInvStep == IInv /\ [Next]_vars => IInv'
<1> SUFFICES ASSUME IInv, [Next]_vars PROVE IInv'
  OBVIOUS
<1>1. TypeInv' /\ QueueInv' /\ EmptyInv'
  BY TypeStep, QueueStep, EmptyStep DEF IInv
<1>2. PoolInv'
  <2>1. TypeInv /\ TornInv
    BY DEF IInv, PoolInv
  <2> QED
    BY <2>1, StepKinds, AsideInv, LendInv, BodyInv, UnwindInv, IdleInv, DisposeInv
<1> QED
  BY <1>1, <1>2 DEF IInv

\* What holds of queue, pool and processes in every state of the client.
THEOREM IInvHolds == Spec => []IInv
  BY InitIInv, IInvStep, PTL DEF Spec

\* An idle timer that is armed is for a living, published instance, and no
\* action of its key runs: instanceFor clears the timer before it lends, and
\* only the last action to leave a living instance arms it again.
THEOREM TimersSpareRunning == Spec => []TimerSparesRunning
<1>1. IInv => TimerSparesRunning
  BY DEF IInv, PoolInv
<1> QED
  BY <1>1, IInvHolds, PTL

\* An instance whose teardown has started stays published only until the action
\* that started it evicts it: no later call can be lent one.
THEOREM TornIsOutOfReach == Spec => []NoTornInstanceBorrowed
<1>1. IInv => NoTornInstanceBorrowed
  BY DEF IInv, PoolInv
<1> QED
  BY <1>1, IInvHolds, PTL

\* A body runs on the instance published under its call's key, or after disposal
\* on a torn one.  A "server" failure, which runScoped retries, is of a dead
\* instance only, so the finally unpublishes it before the retry borrows again.
THEOREM BodiesRunOnTheirOwn == Spec => []HeldInv
<1>1. IInv => HeldInv
  BY DEF IInv, PoolInv
<1> QED
  BY <1>1, IInvHolds, PTL

-----------------------------------------------------------------------------
(* The serial service: every step is one of it, or leaves what a caller sees *)

InLine(k, c) == \E i \in 1..Len(tail[k]) : tail[k][i] = c

\* A call joins the tail of its key once, and stays until it has settled.
LineInv ==
  /\ \A k \in Keys : \A i, j \in 1..Len(tail[k]) : tail[k][i] = tail[k][j] => i = j
  /\ \A k \in Keys, c \in Calls : InLine(k, c) => KeyOf[c] = k /\ pc[c] \notin {"new", "canon"}
  /\ \A c \in Calls : pc[c] = "queued" => InLine(KeyOf[c], c)

RInv == TypeInv /\ QueueInv /\ EmptyInv /\ LineInv

-----------------------------------------------------------------------------
(* The lines *)

LEMMA TailOf ==
  ASSUME PoolTypeOK, NEW c \in Calls
  PROVE  KeyOf[c] \in Keys /\ tail[KeyOf[c]] \in Seq(Calls)
  BY KeysAssumption DEF PoolTypeOK

\* Steps that move no link and let no call join.
LEMMA LineKept ==
  ASSUME LineInv, UNCHANGED tail,
         \A c \in Calls : /\ pc'[c] \in {"new", "canon"} => pc[c] \in {"new", "canon"}
                          /\ pc'[c] = "queued" => pc[c] = "queued"
  PROVE  LineInv'
  BY DEF LineInv, InLine

LEMMA LineStep == TypeInv /\ LineInv /\ [Next]_vars => LineInv'
<1> SUFFICES ASSUME TypeInv, LineInv, [Next]_vars PROVE LineInv'
  OBVIOUS
<1>t. CallsTypeOK /\ PoolTypeOK
  BY DEF TypeInv, TypeOK
<1>1. ASSUME NEW c \in Calls, enqueue(c) PROVE LineInv'
  <2> DEFINE k == KeyOf[c]
  <2>1. k \in Keys /\ tail[k] \in Seq(Calls)
    BY <1>t, TailOf
  <2>2. \A l \in Keys : tail'[l] = IF l = k THEN Append(tail[k], c) ELSE tail[l]
    BY <1>t, <1>1 DEF enqueue, link, PoolTypeOK
  <2>3. /\ Len(tail'[k]) = Len(tail[k]) + 1 /\ Len(tail[k]) \in Nat
        /\ tail'[k][Len(tail[k]) + 1] = c
        /\ \A i \in 1..Len(tail[k]) : tail'[k][i] = tail[k][i]
    <3>1. tail'[k] = Append(tail[k], c)
      BY <2>1, <2>2
    <3> QED
      BY <2>1, <3>1, AppendProperties, LenProperties
  <2>4. \A i \in 1..Len(tail[k]) : tail[k][i] # c
    BY <1>1, <2>1 DEF LineInv, InLine, enqueue
  <2>5. /\ pc'[c] = "queued" /\ \A d \in Calls \ {c} : pc'[d] = pc[d]
    BY <1>t, <1>1 DEF enqueue, Go, CallsTypeOK
  <2>6. \A l \in Keys : \A i, j \in 1..Len(tail'[l]) : tail'[l][i] = tail'[l][j] => i = j
    <3> SUFFICES ASSUME NEW l \in Keys, NEW i \in 1..Len(tail'[l]), NEW j \in 1..Len(tail'[l]),
                        tail'[l][i] = tail'[l][j]
                 PROVE  i = j
      OBVIOUS
    <3>1. CASE l # k
      BY <2>2, <3>1 DEF LineInv
    <3>2. CASE l = k
      <4>1. (i \in 1..Len(tail[k]) \/ i = Len(tail[k]) + 1)
            /\ (j \in 1..Len(tail[k]) \/ j = Len(tail[k]) + 1)
        BY <2>3, <3>2
      <4> QED
        BY <2>1, <2>3, <2>4, <3>2, <4>1 DEF LineInv
    <3> QED
      BY <3>1, <3>2
  <2>7. \A l \in Keys, d \in Calls : InLine(l, d)' => (d = c /\ l = k) \/ InLine(l, d)
    <3> SUFFICES ASSUME NEW l \in Keys, NEW d \in Calls, NEW i \in 1..Len(tail'[l]),
                        tail'[l][i] = d
                 PROVE  (d = c /\ l = k) \/ \E j \in 1..Len(tail[l]) : tail[l][j] = d
      BY DEF InLine
    <3>1. CASE l # k
      BY <2>2, <3>1
    <3>2. CASE l = k
      <4>1. i \in 1..Len(tail[k]) \/ i = Len(tail[k]) + 1
        BY <2>3, <3>2
      <4> QED
        BY <2>3, <3>2, <4>1
    <3> QED
      BY <3>1, <3>2
  <2>8. \A l \in Keys, d \in Calls : InLine(l, d) => InLine(l, d)'
    BY <2>1, <2>2, <2>3 DEF InLine
  <2>9. InLine(k, c)'
    BY <2>3 DEF InLine
  <2> QED
    BY <1>t, <2>5, <2>6, <2>7, <2>8, <2>9, TailOf DEF LineInv
<1>2. ASSUME NEW k \in Keys, settleTail(k) PROVE LineInv'
  <2>1. /\ tail[k] \in Seq(Calls) /\ tail[k] # <<>> /\ pc[Head(tail[k])] = "settled"
        /\ UNCHANGED pc
        /\ \A l \in Keys : tail'[l] = IF l = k THEN Tail(tail[k]) ELSE tail[l]
    BY <1>t, <1>2 DEF settleTail, callVars, PoolTypeOK
  <2>2. /\ Len(tail'[k]) = Len(tail[k]) - 1 /\ Len(tail[k]) \in Nat \ {0}
        /\ \A i \in 1..Len(tail'[k]) : tail'[k][i] = tail[k][i + 1]
        /\ Head(tail[k]) = tail[k][1]
    <3>1. tail'[k] = Tail(tail[k])
      BY <2>1
    <3> QED
      BY <2>1, <3>1, HeadTailProperties, LenProperties, EmptySeq
  <2>3. \A l \in Keys : \A i, j \in 1..Len(tail'[l]) : tail'[l][i] = tail'[l][j] => i = j
    <3> SUFFICES ASSUME NEW l \in Keys, NEW i \in 1..Len(tail'[l]), NEW j \in 1..Len(tail'[l]),
                        tail'[l][i] = tail'[l][j]
                 PROVE  i = j
      OBVIOUS
    <3>1. CASE l # k
      BY <2>1, <3>1 DEF LineInv
    <3>2. CASE l = k
      <4>1. i + 1 \in 1..Len(tail[k]) /\ j + 1 \in 1..Len(tail[k]) /\ tail[k][i + 1] = tail[k][j + 1]
        BY <2>2, <3>2
      <4>2. i + 1 = j + 1
        BY <4>1 DEF LineInv
      <4> QED
        BY <2>2, <3>2, <4>2
    <3> QED
      BY <3>1, <3>2
  <2>4. \A l \in Keys, c \in Calls : InLine(l, c)' => InLine(l, c)
    BY <2>1, <2>2 DEF InLine
  <2>5. ASSUME NEW c \in Calls, pc[c] = "queued" PROVE InLine(KeyOf[c], c)'
    <3>1. KeyOf[c] \in Keys /\ InLine(KeyOf[c], c)
      BY <1>t, <2>5, TailOf DEF LineInv
    <3>2. CASE KeyOf[c] # k
      BY <2>1, <3>1, <3>2 DEF InLine
    <3>3. CASE KeyOf[c] = k
      <4>1. PICK i \in 1..Len(tail[k]) : tail[k][i] = c
        BY <3>1, <3>3 DEF InLine
      <4>2. i # 1
        BY <2>1, <2>2, <2>5, <4>1
      <4>3. i - 1 \in 1..Len(tail'[k]) /\ tail'[k][i - 1] = c
        BY <2>2, <4>1, <4>2
      <4> QED
        BY <3>3, <4>3 DEF InLine
    <3> QED
      BY <3>2, <3>3
  <2> QED
    BY <2>1, <2>3, <2>4, <2>5 DEF LineInv
<1>3. ASSUME UNCHANGED tail,
             \A c \in Calls : /\ pc'[c] \in {"new", "canon"} => pc[c] \in {"new", "canon"}
                              /\ pc'[c] = "queued" => pc[c] = "queued"
      PROVE  LineInv'
  BY <1>3, LineKept
<1>4. ASSUME NEW c \in Calls, run(c) \/ canonicalizeFails(c) \/ leaveQueue(c) \/ start(c) \/ retry(c)
      PROVE  LineInv'
  BY <1>t, <1>3, <1>4 DEF run, canonicalizeFails, leaveQueue, start, retry, Borrow, SpawnFails,
                          Settle, Go, CallsTypeOK
<1>5. ASSUME NEW c \in Calls, enterGate(c) \/ readyGate(c) \/ answered(c) \/
                              transportLost(c) \/ cancelled(c) \/ unwind(c)
      PROVE  LineInv'
  BY <1>t, <1>3, <1>5 DEF enterGate, readyGate, answered, transportLost, cancelled, unwind,
                          TearFirst, Go, CallsTypeOK
<1>6. ASSUME NEW i \in Instances, tearDownSucceeds(i) \/ tearDownFails(i) PROVE LineInv'
  BY <1>t, <1>3, <1>6 DEF tearDownSucceeds, tearDownFails, ResumeTearing, CallsTypeOK
<1>7. CASE UNCHANGED <<pc, tail>>
  BY <1>3, <1>7
<1> QED
  BY <1>1, <1>2, <1>4, <1>5, <1>6, <1>7
     DEF Next, CallStep, InstanceStep, KeyStep, Abort, handshake, Crash, reapRetries,
         idleTimerFires, disposeAll, disposeAllReturns, vars, callVars

LEMMA RInvInit == Init => RInv
<1> SUFFICES ASSUME Init PROVE RInv
  OBVIOUS
<1>1. LineInv
  BY EmptySeq DEF Init, LineInv, InLine
<1> QED
  BY <1>1, TypeInit, QueueInit DEF Init, EmptyInv, RInv

LEMMA RInvStep == RInv /\ [Next]_vars => RInv'
  BY TypeStep, QueueStep, EmptyStep, LineStep DEF RInv

-----------------------------------------------------------------------------
(* What a step shows to the callers *)

\* A call's links and state decide what it sees.
LEMMA SameView ==
  ASSUME UNCHANGED tail, NEW c \in Calls,
         pc'[c] = "queued" <=> pc[c] = "queued",
         \A d \in Calls : pc'[d] = "settled" <=> pc[d] = "settled"
  PROVE  Ahead(c)' = Ahead(c)
  BY DEF Ahead

\* Steps that move calls within one phase show nothing.
LEMMA Unseen ==
  ASSUME CallsTypeOK, CallsTypeOK', UNCHANGED tail, isDisposed' <=> isDisposed,
         \A c \in Calls :
           \/ pc'[c] = pc[c]
           \/ pc[c] \in {"new", "canon"} /\ pc'[c] \in {"new", "canon"}
           \/ pc[c] \in Running /\ pc'[c] \in Running
  PROVE  UNCHANGED Service!vars
<1>1. \A c \in Calls : Phase(c)' = Phase(c)
  BY DEF Phase, Running, Borrowing
<1>2. \A c \in Calls : Ahead(c)' = Ahead(c)
  <2> SUFFICES ASSUME NEW c \in Calls PROVE Ahead(c)' = Ahead(c)
    OBVIOUS
  <2> QED
    BY SameView DEF Running, Borrowing
<1>3. isDisposed' = isDisposed
  BY DEF isDisposed
<1> QED
  BY <1>1, <1>2, <1>3 DEF Service!vars

\* A call that settles leaves every line.
LEMMA Finishes ==
  ASSUME CallsTypeOK, NEW c \in Calls, pc[c] # "settled", pc' = [pc EXCEPT ![c] = "settled"],
         UNCHANGED <<tail, disposal>>
  PROVE  Service!Finish(c)
<1>1. /\ pc'[c] = "settled" /\ \A d \in Calls \ {c} : pc'[d] = pc[d]
  BY DEF CallsTypeOK
<1>2. Phase(c)' = "settled" /\ \A d \in Calls \ {c} : Phase(d)' = Phase(d)
  BY <1>1 DEF Phase, Running, Borrowing
<1>3. Phase(c) # "settled"
  BY DEF Phase, Running, Borrowing, CallsTypeOK
<1>4. Ahead(c)' = {} /\ \A d \in Calls \ {c} : Ahead(d)' = Ahead(d) \ {c}
  BY <1>1 DEF Ahead
<1> QED
  BY <1>2, <1>3, <1>4 DEF Service!Finish, isDisposed

LEMMA Joins ==
  ASSUME TypeInv, QueueInv, LineInv, NEW c \in Calls, enqueue(c)
  PROVE  Service!Join(c)
<1> DEFINE k == KeyOf[c]
<1>t. CallsTypeOK /\ PoolTypeOK
  BY DEF TypeInv, TypeOK
<1>1. k \in Keys /\ tail[k] \in Seq(Calls) /\ pc[c] = "canon"
  BY <1>t, TailOf DEF enqueue
<1>2. \A l \in Keys : tail'[l] = IF l = k THEN Append(tail[k], c) ELSE tail[l]
  BY <1>t DEF enqueue, link, PoolTypeOK
<1>3. /\ Len(tail'[k]) = Len(tail[k]) + 1 /\ Len(tail[k]) \in Nat
      /\ tail'[k][Len(tail[k]) + 1] = c
      /\ \A i \in 1..Len(tail[k]) : tail'[k][i] = tail[k][i]
  <2>1. tail'[k] = Append(tail[k], c)
    BY <1>1, <1>2
  <2> QED
    BY <1>1, <2>1, AppendProperties, LenProperties
<1>4. /\ pc'[c] = "queued" /\ \A d \in Calls \ {c} : pc'[d] = pc[d]
  BY <1>t DEF enqueue, Go, CallsTypeOK
<1>5. Phase(c) = "new" /\ Phase(c)' = "waiting" /\ \A d \in Calls \ {c} : Phase(d)' = Phase(d)
  BY <1>1, <1>4 DEF Phase, Running, Borrowing
<1>6. \A d \in Calls : InLine(k, d) /\ pc[d] # "settled"
                       <=> KeyOf[d] = k /\ Phase(d) \in {"waiting", "served"}
  <2>1. \A d \in Calls : KeyOf[d] = k /\ pc[d] \in Running => InLine(k, d)
    <3> SUFFICES ASSUME NEW d \in Calls, KeyOf[d] = k, pc[d] \in Running PROVE InLine(k, d)
      OBVIOUS
    <3>1. tail[k] # <<>> /\ Head(tail[k]) = d
      BY DEF QueueInv
    <3> QED
      BY <1>1, <3>1, EmptySeq DEF InLine
  <2>2. \A d \in Calls : Phase(d) \in {"waiting", "served"} <=> pc[d] \in {"queued"} \cup Running
    BY <1>t DEF Phase, CallsTypeOK, Running, Borrowing
  <2> QED
    <3>1. ASSUME NEW d \in Calls, InLine(k, d), pc[d] # "settled"
          PROVE  KeyOf[d] = k /\ pc[d] \in {"queued"} \cup Running
      BY <1>1, <1>t, <3>1 DEF LineInv, CallsTypeOK
    <3>2. ASSUME NEW d \in Calls, KeyOf[d] = k, pc[d] \in {"queued"} \cup Running
          PROVE  InLine(k, d) /\ pc[d] # "settled"
      BY <2>1, <3>2 DEF LineInv, Running, Borrowing
    <3> QED
      BY <2>2, <3>1, <3>2
<1>7. \A d \in Calls : d \in Ahead(c)' <=> InLine(k, d) /\ pc[d] # "settled"
  <2> SUFFICES ASSUME NEW d \in Calls
               PROVE  (/\ pc'[d] # "settled"
                       /\ \E i, j \in 1..Len(tail'[k]) : i < j /\ tail'[k][i] = d /\ tail'[k][j] = c)
                      <=> InLine(k, d) /\ pc[d] # "settled"
    BY <1>4 DEF Ahead
  <2>1. ~InLine(k, c)
    BY <1>1 DEF LineInv
  <2>2. ASSUME InLine(k, d), pc[d] # "settled"
        PROVE  /\ pc'[d] # "settled"
               /\ \E i, j \in 1..Len(tail'[k]) : i < j /\ tail'[k][i] = d /\ tail'[k][j] = c
    <3>1. PICK i \in 1..Len(tail[k]) : tail[k][i] = d
      BY <2>2 DEF InLine
    <3>2. /\ i \in 1..Len(tail'[k]) /\ Len(tail[k]) + 1 \in 1..Len(tail'[k]) /\ i < Len(tail[k]) + 1
          /\ tail'[k][i] = d
      BY <1>3, <3>1
    <3>3. d # c
      BY <2>1, <2>2
    <3> QED
      BY <1>3, <1>4, <2>2, <3>2, <3>3
  <2>3. ASSUME pc'[d] # "settled", NEW i \in 1..Len(tail'[k]), NEW j \in 1..Len(tail'[k]),
               i < j, tail'[k][i] = d, tail'[k][j] = c
        PROVE  InLine(k, d) /\ pc[d] # "settled"
    <3>1. i \in 1..Len(tail[k]) /\ tail[k][i] = d
      BY <1>3, <2>3
    <3>2. InLine(k, d)
      BY <3>1 DEF InLine
    <3>3. d # c
      BY <2>1, <3>2
    <3> QED
      BY <1>4, <2>3, <3>2, <3>3
  <2> QED
    BY <2>2, <2>3
<1>8. ASSUME NEW d \in Calls \ {c} PROVE Ahead(d)' = Ahead(d)
  <2>1. CASE pc[d] # "queued"
    BY <1>4, <2>1 DEF Ahead
  <2>2. CASE KeyOf[d] # k
    <3>1. tail'[KeyOf[d]] = tail[KeyOf[d]]
      BY <1>2, <1>t, <2>2, TailOf
    <3>2. pc'[d] = pc[d] /\ \A e \in Calls : pc'[e] = "settled" <=> pc[e] = "settled"
      BY <1>1, <1>4
    <3>3. {e \in Calls : /\ pc'[e] # "settled"
                         /\ \E i, j \in 1..Len(tail'[KeyOf[d]]) :
                              i < j /\ tail'[KeyOf[d]][i] = e /\ tail'[KeyOf[d]][j] = d}
          = {e \in Calls : /\ pc[e] # "settled"
                           /\ \E i, j \in 1..Len(tail[KeyOf[d]]) :
                                i < j /\ tail[KeyOf[d]][i] = e /\ tail[KeyOf[d]][j] = d}
      BY <3>1, <3>2
    <3> QED
      BY <3>2, <3>3 DEF Ahead
  <2>3. CASE pc[d] = "queued" /\ KeyOf[d] = k
    <3>1. \A i \in 1..Len(tail[k]) : tail[k][i] # c
      BY <1>1 DEF LineInv, InLine
    <3>2. \A i, j \in 1..Len(tail'[k]) :
            i < j /\ tail'[k][j] = d => i \in 1..Len(tail[k]) /\ j \in 1..Len(tail[k])
      BY <1>3
    <3>3. \A e \in Calls :
            /\ pc'[e] # "settled"
            /\ \E i, j \in 1..Len(tail'[k]) : i < j /\ tail'[k][i] = e /\ tail'[k][j] = d
            <=>
            /\ pc[e] # "settled"
            /\ \E i, j \in 1..Len(tail[k]) : i < j /\ tail[k][i] = e /\ tail[k][j] = d
      <4> SUFFICES ASSUME NEW e \in Calls
                   PROVE  (/\ pc'[e] # "settled"
                           /\ \E i, j \in 1..Len(tail'[k]) : i < j /\ tail'[k][i] = e /\ tail'[k][j] = d)
                          <=>
                          (/\ pc[e] # "settled"
                           /\ \E i, j \in 1..Len(tail[k]) : i < j /\ tail[k][i] = e /\ tail[k][j] = d)
        OBVIOUS
      <4>1. (\E i, j \in 1..Len(tail'[k]) : i < j /\ tail'[k][i] = e /\ tail'[k][j] = d)
            <=> (\E i, j \in 1..Len(tail[k]) : i < j /\ tail[k][i] = e /\ tail[k][j] = d)
        <5>1. ASSUME NEW i \in 1..Len(tail'[k]), NEW j \in 1..Len(tail'[k]),
                     i < j, tail'[k][i] = e, tail'[k][j] = d
              PROVE  i \in 1..Len(tail[k]) /\ j \in 1..Len(tail[k]) /\ tail[k][i] = e /\ tail[k][j] = d
          <6>1. i \in 1..Len(tail[k]) /\ j \in 1..Len(tail[k])
            BY <3>2, <5>1
          <6> QED
            BY <1>3, <5>1, <6>1
        <5>2. ASSUME NEW i \in 1..Len(tail[k]), NEW j \in 1..Len(tail[k]),
                     i < j, tail[k][i] = e, tail[k][j] = d
              PROVE  i \in 1..Len(tail'[k]) /\ j \in 1..Len(tail'[k]) /\ tail'[k][i] = e /\ tail'[k][j] = d
          BY <1>3, <5>2
        <5> QED
          BY <5>1, <5>2
      <4>2. pc[c] # "settled" /\ pc'[c] # "settled"
        BY <1>1, <1>4
      <4> QED
        BY <1>4, <4>1, <4>2
    <3>4. pc'[d] = "queued"
      BY <1>4, <2>3
    <3> QED
      BY <2>3, <3>3, <3>4 DEF Ahead
  <2> QED
    BY <2>1, <2>2, <2>3
<1>9. ~isDisposed /\ ~isDisposed'
  BY DEF enqueue, querySignal, LifetimeReason, lifeVars, isDisposed
<1>10. Ahead(c)' = {d \in Calls : KeyOf[d] = k /\ Phase(d) \in {"waiting", "served"}}
  <2>1. Ahead(c)' \subseteq Calls
    BY DEF Ahead
  <2> QED
    BY <1>6, <1>7, <2>1
<1>11. [d \in Calls |-> Ahead(d)']
       = [[d \in Calls |-> Ahead(d)] EXCEPT
            ![c] = {d \in Calls : KeyOf[d] = k /\ Phase(d) \in {"waiting", "served"}}]
  BY <1>8, <1>10
<1>12. Service!Line(c) = {d \in Calls : KeyOf[d] = k /\ Phase(d) \in {"waiting", "served"}}
  BY DEF Service!Line
<1>13. [d \in Calls |-> Phase(d)]' = [[d \in Calls |-> Phase(d)] EXCEPT ![c] = "waiting"]
  BY <1>5
<1>14. [d \in Calls |-> Ahead(d)]' = [[d \in Calls |-> Ahead(d)] EXCEPT ![c] = Service!Line(c)]
  BY <1>11, <1>12
<1>15. UNCHANGED isDisposed
  BY DEF enqueue, lifeVars, isDisposed
<1> QED
  BY <1>5, <1>9, <1>13, <1>14, <1>15 DEF Service!Join

\* The call at the head of the line waits for nobody.
LEMMA Serves ==
  ASSUME TypeInv, LineInv, NEW c \in Calls, start(c), Borrow(c, 1)
  PROVE  Service!Serve(c)
<1> DEFINE k == KeyOf[c]
<1>t. CallsTypeOK /\ PoolTypeOK
  BY DEF TypeInv, TypeOK
<1>1. /\ k \in Keys /\ tail[k] \in Seq(Calls) /\ pc[c] = "queued"
      /\ tail[k] # <<>> /\ Head(tail[k]) = c /\ tail' = tail /\ disposal' = disposal /\ ~isDisposed
  BY <1>t, TailOf DEF start, lifeVars, Borrow, assertActive
<1>2. /\ pc'[c] = "enter" /\ \A d \in Calls \ {c} : pc'[d] = pc[d]
  BY <1>t DEF Borrow, Go, CallsTypeOK
<1>3. Phase(c) = "waiting" /\ Phase(c)' = "served" /\ \A d \in Calls \ {c} : Phase(d)' = Phase(d)
  BY <1>1, <1>2 DEF Phase, Running, Borrowing
<1>4. Ahead(c) = {} /\ Ahead(c)' = {}
  <2>1. 1 \in 1..Len(tail[k]) /\ tail[k][1] = c
    BY <1>1, EmptySeq
  <2>2. ASSUME NEW i \in 1..Len(tail[k]), NEW j \in 1..Len(tail[k]), i < j, tail[k][j] = c
        PROVE  FALSE
    <3>1. j = 1
      BY <1>1, <2>1, <2>2 DEF LineInv
    <3> QED
      BY <2>2, <3>1
  <2>3. Ahead(c) = {}
    BY <2>2 DEF Ahead
  <2> QED
    BY <1>2, <2>3 DEF Ahead
<1>5. ASSUME NEW d \in Calls \ {c} PROVE Ahead(d)' = Ahead(d)
  <2>1. /\ UNCHANGED tail /\ (pc'[d] = "queued" <=> pc[d] = "queued")
        /\ \A e \in Calls : pc'[e] = "settled" <=> pc[e] = "settled"
    BY <1>1, <1>2
  <2> QED
    BY <2>1, SameView
<1>6. [d \in Calls |-> Phase(d)]' = [[d \in Calls |-> Phase(d)] EXCEPT ![c] = "served"]
  BY <1>3
<1>7. UNCHANGED [d \in Calls |-> Ahead(d)]
  BY <1>4, <1>5
<1>8. UNCHANGED isDisposed
  BY <1>1 DEF isDisposed
<1> QED
  BY <1>1, <1>3, <1>4, <1>6, <1>7, <1>8 DEF Service!Serve

\* A settled link that leaves the tail kept nobody waiting.
LEMMA TailsSettle ==
  ASSUME TypeInv, NEW k \in Keys, settleTail(k)
  PROVE  UNCHANGED Service!vars
<1>t. CallsTypeOK /\ PoolTypeOK
  BY DEF TypeInv, TypeOK
<1>1. /\ tail[k] \in Seq(Calls) /\ tail[k] # <<>> /\ pc[Head(tail[k])] = "settled"
      /\ UNCHANGED <<pc, disposal>>
      /\ \A l \in Keys : tail'[l] = IF l = k THEN Tail(tail[k]) ELSE tail[l]
  BY <1>t DEF settleTail, callVars, lifeVars, PoolTypeOK
<1>2. /\ Len(tail'[k]) = Len(tail[k]) - 1 /\ Len(tail[k]) \in Nat \ {0}
      /\ \A i \in 1..Len(tail'[k]) : tail'[k][i] = tail[k][i + 1]
      /\ pc[tail[k][1]] = "settled"
  <2>1. tail'[k] = Tail(tail[k])
    BY <1>1
  <2> QED
    BY <1>1, <2>1, HeadTailProperties, LenProperties, EmptySeq
<1>3. ASSUME NEW c \in Calls PROVE Ahead(c)' = Ahead(c)
  <2> DEFINE l == KeyOf[c]
  <2>1. l \in Keys
    BY KeysAssumption
  <2>2. ASSUME NEW d \in Calls, pc[d] # "settled"
        PROVE  (\E i, j \in 1..Len(tail'[l]) : i < j /\ tail'[l][i] = d /\ tail'[l][j] = c)
               <=> (\E i, j \in 1..Len(tail[l]) : i < j /\ tail[l][i] = d /\ tail[l][j] = c)
    <3>1. CASE l # k
      BY <1>1, <2>1, <3>1
    <3>2. CASE l = k
      <4>1. ASSUME NEW i \in 1..Len(tail'[k]), NEW j \in 1..Len(tail'[k]),
                   i < j, tail'[k][i] = d, tail'[k][j] = c
            PROVE  \E m, n \in 1..Len(tail[k]) : m < n /\ tail[k][m] = d /\ tail[k][n] = c
        <5>1. i + 1 \in 1..Len(tail[k]) /\ j + 1 \in 1..Len(tail[k]) /\ i + 1 < j + 1
          BY <1>2, <4>1
        <5>2. tail[k][i + 1] = d /\ tail[k][j + 1] = c
          BY <1>2, <4>1
        <5> QED
          BY <5>1, <5>2
      <4>2. ASSUME NEW i \in 1..Len(tail[k]), NEW j \in 1..Len(tail[k]),
                   i < j, tail[k][i] = d, tail[k][j] = c
            PROVE  \E m, n \in 1..Len(tail'[k]) : m < n /\ tail'[k][m] = d /\ tail'[k][n] = c
        <5>1. i # 1
          BY <1>2, <2>2, <4>2
        <5>2. /\ i - 1 \in 1..Len(tail'[k]) /\ j - 1 \in 1..Len(tail'[k]) /\ i - 1 < j - 1
              /\ tail'[k][i - 1] = d /\ tail'[k][j - 1] = c
          BY <1>2, <4>2, <5>1
        <5> QED
          BY <5>2
      <4> QED
        BY <3>2, <4>1, <4>2
    <3> QED
      BY <3>1, <3>2
  <2>3. {d \in Calls : /\ pc[d] # "settled"
                       /\ \E i, j \in 1..Len(tail'[l]) : i < j /\ tail'[l][i] = d /\ tail'[l][j] = c}
        = {d \in Calls : /\ pc[d] # "settled"
                         /\ \E i, j \in 1..Len(tail[l]) : i < j /\ tail[l][i] = d /\ tail[l][j] = c}
    BY <2>2
  <2> QED
    BY <1>1, <2>3 DEF Ahead
<1>4. \A c \in Calls : Phase(c)' = Phase(c)
  BY <1>1 DEF Phase
<1>5. UNCHANGED isDisposed
  BY <1>1 DEF isDisposed
<1> QED
  BY <1>3, <1>4, <1>5 DEF Service!vars

-----------------------------------------------------------------------------

LEMMA InitRefines == Init => Service!Init
<1> SUFFICES ASSUME Init PROVE Service!Init
  OBVIOUS
<1>1. \A c \in Calls : Phase(c) = "new" /\ Ahead(c) = {}
  <2>1. ASSUME NEW c \in Calls PROVE Phase(c) = "new" /\ Ahead(c) = {}
    <3>1. pc[c] = "new"
      BY DEF Init
    <3> QED
      BY <3>1 DEF Phase, Ahead, Running, Borrowing
  <2> QED
    BY <2>1
<1>2. isDisposed = FALSE
  BY DEF Init, isDisposed
<1> QED
  BY <1>1, <1>2 DEF Service!Init

\* Every step of the client is a step of the service, or shows nothing.
LEMMA StepRefines == RInv /\ RInv' /\ [Next]_vars => [Service!Next]_Service!vars
<1> SUFFICES ASSUME RInv, RInv', [Next]_vars PROVE [Service!Next]_Service!vars
  OBVIOUS
<1>t. CallsTypeOK /\ CallsTypeOK' /\ TypeInv /\ QueueInv /\ LineInv
  BY DEF RInv, TypeInv, TypeOK
<1>u. ASSUME UNCHANGED <<tail, disposal>>,
             \A c \in Calls :
               \/ pc'[c] = pc[c]
               \/ pc[c] \in {"new", "canon"} /\ pc'[c] \in {"new", "canon"}
               \/ pc[c] \in Running /\ pc'[c] \in Running
      PROVE  UNCHANGED Service!vars
  BY <1>t, <1>u, Unseen DEF isDisposed
<1>f. ASSUME NEW c \in Calls, pc[c] # "settled", pc' = [pc EXCEPT ![c] = "settled"],
             UNCHANGED <<tail, disposal>>
      PROVE  Service!Next
  BY <1>t, <1>f, Finishes DEF Service!Next
<1>1. ASSUME NEW c \in Calls, run(c) \/ canonicalizeFails(c) \/ leaveQueue(c)
      PROVE  [Service!Next]_Service!vars
  <2>1. UNCHANGED <<tail, disposal>> /\ pc[c] # "settled"
    BY <1>1 DEF run, canonicalizeFails, leaveQueue, lifeVars
  <2>2. pc' = [pc EXCEPT ![c] = "settled"] \/ (pc[c] = "new" /\ pc' = [pc EXCEPT ![c] = "canon"])
    BY <1>1 DEF run, canonicalizeFails, leaveQueue, Settle, Go
  <2>3. CASE pc[c] = "new" /\ pc' = [pc EXCEPT ![c] = "canon"]
    BY <1>t, <1>u, <2>1, <2>3 DEF CallsTypeOK
  <2> QED
    BY <1>f, <2>1, <2>2, <2>3
<1>2. ASSUME NEW c \in Calls, enqueue(c) PROVE Service!Next
  BY <1>t, <1>2, Joins DEF Service!Next
<1>3. ASSUME NEW c \in Calls, start(c) PROVE Service!Next
  <2>1. UNCHANGED <<tail, disposal>> /\ pc[c] # "settled"
    BY <1>3 DEF start, lifeVars
  <2>2. CASE Borrow(c, 1)
    BY <1>t, <1>3, <2>2, Serves DEF Service!Next
  <2>3. CASE SpawnFails(c, 1)
    BY <1>f, <2>1, <2>3 DEF SpawnFails, Go
  <2> QED
    BY <1>3, <2>2, <2>3 DEF start
<1>4. ASSUME NEW c \in Calls, retry(c) PROVE [Service!Next]_Service!vars
  <2>1. UNCHANGED <<tail, disposal>> /\ pc[c] = "retry"
    BY <1>4 DEF retry, lifeVars
  <2>2. pc' = [pc EXCEPT ![c] = "settled"] \/ pc' = [pc EXCEPT ![c] = "enter"]
    BY <1>4 DEF retry, Borrow, SpawnFails, Settle, Go
  <2>3. CASE pc' = [pc EXCEPT ![c] = "enter"]
    BY <1>t, <1>u, <2>1, <2>3 DEF CallsTypeOK, Running, Borrowing
  <2> QED
    BY <1>f, <2>1, <2>2, <2>3
<1>5. ASSUME NEW c \in Calls, enterGate(c) \/ readyGate(c) \/ answered(c) \/
                              transportLost(c) \/ cancelled(c)
      PROVE  UNCHANGED Service!vars
  <2>1. UNCHANGED <<tail, disposal>> /\ pc[c] \in Running
    BY <1>5 DEF enterGate, readyGate, answered, transportLost, cancelled, lifeVars, Running, Borrowing
  <2>2. \E p \in Running : pc' = [pc EXCEPT ![c] = p]
    BY <1>5 DEF enterGate, readyGate, answered, transportLost, cancelled, TearFirst, Go,
                Running, Borrowing
  <2> QED
    BY <1>t, <1>u, <2>1, <2>2 DEF CallsTypeOK
<1>6. ASSUME NEW c \in Calls, unwind(c) PROVE [Service!Next]_Service!vars
  <2>1. UNCHANGED <<tail, disposal>> /\ pc[c] = "unwind"
    BY <1>6 DEF unwind, lifeVars
  <2>2. pc' = [pc EXCEPT ![c] = "settled"] \/ pc' = [pc EXCEPT ![c] = "retry"]
    BY <1>6 DEF unwind, Go
  <2>3. CASE pc' = [pc EXCEPT ![c] = "retry"]
    BY <1>t, <1>u, <2>1, <2>3 DEF CallsTypeOK, Running, Borrowing
  <2> QED
    BY <1>f, <2>1, <2>2, <2>3
<1>7. ASSUME NEW i \in Instances, tearDownSucceeds(i) \/ tearDownFails(i)
      PROVE  UNCHANGED Service!vars
  <2>1. UNCHANGED <<tail, disposal>>
    BY <1>7 DEF tearDownSucceeds, tearDownFails
  <2>2. \A c \in Calls : pc'[c] = pc[c] \/ (pc[c] = "tearing" /\ pc'[c] = "unwind")
    BY <1>t, <1>7 DEF tearDownSucceeds, tearDownFails, ResumeTearing, CallsTypeOK
  <2> QED
    BY <1>u, <2>1, <2>2 DEF Running, Borrowing
<1>8. ASSUME NEW k \in Keys, settleTail(k) PROVE UNCHANGED Service!vars
  BY <1>t, <1>8, TailsSettle
<1>9. CASE disposeAll
  <2>1. UNCHANGED <<pc, tail>> /\ ~isDisposed /\ isDisposed'
    BY <1>9 DEF disposeAll, callVars, isDisposed
  <2>2. \A c \in Calls : Phase(c)' = Phase(c) /\ Ahead(c)' = Ahead(c)
    BY <2>1 DEF Phase, Ahead
  <2>3. isDisposed' = TRUE
    BY <2>1 DEF isDisposed
  <2> QED
    BY <2>1, <2>2, <2>3 DEF Service!Next, Service!Close
<1>10. CASE disposeAllReturns
  <2>1. UNCHANGED <<pc, tail>> /\ isDisposed' = isDisposed
    BY <1>10 DEF disposeAllReturns, callVars, isDisposed
  <2> QED
    BY <1>t, <2>1, Unseen
<1>11. CASE UNCHANGED <<pc, tail, disposal>>
  BY <1>11, <1>u
<1> QED
  BY <1>1, <1>2, <1>3, <1>4, <1>5, <1>6, <1>7, <1>8, <1>9, <1>10, <1>11
     DEF Next, CallStep, InstanceStep, KeyStep, Abort, handshake, Crash, reapRetries,
         idleTimerFires, vars, callVars, lifeVars

\* The client implements the serial service: callers of one key are served one
\* at a time and in the order in which they joined, although some leave the
\* queue, fail, retry or are torn down; nobody joins or is served after disposeAll.
THEOREM ServiceImplemented == Spec => ImplementsService
<1>1. Init => RInv
  BY RInvInit
<1>2. RInv /\ [Next]_vars => RInv'
  BY RInvStep
<1>3. RInv /\ RInv' /\ [Next]_vars => [Service!Next]_Service!vars
  BY StepRefines
<1>4. Init => Service!Init
  BY InitRefines
<1> QED
  BY <1>1, <1>2, <1>3, <1>4, PTL DEF Spec, ImplementsService, Service!Spec
=============================================================================
