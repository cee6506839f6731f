---------------------------- MODULE ActionClient ----------------------------
(***************************************************************************)
(* The server pool of the plugin's own LSP client (src/client.ts): calls   *)
(* to one (server entry, canonical workspace) key are serialised by a tail *)
(* of promises, borrow or spawn the key's one server instance, retry once  *)
(* on a handshake failure, and leave dead instances to a reaper that       *)
(* retries their teardown; an idle timer evicts an unused instance and     *)
(* disposeAll ends everything.                                             *)
(*                                                                         *)
(* One step of this module runs from one await of the code to the next, so *)
(* whatever may happen between two awaits (an abort, a crash of the server *)
(* process, a timer, disposeAll, another call) may happen between two      *)
(* steps.  What an instance says on the wire is abstracted to the outcome  *)
(* of its handshake and of its requests.                                   *)
(***************************************************************************)
EXTENDS Naturals, Sequences, FiniteSets

CONSTANTS
  Calls,        \* the action calls made on the client
  Keys,         \* server entry and canonical workspace
  KeyOf,        \* the key each call is routed to
  Fused,        \* renames: calls whose body gets querySignal, and so observes disposal
  PushCalls,    \* calls that wait for pushed diagnostics instead of an answer
  IdleEviction, \* idleTimeoutMs > 0
  MaxSpawns,    \* processes the provider grants in all; bounds the model
  ReapAttempts, \* how often reap tries to dispose (3 in the code)
  None          \* no instance

\* An instance is named by the call and the attempt that spawned it: a call
\* makes at most two attempts, and each spawns at most one instance.
Instances == Calls \X {1, 2}

ASSUME KeysAssumption == KeyOf \in [Calls -> Keys]
ASSUME KindsAssumption == Fused \subseteq Calls /\ PushCalls \subseteq Calls
ASSUME IdleAssumption == IdleEviction \in BOOLEAN
ASSUME ReapAssumption == ReapAttempts \in Nat \ {0}
ASSUME SpawnsAssumption == MaxSpawns \in Nat
ASSUME NoneAssumption == None \notin Instances

VARIABLES
  pc,          \* where each call is
  error,       \* "none", the structured "server" failure, or any "other" error
  attempt,     \* how often it has entered runOnce
  held,        \* the instance its body runs on
  aborted,     \* its caller's signal
  tail,        \* calls queued per key, oldest first, until their link settles
  instances,   \* the pool
  timer,       \* the instance each key's idle timer was armed for
  shake,       \* handshake of each instance
  broken,      \* its process closed or its transport failed
  teardown,    \* its teardownPromise
  reapPhase,   \* what its reap task waits for
  reapAttempt, \* the reap task's attempt
  failedReaps, \* instances whose three reaps failed
  disposal,    \* disposeAll
  awaited,     \* reap tasks disposeAll still waits for
  lost         \* one of them failed

callVars == <<pc, error, attempt, held, aborted>>
poolVars == <<instances, timer>>
procVars == <<shake, broken>>
reapVars == <<teardown, reapPhase, reapAttempt, failedReaps>>
lifeVars == <<disposal, awaited, lost>>
vars == <<callVars, tail, poolVars, procVars, reapVars, lifeVars>>

\* enter: in the instance's own queue; gate: readyGate; acting: request on
\* the wire; tearing: the body awaits startTeardown; unwind: runOnce's finally.
Borrowing == {"enter", "gate", "acting", "tearing", "unwind"}
Running == Borrowing \cup {"retry"}

CallsTypeOK ==
  /\ pc \in [Calls -> {"new", "canon", "queued", "settled"} \cup Running]
  /\ error \in [Calls -> {"none", "server", "other"}]
  /\ attempt \in [Calls -> 0..2]
  /\ held \in [Calls -> Instances \cup {None}]
  /\ aborted \in [Calls -> BOOLEAN]

PoolTypeOK ==
  /\ tail \in [Keys -> Seq(Calls)]
  /\ instances \in [Keys -> Instances \cup {None}]
  /\ timer \in [Keys -> Instances \cup {None}]

ProcessTypeOK ==
  /\ shake \in [Instances -> {"unborn", "pending", "ok", "failed"}]
  /\ broken \in [Instances -> BOOLEAN]

ReapTypeOK ==
  /\ teardown \in [Instances -> {"none", "running", "failed", "done"}]
  /\ reapPhase \in [Instances -> {"none", "dispose", "backoff"}]
  /\ reapAttempt \in [Instances -> 0..ReapAttempts]
  /\ failedReaps \subseteq Instances

LifeTypeOK ==
  /\ disposal \in {"idle", "waiting", "ok", "failed"}
  /\ awaited \subseteq Instances
  /\ lost \in BOOLEAN

TypeOK == CallsTypeOK /\ PoolTypeOK /\ ProcessTypeOK /\ ReapTypeOK /\ LifeTypeOK

Init ==
  /\ pc = [c \in Calls |-> "new"]
  /\ error = [c \in Calls |-> "none"]
  /\ attempt = [c \in Calls |-> 0]
  /\ held = [c \in Calls |-> None]
  /\ aborted = [c \in Calls |-> FALSE]
  /\ tail = [k \in Keys |-> <<>>]
  /\ instances = [k \in Keys |-> None]
  /\ timer = [k \in Keys |-> None]
  /\ shake = [i \in Instances |-> "unborn"]
  /\ broken = [i \in Instances |-> FALSE]
  /\ teardown = [i \in Instances |-> "none"]
  /\ reapPhase = [i \in Instances |-> "none"]
  /\ reapAttempt = [i \in Instances |-> 0]
  /\ failedReaps = {}
  /\ disposal = "idle"
  /\ awaited = {}
  /\ lost = FALSE

-----------------------------------------------------------------------------
(* Helpers *)

isDisposed == disposal # "idle"

\* LspActionInstance.disposed: set by startTeardown and never reset.
Torn(i) == teardown[i] # "none"

\* Mutant: an instance under teardown still counts as alive.
deadOnlyIfBroken(i) == broken[i]

dead(i) == broken[i] \/ Torn(i)

\* A process tree was spawned and no teardown has confirmed its exit.
MayBeAlive(i) == shake[i] # "unborn" /\ teardown[i] # "done"

\* What the fused signal (querySignal) and the body's own signal would reject
\* with; empty while they are not aborted.
CallerReason(c) == IF aborted[c] THEN {"other"} ELSE {}
LifetimeReason == IF isDisposed THEN {"server"} ELSE {}
querySignal(c) == CallerReason(c) \cup LifetimeReason
\* Mutant: the body gets no signal at all.
bodySignalDropped(c) == {}

bodySignal(c) == IF c \in Fused THEN querySignal(c) ELSE CallerReason(c)

Go(c, p, e) ==
  /\ pc' = [pc EXCEPT ![c] = p]
  /\ error' = [error EXCEPT ![c] = e]

Settle(c, e) == Go(c, "settled", e) /\ UNCHANGED <<attempt, held, aborted>>

\* Mutant: a failed teardown stays cached and is never run again.
startTeardownOnce(S) ==
  teardown' = [i \in Instances |->
    IF i \in S /\ teardown[i] = "none" THEN "running" ELSE teardown[i]]

\* startTeardown: joins a running or finished teardown, restarts a failed one.
startTeardown(S) ==
  teardown' = [i \in Instances |->
    IF i \in S /\ teardown[i] \in {"none", "failed"} THEN "running" ELSE teardown[i]]

\* reap of every instance of S: nothing new for one that is being reaped, at
\* once done for one whose teardown succeeded, else a first dispose().
reap(S) ==
  LET fresh == {i \in S : reapPhase[i] = "none"}
      done == {i \in fresh : teardown[i] = "done"}
  IN /\ reapPhase' = [i \in Instances |-> IF i \in fresh \ done THEN "dispose" ELSE reapPhase[i]]
     /\ reapAttempt' = [i \in Instances |-> IF i \in fresh \ done THEN 1 ELSE reapAttempt[i]]
     /\ failedReaps' = failedReaps \ done
     /\ startTeardown(fresh)

-----------------------------------------------------------------------------
(* A call up to its turn *)

\* run: assertActive, then the workspace is canonicalised.
run(c) ==
  /\ pc[c] = "new"
  /\ \/ /\ querySignal(c) = {}
        /\ Go(c, "canon", "none")
        /\ UNCHANGED <<attempt, held, aborted>>
     \/ \E e \in querySignal(c) : Settle(c, e)
  /\ UNCHANGED <<tail, poolVars, procVars, reapVars, lifeVars>>

\* Mutant: a new link goes in before the ones that wait.
linkFirst(s, c) == IF s = <<>> THEN <<c>> ELSE <<Head(s), c>> \o Tail(s)

\* A new link follows the last one.
link(s, c) == Append(s, c)

\* canonicalizeWorkspace returned, and assertActive passed: join the tail.
enqueue(c) ==
  /\ pc[c] = "canon"
  /\ querySignal(c) = {}
  /\ Go(c, "queued", "none")
  /\ tail' = [tail EXCEPT ![KeyOf[c]] = link(@, c)]
  /\ UNCHANGED <<attempt, held, aborted, poolVars, procVars, reapVars, lifeVars>>

\* The workspace does not resolve, or the call was cancelled meanwhile.
canonicalizeFails(c) ==
  /\ pc[c] = "canon"
  /\ \E e \in querySignal(c) \cup {"other"} : Settle(c, e)
  /\ UNCHANGED <<tail, poolVars, procVars, reapVars, lifeVars>>

\* The caller's timeout or cancellation.
Abort(c) ==
  /\ ~aborted[c]
  /\ pc[c] # "settled"
  /\ aborted' = [aborted EXCEPT ![c] = TRUE]
  /\ UNCHANGED <<pc, error, attempt, held, tail, poolVars, procVars, reapVars, lifeVars>>

\* abortable(previous): a waiting call gives up; its link stays in the tail.
leaveQueue(c) ==
  /\ pc[c] = "queued"
  /\ \E e \in querySignal(c) : Settle(c, e)
  /\ UNCHANGED <<tail, poolVars, procVars, reapVars, lifeVars>>

\* Mutant: a link settles with its own call alone, not after the ones before it.
settleTailAlone(k) ==
  /\ \E n \in 1..Len(tail[k]) :
       /\ pc[tail[k][n]] = "settled"
       /\ tail' = [tail EXCEPT ![k] = SubSeq(@, n + 1, Len(@))]
  /\ UNCHANGED <<callVars, poolVars, procVars, reapVars, lifeVars>>

\* The oldest link of a tail settles with its call.
settleTail(k) ==
  /\ tail[k] # <<>>
  /\ pc[Head(tail[k])] = "settled"
  /\ tail' = [tail EXCEPT ![k] = Tail(@)]
  /\ UNCHANGED <<callVars, poolVars, procVars, reapVars, lifeVars>>

-----------------------------------------------------------------------------
(* runOnce *)

\* Mutant: publishing an instance does not look at disposal.
assertNothing == TRUE

assertActive == ~isDisposed

\* Mutant: the timer of the previous action stays armed.
keepIdleTimer(k) == UNCHANGED timer

clearIdleTimer(k) == timer' = [timer EXCEPT ![k] = None]

\* instanceFor: the key's instance, dead or alive, else a fresh one whose
\* handshake starts now; the idle timer is cleared either way.
Borrow(c, n) ==
  LET k == KeyOf[c]
      fresh == instances[k] = None
      i == IF fresh THEN <<c, n>> ELSE instances[k]
  IN /\ assertActive
     /\ fresh => Cardinality({j \in Instances : shake[j] # "unborn"}) < MaxSpawns
     /\ Go(c, "enter", "none")
     /\ attempt' = [attempt EXCEPT ![c] = n]
     /\ held' = [held EXCEPT ![c] = i]
     /\ instances' = [instances EXCEPT ![k] = i]
     /\ clearIdleTimer(k)
     /\ shake' = IF fresh THEN [shake EXCEPT ![i] = "pending"] ELSE shake
     /\ UNCHANGED <<aborted, broken>>

\* The spawner throws: no instance, and no process.  One that it spawned without a
\* stream is told to terminate and belongs to nobody; it is not modelled.
SpawnFails(c, n) ==
  /\ assertActive
  /\ instances[KeyOf[c]] = None
  /\ Go(c, "settled", "other")
  /\ attempt' = [attempt EXCEPT ![c] = n]
  /\ UNCHANGED <<held, aborted, poolVars, procVars>>

\* The call's turn: everything queued before it has settled.
start(c) ==
  /\ pc[c] = "queued"
  /\ tail[KeyOf[c]] # <<>>
  /\ Head(tail[KeyOf[c]]) = c
  /\ querySignal(c) = {}
  /\ Borrow(c, 1) \/ SpawnFails(c, 1)
  /\ UNCHANGED <<tail, reapVars, lifeVars>>

\* The one retry after a handshake failure: nothing but disposal is looked at.
retry(c) ==
  /\ pc[c] = "retry"
  /\ \/ Borrow(c, 2)
     \/ SpawnFails(c, 2)
     \/ /\ isDisposed
        /\ Settle(c, "server")
        /\ UNCHANGED <<poolVars, procVars>>
  /\ UNCHANGED <<tail, reapVars, lifeVars>>

-----------------------------------------------------------------------------
(* The body, on the borrowed instance *)

\* The body fails with e and awaits startTeardown first.
TearFirst(c, e) ==
  /\ startTeardown({held[c]})
  /\ Go(c, IF teardown[held[c]] = "done" THEN "unwind" ELSE "tearing", e)

\* runSerialized, and the checks at the top of readyGate; a rename resolves
\* its workspace again before, which may fail.
enterGate(c) ==
  /\ pc[c] = "enter"
  /\ \/ \E e \in bodySignal(c) : Go(c, "unwind", e)
     \/ bodySignal(c) = {} /\ Torn(held[c]) /\ Go(c, "unwind", "server")
     \/ bodySignal(c) = {} /\ ~Torn(held[c]) /\ Go(c, "gate", "none")
     \/ c \in Fused /\ Go(c, "unwind", "other")
  /\ UNCHANGED <<attempt, held, aborted, tail, poolVars, procVars, reapVars, lifeVars>>

\* readyGate: the handshake settled, or the wait for it was cancelled (once
\* the signal is aborted, abortable rejects and nothing else can win); a live
\* instance that cannot be waited for is torn down.
readyGate(c) ==
  /\ pc[c] = "gate"
  /\ \/ /\ shake[held[c]] = "ok" /\ bodySignal(c) = {}
        /\ Go(c, "acting", "none")
        /\ UNCHANGED teardown
     \/ \E e \in {"server", "other"} :
          /\ IF bodySignal(c) = {} THEN e = "server" /\ shake[held[c]] = "failed"
                                   ELSE e \in bodySignal(c)
          /\ IF dead(held[c]) THEN Go(c, "unwind", e) /\ UNCHANGED teardown
                              ELSE TearFirst(c, e)
  /\ UNCHANGED <<attempt, held, aborted, tail, poolVars, procVars,
                 reapPhase, reapAttempt, failedReaps, lifeVars>>

\* The server answers with a result or an error.  The window of a call that
\* waits for pushes closes, and a rename reads the documents its answer edits,
\* whether or not the server is still there.
answered(c) ==
  /\ pc[c] = "acting"
  /\ bodySignal(c) = {}
  /\ ~broken[held[c]] \/ c \in PushCalls \cup Fused
  /\ \E e \in {"none", "other"} : Go(c, "unwind", e)
  /\ UNCHANGED <<attempt, held, aborted, tail, poolVars, procVars, reapVars, lifeVars>>

\* The connection is gone: a pending request rejects with its close reason; a
\* failed didOpen or didChange tears the instance down first.
transportLost(c) ==
  /\ pc[c] = "acting"
  /\ bodySignal(c) = {}
  /\ broken[held[c]]
  /\ \/ Go(c, "unwind", "other") /\ UNCHANGED teardown
     \/ TearFirst(c, "other")
  /\ UNCHANGED <<attempt, held, aborted, tail, poolVars, procVars,
                 reapPhase, reapAttempt, failedReaps, lifeVars>>

\* sendRequest cancels: the request settles within the grace, or else (and for
\* a cancelled didOpen or didChange) the instance is torn down.
cancelled(c) ==
  /\ pc[c] = "acting"
  /\ \E e \in bodySignal(c) :
       \/ Go(c, "unwind", e) /\ UNCHANGED teardown
       \/ TearFirst(c, e)
  /\ UNCHANGED <<attempt, held, aborted, tail, poolVars, procVars,
                 reapPhase, reapAttempt, failedReaps, lifeVars>>

\* Mutant: the dead instance is reaped but stays published.
evictNothing(k, i) == UNCHANGED instances

evict(k, i) == instances' = [instances EXCEPT ![k] = IF @ = i THEN None ELSE @]

\* runOnce's finally, then runScoped's catch: evict and reap the dead, arm the
\* idle timer for the living, retry a first server failure.
unwind(c) ==
  LET k == KeyOf[c]
      i == held[c]
  IN /\ pc[c] = "unwind"
     /\ Go(c, IF error[c] = "server" /\ attempt[c] = 1 THEN "retry" ELSE "settled", error[c])
     /\ held' = [held EXCEPT ![c] = None]
     /\ \/ /\ dead(i)
           /\ evict(k, i)
           /\ clearIdleTimer(k)
           /\ reap({i})
        \/ /\ ~dead(i)
           /\ timer' = IF IdleEviction THEN [timer EXCEPT ![k] = i] ELSE timer
           /\ UNCHANGED <<instances, reapVars>>
     /\ UNCHANGED <<attempt, aborted, tail, procVars, lifeVars>>

-----------------------------------------------------------------------------
(* Server processes, teardown and reaping *)

\* initialize settles.  A break rejects its request, but not its last write.
handshake(i) ==
  /\ shake[i] = "pending"
  /\ \E r \in {"ok", "failed"} : shake' = [shake EXCEPT ![i] = r]
  /\ UNCHANGED <<callVars, tail, poolVars, broken, reapVars, lifeVars>>

\* What the end of the connection of i may do to its handshake.
Unshaken(i) == IF shake[i] = "pending" THEN {"pending", "failed"} ELSE {shake[i]}

\* The process exits or its transport fails, and every pending request is
\* rejected.  Part of the tree may survive: only a teardown confirms its exit.
Crash(i) ==
  /\ shake[i] # "unborn"
  /\ ~broken[i]
  /\ broken' = [broken EXCEPT ![i] = TRUE]
  /\ \E s \in Unshaken(i) : shake' = [shake EXCEPT ![i] = s]
  /\ UNCHANGED <<callVars, tail, poolVars, reapVars, lifeVars>>

\* Mutant: an instance whose reap gave up is forgotten.
reapForgets(i, ok) ==
  /\ reapPhase' = [reapPhase EXCEPT ![i] = "none"]
  /\ reapAttempt' = [reapAttempt EXCEPT ![i] = 0]
  /\ failedReaps' = failedReaps \ {i}
  /\ awaited' = awaited \ {i}
  /\ lost' = (lost \/ (i \in awaited /\ ~ok))

\* The reap task of i ends; disposeAll collects its outcome.
reapSettles(i, ok) ==
  /\ reapPhase' = [reapPhase EXCEPT ![i] = "none"]
  /\ reapAttempt' = [reapAttempt EXCEPT ![i] = 0]
  /\ failedReaps' = IF ok THEN failedReaps \ {i} ELSE failedReaps \cup {i}
  /\ awaited' = awaited \ {i}
  /\ lost' = (lost \/ (i \in awaited /\ ~ok))

\* A body that awaits the teardown of i goes on to its finally.
ResumeTearing(i) ==
  pc' = [c \in Calls |-> IF pc[c] = "tearing" /\ held[c] = i THEN "unwind" ELSE pc[c]]

\* tearDown resolves: the tree is gone and the connection closed.
tearDownSucceeds(i) ==
  /\ teardown[i] = "running"
  /\ teardown' = [teardown EXCEPT ![i] = "done"]
  /\ broken' = [broken EXCEPT ![i] = TRUE]
  /\ \E s \in Unshaken(i) : shake' = [shake EXCEPT ![i] = s]
  /\ ResumeTearing(i)
  /\ IF reapPhase[i] = "dispose"
       THEN reapSettles(i, TRUE)
       ELSE UNCHANGED <<reapPhase, reapAttempt, failedReaps, awaited, lost>>
  /\ UNCHANGED <<error, attempt, held, aborted, tail, poolVars, disposal>>

\* Mutant: one attempt too many.
mayRetryOnceMore(i) == reapAttempt[i] <= ReapAttempts

mayRetry(i) == reapAttempt[i] < ReapAttempts

\* The budget ends without a confirmed exit: a reap backs off or gives up.
tearDownFails(i) ==
  /\ teardown[i] = "running"
  /\ teardown' = [teardown EXCEPT ![i] = "failed"]
  /\ ResumeTearing(i)
  /\ IF reapPhase[i] = "dispose"
       THEN IF mayRetry(i)
              THEN /\ reapPhase' = [reapPhase EXCEPT ![i] = "backoff"]
                   /\ UNCHANGED <<reapAttempt, failedReaps, awaited, lost>>
              ELSE reapSettles(i, FALSE)
       ELSE UNCHANGED <<reapPhase, reapAttempt, failedReaps, awaited, lost>>
  /\ UNCHANGED <<error, attempt, held, aborted, tail, poolVars, procVars, disposal>>

\* The reap loop's delay is over: dispose() again.
reapRetries(i) ==
  /\ reapPhase[i] = "backoff"
  /\ IF teardown[i] = "done"
       THEN reapSettles(i, TRUE) /\ UNCHANGED teardown
       ELSE /\ reapPhase' = [reapPhase EXCEPT ![i] = "dispose"]
            /\ reapAttempt' = [reapAttempt EXCEPT ![i] = @ + 1]
            /\ startTeardown({i})
            /\ UNCHANGED <<failedReaps, awaited, lost>>
  /\ UNCHANGED <<callVars, tail, poolVars, procVars, disposal>>

\* The callback of armIdleTimer.
idleTimerFires(k) ==
  /\ timer[k] # None
  /\ instances[k] = timer[k]
  /\ instances' = [instances EXCEPT ![k] = None]
  /\ timer' = [timer EXCEPT ![k] = None]
  /\ reap({timer[k]})
  /\ UNCHANGED <<callVars, tail, procVars, lifeVars>>

\* Mutant: the instances whose reaps failed earlier are not tried again.
leftWithoutFailed == {instances[k] : k \in Keys} \ {None}

\* What disposeAll still has to reap.
leftToReap == ({instances[k] : k \in Keys} \ {None}) \cup failedReaps

disposeAll ==
  /\ ~isDisposed
  /\ disposal' = "waiting"
  /\ instances' = [k \in Keys |-> None]
  /\ timer' = [k \in Keys |-> None]
  /\ reap(leftToReap)
  /\ awaited' = {i \in Instances : reapPhase'[i] # "none"}
  /\ UNCHANGED <<callVars, tail, procVars, lost>>

disposeAllReturns ==
  /\ disposal = "waiting"
  /\ awaited = {}
  /\ disposal' = IF lost THEN "failed" ELSE "ok"
  /\ UNCHANGED <<callVars, tail, poolVars, procVars, reapVars, awaited, lost>>

-----------------------------------------------------------------------------
CallStep(c) ==
  \/ run(c) \/ enqueue(c) \/ canonicalizeFails(c) \/ leaveQueue(c)
  \/ start(c) \/ retry(c)
  \/ enterGate(c) \/ readyGate(c) \/ answered(c) \/ transportLost(c)
  \/ cancelled(c) \/ unwind(c)

InstanceStep(i) ==
  \/ handshake(i) \/ Crash(i)
  \/ tearDownSucceeds(i) \/ tearDownFails(i) \/ reapRetries(i)

KeyStep(k) == settleTail(k) \/ idleTimerFires(k)

Next ==
  \/ \E c \in Calls : CallStep(c) \/ Abort(c)
  \/ \E i \in Instances : InstanceStep(i)
  \/ \E k \in Keys : KeyStep(k)
  \/ disposeAll
  \/ disposeAllReturns

Spec == Init /\ [][Next]_vars

(***************************************************************************)
(* Fairness: every step the client's own promises, timers and budgets take *)
(* is eventually taken, and every call has a timeout (the timeoutMs policy *)
(* of its tool).  A server need neither answer nor finish its handshake,   *)
(* nobody need call disposeAll, and a teardown may fail every time.        *)
(***************************************************************************)
OwnStep(c) ==
  \/ run(c) \/ enqueue(c) \/ canonicalizeFails(c) \/ leaveQueue(c)
  \/ start(c) \/ retry(c)
  \/ enterGate(c) \/ readyGate(c) \/ transportLost(c) \/ cancelled(c) \/ unwind(c)

Fairness ==
  /\ \A c \in Calls : WF_vars(OwnStep(c)) /\ WF_vars(Abort(c))
  /\ \A i \in Instances : WF_vars(tearDownSucceeds(i) \/ tearDownFails(i))
  /\ \A i \in Instances : WF_vars(reapRetries(i))
  /\ \A k \in Keys : WF_vars(KeyStep(k))
  /\ WF_vars(disposeAllReturns)

FairSpec == Spec /\ Fairness

-----------------------------------------------------------------------------
(* Safety *)

\* One action at a time per key: the tail really serialises, although callers
\* give up while they wait and although a retry starts a second attempt.
SingleFlight ==
  \A c, d \in Calls :
    pc[c] \in Running /\ pc[d] \in Running /\ KeyOf[c] = KeyOf[d] => c = d

Pooled(i) == \E k \in Keys : instances[k] = i

\* No process tree without an owner: until its exit is confirmed it is in the
\* pool, or a reap task has it, or it is kept among the failed reaps.
OwnedTrees ==
  \A i \in Instances :
    MayBeAlive(i) => Pooled(i) \/ reapPhase[i] # "none" \/ i \in failedReaps

\* "A timer armed by the previous action must not fire under this one": an
\* armed timer is for the pooled instance, and no action of its key runs.
TimerSparesRunning ==
  \A k \in Keys :
    timer[k] # None =>
      /\ timer[k] = instances[k]
      /\ ~Torn(timer[k])
      /\ \A c \in Calls : pc[c] \in Running => KeyOf[c] # k

\* An instance under teardown stays in the pool only while the action that
\* tears it down still runs: no other call can borrow it.
NoTornInstanceBorrowed ==
  \A k \in Keys :
    instances[k] # None /\ Torn(instances[k]) =>
      \E c \in Calls : held[c] = instances[k] /\ pc[c] \in {"tearing", "unwind"}

\* disposeAll that resolves has ended every process tree the client spawned,
\* the ones whose reaps had failed before included.
DisposedMeansExited ==
  disposal = "ok" => \A i \in Instances : ~MayBeAlive(i)

\* After disposeAll no call spawns a process and none is published, whatever
\* was queued, canonicalising or about to retry at the time.
NothingAfterDispose ==
  [][isDisposed => /\ instances' = instances
                   /\ \A i \in Instances : shake[i] = "unborn" => shake'[i] = "unborn"]_vars

(* The calls' view of the client *)

Phase(c) ==
  CASE pc[c] \in {"new", "canon"} -> "new"
    [] pc[c] = "queued" -> "waiting"
    [] pc[c] \in Running -> "served"
    [] pc[c] = "settled" -> "settled"

\* The unsettled calls a queued call waits for: those whose links precede its own.
Ahead(c) ==
  LET line == tail[KeyOf[c]]
  IN IF pc[c] = "queued"
       THEN {d \in Calls : /\ pc[d] # "settled"
                           /\ \E i, j \in 1..Len(line) : i < j /\ line[i] = d /\ line[j] = c}
       ELSE {}

Service == INSTANCE SerialService WITH
  phase <- [c \in Calls |-> Phase(c)],
  ahead <- [c \in Calls |-> Ahead(c)],
  closed <- isDisposed

\* The client implements the serial service: first come, first served per key,
\* one at a time, and nothing joins or is served after disposeAll.
ImplementsService == Service!Spec

(* What a comment of the source says, and the code does not do *)

\* "Instances are ... evicted as soon as they die": no call borrows a dead one.
NeverBorrowsDead ==
  [][\A c \in Calls : held'[c] \notin {held[c], None} => ~dead(held'[c])]_vars

(* Liveness *)

\* Every call settles, however the server behaves and whoever is queued.
CallsSettle == \A c \in Calls : pc[c] # "new" ~> pc[c] = "settled"

\* disposeAll returns: no reap it waits for lasts forever, though every
\* teardown may fail and every tree may refuse to exit.
DisposeAllEnds == isDisposed ~> disposal \in {"ok", "failed"}
=============================================================================
