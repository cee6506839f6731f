-------------------------- MODULE LspInstanceProofs --------------------------
(***************************************************************************)
(* Theorems about one server instance, for any number of requests and      *)
(* teardowns.                                                              *)
(***************************************************************************)
EXTENDS LspInstance, TLAPS

ShakeMap == IF shake \in {"asking", "telling"} THEN "pending" ELSE shake
DownMap == IF down \in {"none", "done", "failed"} THEN down ELSE "running"

\* A closed connection has failed.
CloseInv == closed => failed

LEMMA CloseStep == CloseInv /\ [Next]_vars => CloseInv'
<1> SUFFICES ASSUME CloseInv, [Next]_vars PROVE CloseInv'
  OBVIOUS
<1>1. CASE fail \/ close
  BY <1>1 DEF fail, close, failAll, CloseInv
<1>2. CASE UNCHANGED <<failed, closed>>
  BY <1>2 DEF CloseInv
<1>3. QED
  BY <1>1, <1>2 DEF Next, Environment, Handshake, TearDown, Action, handleResponse,
     treeExits, initializeSettles, initializedWritten, dispose, shutdownSettles,
     exitWritten, closesItself, budgetExpires, exitConfirmed, exitTimesOut, begin, abort,
     gatePasses, gateFails, documentWritten, documentFails, sendRequest, finish,
     requestSettles, cancelRequest, graceSettles, graceExpires, vars, procVars

\* startTeardown begins a teardown, or changes nothing the pool can see.
LEMMA StartTeardownMaps ==
  ASSUME startTeardown, UNCHANGED <<shake, failed, tree>>
  PROVE  [Server!StartTeardown]_Server!vars
  BY DEF startTeardown, downVars, Server!StartTeardown, Server!vars

\* Every step of the instance is a step of the server instance or a stutter.
LEMMA ServerStep == CloseInv /\ [Next]_vars => [Server!Next]_Server!vars
<1> SUFFICES ASSUME CloseInv, [Next]_vars PROVE [Server!Next]_Server!vars
  OBVIOUS
<1>1. CASE initializeSettles \/ initializedWritten
  <2>1. CASE shake' = "telling"
    BY <1>1, <2>1 DEF initializeSettles, initializedWritten, procVars, downVars, Server!vars
  <2>2. CASE shake' # "telling"
    BY <1>1, <2>2 DEF initializeSettles, initializedWritten, procVars, downVars,
       Server!Next, Server!Handshake
  <2>3. QED
    BY <2>1, <2>2
<1>2. CASE fail \/ close
  <2>1. CASE failed
    BY <1>2, <2>1 DEF fail, close, failAll, downVars, Server!vars
  <2>2. CASE ~failed
    BY <1>2, <2>2 DEF fail, close, failAll, downVars, Server!Next, Server!Break
  <2>3. QED
    BY <2>1, <2>2
<1>3. CASE treeExits
  BY <1>3 DEF treeExits, downVars, Server!Next, Server!TreeExits
<1>4. CASE dispose
  BY <1>4, StartTeardownMaps DEF dispose, procVars, Server!Next
<1>5. CASE shutdownSettles \/ exitWritten \/ closesItself \/ budgetExpires
  BY <1>5 DEF shutdownSettles, exitWritten, closesItself, budgetExpires, withinBudget, Down,
     procVars, Server!vars
<1>6. CASE exitConfirmed
  BY <1>6 DEF exitConfirmed, quiescent, CloseInv, Down, procVars,
     Server!Next, Server!TeardownSucceeds
<1>7. CASE exitTimesOut
  BY <1>7 DEF exitTimesOut, Down, procVars, Server!Next, Server!TeardownFails
<1>8. CASE gateFails \/ documentFails \/ graceExpires
  <2>1. CASE tearFirst
    BY <1>8, <2>1, StartTeardownMaps
       DEF gateFails, documentFails, graceExpires, tearFirst, procVars, Server!Next
  <2>2. CASE UNCHANGED downVars
    BY <1>8, <2>2 DEF gateFails, documentFails, graceExpires, procVars, downVars, Server!vars
  <2>3. QED
    BY <1>8, <2>1, <2>2 DEF gateFails, documentFails, graceExpires, abandon, giveUp
<1>9. CASE UNCHANGED <<procVars, shake, downVars>>
  BY <1>9 DEF procVars, downVars, Server!vars
<1>10. QED
  BY <1>1, <1>2, <1>3, <1>4, <1>5, <1>6, <1>7, <1>8, <1>9
     DEF Next, Environment, Handshake, TearDown, Action, handleResponse, begin, abort,
         gatePasses, documentWritten, sendRequest, finish, requestSettles, cancelRequest,
         graceSettles, vars

\* The instance is a server instance as the pool assumes it: its handshake and
\* its failure settle once, and its teardown succeeds only without a living tree.
THEOREM InstanceIsServer == Spec => ImplementsServer
<1>1. Init => CloseInv /\ Server!Init
  BY DEF Init, CloseInv, Server!Init
<1>2. CloseInv /\ [Next]_vars => CloseInv'
  BY CloseStep
<1>3. CloseInv /\ [Next]_vars => [Server!Next]_Server!vars
  BY ServerStep
<1>4. QED
  BY <1>1, <1>2, <1>3, PTL DEF Spec, ImplementsServer, Server!Spec

-----------------------------------------------------------------------------
(* Requests and answers *)

\* An id is the number of its request, and a request waits for its answer
\* exactly as long as it is in the table of pending ones.
RpcInv ==
  /\ sent \in Nat \ {0}
  /\ nextId = sent + 1
  /\ outcome \in [Serials -> {"unsent", "pending", "answered", "refused", "closed"}]
  /\ by \in [Serials -> Nat]
  /\ toServer \subseteq (1..sent) \X (1..sent)
  /\ \A p \in toServer : p[1] = p[2]
  /\ pending \subseteq toServer
  /\ \A s \in Serials : outcome[s] = "pending" => <<s, s>> \in pending
  /\ failed => pending = {}
  /\ CloseInv
  /\ AnswersMatch

LEMMA RpcRequest ==
  ASSUME RpcInv, request, UNCHANGED <<failed, closed>>
  PROVE  RpcInv'
<1> DEFINE s == sent + 1
<1>1. /\ sent' = s /\ nextId' = s + 1 /\ nextId = s
      /\ s \in Nat \ {0}
  BY DEF RpcInv, request, idAfter
<1>2. outcome' = [outcome EXCEPT ![s] = IF failed THEN "closed" ELSE "pending"] /\ by' = by
  BY DEF request, rejectsAtOnce
<1>3. outcome' \in [Serials -> {"unsent", "pending", "answered", "refused", "closed"}]
  BY <1>2 DEF RpcInv
<1>4. AnswersMatch'
  BY <1>2 DEF RpcInv, AnswersMatch
<1>5. {p \in pending : p[1] # nextId} = pending
  BY <1>1 DEF RpcInv
<1>6. CASE failed
  <2>1. pending' = pending /\ toServer' = toServer
    BY <1>6 DEF request, rejectsAtOnce
  <2>2. toServer' \subseteq (1..sent') \X (1..sent')
    BY <1>1, <2>1 DEF RpcInv
  <2>3. \A t \in Serials : outcome'[t] = "pending" => <<t, t>> \in pending'
    BY <1>2, <1>6, <2>1 DEF RpcInv
  <2>4. QED
    BY <1>1, <1>2, <1>3, <1>4, <1>6, <2>1, <2>2, <2>3 DEF RpcInv, CloseInv
<1>7. CASE ~failed
  <2>1. pending' = pending \cup {<<s, s>>} /\ toServer' = toServer \cup {<<s, s>>}
    BY <1>1, <1>5, <1>7 DEF request, rejectsAtOnce
  <2>2. toServer' \subseteq (1..sent') \X (1..sent')
    BY <1>1, <2>1 DEF RpcInv
  <2>3. \A p \in toServer' : p[1] = p[2]
    BY <2>1 DEF RpcInv
  <2>4. \A t \in Serials : outcome'[t] = "pending" => <<t, t>> \in pending'
    BY <1>2, <2>1 DEF RpcInv
  <2>5. QED
    BY <1>1, <1>2, <1>3, <1>4, <1>7, <2>1, <2>2, <2>3, <2>4 DEF RpcInv, CloseInv
<1>8. QED
  BY <1>6, <1>7

LEMMA RpcStep == RpcInv /\ [Next]_vars => RpcInv'
<1> SUFFICES ASSUME RpcInv, [Next]_vars PROVE RpcInv'
  OBVIOUS
<1>1. ASSUME NEW q \in toServer, handleResponse(q[1], q[2]) PROVE RpcInv'
  <2>1. PICK p \in pending, o \in {"answered", "refused"} :
          /\ p[1] = q[1]
          /\ pending' = pending \ {p}
          /\ outcome' = [outcome EXCEPT ![p[2]] = o]
          /\ by' = [by EXCEPT ![p[2]] = q[2]]
    BY <1>1 DEF handleResponse
  <2>2. UNCHANGED <<nextId, sent, toServer, failed, closed>>
    BY <1>1 DEF handleResponse, procVars
  <2>3. p[2] = q[2] /\ p = <<p[2], p[2]>> /\ q[2] \in Nat
    BY <2>1 DEF RpcInv
  <2>4. outcome' \in [Serials -> {"unsent", "pending", "answered", "refused", "closed"}]
    BY <2>1 DEF RpcInv
  <2>5. by' \in [Serials -> Nat]
    BY <2>1, <2>3 DEF RpcInv
  <2>6. \A s \in Serials : outcome'[s] = "pending" => <<s, s>> \in pending'
    BY <2>1, <2>3 DEF RpcInv
  <2>7. AnswersMatch'
    BY <2>1, <2>3 DEF RpcInv, AnswersMatch
  <2>8. QED
    BY <2>1, <2>2, <2>4, <2>5, <2>6, <2>7 DEF RpcInv, CloseInv
<1>2. CASE fail \/ close
  <2>1. failAll /\ UNCHANGED <<nextId, sent, toServer, by>>
    BY <1>2 DEF fail, close
  <2>2. \A s \in Serials : outcome'[s] # "pending"
    BY <2>1 DEF failAll, RpcInv
  <2>3. outcome' \in [Serials -> {"unsent", "pending", "answered", "refused", "closed"}]
    BY <2>1 DEF failAll, RpcInv
  <2>4. AnswersMatch'
    BY <2>1 DEF failAll, RpcInv, AnswersMatch
  <2>5. QED
    BY <2>1, <2>2, <2>3, <2>4 DEF failAll, RpcInv, CloseInv
<1>3. ASSUME startTeardown, UNCHANGED <<failed, closed>> PROVE RpcInv'
  <2>1. CASE request
    BY <1>3, <2>1, RpcRequest
  <2>2. CASE UNCHANGED rpcVars
    BY <1>3, <2>2 DEF rpcVars, RpcInv, AnswersMatch, CloseInv
  <2>3. QED
    BY <1>3, <2>1, <2>2 DEF startTeardown
<1>4. CASE dispose
  BY <1>3, <1>4 DEF dispose, procVars
<1>5. CASE sendRequest
  BY <1>5, RpcRequest DEF sendRequest, procVars
<1>6. CASE UNCHANGED <<rpcVars, failed, closed>>
  BY <1>6 DEF rpcVars, RpcInv, AnswersMatch, CloseInv
<1>7. CASE gateFails \/ documentFails \/ graceExpires
  BY <1>3, <1>6, <1>7
     DEF gateFails, documentFails, graceExpires, abandon, giveUp, tearFirst, procVars
<1>8. QED
  BY <1>1, <1>2, <1>4, <1>5, <1>6, <1>7
     DEF Next, Environment, Handshake, TearDown, Action, treeExits, initializeSettles,
         initializedWritten, shutdownSettles, exitWritten, closesItself, budgetExpires,
         exitConfirmed, exitTimesOut, begin, abort, gatePasses, documentWritten, finish,
         requestSettles, cancelRequest, graceSettles, vars, procVars

LEMMA RpcInit == Init => RpcInv
  BY DEF Init, RpcInv, CloseInv, AnswersMatch

\* Nobody waits on a dead server: after the transport failed or the process
\* closed no request is pending, and none sent later waits either.
THEOREM NobodyHangs == Spec => []NothingPendingAfterFailure
<1>1. RpcInv => NothingPendingAfterFailure
  BY DEF RpcInv, NothingPendingAfterFailure, CloseInv
<1>2. QED
  BY <1>1, RpcInit, RpcStep, PTL DEF Spec

\* An answer settles the request it answers and no other.
THEOREM AnswersAreOwn == Spec => []AnswersMatch
<1>1. RpcInv => AnswersMatch
  BY DEF RpcInv
<1>2. QED
  BY <1>1, RpcInit, RpcStep, PTL DEF Spec

-----------------------------------------------------------------------------
(* Nothing outlives an action *)

\* On an instance in service only the latest request of the running action can
\* be pending, and only while the action waits for it.
BodyInv ==
  ~disposed => \A s \in Serials \ {1} :
                 outcome[s] = "pending" => s = ask /\ body \in {"asking", "grace"}

LEMMA BodyStep == RpcInv /\ BodyInv /\ [Next]_vars => BodyInv'
<1> SUFFICES ASSUME RpcInv, BodyInv, [Next]_vars PROVE BodyInv'
  OBVIOUS
<1>1. CASE disposed'
  BY <1>1 DEF BodyInv
<1>2. CASE ~disposed'
  <2>1. ~disposed
    BY <1>2 DEF disposed, Next, Environment, Handshake, TearDown, Action, handleResponse,
       fail, close, treeExits, initializeSettles, initializedWritten, begin, dispose,
       startTeardown, shutdownSettles, exitWritten, closesItself, budgetExpires,
       exitConfirmed, exitTimesOut, abort, gatePasses, gateFails, documentWritten,
       documentFails, abandon, sendRequest, finish, requestSettles, cancelRequest,
       graceSettles, graceExpires, giveUp, tearFirst, Down, downVars, vars
  <2>2. ~startTeardown
    BY <1>2, <2>1 DEF startTeardown, disposed
  <2>3. \A s \in Serials \ {1} :
          outcome[s] = "pending" => s = ask /\ body \in {"asking", "grace"}
    BY <2>1 DEF BodyInv
  <2>4. ASSUME NEW q \in toServer, handleResponse(q[1], q[2]) PROVE BodyInv'
    <3>1. \A s \in Serials : outcome'[s] = "pending" => outcome[s] = "pending"
      BY <2>4 DEF handleResponse, RpcInv
    <3>2. QED
      BY <2>3, <2>4, <3>1 DEF handleResponse, bodyVars, BodyInv
  <2>5. CASE fail \/ close
    <3>1. \A s \in Serials : outcome'[s] = "pending" => outcome[s] = "pending"
      BY <2>5 DEF fail, close, failAll
    <3>2. QED
      BY <2>3, <2>5, <3>1 DEF fail, close, bodyVars, BodyInv
  <2>6. CASE sendRequest
    <3>1. \A s \in Serials \ {1} : outcome[s] # "pending"
      BY <2>3, <2>6 DEF sendRequest
    <3>2. \A s \in Serials \ {1} : outcome'[s] = "pending" => s = sent + 1
      BY <2>6, <3>1 DEF sendRequest, request, RpcInv
    <3>3. QED
      BY <2>6, <3>2 DEF sendRequest, BodyInv
  <2>7. CASE gateFails
    <3>1. body = "gate" /\ UNCHANGED <<rpcVars>>
      BY <2>2, <2>7 DEF gateFails, tearFirst
    <3>2. QED
      BY <2>3, <3>1 DEF rpcVars, BodyInv
  <2>8. CASE requestSettles \/ graceSettles
    BY <2>3, <2>8 DEF requestSettles, graceSettles, Body, rpcVars, BodyInv
  <2>9. CASE cancelRequest
    BY <2>3, <2>9 DEF cancelRequest, Body, rpcVars, BodyInv
  <2>10. CASE begin \/ gatePasses \/ documentWritten \/ finish
    BY <2>3, <2>10 DEF begin, gatePasses, documentWritten, finish, Body, rpcVars, BodyInv
  <2>11. CASE exitConfirmed \/ exitTimesOut
    BY <2>1, <2>11 DEF exitConfirmed, exitTimesOut, disposed
  <2>12. CASE UNCHANGED <<rpcVars, body, ask>>
    BY <2>3, <2>12 DEF rpcVars, BodyInv
  <2>13. QED
    BY <2>2, <2>4, <2>5, <2>6, <2>7, <2>8, <2>9, <2>10, <2>11, <2>12
       DEF Next, Environment, Handshake, TearDown, Action, treeExits, initializeSettles,
           initializedWritten, dispose, shutdownSettles, exitWritten, closesItself,
           budgetExpires, abort, documentFails, abandon, tearFirst, graceExpires, giveUp,
           vars, bodyVars
<1>3. QED
  BY <1>1, <1>2

\* When an action has ended on an instance that goes on serving, none of its
\* requests still runs at the server: a cancelled one settled within the grace.
THEOREM ActionsLeaveNothing == Spec => []NothingOutlivesAction
<1>1. Init => BodyInv
  BY DEF Init, BodyInv
<1>2. BodyInv => NothingOutlivesAction
  BY DEF BodyInv, NothingOutlivesAction, dead
<1>3. QED
  BY <1>1, <1>2, RpcInit, RpcStep, BodyStep, PTL DEF Spec

\* A write that was cancelled ends the instance before its action ends: the
\* teardown has begun, whoever began it.
THEOREM CancelledWritesEnd == Spec => CancelledWriteEndsInstance
<1>1. ASSUME Next, body = "opening", aborted, body' # "opening" PROVE disposed'
  <2>1. documentFails
    BY <1>1, Zenon DEF Next, Environment, Handshake, TearDown, Action, handleResponse, fail, close,
       treeExits, initializeSettles, initializedWritten, begin, dispose, shutdownSettles,
       exitWritten, closesItself, budgetExpires, exitConfirmed, exitTimesOut, bodyResumes, abort,
       gatePasses, gateFails, documentWritten, sendRequest, finish, requestSettles, cancelRequest,
       graceSettles, graceExpires, bodyVars
  <2>2. startTeardown
    BY <2>1 DEF documentFails, abandon, tearFirst
  <2> QED
    BY <2>2 DEF startTeardown, disposed, downVars
<1>2. [Next]_vars => [body = "opening" /\ aborted /\ body' # "opening" => disposed']_vars
  BY <1>1
<1>3. QED
  BY <1>2, PTL DEF Spec, CancelledWriteEndsInstance

-----------------------------------------------------------------------------
(* Types *)

\* Every request is one of the actions or begins a teardown, and an action begins
\* no more than one teardown beyond those of the pool: after it the instance is
\* disposed and no action begins.
CountInv ==
  /\ tries \in Nat /\ sent <= tries + MaxAsks + 1
  /\ \/ tries <= MaxDisposals
     \/ tries = MaxDisposals + 1 /\ disposed /\ body \in {"idle", "tearing"}

TypeInv == TypeOK /\ RpcInv /\ CountInv

\* The requests that have been sent, and those that wait.
RpcTypeOK ==
  /\ tries \in 0..(MaxDisposals + 1)
  /\ sent \in Serials
  /\ nextId \in Nat \ {0}
  /\ pending \subseteq toServer
  /\ toServer \subseteq (1..(nextId - 1)) \X Serials
  /\ outcome \in [Serials -> {"unsent", "pending", "answered", "refused", "closed"}]

\* What the types of the requests come down to.
LEMMA RpcTypes == RpcInv /\ CountInv => RpcTypeOK
<1> SUFFICES ASSUME RpcInv, CountInv PROVE RpcTypeOK
  OBVIOUS
<1>1. tries \in 0..(MaxDisposals + 1) /\ sent \in Nat \ {0}
  BY DisposalsAssumption DEF RpcInv, CountInv
<1>2. sent <= MaxAsks + MaxDisposals + 2
  BY <1>1, AsksAssumption, DisposalsAssumption DEF CountInv
<1>3. sent \in Serials /\ 1..sent \subseteq Serials
  BY <1>1, <1>2, AsksAssumption, DisposalsAssumption DEF Serials
<1>4. toServer \subseteq (1..(nextId - 1)) \X Serials
  BY <1>1, <1>3 DEF RpcInv
<1> QED
  BY <1>1, <1>3, <1>4 DEF RpcInv, RpcTypeOK

\* Each step of a request sends one, and each teardown too.
LEMMA CountStep == TypeOK /\ CountInv /\ [Next]_vars => CountInv'
<1> SUFFICES ASSUME TypeOK, CountInv, [Next]_vars PROVE CountInv'
  OBVIOUS
<1>1. /\ sent \in Nat /\ tries \in Nat /\ MaxAsks \in Nat /\ MaxDisposals \in Nat
  BY AsksAssumption, DisposalsAssumption DEF TypeOK, Serials
<1>2. CASE UNCHANGED <<sent, tries, down>> /\ (body' = body \/ body' \in {"idle", "tearing"})
  BY <1>1, <1>2 DEF CountInv, disposed
<1>3. CASE /\ UNCHANGED <<sent, tries>> /\ down' # "none"
           /\ (body' = body \/ body' \in {"idle", "tearing"})
  BY <1>1, <1>3 DEF CountInv, disposed
<1>4. CASE dispose
  BY <1>1, <1>4 DEF dispose, startTeardown, request, CountInv, rpcVars, downVars, bodyVars
<1>5. ASSUME tearFirst, body \notin {"idle", "tearing"} PROVE CountInv'
  BY <1>1, <1>5 DEF tearFirst, startTeardown, request, Body, CountInv, disposed, rpcVars, downVars
<1>6. CASE gateFails \/ documentFails \/ graceExpires
  <2>1. CASE tearFirst
    BY <1>5, <1>6, <2>1 DEF gateFails, documentFails, graceExpires
  <2>2. CASE ~tearFirst
    BY <1>2, <1>6, <2>2 DEF gateFails, documentFails, graceExpires, abandon, giveUp, Body, rpcVars, downVars
  <2> QED
    BY <2>1, <2>2
<1>7. CASE sendRequest
  <2>1. /\ sent' = sent + 1 /\ tries' = tries /\ down' = down /\ body = "opened"
        /\ sent - tries <= MaxAsks
    BY <1>7 DEF sendRequest, request, downVars
  <2> QED
    BY <1>1, <2>1 DEF CountInv
<1>8. CASE begin
  <2>1. tries <= MaxDisposals /\ UNCHANGED <<sent, tries>>
    BY <1>8 DEF begin, CountInv, rpcVars, downVars
  <2> QED
    BY <1>1, <2>1 DEF CountInv
<1>9. CASE gatePasses \/ documentWritten \/ cancelRequest \/ requestSettles
  <2>1. body \notin {"idle", "tearing"} /\ UNCHANGED <<sent, tries>>
    BY <1>9 DEF gatePasses, documentWritten, cancelRequest, requestSettles, rpcVars, downVars
  <2>2. tries <= MaxDisposals
    BY <2>1 DEF CountInv
  <2> QED
    BY <1>1, <2>1, <2>2 DEF CountInv
<1>10. CASE shutdownSettles \/ exitWritten \/ closesItself \/ budgetExpires
  BY <1>3, <1>10 DEF shutdownSettles, exitWritten, closesItself, budgetExpires, Down, rpcVars, bodyVars
<1>11. CASE exitConfirmed \/ exitTimesOut
  BY <1>3, <1>11 DEF exitConfirmed, exitTimesOut, Down, bodyResumes, rpcVars
<1>12. ASSUME NEW p \in toServer, handleResponse(p[1], p[2]) PROVE CountInv'
  BY <1>2, <1>12 DEF handleResponse, bodyVars, downVars
<1> QED
  BY <1>2, <1>4, <1>6, <1>7, <1>8, <1>9, <1>10, <1>11, <1>12
     DEF Next, Environment, Handshake, TearDown, Action, fail, close, treeExits,
         initializeSettles, initializedWritten, abort, finish, graceSettles, Body, vars,
         rpcVars, downVars, bodyVars

\* The instance and the action on it.
StateTypeOK ==
  /\ failed \in BOOLEAN /\ closed \in BOOLEAN /\ tree \in {"alive", "gone"}
  /\ shake \in {"asking", "telling", "ok", "failed"}
  /\ body \in {"idle", "gate", "opening", "opened", "asking", "grace", "tearing"}
  /\ aborted \in BOOLEAN
  /\ down \in {"none", "shutdown", "exit", "closing", "exiting", "done", "failed"}

LEMMA StateTypeStep == StateTypeOK /\ [Next]_vars => StateTypeOK'
<1> SUFFICES ASSUME StateTypeOK, [Next]_vars PROVE StateTypeOK'
  OBVIOUS
<1> USE DEF StateTypeOK
<1>1. ASSUME NEW p \in toServer, handleResponse(p[1], p[2]) PROVE StateTypeOK'
  BY <1>1 DEF handleResponse, procVars, bodyVars, downVars
<1>2. CASE fail \/ close \/ treeExits
  BY <1>2 DEF fail, close, treeExits, failAll, bodyVars, downVars
<1>3. CASE initializedWritten \/ initializeSettles
  BY <1>3 DEF initializedWritten, initializeSettles, procVars, bodyVars, downVars
<1>4. ASSUME startTeardown PROVE down' \in {down, "shutdown"}
  BY <1>4 DEF startTeardown, downVars
<1>5. CASE dispose
  BY <1>4, <1>5 DEF dispose, procVars, bodyVars
<1>6. CASE TearDown
  BY <1>6 DEF TearDown, shutdownSettles, exitWritten, closesItself, budgetExpires, exitConfirmed,
     exitTimesOut, Down, bodyResumes, procVars, bodyVars
<1>7. CASE gateFails \/ documentFails \/ graceExpires
  BY <1>4, <1>7 DEF gateFails, documentFails, graceExpires, abandon, giveUp, tearFirst, Body,
     procVars, downVars
<1>8. CASE begin \/ abort \/ gatePasses \/ documentWritten \/ sendRequest \/ finish
  BY <1>8 DEF begin, abort, gatePasses, documentWritten, sendRequest, finish, Body, procVars, downVars
<1>9. CASE requestSettles \/ cancelRequest \/ graceSettles
  BY <1>9 DEF requestSettles, cancelRequest, graceSettles, Body, procVars, downVars
<1> QED
  BY <1>1, <1>2, <1>3, <1>5, <1>6, <1>7, <1>8, <1>9
     DEF Next, Environment, Handshake, Action, vars, procVars, bodyVars, downVars

\* The requests that the action, the teardown and the answers refer to.
SerialTypeOK ==
  /\ by \in [Serials -> Serials \cup {0}]
  /\ ask \in Serials /\ bye \in Serials

LEMMA SerialTypeStep == TypeInv /\ RpcInv' /\ sent' \in Serials /\ [Next]_vars => SerialTypeOK'
<1> SUFFICES ASSUME TypeInv, RpcInv', sent' \in Serials, [Next]_vars PROVE SerialTypeOK'
  OBVIOUS
<1>1. SerialTypeOK /\ toServer \subseteq (1..(nextId - 1)) \X Serials
  BY DEF TypeInv, TypeOK, SerialTypeOK
<1> USE DEF SerialTypeOK
<1>2. ASSUME NEW q \in toServer, handleResponse(q[1], q[2]) PROVE SerialTypeOK'
  <2>1. q[2] \in Serials
    BY <1>1
  <2>2. \E s \in pending : by' = [by EXCEPT ![s[2]] = q[2]]
    BY <1>2 DEF handleResponse
  <2> QED
    BY <1>1, <1>2, <2>1, <2>2 DEF handleResponse, bodyVars, downVars
<1>3. ASSUME startTeardown PROVE by' = by /\ bye' \in Serials
  BY <1>1, <1>3 DEF startTeardown, request, rpcVars, downVars
<1>4. CASE dispose \/ gateFails \/ documentFails \/ graceExpires
  BY <1>1, <1>3, <1>4 DEF dispose, gateFails, documentFails, graceExpires, abandon, giveUp, tearFirst,
     Body, rpcVars, downVars, bodyVars
<1>5. CASE sendRequest
  BY <1>1, <1>5 DEF sendRequest, request, downVars
<1>6. CASE UNCHANGED <<by, ask, bye>>
  BY <1>1, <1>6
<1> QED
  BY <1>2, <1>4, <1>5, <1>6
     DEF Next, Environment, Handshake, TearDown, Action, fail, close, treeExits, initializeSettles,
         initializedWritten, shutdownSettles, exitWritten, closesItself, budgetExpires,
         exitConfirmed, exitTimesOut, begin, abort, gatePasses, documentWritten, finish,
         requestSettles, cancelRequest, graceSettles, Body, Down, bodyResumes, vars, rpcVars,
         bodyVars, downVars

LEMMA TypeStep == TypeInv /\ [Next]_vars => TypeInv'
<1> SUFFICES ASSUME TypeInv, [Next]_vars PROVE TypeInv'
  OBVIOUS
<1>1. RpcInv' /\ CountInv'
  BY RpcStep, CountStep DEF TypeInv
<1>2. RpcTypeOK'
  BY <1>1, RpcTypes, PTL
<1>3. StateTypeOK'
  BY StateTypeStep DEF TypeInv, TypeOK, StateTypeOK
<1>4. SerialTypeOK'
  BY <1>1, <1>2, SerialTypeStep DEF RpcTypeOK
<1> QED
  BY <1>1, <1>2, <1>3, <1>4 DEF TypeInv, TypeOK, RpcTypeOK, StateTypeOK, SerialTypeOK

\* Every variable keeps its type: above all, the requests sent stay within those
\* of the actions and one per teardown.
THEOREM TypeCorrect == Spec => []TypeOK
<1>1. Init => TypeInv
  <2> SUFFICES ASSUME Init PROVE TypeInv
    OBVIOUS
  <2>1. 1 \in Serials
    BY AsksAssumption, DisposalsAssumption DEF Serials
  <2>2. CountInv /\ RpcInv
    BY RpcInit, AsksAssumption, DisposalsAssumption DEF Init, CountInv
  <2>3. RpcTypeOK
    BY <2>2, RpcTypes DEF Init
  <2>4. StateTypeOK /\ SerialTypeOK
    BY <2>1 DEF Init, StateTypeOK, SerialTypeOK
  <2> QED
    BY <2>2, <2>3, <2>4 DEF TypeInv, TypeOK, RpcTypeOK, StateTypeOK, SerialTypeOK
<1> QED
  BY <1>1, TypeStep, PTL DEF Spec, TypeInv
=============================================================================
