----------------------------- MODULE LspInstance -----------------------------
(***************************************************************************)
(* One language server process as the client drives it: the JSON-RPC       *)
(* connection (src/connection.ts) with its pending requests, and the       *)
(* instance (class LspActionInstance of src/client.ts) with its handshake, *)
(* the action that runs on it, and its bounded teardown.                   *)
(*                                                                         *)
(* Documents and results are left out: an action opens its document, sends *)
(* requests and ends.  The provider of processes is the environment: it    *)
(* may fail a write, end the process, and lose sight of the process tree.  *)
(***************************************************************************)
EXTENDS Naturals

CONSTANTS
  MaxAsks,      \* requests the actions send in all; bounds the model
  MaxDisposals  \* teardowns begun before the pool stops disposing; bounds the model

ASSUME AsksAssumption == MaxAsks \in Nat
ASSUME DisposalsAssumption == MaxDisposals \in Nat

\* Every request sent, in order: initialize, the actions' requests, and one
\* shutdown per teardown (an action may begin one more than the pool).
Serials == 1..(MaxAsks + MaxDisposals + 2)

VARIABLES
  nextId,   \* the id the next request gets
  sent,     \* how many requests have been sent
  pending,  \* the requests that wait for an answer, under their ids
  toServer, \* what the server was sent: it may answer any of it, at any time
  outcome,  \* how the promise of each request settled
  by,       \* the request whose answer settled it (0: none)
  failed,   \* closeReason is set
  closed,   \* the closed promise has resolved
  tree,     \* the process tree, "alive" or "gone"
  shake,    \* initialize: "asking", "telling" (the initialized notification), ...
  body,     \* the action on the instance
  ask,      \* its latest request
  aborted,  \* its signal
  down,     \* tearDown: "shutdown", "exit", "closing", "exiting", ...
  bye,      \* its shutdown request
  tries     \* teardowns begun

rpcVars == <<nextId, sent, pending, toServer, outcome, by>>
procVars == <<failed, closed, tree>>
bodyVars == <<body, ask, aborted>>
downVars == <<down, bye, tries>>
vars == <<rpcVars, procVars, shake, bodyVars, downVars>>

TypeOK ==
  /\ nextId \in Nat \ {0}
  /\ sent \in Serials
  /\ pending \subseteq toServer
  /\ toServer \subseteq (1..(nextId - 1)) \X Serials
  /\ outcome \in [Serials -> {"unsent", "pending", "answered", "refused", "closed"}]
  /\ by \in [Serials -> Serials \cup {0}]
  /\ failed \in BOOLEAN
  /\ closed \in BOOLEAN
  /\ tree \in {"alive", "gone"}
  /\ shake \in {"asking", "telling", "ok", "failed"}
  /\ body \in {"idle", "gate", "opening", "opened", "asking", "grace", "tearing"}
  /\ ask \in Serials
  /\ aborted \in BOOLEAN
  /\ down \in {"none", "shutdown", "exit", "closing", "exiting", "done", "failed"}
  /\ bye \in Serials
  /\ tries \in 0..(MaxDisposals + 1)

\* The constructor spawns the process and sends initialize.
Init ==
  /\ nextId = 2
  /\ sent = 1
  /\ pending = {<<1, 1>>}
  /\ toServer = {<<1, 1>>}
  /\ outcome = [s \in Serials |-> IF s = 1 THEN "pending" ELSE "unsent"]
  /\ by = [s \in Serials |-> 0]
  /\ failed = FALSE
  /\ closed = FALSE
  /\ tree = "alive"
  /\ shake = "asking"
  /\ body = "idle"
  /\ ask = 1
  /\ aborted = FALSE
  /\ down = "none"
  /\ bye = 1
  /\ tries = 0

disposed == down # "none"
dead == failed \/ disposed

-----------------------------------------------------------------------------
(* The connection *)

\* Mutant: an id is given twice.
sameId(id) == id

idAfter(id) == id + 1

\* Mutant: a request on a failed connection still waits for its answer.
neverRejects == FALSE

rejectsAtOnce == failed

\* request(): the next request, rejected at once after the connection failed.
request ==
  LET s == sent + 1
      entry == <<nextId, s>>
      others == {p \in pending : p[1] # nextId}
  IN /\ sent' = s
     /\ nextId' = idAfter(nextId)
     /\ outcome' = [outcome EXCEPT ![s] = IF rejectsAtOnce THEN "closed" ELSE "pending"]
     /\ pending' = IF rejectsAtOnce THEN pending ELSE others \cup {entry}
     /\ toServer' = IF rejectsAtOnce THEN toServer ELSE toServer \cup {entry}
     /\ UNCHANGED by

\* fail() and the close: every pending request is rejected.
failAll ==
  /\ failed' = TRUE
  /\ pending' = {}
  /\ outcome' = [s \in Serials |->
       IF \E p \in pending : p[2] = s THEN "closed" ELSE outcome[s]]

\* handleResponse: an answer settles the pending request with its id; one for
\* an id that is not pending (late, repeated or invented) changes nothing.
handleResponse(id, s) ==
  /\ <<id, s>> \in toServer
  /\ ~closed
  /\ \E p \in pending, o \in {"answered", "refused"} :
       /\ p[1] = id
       /\ pending' = pending \ {p}
       /\ outcome' = [outcome EXCEPT ![p[2]] = o]
       /\ by' = [by EXCEPT ![p[2]] = s]
  /\ UNCHANGED <<nextId, sent, toServer, procVars, shake, bodyVars, downVars>>

\* A write or stdin fails, or the stream cannot be decoded.
fail ==
  /\ ~failed
  /\ failAll
  /\ UNCHANGED <<nextId, sent, toServer, by, closed, tree, shake, bodyVars, downVars>>

\* handle.done settles: the server's own process is gone, the tree may survive.
close ==
  /\ ~closed
  /\ closed' = TRUE
  /\ failAll
  /\ UNCHANGED <<nextId, sent, toServer, by, tree, shake, bodyVars, downVars>>

treeExits ==
  /\ tree = "alive"
  /\ tree' = "gone"
  /\ UNCHANGED <<rpcVars, failed, closed, shake, bodyVars, downVars>>

-----------------------------------------------------------------------------
(* The handshake *)

\* initialize was answered (or refused, or the connection failed).
initializeSettles ==
  /\ shake = "asking"
  /\ outcome[1] # "pending"
  /\ \/ outcome[1] = "answered" /\ ~failed /\ shake' = "telling"
     \/ shake' = "failed" \* refused, closed, or an answer without capabilities
  /\ UNCHANGED <<rpcVars, procVars, bodyVars, downVars>>

\* The write of the initialized notification settles, in its own time.
initializedWritten ==
  /\ shake = "telling"
  /\ shake' = "ok" \/ (failed /\ shake' = "failed")
  /\ UNCHANGED <<rpcVars, procVars, bodyVars, downVars>>

-----------------------------------------------------------------------------
(* Teardown *)

\* startTeardown: begins tearDown with its shutdown request, or joins it.
startTeardown ==
  IF down \in {"none", "failed"}
    THEN /\ request
         /\ down' = "shutdown"
         /\ bye' = sent + 1
         /\ tries' = tries + 1
    ELSE UNCHANGED <<rpcVars, downVars>>

\* dispose(): the pool's reaper, or disposeAll.
dispose ==
  /\ tries < MaxDisposals
  /\ down \in {"none", "failed"}
  /\ startTeardown
  /\ UNCHANGED <<procVars, shake, bodyVars>>

Down(d) ==
  /\ down' = d
  /\ UNCHANGED <<bye, tries>>

\* The shutdown request settles: exit is written, unless it failed or the
\* connection did, and then the tree is terminated.
shutdownSettles ==
  /\ down = "shutdown"
  /\ outcome[bye] # "pending"
  /\ Down(IF outcome[bye] = "answered" /\ ~failed THEN "exit" ELSE "exiting")
  /\ UNCHANGED <<rpcVars, procVars, shake, bodyVars>>

exitWritten ==
  /\ down = "exit"
  /\ Down("closing") \/ (failed /\ Down("exiting"))
  /\ UNCHANGED <<rpcVars, procVars, shake, bodyVars>>

\* The server left by itself, and terminate() comes after it all the same.
closesItself ==
  /\ down = "closing"
  /\ closed
  /\ Down("exiting")
  /\ UNCHANGED <<rpcVars, procVars, shake, bodyVars>>

\* Mutant: the budget covers the shutdown request alone.
withinBudgetAtFirst == {"shutdown"}

withinBudget == {"shutdown", "exit", "closing"}

\* shutdownTimeoutMs is over: terminate().
budgetExpires ==
  /\ down \in withinBudget
  /\ Down("exiting")
  /\ UNCHANGED <<rpcVars, procVars, shake, bodyVars>>

\* A body that awaits the teardown ends with it.
bodyResumes ==
  /\ body' = IF body = "tearing" THEN "idle" ELSE body
  /\ UNCHANGED <<ask, aborted>>

\* Mutant: the close of the leading process counts as the exit of the tree.
quiescentOnClose == closed

\* Both waits: the tree has exited and the connection has closed.
quiescent == closed /\ tree = "gone"

exitConfirmed ==
  /\ down = "exiting"
  /\ quiescent
  /\ Down("done")
  /\ bodyResumes
  /\ UNCHANGED <<rpcVars, procVars, shake>>

\* killGraceMs + shutdownTimeoutMs are over; the provider may have lost sight
\* of a tree that is gone.
exitTimesOut ==
  /\ down = "exiting"
  /\ Down("failed")
  /\ bodyResumes
  /\ UNCHANGED <<rpcVars, procVars, shake>>

-----------------------------------------------------------------------------
(* The action *)

Body(b) ==
  /\ body' = b
  /\ UNCHANGED <<ask, aborted>>

\* The action fails, but awaits startTeardown first.
tearFirst ==
  /\ startTeardown
  /\ Body(IF down = "done" THEN "idle" ELSE "tearing")

\* runSerialized, and the checks at the top of readyGate.
begin ==
  /\ body = "idle"
  /\ ~disposed
  /\ body' = "gate"
  /\ aborted' = FALSE
  /\ UNCHANGED <<ask, rpcVars, procVars, shake, downVars>>

\* The caller's timeout or cancellation.
abort ==
  /\ body # "idle"
  /\ ~aborted
  /\ aborted' = TRUE
  /\ UNCHANGED <<body, ask, rpcVars, procVars, shake, downVars>>

\* readyGate passes: the document is opened or changed, or it is resident
\* with this text already, or the action needs none.
gatePasses ==
  /\ body = "gate"
  /\ shake = "ok"
  /\ ~aborted
  /\ Body("opening") \/ Body("opened")
  /\ UNCHANGED <<rpcVars, procVars, shake, downVars>>

\* Mutant: the wait for the handshake cannot be aborted.
notReadyUnlessAnswered == shake = "failed"

notReady == shake = "failed" \/ aborted

\* readyGate fails: the handshake did, or the wait for it was aborted.
gateFails ==
  /\ body = "gate"
  /\ notReady
  /\ IF dead THEN Body("idle") /\ UNCHANGED <<rpcVars, downVars>> ELSE tearFirst
  /\ UNCHANGED <<procVars, shake>>

\* didOpen or didChange was written.
documentWritten ==
  /\ body = "opening"
  /\ ~aborted
  /\ Body("opened")
  /\ UNCHANGED <<rpcVars, procVars, shake, downVars>>

\* Mutant: a cancelled write leaves the instance as it is.
abandonWrite == Body("idle") /\ UNCHANGED <<rpcVars, downVars>>

abandon == tearFirst

\* A canceled or failed write leaves the stream unusable.
documentFails ==
  /\ body = "opening"
  /\ aborted \/ failed
  /\ abandon
  /\ UNCHANGED <<procVars, shake>>

\* sendRequest: sent whether or not the signal is aborted by now.
sendRequest ==
  /\ body = "opened"
  /\ sent - tries <= MaxAsks
  /\ request
  /\ body' = "asking"
  /\ ask' = sent + 1
  /\ UNCHANGED <<aborted, procVars, shake, downVars>>

\* The action ends without a further request (a push window, an error).
finish ==
  /\ body = "opened"
  /\ Body("idle")
  /\ UNCHANGED <<rpcVars, procVars, shake, downVars>>

\* The request settles first: the action goes on, or ends.
requestSettles ==
  /\ body = "asking"
  /\ outcome[ask] # "pending"
  /\ ~aborted
  /\ Body("idle") \/ (outcome[ask] # "closed" /\ Body("opened"))
  /\ UNCHANGED <<rpcVars, procVars, shake, downVars>>

\* The signal fires first: $/cancelRequest, and a bounded wait.
cancelRequest ==
  /\ body = "asking"
  /\ aborted
  /\ Body("grace")
  /\ UNCHANGED <<rpcVars, procVars, shake, downVars>>

\* The server honours the cancellation, or the connection closed.
graceSettles ==
  /\ body = "grace"
  /\ outcome[ask] # "pending"
  /\ Body("idle")
  /\ UNCHANGED <<rpcVars, procVars, shake, downVars>>

\* Mutant: an unanswered request is left behind.
leaveRunning == Body("idle") /\ UNCHANGED <<rpcVars, downVars>>

giveUp == tearFirst

\* killGraceMs is over and the request still runs.
graceExpires ==
  /\ body = "grace"
  /\ outcome[ask] = "pending"
  /\ giveUp
  /\ UNCHANGED <<procVars, shake>>

-----------------------------------------------------------------------------
Environment ==
  \/ \E p \in toServer : handleResponse(p[1], p[2])
  \/ fail \/ close \/ treeExits
  \/ initializedWritten
  \/ begin \/ dispose

Handshake == initializeSettles

TearDown ==
  shutdownSettles \/ exitWritten \/ closesItself \/ budgetExpires
  \/ exitConfirmed \/ exitTimesOut

Action ==
  \/ abort \/ gatePasses \/ gateFails
  \/ documentWritten \/ documentFails
  \/ sendRequest \/ finish \/ requestSettles
  \/ cancelRequest \/ graceSettles \/ graceExpires

Next == Environment \/ Handshake \/ TearDown \/ Action

Spec == Init /\ [][Next]_vars

(***************************************************************************)
(* Fairness: the timers of the teardown and of the cancel grace fire, the  *)
(* caller's timeout fires, and promises that settled are noticed.  The     *)
(* server need not answer, read its stdin, or exit.                        *)
(***************************************************************************)
Fairness ==
  /\ WF_vars(initializeSettles)
  /\ WF_vars(budgetExpires)
  /\ WF_vars(exitConfirmed \/ exitTimesOut)
  /\ WF_vars(abort)
  /\ WF_vars(gateFails)
  /\ WF_vars(documentFails)
  /\ WF_vars(sendRequest \/ finish)
  /\ WF_vars(requestSettles \/ cancelRequest)
  /\ WF_vars(graceSettles \/ graceExpires)

FairSpec == Spec /\ Fairness

-----------------------------------------------------------------------------
(* Properties *)

\* "No caller can hang on a dead server": once the connection has failed or
\* closed nothing waits for an answer, the requests sent after that included.
NothingPendingAfterFailure ==
  /\ closed => failed
  /\ failed => \A s \in Serials : outcome[s] # "pending"

\* An answer settles the request it answers and no other, whatever the server
\* repeats or sends late after a cancellation.
AnswersMatch ==
  \A s \in Serials : outcome[s] \in {"answered", "refused"} => by[s] = s

\* "Nothing outlives the action": when an action has ended on an instance that
\* goes on serving, none of its requests is still running at the server.
NothingOutlivesAction ==
  body = "idle" /\ ~dead => \A s \in Serials \ {1} : outcome[s] # "pending"

\* A cancelled write of a document never leaves the instance in service.
CancelledWriteEndsInstance ==
  [][body = "opening" /\ aborted /\ body' # "opening" => disposed']_vars

\* What the pool knows of the instance.
Server == INSTANCE ServerInstance WITH
  shake <- IF shake \in {"asking", "telling"} THEN "pending" ELSE shake,
  broken <- failed,
  teardown <- IF down \in {"none", "done", "failed"} THEN down ELSE "running",
  tree <- tree

\* The instance is a server instance as the pool knows it: its handshake and
\* its end settle once, and its teardown succeeds only without a living tree.
ImplementsServer == Server!Spec

\* Every action ends, whatever the server and the provider leave undone.
ActionsEnd == body # "idle" ~> body = "idle"

\* Every teardown is over within its budgets.
TeardownEnds == disposed ~> down \in {"done", "failed"}
=============================================================================
