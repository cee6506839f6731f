--------------------------- MODULE PushDiagnostics ---------------------------
(***************************************************************************)
(* The resident document of one instance and the diagnostics its server    *)
(* pushes for it (withDocument, waitForPushedDiagnostics and               *)
(* onNotification of src/client.ts).  Calls come one at a time, each with  *)
(* the text its file has by then; the server reads what it is sent and     *)
(* publishes at its own pace, for ever if it likes, and both directions    *)
(* are in order.                                                           *)
(*                                                                         *)
(* A window waits with two timers: the settle deadline, set when it opens, *)
(* and the quiet period, which every push heard through the window's       *)
(* waiter starts afresh.  Time passes in ticks; a timer that is due may be *)
(* served late.                                                            *)
(*                                                                         *)
(* A batch is known by its number and by the text the server computed it   *)
(* from; the client does not see that text and tags the batch, when it     *)
(* arrives, with the text it has opened.                                   *)
(***************************************************************************)
EXTENDS Naturals, Sequences

CONSTANTS
  Texts,       \* texts the file takes
  MaxBatches,  \* batches alive at once; bounds the model
  MaxWire,     \* messages in flight each way; bounds the model
  SettleTicks, \* diagnosticsSettleMs
  QuietTicks,  \* diagnosticsDebounceMs
  None

ASSUME BoundsAssumption ==
  /\ MaxBatches \in Nat /\ MaxWire \in Nat \ {0}
  /\ SettleTicks \in Nat /\ QuietTicks \in Nat

VARIABLES
  resident,   \* residentDocs: the text last written to the server
  opened,     \* openedDocs: the text pushes are tagged with
  pushed,     \* the batch that arrived last and was not taken
  lastPushed, \* the batch last handed to a caller
  phase,      \* the call: "idle", "writing" its document, its "window" open
  text,       \* its text
  result,     \* what the last call that succeeded got: a batch, or None for []
  waiter,     \* pushWaiters: the window hears the pushes
  settle,     \* ticks left of the window's settle deadline
  quiet,      \* ticks left of its quiet period, if a push has started one
  late,       \* ticks left of the deadlines that outlive their windows
  toServer,   \* didOpen and didChange in flight
  serverText, \* the text the server has read
  toClient,   \* batches in flight
  gone,       \* the instance has died and the next call gets another
  arrived,    \* history: the batch that arrived last since a window closed
  previous,   \* history: what the last call that succeeded got, until the text changes
  age,        \* history: ticks since the window opened
  silence     \* history: ticks since the window last heard a push

docVars == <<resident, opened, pushed, lastPushed>>
callVars == <<phase, text, result>>
timerVars == <<waiter, settle, quiet, late>>
wireVars == <<toServer, serverText, toClient, gone>>
history == <<arrived, previous>>
clockHistory == <<age, silence>>
vars == <<docVars, callVars, timerVars, wireVars, history, clockHistory>>

Batch == [of : Texts, n : 1..MaxBatches]
Tagged == [batch : Batch, tag : Texts \cup {None}]

\* None stands for undefined: no text, batch, tagged batch or number is it.
ASSUME NoneAssumption == None \notin Texts \cup Batch \cup Tagged \cup Nat

TypeOK ==
  /\ resident \in Texts \cup {None}
  /\ opened \in Texts \cup {None}
  /\ pushed \in Tagged \cup {None}
  /\ lastPushed \in Tagged \cup {None}
  /\ phase \in {"idle", "writing", "window"}
  /\ text \in Texts \cup {None}
  /\ result \in Batch \cup {None}
  /\ waiter \in BOOLEAN
  /\ settle \in 0..SettleTicks \cup {None}
  /\ quiet \in 0..QuietTicks \cup {None}
  /\ late \subseteq 0..SettleTicks
  /\ toServer \in Seq(Texts) /\ Len(toServer) <= MaxWire
  /\ serverText \in Texts \cup {None}
  /\ toClient \in Seq(Batch) /\ Len(toClient) <= MaxWire
  /\ gone \in BOOLEAN
  /\ arrived \in Batch \cup {None}
  /\ previous \in Tagged \cup {None}
  /\ age \in 0..SettleTicks
  /\ silence \in 0..QuietTicks \cup {None}

Init ==
  /\ resident = None /\ opened = None /\ pushed = None /\ lastPushed = None
  /\ phase = "idle" /\ text = None /\ result = None
  /\ waiter = FALSE /\ settle = None /\ quiet = None /\ late = {}
  /\ toServer = <<>> /\ serverText = None /\ toClient = <<>> /\ gone = FALSE
  /\ arrived = None /\ previous = None /\ age = 0 /\ silence = None

-----------------------------------------------------------------------------
(* withDocument *)

\* Mutant: the last batch is forgotten on every call.
forgetAlways == lastPushed' = None

keepLast == UNCHANGED lastPushed

\* waitForPushedDiagnostics, called at once by an operation that collects
\* diagnostics from a push-only server: the deadline starts with the window, the
\* quiet period only with a push that the window hears.
opensWindow ==
  /\ phase' = "window"
  /\ waiter' = TRUE
  /\ settle' = SettleTicks
  /\ quiet' = None
  /\ age' = 0 /\ silence' = None
  /\ UNCHANGED late

\* Any other operation only asks the server, and leaves this state as it is.
needsNoWindow == phase' = "idle" /\ UNCHANGED <<timerVars, clockHistory>>

\* A call for a document that is resident with this text: nothing is written.
callResident(t) ==
  /\ phase = "idle" /\ ~gone
  /\ resident = t
  /\ text' = t
  /\ opened' = t
  /\ keepLast
  /\ opensWindow \/ needsNoWindow
  /\ UNCHANGED <<resident, pushed, result, wireVars, history>>

\* A call for a document that is not open, or whose text has changed.
callWrites(t) ==
  /\ phase = "idle" /\ ~gone
  /\ resident # t
  /\ Len(toServer) < MaxWire
  /\ phase' = "writing"
  /\ text' = t
  /\ toServer' = Append(toServer, t)
  /\ UNCHANGED <<docVars, result, timerVars, serverText, toClient, gone, history, clockHistory>>

\* didOpen or didChange was written, which the server may have read long ago.
written ==
  /\ phase = "writing"
  /\ resident' = text
  /\ lastPushed' = None
  /\ opened' = text
  /\ previous' = None
  /\ opensWindow \/ needsNoWindow
  /\ UNCHANGED <<pushed, text, result, wireVars, arrived>>

\* The instance is torn down or its process ends.  A document write fails with
\* it; a window does not notice and waits on for its timers.
dies ==
  /\ ~gone
  /\ gone' = TRUE
  /\ phase' = IF phase = "writing" THEN "idle" ELSE phase
  /\ toServer' = <<>> /\ serverText' = None /\ toClient' = <<>>
  /\ UNCHANGED <<docVars, text, result, timerVars, history, clockHistory>>

\* The next call gets a fresh instance.
replaced ==
  /\ gone /\ phase = "idle"
  /\ gone' = FALSE
  /\ resident' = None /\ opened' = None /\ pushed' = None /\ lastPushed' = None
  /\ late' = {}
  /\ arrived' = None /\ previous' = None
  /\ UNCHANGED <<callVars, waiter, settle, quiet, toServer, serverText, toClient, clockHistory>>

-----------------------------------------------------------------------------
(* The server *)

serverReads ==
  /\ toServer # <<>>
  /\ serverText' = Head(toServer)
  /\ toServer' = Tail(toServer)
  /\ UNCHANGED <<docVars, callVars, timerVars, toClient, gone, history, clockHistory>>

\* The numbers of the batches that are still somewhere.
InUse ==
  {toClient[i].n : i \in DOMAIN toClient}
    \cup {b.batch.n : b \in {pushed, lastPushed, previous} \ {None}}
    \cup {b.n : b \in {arrived, result} \ {None}}

\* A batch gets the least free number: the server can publish for ever.
serverPublishes ==
  /\ serverText # None
  /\ Len(toClient) < MaxWire
  /\ \E n \in 1..MaxBatches \ InUse :
       /\ 1..(n - 1) \subseteq InUse
       /\ toClient' = Append(toClient, [of |-> serverText, n |-> n])
  /\ UNCHANGED <<docVars, callVars, timerVars, toServer, serverText, gone, history, clockHistory>>

-----------------------------------------------------------------------------
(* onNotification *)

\* Mutant: the first batch of a window stays.
keepFirst(b) == IF pushed = None THEN b ELSE pushed
\* Mutant: the text the batch arrived under is not kept with it.
untagged(b) == b.batch

replaceBatch(b) == b

\* Mutant: a push while the quiet period runs does not start it afresh.
armedOnce == IF waiter /\ quiet = None THEN QuietTicks ELSE quiet

\* onPush, through the waiter: the quiet period starts afresh.
quietAfterPush == IF waiter THEN QuietTicks ELSE quiet

\* Mutant: a push extends the deadline as well.
extended == IF waiter THEN SettleTicks ELSE settle

\* The deadline of the window stands.
settleAfterPush == settle

\* onNotification: the latest batch replaces any earlier one.
onNotification ==
  /\ toClient # <<>>
  /\ toClient' = Tail(toClient)
  /\ pushed' = replaceBatch([batch |-> Head(toClient), tag |-> opened])
  /\ quiet' = quietAfterPush
  /\ settle' = settleAfterPush
  /\ arrived' = Head(toClient)
  /\ silence' = IF phase = "window" THEN 0 ELSE silence
  /\ UNCHANGED <<resident, opened, lastPushed, callVars, waiter, late, toServer, serverText,
                 gone, previous, age>>

-----------------------------------------------------------------------------
(* waitForPushedDiagnostics *)

\* The window is over and its quiet period cancelled; the batch is taken.
ends ==
  /\ phase' = "idle"
  /\ waiter' = FALSE
  /\ settle' = None /\ quiet' = None
  /\ pushed' = None
  /\ arrived' = None
  /\ age' = 0 /\ silence' = None

\* takeLatest for a caller who waits: the batch that arrived last, else the last
\* one handed out if its tag is this text, else [].
takeLatest ==
  /\ ends
  /\ lastPushed' = IF pushed # None THEN pushed ELSE lastPushed
  /\ result' = IF lastPushed' # None /\ (pushed # None \/ lastPushed.tag = text)
                 THEN lastPushed'.batch
                 ELSE None
  /\ previous' = IF result' = None THEN None ELSE lastPushed'
  /\ UNCHANGED <<resident, opened, text, wireVars>>

\* The settle deadline.
settleDue ==
  /\ phase = "window"
  /\ settle = 0
  /\ takeLatest
  /\ UNCHANGED late

\* The quiet period is over; the deadline comes later all the same.
quietDue ==
  /\ phase = "window"
  /\ quiet = 0
  /\ takeLatest
  /\ late' = late \cup {settle}

\* The caller's abort, perhaps before the window opened: the batch is taken and
\* handed to nobody, and the deadline is not waited for any more.
abort ==
  /\ phase = "window"
  /\ ends
  /\ UNCHANGED <<resident, opened, lastPushed, text, result, late, wireVars, previous>>

\* Mutant: takeLatest runs a second time.
takesAgain == pushed' = None /\ waiter' = FALSE

doneAlready == UNCHANGED <<pushed, waiter>>

\* The deadline of a window that its quiet period closed: the window is done,
\* and the one that may be open by now is none of its business.
closedDeadline ==
  /\ 0 \in late
  /\ late' = late \ {0}
  /\ doneAlready
  /\ UNCHANGED <<resident, opened, lastPushed, callVars, settle, quiet, wireVars, history,
                 clockHistory>>

Elapse(t) == IF t \in Nat \ {0} THEN t - 1 ELSE t
Grow(t, most) == IF t \in 0..(most - 1) THEN t + 1 ELSE t

\* Time passes for every timer that is running; what is due waits to be served.
Tick ==
  /\ settle' = Elapse(settle)
  /\ quiet' = Elapse(quiet)
  /\ late' = {Elapse(d) : d \in late}
  /\ age' = IF phase = "window" THEN Grow(age, SettleTicks) ELSE age
  /\ silence' = Grow(silence, QuietTicks)
  /\ UNCHANGED <<docVars, callVars, waiter, wireVars, history>>

Next ==
  \/ \E t \in Texts : callResident(t) \/ callWrites(t)
  \/ written \/ dies \/ replaced
  \/ serverReads \/ serverPublishes
  \/ onNotification \/ settleDue \/ quietDue \/ abort \/ closedDeadline \/ Tick

Spec == Init /\ [][Next]_vars

\* Time passes, and a deadline that is due is served: the event loop's own
\* promises.  Nothing is asked of the server, the caller or the quiet period.
Fairness == WF_vars(Tick) /\ WF_vars(settleDue)

FairSpec == Spec /\ Fairness

-----------------------------------------------------------------------------
(* Properties *)

\* "The LATEST batch wins": a window at whose end a batch has arrived since the
\* last one closed never answers with an earlier batch, or with none.  "Push-only
\* servers do not republish for an unchanged document": with nothing new, a
\* second call for the same text gets the first one's batch again (unless that
\* batch had arrived while another text was open).
LatestElseSameText ==
  [][settleDue \/ quietDue =>
       /\ arrived # None => result' = arrived
       /\ arrived = None /\ previous # None /\ previous.tag = text
            => result' = previous.batch]_vars

\* "A server that publishes partial then complete batches yields the complete
\* one": a window answers before SettleTicks have passed since it opened only with
\* the last batch it heard, QuietTicks after it heard it.  Neither a batch that was
\* there before, nor a quiet period that a later push interrupted, nor the
\* deadline of an earlier window cuts it short.
BurstIsWhole ==
  [][(settleDue \/ quietDue) /\ age < SettleTicks =>
       silence = QuietTicks /\ result' = arrived]_vars

\* "The settle deadline resolves whatever is latest": every window closes, even
\* under a server that never stops publishing or never publishes, and when the
\* instance dies meanwhile.
WindowsClose == phase = "window" ~> phase # "window"

\* "Reuse the last batch only when the text it was produced from is still the
\* same": a reused batch was computed from the text of the call.
ReusesSameTextOnly ==
  [][(settleDue \/ quietDue) /\ pushed = None /\ result' # None => result'.of = text]_vars
=============================================================================
