------------------------ MODULE PushDiagnosticsProofs ------------------------
(***************************************************************************)
(* What the diagnostics windows of PushDiagnostics promise, for any texts, *)
(* bounds and timers: what TLC checks for two texts, a deadline of two     *)
(* ticks and a quiet period of one.                                        *)
(***************************************************************************)
EXTENDS PushDiagnostics, SequenceTheorems, TLAPS

\* The history agrees with what the instance keeps: a batch that arrived since
\* the last window closed is the one in hand, and what the last call got is
\* still remembered.
HistoryInv ==
  /\ IF pushed = None THEN arrived = None ELSE arrived = pushed.batch
  /\ previous # None => previous = lastPushed

\* The timers agree with the time that has passed: the window's deadline was set
\* when it opened, its quiet period by the push it heard last, and a batch it
\* heard has arrived; without a window neither timer runs.
ClockInv ==
  /\ phase = "window" =>
       /\ waiter
       /\ settle \in Nat /\ settle + age = SettleTicks
       /\ IF silence = None THEN quiet = None
          ELSE quiet \in Nat /\ quiet + silence = QuietTicks /\ arrived # None
  /\ phase # "window" => ~waiter /\ settle = None /\ quiet = None /\ silence = None

IInv == TypeOK /\ HistoryInv /\ ClockInv

-----------------------------------------------------------------------------
(* Types *)

\* What is read from a wire is a message of it, and the rest is shorter.
LEMMA TakeFirst ==
  ASSUME NEW S, NEW w \in Seq(S), w # <<>>
  PROVE  Head(w) \in S /\ Tail(w) \in Seq(S) /\ Len(Tail(w)) = Len(w) - 1
  BY HeadTailProperties

\* A timer that is running loses a tick, never more than it has.
LEMMA ElapseBounded ==
  ASSUME NEW top \in Nat, NEW t \in 0..top \cup {None}
  PROVE  /\ Elapse(t) \in 0..top \cup {None}
         /\ t = None => Elapse(t) = None
         /\ t # None => Elapse(t) \in 0..top /\ Elapse(t) = (IF t = 0 THEN 0 ELSE t - 1)
  BY NoneAssumption DEF Elapse

\* A count of ticks grows up to its bound.
LEMMA GrowBounded ==
  ASSUME NEW top \in Nat, NEW t \in 0..top \cup {None}
  PROVE  /\ Grow(t, top) \in 0..top \cup {None}
         /\ t = None => Grow(t, top) = None
         /\ t # None => Grow(t, top) \in 0..top /\ Grow(t, top) = (IF t < top THEN t + 1 ELSE t)
  BY NoneAssumption DEF Grow

LEMMA DocTypes ==
  TypeOK /\ [Next]_vars =>
    /\ resident' \in Texts \cup {None} /\ opened' \in Texts \cup {None}
    /\ phase' \in {"idle", "writing", "window"} /\ text' \in Texts \cup {None}
<1> SUFFICES ASSUME TypeOK, [Next]_vars
             PROVE  /\ resident' \in Texts \cup {None} /\ opened' \in Texts \cup {None}
                    /\ phase' \in {"idle", "writing", "window"} /\ text' \in Texts \cup {None}
  OBVIOUS
<1>1. CASE \E t \in Texts : callResident(t) \/ callWrites(t)
  BY <1>1 DEF TypeOK, callResident, callWrites, opensWindow, needsNoWindow, docVars
<1>2. CASE written \/ dies \/ replaced
  BY <1>2 DEF TypeOK, written, opensWindow, needsNoWindow, dies, replaced, docVars, callVars
<1>3. CASE serverReads \/ serverPublishes \/ closedDeadline \/ Tick \/ UNCHANGED vars
  BY <1>3 DEF TypeOK, serverReads, serverPublishes, closedDeadline, Tick, docVars, callVars, vars
<1>4. CASE onNotification \/ settleDue \/ quietDue \/ abort
  BY <1>4 DEF TypeOK, onNotification, settleDue, quietDue, takeLatest, abort, ends, docVars, callVars
<1> QED
  BY <1>1, <1>2, <1>3, <1>4 DEF Next

LEMMA WireTypes ==
  TypeOK /\ [Next]_vars =>
    /\ toServer' \in Seq(Texts) /\ Len(toServer') <= MaxWire
    /\ serverText' \in Texts \cup {None}
    /\ toClient' \in Seq(Batch) /\ Len(toClient') <= MaxWire
    /\ gone' \in BOOLEAN
<1> SUFFICES ASSUME TypeOK, [Next]_vars
             PROVE  /\ toServer' \in Seq(Texts) /\ Len(toServer') <= MaxWire
                    /\ serverText' \in Texts \cup {None}
                    /\ toClient' \in Seq(Batch) /\ Len(toClient') <= MaxWire
                    /\ gone' \in BOOLEAN
  OBVIOUS
<1> USE BoundsAssumption
<1>1. ASSUME NEW t \in Texts, callWrites(t)
      PROVE  toServer' \in Seq(Texts) /\ Len(toServer') <= MaxWire
  BY <1>1, AppendProperties DEF TypeOK, callWrites
<1>2. CASE dies
  BY <1>2, EmptySeq DEF TypeOK, dies
<1>3. CASE serverReads
  BY <1>3, TakeFirst DEF TypeOK, serverReads
<1>4. CASE serverPublishes
  <2>1. PICK n \in 1..MaxBatches : toClient' = Append(toClient, [of |-> serverText, n |-> n])
    BY <1>4 DEF serverPublishes
  <2>2. [of |-> serverText, n |-> n] \in Batch
    BY <1>4 DEF TypeOK, serverPublishes, Batch
  <2> QED
    BY <1>4, <2>1, <2>2, AppendProperties DEF TypeOK, serverPublishes
<1>5. CASE onNotification
  BY <1>5, TakeFirst DEF TypeOK, onNotification
<1>6. CASE replaced \/ written \/ settleDue \/ quietDue \/ abort \/ closedDeadline \/ Tick
           \/ UNCHANGED vars
  BY <1>6 DEF TypeOK, replaced, written, settleDue, quietDue, takeLatest, abort, closedDeadline,
              Tick, wireVars, vars
<1> QED
  BY <1>1, <1>2, <1>3, <1>4, <1>5, <1>6 DEF TypeOK, Next, callResident, callWrites, wireVars

LEMMA BatchTypes ==
  TypeOK /\ [Next]_vars =>
    /\ pushed' \in Tagged \cup {None} /\ lastPushed' \in Tagged \cup {None}
    /\ result' \in Batch \cup {None}
    /\ arrived' \in Batch \cup {None} /\ previous' \in Tagged \cup {None}
<1> SUFFICES ASSUME TypeOK, [Next]_vars
             PROVE  /\ pushed' \in Tagged \cup {None} /\ lastPushed' \in Tagged \cup {None}
                    /\ result' \in Batch \cup {None}
                    /\ arrived' \in Batch \cup {None} /\ previous' \in Tagged \cup {None}
  OBVIOUS
<1>1. CASE onNotification
  <2>1. Head(toClient) \in Batch
    BY <1>1, TakeFirst DEF TypeOK, onNotification
  <2>2. [batch |-> Head(toClient), tag |-> opened] \in Tagged
    BY <2>1 DEF TypeOK, Tagged
  <2> QED
    BY <1>1, <2>1, <2>2 DEF TypeOK, onNotification, replaceBatch, callVars
<1>2. CASE settleDue \/ quietDue
  <2>1. takeLatest
    BY <1>2 DEF settleDue, quietDue
  <2>2. lastPushed' \in Tagged \cup {None}
    BY <2>1 DEF TypeOK, takeLatest
  <2>3. \A b \in Tagged : b.batch \in Batch
    BY DEF Tagged
  <2> QED
    BY <2>1, <2>2, <2>3 DEF TypeOK, takeLatest, ends
<1>3. CASE written \/ dies \/ replaced \/ abort \/ closedDeadline \/ Tick
  BY <1>3 DEF TypeOK, written, dies, replaced, abort, ends, closedDeadline, doneAlready, Tick,
              docVars, callVars, history
<1>4. CASE (\E t \in Texts : callResident(t) \/ callWrites(t)) \/ serverReads \/ serverPublishes
           \/ UNCHANGED vars
  BY <1>4 DEF TypeOK, callResident, keepLast, callWrites, serverReads, serverPublishes,
              docVars, callVars, history, vars
<1> QED
  BY <1>1, <1>2, <1>3, <1>4 DEF Next

LEMMA TimerTypes ==
  TypeOK /\ ClockInv /\ [Next]_vars =>
    /\ waiter' \in BOOLEAN
    /\ settle' \in 0..SettleTicks \cup {None} /\ quiet' \in 0..QuietTicks \cup {None}
    /\ late' \subseteq 0..SettleTicks
    /\ age' \in 0..SettleTicks /\ silence' \in 0..QuietTicks \cup {None}
<1> DEFINE Timers ==
      /\ waiter \in BOOLEAN
      /\ settle \in 0..SettleTicks \cup {None} /\ quiet \in 0..QuietTicks \cup {None}
      /\ late \subseteq 0..SettleTicks
      /\ age \in 0..SettleTicks /\ silence \in 0..QuietTicks \cup {None}
<1> SUFFICES ASSUME TypeOK, ClockInv, [Next]_vars PROVE Timers'
  OBVIOUS
<1>b. SettleTicks \in Nat /\ QuietTicks \in Nat
  BY BoundsAssumption
<1>t. Timers
  BY DEF TypeOK
<1>1. ASSUME opensWindow PROVE Timers'
  BY ONLY <1>1, <1>b, <1>t DEF opensWindow
<1>2. ASSUME UNCHANGED <<timerVars, clockHistory>> PROVE Timers'
  BY ONLY <1>2, <1>t DEF timerVars, clockHistory
<1>3. CASE replaced
  BY ONLY <1>3, <1>t DEF replaced, clockHistory
<1>4. CASE onNotification
  BY ONLY <1>4, <1>b, <1>t DEF onNotification, quietAfterPush, settleAfterPush
<1>5. ASSUME ends, late' \subseteq 0..SettleTicks PROVE Timers'
  <2>1. waiter' \in BOOLEAN
    BY <1>5 DEF ends
  <2>2. settle' = None /\ quiet' = None /\ age' = 0 /\ silence' = None
    BY <1>5 DEF ends
  <2>3. 0 \in 0..SettleTicks
    BY <1>b
  <2> QED
    BY ONLY <1>5, <2>1, <2>2, <2>3
<1>6. CASE settleDue \/ abort
  BY <1>6, <1>5, <1>t DEF settleDue, takeLatest, abort
<1>7. CASE quietDue
  <2>1. settle \in 0..SettleTicks
    BY <1>7, <1>t, NoneAssumption DEF ClockInv, quietDue
  <2> QED
    BY <1>7, <1>5, <1>t, <2>1 DEF quietDue, takeLatest
<1>8. CASE closedDeadline
  BY ONLY <1>8, <1>t DEF closedDeadline, doneAlready, clockHistory
<1>9. CASE Tick
  <2>1. settle' \in 0..SettleTicks \cup {None} /\ quiet' \in 0..QuietTicks \cup {None}
    BY <1>9, <1>b, <1>t, ElapseBounded DEF Tick
  <2>2. age' \in 0..SettleTicks /\ silence' \in 0..QuietTicks \cup {None}
    BY <1>9, <1>b, <1>t, GrowBounded, NoneAssumption DEF Tick
  <2>3. \A d \in late : Elapse(d) \in 0..SettleTicks
    BY <1>b, <1>t, ElapseBounded, NoneAssumption
  <2> QED
    BY <1>9, <1>t, <2>1, <2>2, <2>3 DEF Tick
<1> QED
  BY <1>1, <1>2, <1>3, <1>4, <1>6, <1>7, <1>8, <1>9
     DEF Next, callResident, needsNoWindow, callWrites, written, dies, serverReads,
         serverPublishes, vars

-----------------------------------------------------------------------------
(* The batches *)

LEMMA HistoryStep == TypeOK /\ HistoryInv /\ [Next]_vars => HistoryInv'
<1> SUFFICES ASSUME TypeOK, HistoryInv, [Next]_vars PROVE HistoryInv'
  OBVIOUS
<1>1. CASE onNotification
  <2>1. Head(toClient) \in Batch
    BY <1>1, TakeFirst DEF TypeOK, onNotification
  <2>2. [batch |-> Head(toClient), tag |-> opened] \in Tagged
    BY <2>1 DEF TypeOK, Tagged
  <2> QED
    BY <1>1, <2>2, NoneAssumption DEF HistoryInv, onNotification, replaceBatch
<1>2. CASE written \/ replaced \/ settleDue \/ quietDue \/ abort
  BY <1>2 DEF HistoryInv, written, replaced, settleDue, quietDue, takeLatest, abort, ends
<1>3. CASE (\E t \in Texts : callResident(t) \/ callWrites(t)) \/ serverReads \/ serverPublishes
           \/ dies \/ closedDeadline \/ Tick \/ UNCHANGED vars
  BY <1>3 DEF HistoryInv, callResident, keepLast, callWrites, serverReads, serverPublishes,
              dies, closedDeadline, doneAlready, Tick, docVars, history, vars
<1> QED
  BY <1>1, <1>2, <1>3 DEF Next

\* What a window hands out, in a state where the history agrees.
LEMMA TakesLatest ==
  ASSUME TypeOK, HistoryInv, takeLatest
  PROVE  /\ arrived # None => result' = arrived
         /\ arrived = None /\ previous # None /\ previous.tag = text
              => result' = previous.batch
<1>1. ASSUME arrived # None PROVE result' = arrived
  <2>1. pushed # None /\ pushed.batch = arrived
    BY <1>1 DEF HistoryInv
  <2> QED
    BY <2>1 DEF takeLatest
<1>2. ASSUME arrived = None, previous # None, previous.tag = text PROVE result' = previous.batch
  <2>1. pushed = None
    <3> SUFFICES ASSUME pushed # None PROVE FALSE
      OBVIOUS
    <3>1. pushed.batch \in Batch
      BY DEF TypeOK, Tagged
    <3> QED
      BY <3>1, <1>2, NoneAssumption DEF HistoryInv
  <2> QED
    BY <1>2, <2>1 DEF HistoryInv, takeLatest
<1> QED
  BY <1>1, <1>2

-----------------------------------------------------------------------------
(* The timers *)

LEMMA ClockStep == TypeOK /\ ClockInv /\ [Next]_vars => ClockInv'
<1> SUFFICES ASSUME TypeOK, ClockInv, [Next]_vars PROVE ClockInv'
  OBVIOUS
<1>b. SettleTicks \in Nat /\ QuietTicks \in Nat /\ None \notin Nat /\ None \notin Batch
  BY BoundsAssumption, NoneAssumption
<1>1. ASSUME opensWindow PROVE ClockInv'
  BY ONLY <1>1, <1>b DEF ClockInv, opensWindow
<1>2. ASSUME phase # "window", phase' # "window", UNCHANGED <<timerVars, clockHistory>>
      PROVE  ClockInv'
  BY <1>2 DEF ClockInv, timerVars, clockHistory
<1>3. ASSUME UNCHANGED <<phase, arrived, waiter, settle, quiet, age, silence>> PROVE ClockInv'
  BY <1>3 DEF ClockInv
<1>4. CASE dies \/ replaced
  BY <1>4 DEF ClockInv, dies, replaced, callVars, timerVars, history, clockHistory
<1>5. CASE onNotification
  <2>1. Head(toClient) \in Batch
    BY <1>5, TakeFirst DEF TypeOK, onNotification
  <2>2. arrived' # None
    BY <1>5, <2>1, <1>b DEF onNotification
  <2>3. CASE phase = "window"
    <3>1. waiter /\ settle \in Nat /\ settle + age = SettleTicks
      BY <2>3 DEF ClockInv
    <3>2. quiet' = QuietTicks /\ silence' = 0
      BY <1>5, <2>3, <3>1 DEF onNotification, quietAfterPush
    <3>3. UNCHANGED <<phase, waiter, settle, age>>
      BY <1>5 DEF onNotification, settleAfterPush, callVars
    <3> QED
      BY ONLY <2>2, <2>3, <3>1, <3>2, <3>3, <1>b DEF ClockInv
  <2>4. CASE phase # "window"
    <3>1. ~waiter
      BY <2>4 DEF ClockInv
    <3> QED
      BY <1>5, <2>4, <3>1 DEF ClockInv, onNotification, quietAfterPush, settleAfterPush, callVars
  <2> QED
    BY <2>3, <2>4
<1>6. ASSUME ends PROVE ClockInv'
  BY ONLY <1>6 DEF ClockInv, ends
<1>7. CASE Tick
  <2>1. CASE phase # "window"
    BY <1>7, <2>1, <1>b DEF ClockInv, Tick, Elapse, Grow, callVars
  <2>2. CASE phase = "window"
    <3>1. waiter /\ settle \in Nat /\ settle + age = SettleTicks
      BY <2>2 DEF ClockInv
    <3>2. age \in Nat
      BY BoundsAssumption DEF TypeOK
    <3>3. settle' = Elapse(settle) /\ age' = Grow(age, SettleTicks)
      BY <1>7, <2>2 DEF Tick
    <3>4. settle' \in Nat /\ settle' + age' = SettleTicks
      BY ONLY <3>1, <3>2, <3>3, <1>b DEF Elapse, Grow
    <3>5. CASE silence = None
      BY <1>7, <2>2, <3>1, <3>4, <3>5, <1>b DEF ClockInv, Tick, Elapse, Grow, callVars
    <3>6. CASE silence # None
      <4>1. quiet \in Nat /\ quiet + silence = QuietTicks /\ arrived # None
        BY <2>2, <3>6 DEF ClockInv
      <4>2. silence \in Nat
        BY <3>6, BoundsAssumption DEF TypeOK
      <4>3. quiet' = Elapse(quiet) /\ silence' = Grow(silence, QuietTicks)
        BY <1>7 DEF Tick
      <4>4. quiet' \in Nat /\ silence' \in Nat /\ quiet' + silence' = QuietTicks
        BY ONLY <4>1, <4>2, <4>3, <1>b DEF Elapse, Grow
      <4> QED
        BY <1>7, <2>2, <3>1, <3>4, <4>1, <4>4, <1>b DEF ClockInv, Tick, callVars, history
    <3> QED
      BY <3>5, <3>6
  <2> QED
    BY <2>1, <2>2
<1>8. CASE closedDeadline
  BY <1>3, <1>8 DEF closedDeadline, doneAlready, callVars, history, clockHistory
<1>9. CASE \E t \in Texts : callResident(t) \/ callWrites(t)
  BY <1>1, <1>2, <1>9 DEF callResident, callWrites, needsNoWindow
<1>10. CASE written
  BY <1>1, <1>2, <1>10 DEF written, needsNoWindow
<1>11. CASE serverReads \/ serverPublishes \/ UNCHANGED vars
  BY <1>3, <1>11 DEF serverReads, serverPublishes, vars, callVars, timerVars, history, clockHistory
<1>12. CASE settleDue \/ quietDue \/ abort
  BY <1>6, <1>12 DEF settleDue, quietDue, takeLatest, abort
<1> QED
  BY <1>4, <1>5, <1>7, <1>8, <1>9, <1>10, <1>11, <1>12 DEF Next

\* What is due when a window answers, in a state where the timers agree.
LEMMA AnswersInTime ==
  ASSUME TypeOK, HistoryInv, ClockInv, settleDue \/ quietDue, age < SettleTicks
  PROVE  silence = QuietTicks /\ result' = arrived
<1>b. SettleTicks \in Nat /\ QuietTicks \in Nat /\ None \notin Nat
  BY BoundsAssumption, NoneAssumption
<1>1. phase = "window" /\ takeLatest
  BY DEF settleDue, quietDue
<1>2. settle # 0
  <2>1. settle + age = SettleTicks /\ age \in Nat
    BY <1>1, BoundsAssumption DEF ClockInv, TypeOK
  <2> QED
    BY <2>1, <1>b
<1>3. quiet = 0
  BY <1>2 DEF settleDue, quietDue
<1>4. silence # None /\ quiet + silence = QuietTicks /\ arrived # None
  BY <1>1, <1>3, <1>b DEF ClockInv
<1>5. silence \in Nat
  BY <1>4, <1>b DEF TypeOK
<1>6. silence = QuietTicks
  BY ONLY <1>3, <1>4, <1>5, <1>b
<1> QED
  BY <1>1, <1>4, <1>6, TakesLatest

-----------------------------------------------------------------------------

LEMMA InitIInv == Init => IInv
<1> SUFFICES ASSUME Init PROVE IInv
  OBVIOUS
<1>1. TypeOK
  <2>1. toServer = <<>> /\ toClient = <<>> /\ <<>> \in Seq(Texts) /\ <<>> \in Seq(Batch)
    BY EmptySeq DEF Init
  <2>2. Len(<<>>) = 0 /\ 0 <= MaxWire /\ 0 \in 0..SettleTicks
    BY BoundsAssumption, EmptySeq
  <2>3. waiter \in BOOLEAN /\ gone \in BOOLEAN
    BY DEF Init
  <2> QED
    BY <2>1, <2>2, <2>3 DEF Init, TypeOK
<1>2. HistoryInv /\ ClockInv
  BY DEF Init, HistoryInv, ClockInv
<1> QED
  BY <1>1, <1>2 DEF IInv

LEMMA IInvStep == IInv /\ [Next]_vars => IInv'
<1> SUFFICES ASSUME IInv, [Next]_vars PROVE IInv'
  OBVIOUS
<1>1. TypeOK'
  <2>1. TypeOK
    BY DEF IInv
  <2> QED
    BY <2>1, DocTypes, WireTypes, BatchTypes, TimerTypes DEF TypeOK, IInv
<1>2. HistoryInv'
  BY HistoryStep DEF IInv
<1>3. ClockInv'
  BY ClockStep DEF IInv
<1> QED
  BY <1>1, <1>2, <1>3 DEF IInv

\* The types, the history and the timers agree in every state.
THEOREM IInvHolds == Spec => []IInv
<1>1. Init => IInv
  BY InitIInv
<1>2. IInv /\ [Next]_vars => IInv'
  BY IInvStep
<1> QED
  BY <1>1, <1>2, PTL DEF Spec

\* The wires carry texts and batches within their bounds, no timer runs beyond
\* its period, and what is kept for later calls is a batch with the text it
\* arrived under (onNotification).
THEOREM TypeCorrect == Spec => []TypeOK
<1>1. IInv => TypeOK
  BY DEF IInv
<1> QED
  BY <1>1, IInvHolds, PTL

\* waitForPushedDiagnostics hands out the batch that arrived last; with nothing
\* new, an unchanged document gets the batch of the call before.
THEOREM LatestWins == Spec => LatestElseSameText
<1>1. IInv /\ [Next]_vars
        => [settleDue \/ quietDue =>
              /\ arrived # None => result' = arrived
              /\ arrived = None /\ previous # None /\ previous.tag = text
                   => result' = previous.batch]_vars
  BY TakesLatest DEF IInv, settleDue, quietDue
<1> QED
  BY <1>1, IInvHolds, PTL DEF Spec, LatestElseSameText

\* takeLatest answers early only after a whole quiet period, with the last batch
\* the window heard: whatever the deadline and the quiet period are.
THEOREM BurstsAreWhole == Spec => BurstIsWhole
<1>1. IInv /\ [Next]_vars
        => [(settleDue \/ quietDue) /\ age < SettleTicks =>
              silence = QuietTicks /\ result' = arrived]_vars
  BY AnswersInTime DEF IInv
<1> QED
  BY <1>1, IInvHolds, PTL DEF Spec, BurstIsWhole
=============================================================================
