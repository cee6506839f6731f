---------------------------- MODULE SerialService ----------------------------
(***************************************************************************)
(* What the pooled client promises its callers, with no word of processes, *)
(* retries or reaping: the calls of one key are served one at a time, in   *)
(* the order in which they joined; a call that gives up keeps nobody       *)
(* waiting; after the service closed nothing new is served; and no call    *)
(* settles twice.                                                          *)
(***************************************************************************)
CONSTANTS
  Calls,
  KeyOf   \* the key each call is for

VARIABLES
  phase,  \* "new", "waiting", "served" or "settled"
  ahead,  \* of a waiting call: the unsettled calls of its key that joined before it
  closed

vars == <<phase, ahead, closed>>

Init ==
  /\ phase = [c \in Calls |-> "new"]
  /\ ahead = [c \in Calls |-> {}]
  /\ closed = FALSE

\* The calls that joined the key of c and have not settled.
Line(c) == {d \in Calls : KeyOf[d] = KeyOf[c] /\ phase[d] \in {"waiting", "served"}}

Join(c) ==
  /\ phase[c] = "new"
  /\ ~closed
  /\ phase' = [phase EXCEPT ![c] = "waiting"]
  /\ ahead' = [ahead EXCEPT ![c] = Line(c)]
  /\ UNCHANGED closed

Serve(c) ==
  /\ phase[c] = "waiting"
  /\ ~closed
  /\ ahead[c] = {}
  /\ phase' = [phase EXCEPT ![c] = "served"]
  /\ UNCHANGED <<ahead, closed>>

\* A call ends: served, or cancelled before its turn or before it joined.
Finish(c) ==
  /\ phase[c] # "settled"
  /\ phase' = [phase EXCEPT ![c] = "settled"]
  /\ ahead' = [d \in Calls |-> IF d = c THEN {} ELSE ahead[d] \ {c}]
  /\ UNCHANGED closed

Close ==
  /\ ~closed
  /\ closed' = TRUE
  /\ UNCHANGED <<phase, ahead>>

Next ==
  \/ \E c \in Calls : Join(c) \/ Serve(c) \/ Finish(c)
  \/ Close

Spec == Init /\ [][Next]_vars
=============================================================================
