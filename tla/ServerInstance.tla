---------------------------- MODULE ServerInstance ----------------------------
(***************************************************************************)
(* What the pool relies on when it holds one server instance, with no word *)
(* of requests, ids or signals: a handshake that settles at most once, a   *)
(* connection that breaks at most once, and a teardown that may be started *)
(* again after it failed and that succeeds only when the process tree is   *)
(* gone.  ActionClient takes these steps for each of its instances;        *)
(* LspInstance implements them.                                            *)
(***************************************************************************)
VARIABLES
  shake,     \* "pending", then "ok" or "failed"
  broken,    \* the connection has failed or closed
  teardown,  \* "none", "running", "failed" or "done"
  tree       \* the process tree, "alive" or "gone"

vars == <<shake, broken, teardown, tree>>

Init ==
  /\ shake = "pending"
  /\ broken = FALSE
  /\ teardown = "none"
  /\ tree = "alive"

Handshake ==
  /\ shake = "pending"
  /\ shake' \in {"ok", "failed"}
  /\ UNCHANGED <<broken, teardown, tree>>

Break ==
  /\ ~broken
  /\ broken' = TRUE
  /\ UNCHANGED <<shake, teardown, tree>>

TreeExits ==
  /\ tree = "alive"
  /\ tree' = "gone"
  /\ UNCHANGED <<shake, broken, teardown>>

StartTeardown ==
  /\ teardown \in {"none", "failed"}
  /\ teardown' = "running"
  /\ UNCHANGED <<shake, broken, tree>>

TeardownSucceeds ==
  /\ teardown = "running"
  /\ broken
  /\ tree = "gone"
  /\ teardown' = "done"
  /\ UNCHANGED <<shake, broken, tree>>

TeardownFails ==
  /\ teardown = "running"
  /\ teardown' = "failed"
  /\ UNCHANGED <<shake, broken, tree>>

Next ==
  Handshake \/ Break \/ TreeExits \/ StartTeardown \/ TeardownSucceeds \/ TeardownFails

Spec == Init /\ [][Next]_vars
=============================================================================
