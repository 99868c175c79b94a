--------------------------- MODULE NetworkAttempt ---------------------------
(***************************************************************************)
(* What the Windows build promises about a capture handle: once something  *)
(* has disturbed the network session that uses it, the session is never    *)
(* taken for a good one again, and the handle is closed in the end.        *)
(***************************************************************************)

VARIABLES
  open,     \* there is a capture handle
  disturbed \* the network or the power state has changed since it was asked for

vars == <<open, disturbed>>

TypeOK == open \in BOOLEAN /\ disturbed \in BOOLEAN

Init == open = FALSE /\ disturbed = FALSE

\* The disturbance may come before the handle is there.
Open ==
  /\ ~open
  /\ open' = TRUE
  /\ disturbed' \in BOOLEAN

Disturb ==
  /\ open
  /\ disturbed' = TRUE
  /\ open' = open

Close ==
  /\ open
  /\ open' = FALSE
  /\ disturbed' = FALSE

Next == Open \/ Disturb \/ Close

Spec == Init /\ [][Next]_vars

\* A disturbed session is given up.
FairSpec == Spec /\ WF_vars(disturbed /\ Close)

=============================================================================
