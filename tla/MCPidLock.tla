----------------------------- MODULE MCPidLock -----------------------------
(* Instances of MiniEAP for TLC. *)
EXTENDS PidLock

CONSTANTS a, b, c

\* One pid is shorter than the other two.
MCDigits == [p \in {a, b, c} |-> IF p = b THEN 1 ELSE 2]

=============================================================================
