------------------------- MODULE MCEapStateMachine -------------------------
(* Configurations of the supplicant for TLC. *)
EXTENDS EapStateMachine

Config(rounds, retries, failures, restart, check) ==
  [auth_round |-> rounds, max_retries |-> retries, max_failures |-> failures,
   restart_on_logoff |-> restart, internet_check |-> check,
   internet_check_max_fail |-> 2]

\* The defaults of config.h with the opt-in reachability check; no automatic
\* re-authentication and a tight failure limit; two rounds; two rounds with a
\* retry limit the first timeout reaches.
MCConfigs ==
  {Config(1, 3, 3, TRUE, TRUE), Config(1, 2, 2, FALSE, TRUE),
   Config(2, 2, 3, TRUE, TRUE), Config(2, 1, 0, TRUE, FALSE)}

\* The configurations in which the documented behaviour is refuted.
TwoRounds == {Config(2, 3, 3, TRUE, FALSE)}
Defaults  == {Config(1, 3, 3, TRUE, FALSE)}

=============================================================================
