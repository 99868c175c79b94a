--------------------------- MODULE MCRjV3Session ---------------------------
(* Configurations of the supplicant and of the plugin for TLC. *)
EXTENDS RjV3Session

\* One round with the reachability check; two rounds with a retry limit that
\* the first repetition reaches.
Supplicants ==
  {[auth_round |-> 1, max_retries |-> 2, max_failures |-> 2,
    restart_on_logoff |-> TRUE, internet_check |-> TRUE,
    internet_check_max_fail |-> 1],
   [auth_round |-> 2, max_retries |-> 2, max_failures |-> 0,
    restart_on_logoff |-> TRUE, internet_check |-> FALSE,
    internet_check_max_fail |-> 1]}

\* Double authentication with and without a wait for the lease, and with the
\* heartbeat switched off; a session of a single pass.
PluginOptions ==
  {[dhcp |-> "double", heartbeat |-> TRUE,  maxDhcp |-> 2],
   [dhcp |-> "double", heartbeat |-> TRUE,  maxDhcp |-> 0],
   [dhcp |-> "double", heartbeat |-> FALSE, maxDhcp |-> 1],
   [dhcp |-> "after",  heartbeat |-> TRUE,  maxDhcp |-> 3]}

=============================================================================
