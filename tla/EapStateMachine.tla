-------------------------- MODULE EapStateMachine --------------------------
(***************************************************************************)
(* The 802.1X supplicant of eap_state_machine.c together with the state    *)
(* that internet_check.c keeps, as a POSIX build runs them without a       *)
(* packet plugin that changes state.                                       *)
(*                                                                         *)
(* One step is one complete handler: a frame given to                      *)
(* eap_state_machine_recv_handler, or one callback of the alarm scheduler. *)
(* A handler calls switch_to_state, whose transition function may call     *)
(* switch_to_state again; every step below has the nested calls in it.     *)
(*                                                                         *)
(* Timers are an ideal alarm service: a scheduled callback may run at any  *)
(* later time, a cancelled one never runs (SchedAlarm says what the real   *)
(* scheduler does).  The server is arbitrary: it may send any frame at any *)
(* time, or none; loss, duplication and reordering are all behaviours of   *)
(* it.                                                                     *)
(***************************************************************************)
EXTENDS Integers

CONSTANTS
  Configs,    \* the PROG_CONFIGs the process may be started with
  FrameBound  \* bound: frames the server sends in a behaviour

\* The options the state machine reads.  The limits are compared with ==, so a
\* max_retries or max_failures of 0 means no limit.
ASSUME ConfigAssumption ==
  Configs \subseteq
    [auth_round              : Nat \ {0},
     max_retries             : Nat,
     max_failures            : Nat,
     restart_on_logoff       : BOOLEAN,
     internet_check          : BOOLEAN,
     internet_check_max_fail : Nat \ {0}]

ASSUME FrameBoundAssumption == FrameBound \in Nat

VARIABLES
  cfg,        \* get_program_config(), fixed when the process starts
  state,      \* STATE_MACH_PRIV.state
  lastCount,  \* STATE_MACH_PRIV.state_last_count
  authRound,  \* STATE_MACH_PRIV.auth_round
  failCount,  \* STATE_MACH_PRIV.fail_count
  lastFrame,  \* kind of STATE_MACH_PRIV.last_recv_frame, "none" when freed,
              \* "uncopied" when frame_duplicate returned NULL for it
  watchdog,   \* the alarm state_alarm_id names is pending
  restarts,   \* pending restart_auth alarms; nobody keeps their ids
  checkAlarm, \* internet_check.c: g_alarm_id names a pending alarm
  checkFails, \* internet_check.c: g_fail_count
  exit,       \* "no" while the process runs, then why it ended
  frames,     \* frames received so far (bound)
  earned,     \* history: EAP-Success frames received in this authentication
  failRun     \* history: authentication failures since the last EAP-Success

timers  == <<watchdog, restarts, checkAlarm, checkFails>>
history == <<earned, failRun>>
vars == <<cfg, state, lastCount, authRound, failCount, lastFrame, timers, exit,
          frames, history>>

Responding == {"START_SENT", "IDENTITY_SENT", "CHALLENGE_SENT"}
States     == Responding \cup {"UNKNOWN", "SUCCESS", "FAILURE"}
Requests   == {"identity", "challenge"}
FrameKinds == Requests \cup {"success", "failure", "other"}
Kept       == FrameKinds \cup {"none", "uncopied"}
Reasons    == {"send", "retries", "failures", "logoff", "stopped", "crash"}

Running == exit = "no"

\* The state whose transition function answers a request.
AnswerTo(kind) == IF kind = "identity" THEN "IDENTITY_SENT" ELSE "CHALLENGE_SENT"

TypeOK ==
  /\ cfg \in Configs
  /\ state \in States
  /\ lastCount \in Nat
  /\ authRound \in 1..cfg.auth_round
  /\ failCount \in Nat
  /\ lastFrame \in Kept
  /\ watchdog \in BOOLEAN
  /\ restarts \in Nat
  /\ checkAlarm \in BOOLEAN
  /\ checkFails \in 0..cfg.internet_check_max_fail
  /\ exit \in Reasons \cup {"no"}
  /\ frames \in 0..FrameBound
  /\ earned \in Nat
  /\ failRun \in Nat

----------------------------------------------------------------------------
(* Effects shared by the handlers. *)

\* internet_check_stop
StopCheck ==
  /\ checkAlarm' = FALSE
  /\ checkFails' = 0

\* internet_check_start
StartCheck ==
  /\ checkAlarm' = cfg.internet_check
  /\ checkFails' = 0

\* Bug: a reset that leaves the retry count of the state it ends.
ClearSessionKeepingCount ==
  /\ lastFrame' = "none"
  /\ lastCount' = lastCount
  /\ authRound' = 1
  /\ failCount' = 0

\* What eap_state_machine_reset assigns besides the state and the alarms.
ClearSession ==
  /\ lastFrame' = "none"
  /\ lastCount' = 0
  /\ authRound' = 1
  /\ failCount' = 0

\* exit(): the exit handler destroys the machine and every alarm.  (A crash
\* runs no handler, and leaves none of it either.)
Exit(reason) ==
  /\ exit' = reason
  /\ state' = "UNKNOWN"
  /\ ClearSession
  /\ watchdog' = FALSE
  /\ restarts' = 0
  /\ StopCheck
  /\ UNCHANGED history

\* last_recv_frame = frame_duplicate(frame), whose NULL nobody looks at.
Keep(kind) == lastFrame' \in {kind, "uncopied"}

\* Bug: the limit is compared with the count before it is incremented.
ExhaustsLate(s) == state = s /\ lastCount = cfg.max_retries

\* The branch of switch_to_state(s) that gives up.
Exhausts(s) == state = s /\ lastCount + 1 = cfg.max_retries

\* state_last_count once switch_to_state(s) has not given up.
CountIn(s) == IF state = s THEN lastCount + 1 ELSE 0

\* The frame cannot be prepared or sent, which switch_to_state answers by exit().
SendFails == Exit("send")

\* Bug: the watchdog is not armed when a new state is entered.
RespondUnwatched(s) ==
  /\ ~Exhausts(s)
  /\ state' = s
  /\ lastCount' = CountIn(s)
  /\ UNCHANGED <<watchdog, authRound, failCount, restarts, checkAlarm, checkFails,
                 exit, history>>

\* switch_to_state to a state whose transition function only sends a frame.
\* The watchdog is armed by entering another state and left alone otherwise.
Respond(s) ==
  /\ ~Exhausts(s)
  /\ state' = s
  /\ lastCount' = CountIn(s)
  /\ watchdog' = (state # s \/ watchdog)
  /\ UNCHANGED <<authRound, failCount, restarts, checkAlarm, checkFails, exit,
                 history>>

RespondExits(s) ==
  \/ Exhausts(s) /\ Exit("retries")
  \/ ~Exhausts(s) /\ SendFails

\* state_mach_process_success in the last round: reset, then the state the
\* outer switch_to_state assigns.
FinalSuccess ==
  /\ authRound = cfg.auth_round
  /\ state' = "SUCCESS"
  /\ ClearSession
  /\ StartCheck
  /\ UNCHANGED <<restarts, exit>>

\* Bug: another round is begun without comparing the round with the last.
NextRoundAlways ==
  /\ ~(state = "START_SENT" /\ cfg.max_retries = 1)
  /\ state' = "SUCCESS"
  /\ lastCount' = IF state = "START_SENT" THEN 1 ELSE 0
  /\ authRound' = authRound + 1
  /\ failCount' = 0
  /\ UNCHANGED <<restarts, checkAlarm, checkFails, exit>>

\* state_mach_process_success before the last round.  The nested
\* switch_to_state(START_SENT) sends a Start and arms the watchdog, or counts
\* a retry when START_SENT is still the state; the outer call then assigns
\* SUCCESS over it.
NextRound ==
  /\ authRound # cfg.auth_round
  /\ ~(state = "START_SENT" /\ cfg.max_retries = 1)
  /\ state' = "SUCCESS"
  /\ lastCount' = IF state = "START_SENT" THEN 1 ELSE 0
  /\ authRound' = authRound + 1
  /\ failCount' = 0
  /\ UNCHANGED <<restarts, checkAlarm, checkFails, exit>>

\* The ways process_success before the last round ends the process.
NextRoundExits ==
  /\ authRound # cfg.auth_round
  /\ \/ state = "START_SENT" /\ cfg.max_retries = 1 /\ Exit("retries")
     \/ ~(state = "START_SENT" /\ cfg.max_retries = 1) /\ SendFails

\* restart_auth: reset, then switch_to_state(START_SENT) from UNKNOWN.
RestartAuth ==
  /\ state' = "START_SENT"
  /\ ClearSession
  /\ watchdog' = TRUE
  /\ StopCheck
  /\ earned' = 0
  /\ UNCHANGED <<exit, failRun>>

----------------------------------------------------------------------------
(* main and the capture loop. *)

\* switch_to_state(PREPARING) up to the blocking start_capture.
Prepare ==
  /\ Running
  /\ state = "UNKNOWN"
  /\ SendFails \/ (RestartAuth /\ UNCHANGED restarts)
  /\ UNCHANGED <<cfg, frames>>

\* The capture loop ends, or a signal asks the process to exit.
Stop ==
  /\ Running
  /\ Exit("stopped")
  /\ UNCHANGED <<cfg, frames>>

----------------------------------------------------------------------------
(* eap_state_machine_recv_handler. *)

Receive ==
  /\ Running
  /\ state # "UNKNOWN"
  /\ frames < FrameBound
  /\ frames' = frames + 1
  /\ UNCHANGED cfg

RecvRequest(kind) ==
  /\ Receive
  /\ \/ RespondExits(AnswerTo(kind))
     \/ Respond(AnswerTo(kind)) /\ Keep(kind)

RecvSuccess ==
  /\ Receive
  /\ \/ Exhausts("SUCCESS") /\ Exit("retries")
     \/ ~Exhausts("SUCCESS") /\ NextRoundExits
     \/ /\ ~Exhausts("SUCCESS")
        /\ FinalSuccess
        /\ watchdog' = FALSE
        /\ earned' = IF authRound = 1 THEN 1 ELSE earned + 1
        /\ failRun' = 0
     \/ /\ ~Exhausts("SUCCESS")
        /\ NextRound
        /\ watchdog' = (state # "START_SENT")
        /\ Keep("success")
        /\ earned' = IF authRound = 1 THEN 1 ELSE earned + 1
        /\ failRun' = 0

\* state_mach_process_failure: a session that was up, or an attempt that failed.
ForcedOffline ==
  /\ state = "SUCCESS"
  /\ cfg.restart_on_logoff
  /\ UNCHANGED <<failCount, failRun>>

AuthFailed ==
  /\ state # "SUCCESS"
  /\ failCount + 1 # cfg.max_failures
  /\ failCount' = failCount + 1
  /\ failRun' = failRun + 1

\* Bug: the watchdog of the state that failed is left running.
EnterFailureWatched ==
  /\ state' = "FAILURE"
  /\ lastCount' = CountIn("FAILURE")
  /\ Keep("failure")
  /\ restarts' = restarts + 1
  /\ StopCheck
  /\ UNCHANGED <<authRound, watchdog, exit, earned>>

\* Bug: only a failed authentication is tried again, not a forced logoff.
EnterFailureForgotten ==
  /\ state' = "FAILURE"
  /\ lastCount' = CountIn("FAILURE")
  /\ Keep("failure")
  /\ watchdog' = FALSE
  /\ restarts' = IF state = "SUCCESS" THEN restarts ELSE restarts + 1
  /\ StopCheck
  /\ UNCHANGED <<authRound, exit, earned>>

EnterFailure ==
  /\ state' = "FAILURE"
  /\ lastCount' = CountIn("FAILURE")
  /\ Keep("failure")
  /\ watchdog' = FALSE
  /\ restarts' = restarts + 1
  /\ StopCheck
  /\ UNCHANGED <<authRound, exit, earned>>

RecvFailure ==
  /\ Receive
  /\ \/ Exhausts("FAILURE") /\ Exit("retries")
     \/ state = "SUCCESS" /\ ~cfg.restart_on_logoff /\ Exit("logoff")
     \/ /\ ~Exhausts("FAILURE")
        /\ state # "SUCCESS"
        /\ failCount + 1 = cfg.max_failures
        /\ Exit("failures")
     \/ /\ ~Exhausts("FAILURE")
        /\ ForcedOffline \/ AuthFailed
        /\ EnterFailure

\* Bug: the copy of an unhandled frame is dropped after the plugins saw it.
RecvOtherDropped ==
  /\ Receive
  /\ lastFrame' = "none"
  /\ UNCHANGED <<state, lastCount, authRound, failCount, timers, exit, history>>

\* Every other frame is kept and shown to the plugins, and answered by nothing.
RecvOther ==
  /\ Receive
  /\ Keep("other")
  /\ UNCHANGED <<state, lastCount, authRound, failCount, timers, exit, history>>

----------------------------------------------------------------------------
(* Callbacks of the alarm scheduler. *)

\* The transition functions that answer a request read it from the frame.
Unreadable == lastFrame = "uncopied" /\ state # "START_SENT"

\* state_watchdog repeats switch_to_state for the state it is in, then arms
\* the next watchdog whatever that call did.
Retransmit ==
  /\ Running
  /\ watchdog
  /\ state \in Responding
  /\ IF Unreadable /\ ~Exhausts(state)
       THEN Exit("crash")
       ELSE \/ RespondExits(state)
            \/ Respond(state) /\ UNCHANGED lastFrame
  /\ UNCHANGED <<cfg, frames>>

\* state_watchdog while the state is SUCCESS, which it is between two rounds.
RepeatSuccess ==
  /\ Running
  /\ watchdog
  /\ state = "SUCCESS"
  /\ \/ Exhausts("SUCCESS") /\ Exit("retries")
     \/ ~Exhausts("SUCCESS") /\ NextRoundExits
     \/ /\ ~Exhausts("SUCCESS")
        /\ \/ FinalSuccess
           \/ NextRound /\ UNCHANGED lastFrame
        /\ watchdog' = TRUE
        /\ earned' = IF authRound = 1 THEN 0 ELSE earned
        /\ failRun' = failRun
  /\ UNCHANGED <<cfg, frames>>

\* restart_auth, scheduled by state_mach_process_failure.
RestartTimer ==
  /\ Running
  /\ restarts > 0
  /\ SendFails \/ (RestartAuth /\ restarts' = restarts - 1)
  /\ UNCHANGED <<cfg, frames>>

\* internet_check_timed outside SUCCESS gives up without a new alarm.
CheckSkipped ==
  /\ Running
  /\ checkAlarm
  /\ state # "SUCCESS"
  /\ checkAlarm' = FALSE
  /\ UNCHANGED <<cfg, state, lastCount, authRound, failCount, lastFrame,
                 watchdog, restarts, checkFails, exit, frames, history>>

\* Bug: a successful probe does not schedule the next one.
CheckAnsweredOnce ==
  /\ Running
  /\ checkAlarm
  /\ state = "SUCCESS"
  /\ checkFails' \in {0, checkFails}
  /\ checkAlarm' = FALSE
  /\ UNCHANGED <<cfg, state, lastCount, authRound, failCount, lastFrame,
                 watchdog, restarts, exit, frames, history>>

\* The probe answered (or could not be made): keep or clear the failures.
CheckAnswered ==
  /\ Running
  /\ checkAlarm
  /\ state = "SUCCESS"
  /\ checkFails' \in {0, checkFails}
  /\ UNCHANGED <<cfg, state, lastCount, authRound, failCount, lastFrame,
                 watchdog, restarts, checkAlarm, exit, frames, history>>

\* The probe failed: count it, and at the limit restart from offline.
CheckFailed ==
  /\ Running
  /\ checkAlarm
  /\ state = "SUCCESS"
  /\ \/ /\ checkFails + 1 < cfg.internet_check_max_fail
        /\ checkFails' = checkFails + 1
        /\ UNCHANGED <<checkAlarm, state, lastCount, authRound, failCount,
                       lastFrame, watchdog, restarts, exit, history>>
     \/ /\ checkFails + 1 >= cfg.internet_check_max_fail
        /\ ~cfg.restart_on_logoff
        /\ checkFails' = checkFails + 1
        /\ checkAlarm' = FALSE
        /\ UNCHANGED <<state, lastCount, authRound, failCount, lastFrame,
                       watchdog, restarts, exit, history>>
     \/ /\ checkFails + 1 >= cfg.internet_check_max_fail
        /\ cfg.restart_on_logoff
        /\ SendFails \/ (RestartAuth /\ UNCHANGED restarts)
  /\ UNCHANGED <<cfg, frames>>

----------------------------------------------------------------------------
Init ==
  /\ cfg \in Configs
  /\ state = "UNKNOWN"
  /\ lastCount = 0
  /\ authRound = 1
  /\ failCount = 0
  /\ lastFrame = "none"
  /\ watchdog = FALSE
  /\ restarts = 0
  /\ checkAlarm = FALSE
  /\ checkFails = 0
  /\ exit = "no"
  /\ frames = 0
  /\ earned = 0
  /\ failRun = 0

ServerStep ==
  \/ \E kind \in Requests : RecvRequest(kind)
  \/ RecvSuccess
  \/ RecvFailure
  \/ RecvOther

AlarmStep ==
  \/ Retransmit
  \/ RepeatSuccess
  \/ RestartTimer
  \/ CheckSkipped
  \/ CheckAnswered
  \/ CheckFailed

Next == Prepare \/ Stop \/ ServerStep \/ AlarmStep

Spec == Init /\ [][Next]_vars

\* The kernel delivers SIGALRM and the scheduler runs every due callback, so a
\* pending watchdog or retry does go off.  Nothing makes the server answer, and
\* nothing is assumed about the probe.
Fairness ==
  /\ WF_vars(Prepare)
  /\ WF_vars(Retransmit)
  /\ WF_vars(RepeatSuccess)
  /\ WF_vars(RestartTimer)

FairSpec == Spec /\ Fairness

----------------------------------------------------------------------------
(* Safety. *)

\* The program has said that authentication succeeded and nothing has begun
\* since: only the last round's success puts authRound back to 1.
Online == state = "SUCCESS" /\ authRound = 1

\* While an answer of the server is awaited a watchdog is armed, so a lost
\* frame is always sent again (switch_to_state arms it on entering a state,
\* state_watchdog after every retransmission).
AwaitedAnswerIsWatched ==
  state \in Responding => watchdog

\* The watchdog finds a state whose row of g_transition_table has a function
\* to call: UNKNOWN has none, and FAILURE would count a failure of its own.
WatchdogHasTransition ==
  watchdog => state \in Responding \cup {"SUCCESS"}

\* In the states whose retransmission reads last_recv_frame no reset has freed
\* it, although the watchdog runs at any time.  (The frame may be missing all
\* the same if it could not be copied: then the retransmission crashes.)
RetransmissionHasFrame ==
  state \in {"IDENTITY_SENT", "CHALLENGE_SENT"} => lastFrame # "none"

\* A failure that does not end the process leaves a restart_auth pending, until
\* one of them runs or the server starts over: the client is never parked.
FailureHasRetry ==
  state = "FAILURE" => restarts > 0

\* Both counters are compared with == after ++, so neither may step over its
\* limit in any interleaving of frames, timeouts and retries.
LimitsRespected ==
  /\ cfg.max_retries > 0 => lastCount < cfg.max_retries
  /\ cfg.max_failures > 0 => failCount < cfg.max_failures

\* With one round, being online means that the server said so, and no watchdog
\* is left that could end or repeat the finished session.
SingleRoundSuccessIsFinal ==
  cfg.auth_round = 1 /\ state = "SUCCESS" =>
    earned > 0 /\ ~watchdog /\ lastCount = 0

\* With one round, the reachability check runs the whole time the client is
\* online: a check that met another state and stopped is started again.
OnlineIsMonitored ==
  /\ cfg.auth_round = 1
  /\ cfg.internet_check
  /\ cfg.restart_on_logoff
  /\ state = "SUCCESS"
  => checkAlarm

\* Success is only declared after as many EAP-Success frames as the configured
\* number of rounds (config.h: "How many auths it takes").
SuccessIsEarned ==
  Online => earned >= cfg.auth_round

\* The process does not outlive max_failures authentication failures in a row
\* (config.h: "Max number of CONTINOUS failures before we exit").
FailuresInARowLimited ==
  cfg.max_failures > 0 => failRun < cfg.max_failures

----------------------------------------------------------------------------
(* Action properties. *)

\* However often the server repeats itself, an authenticated single-round
\* session is not ended by the retry or the failure limit, and by a forced
\* logoff only when re-authentication is switched off.
OnlineSurvivesStep ==
  cfg.auth_round = 1 /\ cfg.max_retries # 1 /\ state = "SUCCESS" =>
    /\ exit' \notin {"retries", "failures"}
    /\ exit' = "logoff" => ~cfg.restart_on_logoff

OnlineSurvives == [][OnlineSurvivesStep]_vars

\* A failed authentication is tried again after the wait or at the server's
\* request, whichever comes first: once the server has asked, the wait that is
\* still pending does not abort what the request began.
RetrySuperseded ==
  [][restarts' < restarts /\ Running' =>
       state \notin {"IDENTITY_SENT", "CHALLENGE_SENT", "SUCCESS"}]_vars

----------------------------------------------------------------------------
(* Liveness. *)

\* Once the server is silent, a single-round client with a retry limit ends up
\* authenticated or gone: it never waits for ever.
SilenceSettles ==
  cfg.auth_round = 1 /\ cfg.max_retries > 0
    => <>[](state = "SUCCESS" \/ ~Running)

=============================================================================
