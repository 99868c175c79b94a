------------------------ MODULE RjV3SupplicantProofs ------------------------
(***************************************************************************)
(* The composition of the supplicant with the RJv3 plugin keeps what was   *)
(* proved of the supplicant alone: EapStateMachineProofs gives the         *)
(* inductive invariant IInv and its preservation by every handler, and     *)
(* here the two calls of switch_to_state that the plugin adds are shown to *)
(* preserve it too.  Nothing is assumed of the plugin's own state.         *)
(***************************************************************************)
EXTENDS RjV3Session, EapStateMachineProofs

\* switch_to_state(START_SENT) by the plugin's alarm, whatever the state is.
SecondStart ==
  /\ Running
  /\ leaseAlarms > 0 \/ strayLeases > 0
  /\ RespondExits("START_SENT") \/ (Respond("START_SENT") /\ UNCHANGED lastFrame)
  /\ UNCHANGED <<cfg, frames>>

\* A keep-alive that cannot be sent ends the process, and so does a frame of
\* the plugin that could not be copied or is gone.
PluginEnds ==
  /\ \E reason \in {"send", "crash"} : Exit(reason)
  /\ cfg' = cfg
  /\ frames' = frames \/ Receive

\* The plugin never acts on the supplicant in any other way.
LEMMA WhatThePluginDoes ==
  ASSUME [RjNext]_rjVars
  PROVE  [Next]_vars \/ SecondStart \/ PluginEnds \/ FirstWithLease
  <1>1. CASE UNCHANGED rjVars
    BY <1>1 DEF rjVars
  <1>2. CASE RjServerStep
    <2>1. CASE RjRecvUncopied
      BY <2>1 DEF RjRecvUncopied, PluginEnds, Receive
    <2> QED
      BY <1>2, <2>1
      DEF RjServerStep, RjRecvRequest, RjRecvSuccess, RjRecvFailure, RjRecvOther, Copied,
          Next, ServerStep
  <1>3. CASE RjMachineStep
    <2>2. CASE RjPrepare \/ RjStop
      BY <2>2 DEF RjPrepare, RjStop, Next
    <2>3. CASE RjRetransmit \/ RjRepeatSuccess \/ RjRestartTimer
      BY <2>3 DEF RjRetransmit, RjRepeatSuccess, RjRestartTimer, Next, AlarmStep
    <2> QED
      BY <1>3, <2>2, <2>3 DEF RjMachineStep
  <1>4. CASE RjCheckStep
    <2>1. CheckSkipped \/ CheckAnswered \/ CheckFailed
      BY <1>4 DEF RjCheckStep, RjCheck
    <2> QED
      BY <2>1 DEF Next, AlarmStep
  <1>5. CASE RingEnds
    BY <1>5 DEF RingEnds
  <1>6. CASE LeaseStep
    <2>1. PICK stray \in BOOLEAN : LeaseMissing(stray) \/ LeaseGivenUp(stray)
                                  \/ LeaseCrashes(stray) \/ LeaseObtained(stray)
      BY <1>6 DEF LeaseStep
    <2>2. CASE LeaseMissing(stray) \/ LeaseGivenUp(stray)
      BY <2>2 DEF LeaseMissing, LeaseGivenUp
    <2>3. CASE LeaseCrashes(stray)
      BY <2>3 DEF LeaseCrashes, PluginEnds
    <2>4. CASE LeaseObtained(stray)
      BY <2>4 DEF LeaseObtained, LeaseDue, SecondStart
    <2> QED
      BY <2>1, <2>2, <2>3, <2>4
  <1>7. CASE BeatStep
    <2>1. PICK stray \in BOOLEAN : Beat(stray)
      BY <1>7 DEF BeatStep
    <2> QED
      BY <2>1 DEF Beat, SendFails, PluginEnds
  <1> QED
    BY <1>1, <1>2, <1>3, <1>4, <1>5, <1>6, <1>7 DEF RjNext

----------------------------------------------------------------------------
(* The invariant of the supplicant. *)

\* A Start sent behind the supplicant's back is one more response: it is
\* watched, and it counts as a retry only in START_SENT.
LEMMA SecondStartIInv ==
  ASSUME IInv, SecondStart
  PROVE  IInv'
  <1>1. /\ Running /\ cfg' = cfg /\ frames' \in 0..FrameBound
        /\ lastFrame \in Kept
    BY DEF SecondStart, IInv, TypeOK
  <1>2. CASE RespondExits("START_SENT")
    BY <1>1, <1>2, RespondExitsIInv
  <1>3. CASE Respond("START_SENT") /\ UNCHANGED lastFrame
    BY <1>1, <1>3, RespondIInv DEF Responding
  <1> QED
    BY <1>2, <1>3 DEF SecondStart

\* The process ends as by any exit.
LEMMA PluginEndsIInv ==
  ASSUME IInv, PluginEnds
  PROVE  IInv'
  <1>1. cfg' = cfg /\ frames' \in 0..FrameBound
    BY ReceiveFacts DEF PluginEnds, IInv, TypeOK
  <1> QED
    BY <1>1, ExitIInv DEF PluginEnds, Reasons

\* The same frame is handled twice, before and after the Start of the plugin:
\* in the last round the session ends as any other, and before it the Start of
\* the next round has counted one retry of the limit it was compared with.
LEMMA FirstWithLeaseIInv ==
  ASSUME IInv, FirstWithLease
  PROVE  IInv'
  <1>1. TypeOK /\ CheckBelowLimit
    BY DEF IInv
  <1>2. Running /\ cfg' = cfg /\ frames' \in 0..FrameBound
    BY ReceiveFacts DEF FirstWithLease
  <1>3. CASE \E reason \in {"retries", "send"} : Exit(reason)
    BY <1>2, <1>3, ExitIInv DEF Reasons
  <1>4. CASE /\ state' = "SUCCESS" /\ watchdog' = FALSE
             /\ earned' = IF authRound = 1 THEN 1 ELSE earned + 1
             /\ failRun' = 0
             /\ UNCHANGED <<restarts, exit>>
             /\ NestedStarts = 0 /\ ClearSession /\ StartCheck
    <2>1. earned' \in Nat /\ earned' > 0 /\ failRun' \in Nat
      <3>1. earned + 1 \in Nat /\ earned + 1 > 0
        BY <1>1 DEF TypeOK
      <3> QED
        BY <1>4, <3>1
    <2>3. watchdog' \in BOOLEAN /\ ~watchdog'
      BY <1>4
    <2>2. FinalSuccess
      BY <1>4 DEF FinalSuccess, NestedStarts
    <2> QED
      BY <1>2, <2>1, <2>2, <2>3, FinalSuccessIInv
  <1>5. CASE /\ state' = "SUCCESS" /\ watchdog' = FALSE
             /\ earned' = IF authRound = 1 THEN 1 ELSE earned + 1
             /\ failRun' = 0
             /\ UNCHANGED <<restarts, exit, checkAlarm, checkFails>>
             /\ NestedStarts # 0 /\ cfg.max_retries # 1
             /\ lastCount' = 1 /\ authRound' = authRound + 1 /\ failCount' = 0
             /\ lastFrame' = "success"
    <2>1. authRound' \in 1..cfg.auth_round /\ cfg.auth_round # 1
      BY <1>1, <1>5, ConfigTypes DEF TypeOK, NestedStarts
    <2>2. earned' \in Nat
      BY <1>1, <1>5 DEF TypeOK
    <2>3. TypeOK'
      BY <1>1, <1>2, <1>5, <2>1, <2>2 DEF TypeOK, States, Kept, FrameKinds
    <2>4. CheckBelowLimit' /\ GoneIsReset'
      BY <1>1, <1>2, <1>5 DEF CheckBelowLimit, GoneIsReset, Running
    <2>5. LimitsRespected'
      BY <1>1, <1>2, <1>5, ConfigTypes DEF LimitsRespected
    <2>6. /\ AwaitedAnswerIsWatched' /\ WatchdogHasTransition'
          /\ RetransmissionHasFrame' /\ FailureHasRetry'
          /\ SingleRoundSuccessIsFinal' /\ OnlineIsMonitored'
      BY <1>2, <1>5, <2>1
      DEF AwaitedAnswerIsWatched, WatchdogHasTransition, RetransmissionHasFrame,
          FailureHasRetry, SingleRoundSuccessIsFinal, OnlineIsMonitored,
          Responding
    <2> QED
      BY <2>3, <2>4, <2>5, <2>6, SafetyParts
  <1> QED
    BY <1>3, <1>4, <1>5 DEF FirstWithLease, SendFails, NestedStarts

\* Every step of the composition keeps the invariant of the supplicant alone.
LEMMA RjStepIInv == IInv /\ [RjNext]_rjVars => IInv'
  BY WhatThePluginDoes, StepIInv, SecondStartIInv, PluginEndsIInv, FirstWithLeaseIInv

\* So it holds always.
LEMMA RjInvariance == RjSpec => []IInv
  <1>1. RjInit => IInv
    BY InitIInv DEF RjInit
  <1> QED
    BY <1>1, RjStepIInv, PTL DEF RjSpec

----------------------------------------------------------------------------
(* The theorems. *)

\* The supplicant keeps its own variables in their types whatever the plugin
\* does: authRound, the retry counts and the probe's failures stay bounded.
THEOREM SupplicantTypes == RjSpec => []TypeOK
  <1>1. IInv => TypeOK
    BY DEF IInv
  <1> QED
    BY <1>1, RjInvariance, PTL

\* Double authentication leaves the guarantees of the supplicant intact, for
\* every configuration, every limit and any number of frames: no call of
\* rjv3_start_secondary_auth leaves an answer unwatched, a retransmission
\* without its frame, a failure without a retry, a counter beyond its limit, or
\* a finished session with something pending against it.
THEOREM SupplicantStaysSafe == RjSpec => []SupplicantUndisturbed
  <1>1. IInv => SupplicantUndisturbed
    BY DEF IInv, Safety, SupplicantUndisturbed
  <1> QED
    BY <1>1, RjInvariance, PTL

\* A step of the plugin out of an established single-round session exits
\* neither by the retry limit nor by the failure limit.
LEMMA PluginKeepsOnline ==
  ASSUME IInv, SecondStart \/ PluginEnds \/ FirstWithLease
  PROVE  OnlineSurvivesStep
  <1> SUFFICES ASSUME cfg.auth_round = 1, cfg.max_retries # 1, state = "SUCCESS"
               PROVE  exit' \in {"no", "send", "crash"}
    BY DEF OnlineSurvivesStep
  <1>1. exit = "no" /\ authRound = 1
    BY DEF IInv, GoneIsReset, Running, TypeOK
  <1>2. ~Exhausts("START_SENT") /\ NestedStarts = 0
    BY <1>1 DEF Exhausts, NestedStarts
  <1>3. CASE SecondStart
    BY <1>1, <1>2, <1>3 DEF SecondStart, RespondExits, SendFails, Exit, Respond
  <1>4. CASE PluginEnds
    BY <1>4 DEF PluginEnds, SendFails, Exit
  <1>5. CASE FirstWithLease
    BY <1>1, <1>2, <1>5 DEF FirstWithLease, SendFails, Exit
  <1> QED
    BY <1>3, <1>4, <1>5

\* Nor does any other step of the composition.
LEMMA RjOnlineSurvivesOneStep == IInv /\ [RjNext]_rjVars => OnlineSurvivesStep
  BY WhatThePluginDoes, OnlineSurvivesOneStep, PluginKeepsOnline

\* What may take the client out of a session that is up.  The process ends...
ProcessEnds ==
  \/ exit' \in {"send", "stopped", "crash"}
  \/ exit' = "logoff" /\ ~cfg.restart_on_logoff

\* ...or a frame of the server begins an authentication or forces the client off...
ServerEnds ==
  /\ frames' = frames + 1
  /\ \/ state' \in {"IDENTITY_SENT", "CHALLENGE_SENT"}
     \/ state' = "FAILURE" /\ cfg.restart_on_logoff

\* ...or an alarm sends a Start: a retry of an earlier failure, the probe that
\* has failed often enough, or the plugin's wait for a lease.
AlarmEnds ==
  /\ state' = "START_SENT"
  /\ \/ restarts > 0
     \/ checkAlarm /\ cfg.restart_on_logoff /\ checkFails + 1 >= cfg.internet_check_max_fail
     \/ leaseAlarms > 0
     \/ strayLeases > 0

OnlineLeftStep ==
  cfg.auth_round = 1 /\ cfg.max_retries # 1 /\ state = "SUCCESS" /\ state' # "SUCCESS" =>
    ProcessEnds \/ ServerEnds \/ AlarmEnds

\* A step of the supplicant leaves a session in one of these ways.
LEMMA SupplicantLeaves == IInv /\ [Next]_vars => OnlineLeftStep
  <1> SUFFICES ASSUME IInv, [Next]_vars, cfg.auth_round = 1, cfg.max_retries # 1,
                      state = "SUCCESS", state' # "SUCCESS"
               PROVE  ProcessEnds \/ ServerEnds \/ AlarmEnds
    BY DEF OnlineLeftStep
  <1>1. exit = "no" /\ lastCount = 0 /\ ~watchdog /\ authRound = 1
    BY DEF IInv, GoneIsReset, Running, Safety, SingleRoundSuccessIsFinal, TypeOK
  <1>2. \A s : ~Exhausts(s)
    BY <1>1 DEF Exhausts
  <1>3. ~NextRound /\ ~NextRoundExits
    BY <1>1 DEF NextRound, NextRoundExits
  <1>4. CASE Stop \/ RestartTimer
    BY <1>4 DEF Stop, RestartTimer, SendFails, Exit, RestartAuth, ProcessEnds, AlarmEnds
  <1>5. ASSUME NEW kind \in Requests, RecvRequest(kind)
        PROVE  ProcessEnds \/ ServerEnds
    <2>1. CASE RespondExits(AnswerTo(kind))
      BY <1>2, <2>1 DEF RespondExits, SendFails, Exit, ProcessEnds
    <2>2. CASE Respond(AnswerTo(kind))
      BY <1>5, <2>2 DEF RecvRequest, Receive, Respond, AnswerTo, ServerEnds
    <2> QED
      BY <1>5, <2>1, <2>2 DEF RecvRequest
  <1>6. CASE RecvSuccess
    BY <1>2, <1>3, <1>6 DEF RecvSuccess, FinalSuccess
  <1>7. CASE RecvFailure
    BY <1>2, <1>7
    DEF RecvFailure, Receive, Exit, EnterFailure, ForcedOffline, AuthFailed,
        ProcessEnds, ServerEnds
  <1>8. CASE CheckFailed
    BY <1>8 DEF CheckFailed, SendFails, Exit, RestartAuth, ProcessEnds, AlarmEnds
  <1>9. ~Prepare /\ ~Retransmit /\ ~RepeatSuccess
    BY <1>1 DEF Prepare, Retransmit, RepeatSuccess
  <1>10. ~RecvOther /\ ~CheckSkipped /\ ~CheckAnswered /\ ~UNCHANGED vars
    BY DEF RecvOther, CheckSkipped, CheckAnswered, vars
  <1> QED
    BY <1>4, <1>5, <1>6, <1>7, <1>8, <1>9, <1>10 DEF Next, ServerStep, AlarmStep

\* So does a step of the plugin.
LEMMA PluginLeaves ==
  ASSUME IInv, SecondStart \/ PluginEnds \/ FirstWithLease
  PROVE  OnlineLeftStep
  <1> SUFFICES ASSUME cfg.auth_round = 1, cfg.max_retries # 1,
                      state = "SUCCESS", state' # "SUCCESS"
               PROVE  ProcessEnds \/ AlarmEnds
    BY DEF OnlineLeftStep
  <1>1. ~Exhausts("START_SENT")
    BY DEF Exhausts
  <1>2. CASE SecondStart
    BY <1>1, <1>2
    DEF SecondStart, RespondExits, SendFails, Exit, Respond, ProcessEnds, AlarmEnds
  <1>3. CASE PluginEnds
    BY <1>3 DEF PluginEnds, Exit, ProcessEnds
  <1>4. CASE FirstWithLease
    BY <1>1, <1>4 DEF FirstWithLease, SendFails, Exit, ProcessEnds
  <1> QED
    BY <1>2, <1>3, <1>4

LEMMA RjOnlineLeftOneStep == IInv /\ [RjNext]_rjVars => OnlineLeftStep
  BY WhatThePluginDoes, SupplicantLeaves, PluginLeaves

\* An established single-round session is ended by neither the retry limit nor
\* the failure limit, although the plugin may begin a second authentication in
\* it and the server may repeat its success while that one runs.  It is left
\* only in the ways listed: a failing send (a heartbeat's too), a crash, a stop
\* or a logoff that ends the process, a frame of the server that begins anew or
\* forces the client off, or the Start of a pending retry, of the probe at its
\* limit, or of the plugin's alarm.
THEOREM OnlineSurvivesThePlugin ==
  RjSpec => OnlineSurvives /\ [][OnlineLeftStep]_rjVars
  <1>1. IInv /\ [RjNext]_rjVars => [OnlineSurvivesStep]_vars
    BY RjOnlineSurvivesOneStep
  <1>2. IInv /\ [RjNext]_rjVars => [OnlineLeftStep]_rjVars
    BY RjOnlineLeftOneStep
  <1> QED
    BY <1>1, <1>2, RjInvariance, PTL DEF RjSpec, OnlineSurvives

=============================================================================
