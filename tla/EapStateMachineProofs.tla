----------------------- MODULE EapStateMachineProofs -----------------------
(***************************************************************************)
(* Type correctness and the safety invariants of EapStateMachine for every *)
(* set of configurations and every number of received frames.              *)
(***************************************************************************)
EXTENDS EapStateMachine, TLAPS

\* A probe is only scheduled below its failure limit: this bounds checkFails.
CheckBelowLimit ==
  checkAlarm => checkFails < cfg.internet_check_max_fail

\* A process that has called exit() has reset the machine on its way out.
GoneIsReset ==
  ~Running => state = "UNKNOWN"

Safety ==
  /\ AwaitedAnswerIsWatched
  /\ WatchdogHasTransition
  /\ RetransmissionHasFrame
  /\ FailureHasRetry
  /\ LimitsRespected
  /\ SingleRoundSuccessIsFinal
  /\ OnlineIsMonitored

\* The inductive invariant.  The parts need each other: the retry counters are
\* bounded because their types are, a finished session has no watchdog to
\* repeat it, and the type of checkFails needs CheckBelowLimit.
IInv == TypeOK /\ CheckBelowLimit /\ GoneIsReset /\ Safety

\* The fields of the configuration have the types of ConfigAssumption.
LEMMA ConfigTypes ==
  ASSUME TypeOK
  PROVE  /\ cfg.auth_round \in Nat /\ cfg.auth_round > 0
         /\ cfg.max_retries \in Nat
         /\ cfg.max_failures \in Nat
         /\ cfg.restart_on_logoff \in BOOLEAN
         /\ cfg.internet_check \in BOOLEAN
         /\ cfg.internet_check_max_fail \in Nat
         /\ cfg.internet_check_max_fail > 0
  <1> DEFINE R == [auth_round              : Nat \ {0},
                   max_retries             : Nat,
                   max_failures            : Nat,
                   restart_on_logoff       : BOOLEAN,
                   internet_check          : BOOLEAN,
                   internet_check_max_fail : Nat \ {0}]
  <1>1. cfg \in R
    BY ConfigAssumption DEF TypeOK
  <1> QED
    BY <1>1

\* The initial state satisfies the inductive invariant.
LEMMA InitIInv == Init => IInv
  <1> SUFFICES ASSUME Init PROVE IInv
    OBVIOUS
  <1>1. cfg \in Configs
    BY DEF Init
  <1>2. TypeOK
    <2>1. /\ cfg.auth_round \in Nat \ {0}
          /\ cfg.internet_check_max_fail \in Nat \ {0}
      BY <1>1, ConfigAssumption
    <2>2. 1 \in 1..cfg.auth_round /\ 0 \in 0..cfg.internet_check_max_fail
      BY <2>1
    <2>3. 0 \in 0..FrameBound
      BY FrameBoundAssumption
    <2> QED
      BY <1>1, <2>2, <2>3
      DEF Init, TypeOK, States, Responding, Kept
  <1>3. CheckBelowLimit /\ GoneIsReset /\ Safety
    BY <1>2, ConfigTypes
    DEF Init, CheckBelowLimit, GoneIsReset, Running, Safety, AwaitedAnswerIsWatched, Responding,
        WatchdogHasTransition, RetransmissionHasFrame, FailureHasRetry,
        LimitsRespected, SingleRoundSuccessIsFinal, OnlineIsMonitored
  <1> QED
    BY <1>2, <1>3 DEF IInv

\* The copy of a received frame is there or could not be made; it is not freed.
LEMMA KeepFacts ==
  ASSUME NEW kind \in FrameKinds, Keep(kind)
  PROVE  lastFrame' \in Kept /\ lastFrame' # "none"
  BY DEF Keep, Kept, FrameKinds, Requests

\* exit() leaves a state in which every part of the invariant holds.
LEMMA ExitIInv ==
  ASSUME IInv, NEW reason \in Reasons, Exit(reason),
         cfg' = cfg, frames' \in 0..FrameBound
  PROVE  IInv'
  <1>1. TypeOK /\ CheckBelowLimit
    BY DEF IInv
  <1>2. /\ 1 \in 1..cfg.auth_round
        /\ 0 \in 0..cfg.internet_check_max_fail
        /\ 0 < cfg.internet_check_max_fail
    BY <1>1, ConfigTypes
  <1>3. TypeOK'
    BY <1>1, <1>2
    DEF TypeOK, Exit, ClearSession, StopCheck, history, States, Responding, Kept
  <1>4. CheckBelowLimit' /\ GoneIsReset'
    BY DEF CheckBelowLimit, GoneIsReset, Exit, StopCheck
  <1>5. LimitsRespected'
    BY <1>1, ConfigTypes DEF LimitsRespected, Exit, ClearSession
  <1>6. Safety'
    BY <1>5
    DEF Safety, AwaitedAnswerIsWatched, Responding, WatchdogHasTransition,
        RetransmissionHasFrame, FailureHasRetry, SingleRoundSuccessIsFinal,
        OnlineIsMonitored, Exit
  <1> QED
    BY <1>3, <1>4, <1>6 DEF IInv


\* The shape of IInv' that the lemmas below establish part by part.
LEMMA SafetyParts ==
  ASSUME TypeOK', CheckBelowLimit', GoneIsReset', AwaitedAnswerIsWatched',
         WatchdogHasTransition', RetransmissionHasFrame', FailureHasRetry',
         LimitsRespected', SingleRoundSuccessIsFinal', OnlineIsMonitored'
  PROVE  IInv'
  BY DEF IInv, Safety

\* A response to the server, first or repeated, keeps the invariant: a repeated
\* state has its watchdog from the invariant, and its count misses the limit
\* by one more step only if the call has given up.
LEMMA RespondIInv ==
  ASSUME IInv, Running, NEW s \in Responding, Respond(s), cfg' = cfg,
         frames' \in 0..FrameBound, lastFrame' \in Kept,
         s # "START_SENT" => lastFrame' # "none"
  PROVE  IInv'
  <1>1. TypeOK /\ CheckBelowLimit /\ AwaitedAnswerIsWatched /\ LimitsRespected
    BY DEF IInv, Safety
  <1>2. /\ lastCount' \in Nat
        /\ cfg.max_retries > 0 => lastCount' < cfg.max_retries
    BY <1>1, ConfigTypes DEF TypeOK, Respond, Exhausts, CountIn, LimitsRespected
  <1>3. watchdog' = TRUE
    BY <1>1 DEF Respond, AwaitedAnswerIsWatched, TypeOK
  <1>4. TypeOK'
    BY <1>1, <1>2, <1>3 DEF TypeOK, Respond, States, history
  <1>5. CheckBelowLimit' /\ GoneIsReset'
    BY <1>1 DEF CheckBelowLimit, GoneIsReset, Running, Respond
  <1>6. LimitsRespected'
    BY <1>1, <1>2 DEF LimitsRespected, Respond
  <1>7. state' = s
    BY DEF Respond
  <1>8. /\ AwaitedAnswerIsWatched' /\ WatchdogHasTransition'
        /\ RetransmissionHasFrame' /\ FailureHasRetry'
        /\ SingleRoundSuccessIsFinal' /\ OnlineIsMonitored'
    BY <1>3, <1>7
    DEF AwaitedAnswerIsWatched, WatchdogHasTransition, RetransmissionHasFrame,
        FailureHasRetry, SingleRoundSuccessIsFinal, OnlineIsMonitored, Responding
  <1> QED
    BY <1>4, <1>5, <1>6, <1>8, SafetyParts

\* A request that cannot be answered any more ends the process.
LEMMA RespondExitsIInv ==
  ASSUME IInv, NEW s, RespondExits(s), cfg' = cfg, frames' \in 0..FrameBound
  PROVE  IInv'
  BY ExitIInv DEF RespondExits, SendFails, Reasons

\* A restart begins with a watchdog and zeroed counters.
LEMMA RestartIInv ==
  ASSUME IInv, Running, RestartAuth, restarts' \in Nat, cfg' = cfg,
         frames' \in 0..FrameBound
  PROVE  IInv'
  <1>1. TypeOK
    BY DEF IInv
  <1>2. /\ 1 \in 1..cfg.auth_round
        /\ 0 \in 0..cfg.internet_check_max_fail
        /\ 0 < cfg.internet_check_max_fail
    BY <1>1, ConfigTypes
  <1>3. TypeOK'
    BY <1>1, <1>2
    DEF TypeOK, RestartAuth, ClearSession, StopCheck, States, Responding, Kept
  <1>4. CheckBelowLimit' /\ GoneIsReset'
    BY DEF CheckBelowLimit, GoneIsReset, Running, RestartAuth, StopCheck
  <1>5. LimitsRespected'
    BY <1>1, ConfigTypes DEF LimitsRespected, RestartAuth, ClearSession
  <1>6. /\ AwaitedAnswerIsWatched' /\ WatchdogHasTransition'
        /\ RetransmissionHasFrame' /\ FailureHasRetry'
        /\ SingleRoundSuccessIsFinal' /\ OnlineIsMonitored'
    BY DEF AwaitedAnswerIsWatched, WatchdogHasTransition, RetransmissionHasFrame,
        FailureHasRetry, SingleRoundSuccessIsFinal, OnlineIsMonitored,
        Responding, RestartAuth
  <1> QED
    BY <1>3, <1>4, <1>5, <1>6, SafetyParts

\* The success of the last round leaves nothing that could end the session,
\* unless there were several rounds and the watchdog repeated it.
LEMMA FinalSuccessIInv ==
  ASSUME IInv, Running, FinalSuccess, watchdog' \in BOOLEAN, earned' \in Nat,
         failRun' \in Nat, cfg' = cfg, frames' \in 0..FrameBound,
         cfg.auth_round = 1 => ~watchdog' /\ earned' > 0
  PROVE  IInv'
  <1>1. TypeOK
    BY DEF IInv
  <1>2. /\ 1 \in 1..cfg.auth_round
        /\ 0 \in 0..cfg.internet_check_max_fail
        /\ 0 < cfg.internet_check_max_fail
        /\ cfg.internet_check \in BOOLEAN
    BY <1>1, ConfigTypes
  <1>3. TypeOK'
    BY <1>1, <1>2
    DEF TypeOK, FinalSuccess, ClearSession, StartCheck, States, Responding, Kept
  <1>4. CheckBelowLimit' /\ GoneIsReset'
    BY <1>2 DEF CheckBelowLimit, GoneIsReset, Running, FinalSuccess, StartCheck
  <1>5. LimitsRespected'
    BY <1>1, ConfigTypes DEF LimitsRespected, FinalSuccess, ClearSession
  <1>6. /\ AwaitedAnswerIsWatched' /\ WatchdogHasTransition'
        /\ RetransmissionHasFrame' /\ FailureHasRetry'
    BY DEF AwaitedAnswerIsWatched, WatchdogHasTransition, RetransmissionHasFrame,
        FailureHasRetry, Responding, FinalSuccess
  <1>7. SingleRoundSuccessIsFinal' /\ OnlineIsMonitored'
    BY DEF SingleRoundSuccessIsFinal, OnlineIsMonitored, FinalSuccess,
        ClearSession, StartCheck
  <1> QED
    BY <1>3, <1>4, <1>5, <1>6, <1>7, SafetyParts

\* A success before the last round only happens with several rounds, and then
\* the retry limit is not reached by the Start it sends.
LEMMA NextRoundIInv ==
  ASSUME IInv, Running, NextRound, watchdog' \in BOOLEAN, earned' \in Nat,
         failRun' \in Nat, cfg' = cfg, frames' \in 0..FrameBound,
         lastFrame' \in Kept
  PROVE  IInv'
  <1>1. TypeOK /\ CheckBelowLimit
    BY DEF IInv
  <1>2. authRound' \in 1..cfg.auth_round /\ cfg.auth_round # 1
    BY <1>1, ConfigTypes DEF TypeOK, NextRound
  <1>3. lastCount' \in {0, 1} /\ (lastCount' = 1 => cfg.max_retries # 1)
    BY DEF NextRound
  <1>4. TypeOK'
    BY <1>1, <1>2, <1>3 DEF TypeOK, NextRound, States
  <1>5. CheckBelowLimit' /\ GoneIsReset'
    BY <1>1 DEF CheckBelowLimit, GoneIsReset, Running, NextRound
  <1>6. LimitsRespected'
    BY <1>1, <1>3, ConfigTypes DEF LimitsRespected, NextRound
  <1>7. /\ AwaitedAnswerIsWatched' /\ WatchdogHasTransition'
        /\ RetransmissionHasFrame' /\ FailureHasRetry'
        /\ SingleRoundSuccessIsFinal' /\ OnlineIsMonitored'
    BY <1>2
    DEF AwaitedAnswerIsWatched, WatchdogHasTransition, RetransmissionHasFrame,
        FailureHasRetry, SingleRoundSuccessIsFinal, OnlineIsMonitored,
        Responding, NextRound
  <1> QED
    BY <1>4, <1>5, <1>6, <1>7, SafetyParts

\* The ways a round that is not the last ends the process.
LEMMA NextRoundExitsIInv ==
  ASSUME IInv, NextRoundExits, cfg' = cfg, frames' \in 0..FrameBound
  PROVE  IInv'
  BY ExitIInv DEF NextRoundExits, SendFails, Reasons

----------------------------------------------------------------------------
(* One lemma per handler that does more than call the effects above. *)

\* A frame from the server, seen by the capture loop.
LEMMA ReceiveFacts ==
  ASSUME IInv, Receive
  PROVE  Running /\ cfg' = cfg /\ frames' \in 0..FrameBound
  BY FrameBoundAssumption DEF IInv, TypeOK, Receive

\* EAP-Success, in the last round or before it.
LEMMA RecvSuccessIInv ==
  ASSUME IInv, RecvSuccess
  PROVE  IInv'
  <1>1. TypeOK
    BY DEF IInv
  <1>2. Receive
    BY DEF RecvSuccess
  <1>3. earned + 1 \in Nat /\ earned + 1 > 0
    BY <1>1 DEF TypeOK
  <1>4. CASE Exhausts("SUCCESS") /\ Exit("retries")
    BY <1>2, <1>4, ExitIInv, ReceiveFacts DEF Reasons
  <1>5. CASE NextRoundExits
    BY <1>2, <1>5, NextRoundExitsIInv, ReceiveFacts
  <1>6. CASE /\ FinalSuccess
             /\ watchdog' = FALSE
             /\ earned' = IF authRound = 1 THEN 1 ELSE earned + 1
             /\ failRun' = 0
    <2>1. earned' \in Nat /\ earned' > 0
      BY <1>3, <1>6
    <2> QED
      BY <1>2, <1>6, <2>1, FinalSuccessIInv, ReceiveFacts
  <1>7. CASE /\ NextRound
             /\ watchdog' = (state # "START_SENT")
             /\ Keep("success")
             /\ earned' = IF authRound = 1 THEN 1 ELSE earned + 1
             /\ failRun' = 0
    <2>1. earned' \in Nat /\ watchdog' \in BOOLEAN
      BY <1>3, <1>7
    <2>2. lastFrame' \in Kept
      BY <1>7, KeepFacts DEF FrameKinds
    <2> QED
      BY <1>2, <1>7, <2>1, <2>2, NextRoundIInv, ReceiveFacts
  <1> QED
    BY <1>4, <1>5, <1>6, <1>7 DEF RecvSuccess

\* EAP-Failure: the branch that goes on has compared failCount with its limit,
\* and schedules the restart that FAILURE waits for.
LEMMA EnterFailureIInv ==
  ASSUME IInv, Receive, ~Exhausts("FAILURE"), ForcedOffline \/ AuthFailed,
         EnterFailure
  PROVE  IInv'
  <1>1. TypeOK /\ LimitsRespected
    BY DEF IInv, Safety
  <1>2. Running /\ cfg' = cfg /\ frames' \in 0..FrameBound
    BY ReceiveFacts
  <1>3. /\ lastCount' \in Nat
        /\ cfg.max_retries > 0 => lastCount' < cfg.max_retries
    BY <1>1, ConfigTypes
    DEF TypeOK, EnterFailure, Exhausts, CountIn, LimitsRespected
  <1>4. /\ failCount' \in Nat /\ failRun' \in Nat
        /\ cfg.max_failures > 0 => failCount' < cfg.max_failures
    BY <1>1, ConfigTypes DEF TypeOK, ForcedOffline, AuthFailed, LimitsRespected
  <1>5. restarts' \in Nat /\ restarts' > 0
    BY <1>1 DEF TypeOK, EnterFailure
  <1>6. 0 \in 0..cfg.internet_check_max_fail
    BY <1>1, ConfigTypes
  <1>k. lastFrame' \in Kept
    BY KeepFacts DEF EnterFailure, FrameKinds
  <1>7. TypeOK'
    BY <1>1, <1>2, <1>3, <1>4, <1>5, <1>6, <1>k
    DEF TypeOK, EnterFailure, StopCheck, States
  <1>8. CheckBelowLimit' /\ GoneIsReset'
    BY <1>2 DEF CheckBelowLimit, GoneIsReset, Running, EnterFailure, StopCheck
  <1>9. LimitsRespected'
    BY <1>2, <1>3, <1>4 DEF LimitsRespected
  <1>10. /\ AwaitedAnswerIsWatched' /\ WatchdogHasTransition'
         /\ RetransmissionHasFrame' /\ FailureHasRetry'
         /\ SingleRoundSuccessIsFinal' /\ OnlineIsMonitored'
    BY <1>5
    DEF AwaitedAnswerIsWatched, WatchdogHasTransition, RetransmissionHasFrame,
        FailureHasRetry, SingleRoundSuccessIsFinal, OnlineIsMonitored,
        Responding, EnterFailure
  <1> QED
    BY <1>7, <1>8, <1>9, <1>10, SafetyParts

\* The watchdog of SUCCESS only exists between two rounds.
LEMMA RepeatSuccessIInv ==
  ASSUME IInv, RepeatSuccess
  PROVE  IInv'
  <1>1. TypeOK /\ SingleRoundSuccessIsFinal
    BY DEF IInv, Safety
  <1>2. /\ Running /\ cfg' = cfg /\ frames' \in 0..FrameBound
        /\ cfg.auth_round # 1
    BY <1>1 DEF RepeatSuccess, TypeOK, SingleRoundSuccessIsFinal
  <1>3. CASE Exhausts("SUCCESS") /\ Exit("retries")
    BY <1>2, <1>3, ExitIInv DEF Reasons
  <1>4. CASE NextRoundExits
    BY <1>2, <1>4, NextRoundExitsIInv
  <1>5. CASE /\ FinalSuccess \/ (NextRound /\ UNCHANGED lastFrame)
             /\ watchdog' = TRUE
             /\ earned' = IF authRound = 1 THEN 0 ELSE earned
             /\ failRun' = failRun
    <2>1. /\ watchdog' \in BOOLEAN /\ earned' \in Nat /\ failRun' \in Nat
          /\ lastFrame \in Kept
      BY <1>1, <1>5 DEF TypeOK
    <2>2. CASE FinalSuccess
      BY <1>2, <2>1, <2>2, FinalSuccessIInv
    <2>3. CASE NextRound /\ UNCHANGED lastFrame
      BY <1>2, <2>1, <2>3, NextRoundIInv
    <2> QED
      BY <1>5, <2>2, <2>3
  <1> QED
    BY <1>3, <1>4, <1>5 DEF RepeatSuccess

\* A failed probe is counted, or restarts the session at the limit.
LEMMA CheckFailedIInv ==
  ASSUME IInv, CheckFailed
  PROVE  IInv'
  <1>1. TypeOK /\ CheckBelowLimit /\ LimitsRespected /\ SingleRoundSuccessIsFinal
    BY DEF IInv, Safety
  <1>2. /\ Running /\ checkAlarm /\ state = "SUCCESS"
        /\ cfg' = cfg /\ frames' = frames /\ frames' \in 0..FrameBound
    BY <1>1 DEF CheckFailed, TypeOK
  <1>3. checkFails + 1 \in 0..cfg.internet_check_max_fail
    BY <1>1, <1>2, ConfigTypes DEF TypeOK, CheckBelowLimit
  <1>4. CASE cfg.restart_on_logoff /\ RestartAuth /\ UNCHANGED restarts
    BY <1>1, <1>2, <1>4, RestartIInv DEF TypeOK
  <1>5. CASE SendFails
    BY <1>2, <1>5, ExitIInv DEF SendFails, Reasons
  <1>6. CASE /\ \/ checkFails + 1 < cfg.internet_check_max_fail /\ UNCHANGED checkAlarm
                \/ ~cfg.restart_on_logoff /\ checkAlarm' = FALSE
             /\ checkFails' = checkFails + 1
             /\ UNCHANGED <<state, lastCount, authRound, failCount, lastFrame,
                            watchdog, restarts, exit, history>>
    <2>1. TypeOK'
      BY <1>1, <1>2, <1>3, <1>6 DEF TypeOK, history
    <2>2. CheckBelowLimit' /\ GoneIsReset'
      BY <1>2, <1>6 DEF CheckBelowLimit, GoneIsReset, Running
    <2>3. LimitsRespected' /\ SingleRoundSuccessIsFinal'
      BY <1>1, <1>2, <1>6 DEF LimitsRespected, SingleRoundSuccessIsFinal, history
    <2>4. /\ AwaitedAnswerIsWatched' /\ WatchdogHasTransition'
          /\ RetransmissionHasFrame' /\ FailureHasRetry' /\ OnlineIsMonitored'
      BY <1>2, <1>6
      DEF AwaitedAnswerIsWatched, WatchdogHasTransition, RetransmissionHasFrame,
          FailureHasRetry, OnlineIsMonitored, Responding
    <2> QED
      BY <2>1, <2>2, <2>3, <2>4, SafetyParts
  <1> QED
    BY <1>4, <1>5, <1>6 DEF CheckFailed

\* A probe that does not change the state of the machine.
LEMMA ProbeIInv ==
  ASSUME IInv, CheckSkipped \/ CheckAnswered
  PROVE  IInv'
  <1>1. TypeOK /\ CheckBelowLimit /\ GoneIsReset /\ Safety
    BY DEF IInv
  <1>2. /\ UNCHANGED <<cfg, state, lastCount, authRound, failCount, lastFrame,
                       watchdog, restarts, exit, frames, history>>
        /\ checkFails' \in {0, checkFails}
        /\ \/ state # "SUCCESS" /\ checkAlarm' = FALSE
           \/ UNCHANGED checkAlarm
    BY DEF CheckSkipped, CheckAnswered
  <1>3. 0 \in 0..cfg.internet_check_max_fail /\ 0 < cfg.internet_check_max_fail
    BY <1>1, ConfigTypes
  <1>4. TypeOK'
    BY <1>1, <1>2, <1>3 DEF TypeOK, history
  <1>5. CheckBelowLimit' /\ GoneIsReset'
    BY <1>1, <1>2, <1>3 DEF CheckBelowLimit, GoneIsReset, Running
  <1>6. Safety'
    BY <1>1, <1>2
    DEF Safety, AwaitedAnswerIsWatched, WatchdogHasTransition,
        RetransmissionHasFrame, FailureHasRetry, LimitsRespected,
        SingleRoundSuccessIsFinal, OnlineIsMonitored, Responding, history
  <1> QED
    BY <1>4, <1>5, <1>6 DEF IInv

\* A frame that no transition answers only replaces the copy.
LEMMA RecvOtherIInv ==
  ASSUME IInv, RecvOther
  PROVE  IInv'
  <1>1. TypeOK /\ CheckBelowLimit /\ GoneIsReset /\ Safety
    BY DEF IInv
  <1>2. /\ cfg' = cfg /\ frames' \in 0..FrameBound
        /\ UNCHANGED <<state, lastCount, authRound, failCount, watchdog, restarts,
                       checkAlarm, checkFails, exit, earned, failRun>>
    BY ReceiveFacts DEF RecvOther, timers, history
  <1>k. lastFrame' \in Kept /\ lastFrame' # "none"
    BY KeepFacts DEF RecvOther, FrameKinds
  <1>3. TypeOK'
    BY <1>1, <1>2, <1>k DEF TypeOK
  <1>4. CheckBelowLimit' /\ GoneIsReset'
    BY <1>1, <1>2 DEF CheckBelowLimit, GoneIsReset, Running
  <1>5. Safety'
    BY <1>1, <1>2, <1>k
    DEF Safety, AwaitedAnswerIsWatched, WatchdogHasTransition,
        RetransmissionHasFrame, FailureHasRetry, LimitsRespected,
        SingleRoundSuccessIsFinal, OnlineIsMonitored, Responding
  <1> QED
    BY <1>3, <1>4, <1>5 DEF IInv

----------------------------------------------------------------------------

\* Every step preserves the inductive invariant: one case per handler.
LEMMA StepIInv == IInv /\ [Next]_vars => IInv'
  <1> SUFFICES ASSUME IInv, [Next]_vars PROVE IInv'
    OBVIOUS
  <1>1. TypeOK
    BY DEF IInv
  <1>2. frames \in 0..FrameBound /\ lastFrame \in Kept
        /\ restarts \in Nat
    BY <1>1 DEF TypeOK
  <1>3. CASE Prepare
    <2>1. Running /\ cfg' = cfg /\ frames' \in 0..FrameBound
      BY <1>2, <1>3 DEF Prepare
    <2>2. CASE SendFails
      BY <2>1, <2>2, ExitIInv DEF SendFails, Reasons
    <2>3. CASE RestartAuth /\ UNCHANGED restarts
      BY <1>2, <2>1, <2>3, RestartIInv
    <2> QED
      BY <1>3, <2>2, <2>3 DEF Prepare
  <1>4. CASE Stop
    BY <1>2, <1>4, ExitIInv DEF Stop, Reasons
  <1>5. ASSUME NEW kind \in Requests, RecvRequest(kind) PROVE IInv'
    <2>1. Running /\ cfg' = cfg /\ frames' \in 0..FrameBound
      BY <1>5, ReceiveFacts DEF RecvRequest
    <2>2. /\ AnswerTo(kind) \in Responding
          /\ kind \in FrameKinds
      BY DEF AnswerTo, Responding, Requests, FrameKinds
    <2>3. CASE RespondExits(AnswerTo(kind))
      BY <2>1, <2>3, RespondExitsIInv
    <2>4. CASE Respond(AnswerTo(kind)) /\ Keep(kind)
      BY <2>1, <2>2, <2>4, KeepFacts, RespondIInv
    <2> QED
      BY <1>5, <2>3, <2>4 DEF RecvRequest
  <1>6. CASE RecvSuccess
    BY <1>6, RecvSuccessIInv
  <1>7. CASE RecvFailure
    <2>1. Receive
      BY <1>7 DEF RecvFailure
    <2>2. ASSUME NEW reason \in Reasons, Exit(reason) PROVE IInv'
      BY <2>1, <2>2, ReceiveFacts, ExitIInv
    <2> QED
      BY <1>7, <2>1, <2>2, EnterFailureIInv DEF RecvFailure, Reasons
  <1>8. CASE RecvOther
    BY <1>8, RecvOtherIInv
  <1>9. CASE Retransmit
    <2>1. /\ Running /\ cfg' = cfg /\ frames' \in 0..FrameBound
          /\ state \in Responding
      BY <1>2, <1>9 DEF Retransmit
    <2>c. CASE Exit("crash")
      BY <2>1, <2>c, ExitIInv DEF Reasons
    <2>2. CASE RespondExits(state)
      BY <2>1, <2>2, RespondExitsIInv
    <2>3. CASE Respond(state) /\ UNCHANGED lastFrame
      <3>1. state # "START_SENT" => lastFrame' # "none"
        BY <2>1, <2>3
        DEF IInv, Safety, RetransmissionHasFrame, Responding
      <3> QED
        BY <1>2, <2>1, <2>3, <3>1, RespondIInv
    <2> QED
      BY <1>9, <2>c, <2>2, <2>3 DEF Retransmit
  <1>10. CASE RepeatSuccess
    BY <1>10, RepeatSuccessIInv
  <1>11. CASE RestartTimer
    <2>1. Running /\ cfg' = cfg /\ frames' \in 0..FrameBound
      BY <1>2, <1>11 DEF RestartTimer
    <2>2. CASE SendFails
      BY <2>1, <2>2, ExitIInv DEF SendFails, Reasons
    <2>3. CASE RestartAuth /\ restarts' = restarts - 1
      <3>1. restarts' \in Nat
        BY <1>2, <1>11, <2>3 DEF RestartTimer
      <3> QED
        BY <2>1, <2>3, <3>1, RestartIInv
    <2> QED
      BY <1>11, <2>2, <2>3 DEF RestartTimer
  <1>12. CASE CheckSkipped \/ CheckAnswered
    BY <1>12, ProbeIInv
  <1>13. CASE CheckFailed
    BY <1>13, CheckFailedIInv
  <1>14. CASE UNCHANGED vars
    BY <1>14
    DEF vars, timers, history, IInv, TypeOK, CheckBelowLimit, GoneIsReset,
        Running, Safety, AwaitedAnswerIsWatched, WatchdogHasTransition,
        RetransmissionHasFrame, FailureHasRetry, LimitsRespected,
        SingleRoundSuccessIsFinal, OnlineIsMonitored
  <1> QED
    BY <1>3, <1>4, <1>5, <1>6, <1>7, <1>8, <1>9, <1>10, <1>11, <1>12, <1>13,
       <1>14
    DEF Next, ServerStep, AlarmStep

\* The inductive invariant holds in every reachable state.
LEMMA Invariance == Spec => []IInv
  BY InitIInv, StepIInv, PTL DEF Spec

----------------------------------------------------------------------------
(* The theorems. *)

\* Type correctness: every variable keeps its type, in particular authRound
\* never passes auth_round and checkFails never passes its limit.
THEOREM TypeCorrect == Spec => []TypeOK
  <1>1. IInv => TypeOK
    BY DEF IInv
  <1> QED
    BY <1>1, Invariance, PTL

\* An awaited answer is always watched (switch_to_state, state_watchdog).
THEOREM AwaitedIsWatched == Spec => []AwaitedAnswerIsWatched
  <1>1. IInv => AwaitedAnswerIsWatched
    BY DEF IInv, Safety
  <1> QED
    BY <1>1, Invariance, PTL

\* state_watchdog always finds a transition function in g_transition_table.
THEOREM WatchdogFindsTransition == Spec => []WatchdogHasTransition
  <1>1. IInv => WatchdogHasTransition
    BY DEF IInv, Safety
  <1> QED
    BY <1>1, Invariance, PTL

\* A retransmission never reads a freed last_recv_frame.
THEOREM RetransmissionIsSafe == Spec => []RetransmissionHasFrame
  <1>1. IInv => RetransmissionHasFrame
    BY DEF IInv, Safety
  <1> QED
    BY <1>1, Invariance, PTL

\* The state FAILURE always has a restart_auth pending.
THEOREM FailureIsFollowedUp == Spec => []FailureHasRetry
  <1>1. IInv => FailureHasRetry
    BY DEF IInv, Safety
  <1> QED
    BY <1>1, Invariance, PTL

\* No counter steps over the limit it is compared with by ==.
THEOREM LimitsAreRespected == Spec => []LimitsRespected
  <1>1. IInv => LimitsRespected
    BY DEF IInv, Safety
  <1> QED
    BY <1>1, Invariance, PTL

\* A single-round success was earned and has nothing pending against it.
THEOREM SuccessIsFinal == Spec => []SingleRoundSuccessIsFinal
  <1>1. IInv => SingleRoundSuccessIsFinal
    BY DEF IInv, Safety
  <1> QED
    BY <1>1, Invariance, PTL

\* The reachability check runs for as long as a single-round session is up.
THEOREM OnlineStaysMonitored == Spec => []OnlineIsMonitored
  <1>1. IInv => OnlineIsMonitored
    BY DEF IInv, Safety
  <1> QED
    BY <1>1, Invariance, PTL

\* A step out of an established single-round session exits neither by the
\* retry limit nor by the failure limit.
LEMMA OnlineSurvivesOneStep == IInv /\ [Next]_vars => OnlineSurvivesStep
  <1> SUFFICES ASSUME IInv, [Next]_vars, cfg.auth_round = 1,
                      cfg.max_retries # 1, state = "SUCCESS"
               PROVE  /\ exit' \notin {"retries", "failures"}
                      /\ exit' = "logoff" => ~cfg.restart_on_logoff
    BY DEF OnlineSurvivesStep
  <1>1. exit = "no" /\ lastCount = 0 /\ ~watchdog /\ authRound = 1
    BY DEF IInv, GoneIsReset, Running, Safety, SingleRoundSuccessIsFinal, TypeOK
  <1>2. \A s : ~Exhausts(s)
    BY <1>1 DEF Exhausts
  <1>3. ~NextRound /\ ~NextRoundExits
    BY <1>1 DEF NextRound, NextRoundExits
  <1>4. CASE Prepare \/ Stop \/ RestartTimer
    BY <1>1, <1>4 DEF Prepare, Stop, RestartTimer, SendFails, Exit, RestartAuth
  <1>5. ASSUME NEW kind \in Requests, RecvRequest(kind)
        PROVE  exit' \in {"no", "send"}
    BY <1>1, <1>2, <1>5 DEF RecvRequest, RespondExits, Respond, SendFails, Exit
  <1>6. CASE RecvSuccess
    BY <1>1, <1>2, <1>3, <1>6 DEF RecvSuccess, FinalSuccess
  <1>7. CASE RecvFailure
    BY <1>1, <1>2, <1>7 DEF RecvFailure, Exit, EnterFailure
  <1>8. CASE RecvOther
    BY <1>1, <1>8 DEF RecvOther
  <1>9. ~Retransmit /\ ~RepeatSuccess
    BY <1>1 DEF Retransmit, RepeatSuccess
  <1>10. CASE CheckSkipped \/ CheckAnswered
    BY <1>1, <1>10 DEF CheckSkipped, CheckAnswered
  <1>11. CASE CheckFailed
    BY <1>1, <1>11 DEF CheckFailed, SendFails, Exit, RestartAuth
  <1>12. CASE UNCHANGED vars
    BY <1>1, <1>12 DEF vars
  <1> QED
    BY <1>4, <1>5, <1>6, <1>7, <1>8, <1>9, <1>10, <1>11, <1>12
    DEF Next, ServerStep, AlarmStep

\* However often the server repeats itself, an established single-round session
\* is ended by neither the retry nor the failure limit, and by a forced logoff
\* only when re-authentication is off (switch_to_state,
\* state_mach_process_failure).
THEOREM OnlineSurvivesAlways == Spec => OnlineSurvives
  BY Invariance, OnlineSurvivesOneStep, PTL DEF Spec, OnlineSurvives

=============================================================================
