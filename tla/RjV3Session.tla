---------------------------- MODULE RjV3Session ----------------------------
(***************************************************************************)
(* The session of the RJv3 packet plugin, packet_plugin_rjv3.c with its    *)
(* _priv.c and _keepalive.c, composed with the supplicant it plugs into.   *)
(*                                                                         *)
(* eap_state_machine_recv_handler shows every frame to the plugin before   *)
(* its own dispatch and ignores what the plugin returns; every frame the   *)
(* supplicant sends passes through prepare_frame.  The plugin has two      *)
(* alarms of its own, and with DHCP_DOUBLE_AUTH it calls switch_to_state,  *)
(* from its alarm or from inside the handler of the first EAP-Success.     *)
(*                                                                         *)
(* A step is again one whole handler.  Whether a success frame carries an  *)
(* echo key, whether the interface has a lease, and whether a frame can be *)
(* copied are arbitrary.  A POSIX build.                                   *)
(*                                                                         *)
(* The alarms of the plugin are not ideal.  The internet check may reset   *)
(* the session from inside a ring, and unschedule_alarm then only marks    *)
(* the alarm: if it is due in that ring, or was scheduled in it, it is     *)
(* called once more all the same (SchedAlarm).  Such an alarm is a stray.  *)
(***************************************************************************)
EXTENDS EapStateMachine

CONSTANT
  Plugins     \* the rjv3 options the process may be started with

ASSUME PluginsAssumption ==
  Plugins \subseteq
    [dhcp      : {"none", "double", "after", "before"},  \* dhcp_type
     heartbeat : BOOLEAN,                                \* interval > 0
     maxDhcp   : Nat]                                    \* max_dhcp_count

VARIABLES
  plug,         \* the options, fixed when the process starts
  succCount,    \* succ_count
  dhcpCount,    \* dhcp_count
  leaseAlarms,  \* pending alarms that call rjv3_start_secondary_auth
  leaseKnown,   \* secondary_auth_alarm_id >= 0
  keepAlives,   \* pending alarms that call rjv3_send_keepalive_timed
  keepKnown,    \* g_keepalive_alarm_id >= 0
  echoKey,      \* g_echokey was read from a frame of the server
  dup,          \* duplicated_packet: freed, or a success with or without key
  md5,          \* md5_request is held
  strayLeases,  \* alarms of the one kind and of the other that were cancelled
  strayBeats,   \*   in a ring and may still be called
  strayed       \* history: a stray has been called

leaseVars == <<succCount, dhcpCount, leaseAlarms, leaseKnown, dup>>
keepVars  == <<keepAlives, keepKnown, echoKey>>
session   == <<leaseVars, keepVars, md5>>
strays    == <<strayLeases, strayBeats, strayed>>
rjVars    == <<vars, plug, session, strays>>

\* Unless a stray has been called, dhcp_count stops one above its limit.
SessionTypeOK ==
  /\ plug \in Plugins
  /\ succCount \in Nat
  /\ dhcpCount \in Nat
  /\ strayed \/ dhcpCount <= plug.maxDhcp + 1
  /\ leaseAlarms \in Nat
  /\ leaseKnown \in BOOLEAN
  /\ keepAlives \in Nat
  /\ keepKnown \in BOOLEAN
  /\ echoKey \in BOOLEAN
  /\ dup \in {"none", "plain", "keyed"}
  /\ md5 \in BOOLEAN
  /\ strayLeases \in Nat
  /\ strayBeats \in Nat
  /\ strayed \in BOOLEAN

----------------------------------------------------------------------------
(* Effects shared by the handlers of the plugin. *)

\* What unschedule_alarm leaves pending when the id is known.
Left(alarms, known) == IF known THEN alarms - 1 ELSE alarms

\* rjv3_keepalive_reset
ResetKeepAlive ==
  /\ keepAlives' = Left(keepAlives, keepKnown)
  /\ keepKnown' = FALSE
  /\ echoKey' = FALSE

\* rjv3_start_keepalive, with the key process_result_prop has found or not.
StartKeepAlive(keyed) ==
  /\ keepAlives' = Left(keepAlives, keepKnown) + IF plug.heartbeat THEN 1 ELSE 0
  /\ keepKnown' = plug.heartbeat
  /\ echoKey' = keyed

\* Unscheduling secondary_auth_alarm_id.
CancelLease ==
  /\ leaseAlarms' = Left(leaseAlarms, leaseKnown)
  /\ leaseKnown' = FALSE

\* Bug: the id is overwritten without unscheduling the alarm it names.
ResetSessionForgetting ==
  /\ leaseAlarms' = leaseAlarms
  /\ leaseKnown' = FALSE
  /\ ResetKeepAlive
  /\ dup' = "none"
  /\ dhcpCount' = 0
  /\ succCount' = 0
  /\ md5' = FALSE

\* rjv3_reset_session
ResetSession ==
  /\ CancelLease
  /\ ResetKeepAlive
  /\ dup' = "none"
  /\ dhcpCount' = 0
  /\ succCount' = 0
  /\ md5' = FALSE

\* rjv3_destroy by the exit handler, which also destroys every alarm.
Destroy ==
  /\ leaseAlarms' = 0
  /\ keepAlives' = 0
  /\ leaseKnown' = FALSE
  /\ keepKnown' = FALSE
  /\ echoKey' = FALSE
  /\ dup' = "none"
  /\ dhcpCount' = 0
  /\ succCount' = 0
  /\ md5' = FALSE

\* The effect of a handler on the plugin unless the supplicant exits in it.
UnlessExit(effect) == IF exit' = "no" THEN effect ELSE Destroy

\* Bug: a Start frame leaves the challenge of the attempt before.
PrepareStartKeeping == UNCHANGED session

\* rjv3_prepare_frame for a Start frame.
PrepareStart ==
  /\ md5' = FALSE
  /\ UNCHANGED <<leaseVars, keepVars>>

----------------------------------------------------------------------------
(* rjv3_on_frame_received. *)

\* A copy of the challenge is kept for the response, if there is memory for it.
SeeRequest(kind) ==
  /\ md5' \in {FALSE, kind = "challenge"}
  /\ UNCHANGED <<leaseVars, keepVars>>

SeeOther ==
  /\ md5' = FALSE
  /\ UNCHANGED <<leaseVars, keepVars>>

\* rjv3_process_success for every dhcp_type but DHCP_DOUBLE_AUTH.
SinglePass(keyed) ==
  /\ plug.dhcp # "double"
  /\ CancelLease
  /\ succCount' = succCount + 1
  /\ IF keyed THEN StartKeepAlive(TRUE) ELSE ResetKeepAlive
  /\ md5' = FALSE
  /\ UNCHANGED <<dhcpCount, dup>>

FirstOfTwo == plug.dhcp = "double" /\ succCount = 0

\* The success frame cannot be copied: the plugin gives the session up.
CopyFails ==
  /\ FirstOfTwo
  /\ ResetSession

\* The first success without a lease yet: wait for it with the frame kept.
AwaitLease(keyed) ==
  /\ FirstOfTwo
  /\ dhcpCount + 1 <= plug.maxDhcp
  /\ dhcpCount' = dhcpCount + 1
  /\ succCount' = succCount + 1
  /\ leaseAlarms' = Left(leaseAlarms, leaseKnown) + 1
  /\ leaseKnown' = TRUE
  /\ dup' = IF keyed THEN "keyed" ELSE "plain"
  /\ ResetKeepAlive
  /\ md5' = FALSE

\* The first success, no lease, and no wait allowed.
SkipLease(keyed) ==
  /\ FirstOfTwo
  /\ dhcpCount + 1 > plug.maxDhcp
  /\ dhcpCount' = dhcpCount + 1
  /\ succCount' = succCount + 1
  /\ CancelLease
  /\ dup' = "none"
  /\ StartKeepAlive(keyed)
  /\ md5' = FALSE

\* Bug: the second success forgets the counters but not the frame it waited on.
SecondSuccessKeepingFrame(keyed) ==
  /\ plug.dhcp = "double"
  /\ succCount > 0
  /\ CancelLease
  /\ dhcpCount' = 0
  /\ succCount' = 0
  /\ IF keyed THEN StartKeepAlive(TRUE) ELSE ResetKeepAlive
  /\ md5' = FALSE
  /\ UNCHANGED dup

\* The second success, whether or not a second Start was sent: the session is
\* reset, then served like one of a single pass.
SecondSuccess(keyed) ==
  /\ plug.dhcp = "double"
  /\ succCount > 0
  /\ CancelLease
  /\ dup' = "none"
  /\ dhcpCount' = 0
  /\ succCount' = 0
  /\ IF keyed THEN StartKeepAlive(TRUE) ELSE ResetKeepAlive
  /\ md5' = FALSE

SeeSuccess ==
  \/ CopyFails
  \/ \E keyed \in BOOLEAN :
       SinglePass(keyed) \/ AwaitLease(keyed) \/ SkipLease(keyed) \/ SecondSuccess(keyed)

\* The first success with the lease already there.  rjv3_start_secondary_auth
\* calls switch_to_state(START_SENT), which sends a Start, from inside the
\* handler; the supplicant then handles the same frame in the state START_SENT,
\* sends another Start if it wants one more round, disarms the watchdog and
\* assigns SUCCESS.
NestedStarts == IF authRound = cfg.auth_round THEN 0 ELSE 1

FirstWithLease ==
  /\ Receive
  /\ FirstOfTwo
  /\ \/ Exhausts("START_SENT") /\ Exit("retries")
     \/ ~Exhausts("START_SENT") /\ SendFails
     \/ /\ ~Exhausts("START_SENT")
        /\ NestedStarts = 1
        /\ cfg.max_retries = 1
        /\ Exit("retries")
     \/ /\ ~Exhausts("START_SENT")
        /\ NestedStarts = 0 \/ cfg.max_retries # 1
        /\ state' = "SUCCESS"
        /\ watchdog' = FALSE
        /\ earned' = IF authRound = 1 THEN 1 ELSE earned + 1
        /\ failRun' = 0
        /\ UNCHANGED <<restarts, exit>>
        /\ IF NestedStarts = 0
             THEN ClearSession /\ StartCheck
             ELSE /\ lastCount' = 1
                  /\ authRound' = authRound + 1
                  /\ failCount' = 0
                  /\ lastFrame' = "success"
                  /\ UNCHANGED <<checkAlarm, checkFails>>
  /\ UnlessExit(/\ CancelLease
                /\ ResetKeepAlive
                /\ succCount' = succCount + 1
                /\ dup' = "none"
                /\ md5' = FALSE
                /\ UNCHANGED dhcpCount)

----------------------------------------------------------------------------
(* The frames of the server. *)

\* A frame that was copied is handled; the plugin reads the copy, so it crashes
\* on one that was not.
Copied(receive) == receive /\ lastFrame' # "uncopied"

RjRecvUncopied ==
  /\ Receive
  /\ Exit("crash")
  /\ Destroy

RjRecvRequest(kind) == Copied(RecvRequest(kind)) /\ UnlessExit(SeeRequest(kind))

RjRecvSuccess ==
  \/ Copied(RecvSuccess) /\ UnlessExit(SeeSuccess)
  \/ FirstWithLease

\* Bug: a forced logoff leaves the plugin as it was.
RjRecvFailureOnlyParsed == Copied(RecvFailure) /\ UnlessExit(SeeOther)

RjRecvFailure == Copied(RecvFailure) /\ UnlessExit(ResetSession)

RjRecvOther == Copied(RecvOther) /\ UnlessExit(SeeOther)

----------------------------------------------------------------------------
(* The alarms of the supplicant, as far as they touch the plugin. *)

RjPrepare == Prepare /\ UnlessExit(PrepareStart)

RjStop == Stop /\ Destroy

RjRetransmit ==
  Retransmit /\ UnlessExit(IF state = "START_SENT" THEN PrepareStart ELSE UNCHANGED session)

RjRepeatSuccess ==
  /\ RepeatSuccess
  /\ UnlessExit(IF authRound = cfg.auth_round THEN UNCHANGED session ELSE PrepareStart)

\* restart_auth does not tell the plugin.
RjRestartTimer == RestartTimer /\ UnlessExit(PrepareStart)

\* The alarms this step cancels are only marked: each may become a stray.
MayStray ==
  /\ strayLeases' \in {strayLeases, strayLeases + (leaseAlarms - leaseAlarms')}
  /\ strayBeats' \in {strayBeats, strayBeats + (keepAlives - keepAlives')}
  /\ UNCHANGED strayed

\* eap_state_machine_restart_from_offline does, before it restarts: the only
\* reset of the session inside a ring.
RjCheck ==
  \/ (CheckSkipped \/ CheckAnswered) /\ UNCHANGED <<session, strays>>
  \/ /\ CheckFailed
     /\ state' # "START_SENT"
     /\ UnlessExit(UNCHANGED session)
     /\ UNCHANGED strays
  \/ /\ CheckFailed
     /\ state' = "START_SENT"
     /\ ResetSession
     /\ MayStray

\* A ring ends without having called a stray, and frees it.
RingEnds ==
  /\ Running
  /\ \/ strayLeases > 0 /\ strayLeases' = strayLeases - 1 /\ UNCHANGED strayBeats
     \/ strayBeats > 0 /\ strayBeats' = strayBeats - 1 /\ UNCHANGED strayLeases
  /\ UNCHANGED <<vars, plug, session, strayed>>

----------------------------------------------------------------------------
(* The alarms of the plugin. *)

\* rjv3_start_secondary_auth is called for a pending alarm, or for a stray.
LeaseDue(stray) ==
  /\ Running
  /\ IF stray
       THEN strayLeases > 0 /\ strayLeases' = strayLeases - 1
       ELSE leaseAlarms > 0 /\ strayLeases' = strayLeases
  /\ strayed' = (strayed \/ stray)
  /\ UNCHANGED <<plug, strayBeats>>

\* What the call leaves pending of a kind, before it schedules anything.
Rest(alarms, stray) == IF stray THEN alarms ELSE alarms - 1

AtLimit == dhcpCount + 1 > plug.maxDhcp

\* Bug: the count is compared with the limit before it is incremented.
LeaseMissingLate(stray) ==
  /\ LeaseDue(stray)
  /\ dhcpCount <= plug.maxDhcp
  /\ dhcpCount' = dhcpCount + 1
  /\ leaseAlarms' = Rest(leaseAlarms, stray) + 1
  /\ leaseKnown' = TRUE
  /\ UNCHANGED <<vars, succCount, dup, keepVars, md5>>

\* rjv3_start_secondary_auth without a lease: wait five seconds more.
LeaseMissing(stray) ==
  /\ LeaseDue(stray)
  /\ ~AtLimit
  /\ dhcpCount' = dhcpCount + 1
  /\ leaseAlarms' = Rest(leaseAlarms, stray) + 1
  /\ leaseKnown' = TRUE
  /\ UNCHANGED <<vars, succCount, dup, keepVars, md5>>

\* Bug: giving up forgets to read the key of the frame that was kept for it.
LeaseGivenUpUnread(stray) ==
  /\ LeaseDue(stray)
  /\ AtLimit
  /\ dhcpCount' = 0
  /\ leaseAlarms' = Rest(leaseAlarms, stray)
  /\ leaseKnown' = FALSE
  /\ dup' = "none"
  /\ StartKeepAlive(FALSE)
  /\ UNCHANGED <<vars, succCount, md5>>

\* Bug: at the limit the wait starts over.
LeaseGivenUpNever(stray) ==
  /\ LeaseDue(stray)
  /\ AtLimit
  /\ dhcpCount' = 0
  /\ leaseAlarms' = Rest(leaseAlarms, stray) + 1
  /\ leaseKnown' = TRUE
  /\ UNCHANGED <<vars, succCount, dup, keepVars, md5>>

\* The same at the limit: no second authentication, and the keep-alive is
\* started whether or not the kept frame has a key.
LeaseGivenUp(stray) ==
  /\ LeaseDue(stray)
  /\ AtLimit
  /\ dup # "none"
  /\ dhcpCount' = dhcpCount + 1
  /\ leaseAlarms' = Rest(leaseAlarms, stray)
  /\ leaseKnown' = FALSE
  /\ dup' = "none"
  /\ StartKeepAlive(echoKey \/ dup = "keyed")
  /\ UNCHANGED <<vars, succCount, md5>>

\* At the limit rjv3_process_result_prop reads the kept frame, freed or not.
LeaseCrashes(stray) ==
  /\ LeaseDue(stray)
  /\ AtLimit
  /\ dup = "none"
  /\ Exit("crash")
  /\ Destroy
  /\ UNCHANGED <<cfg, frames>>

\* Bug: the Start of the second pass is sent without a watchdog.
LeaseObtainedUnwatched(stray) ==
  /\ LeaseDue(stray)
  /\ RespondExits("START_SENT") \/ (RespondUnwatched("START_SENT") /\ UNCHANGED lastFrame)
  /\ UNCHANGED <<cfg, frames>>
  /\ UnlessExit(/\ leaseAlarms' = Rest(leaseAlarms, stray)
                /\ leaseKnown' = FALSE
                /\ dup' = "none"
                /\ md5' = FALSE
                /\ UNCHANGED <<succCount, dhcpCount, keepVars>>)

\* The same with a lease: switch_to_state(START_SENT), whatever the state is.
LeaseObtained(stray) ==
  /\ LeaseDue(stray)
  /\ RespondExits("START_SENT") \/ (Respond("START_SENT") /\ UNCHANGED lastFrame)
  /\ UNCHANGED <<cfg, frames>>
  /\ UnlessExit(/\ leaseAlarms' = Rest(leaseAlarms, stray)
                /\ leaseKnown' = FALSE
                /\ dup' = "none"
                /\ md5' = FALSE
                /\ UNCHANGED <<succCount, dhcpCount, keepVars>>)

\* rjv3_send_keepalive_timed, for a pending alarm or for a stray: send, and
\* schedule the next one.
Beat(stray) ==
  /\ Running
  /\ IF stray
       THEN strayBeats > 0 /\ strayBeats' = strayBeats - 1
       ELSE keepAlives > 0 /\ strayBeats' = strayBeats
  /\ strayed' = (strayed \/ stray)
  /\ \/ /\ SendFails
        /\ Destroy
        /\ UNCHANGED <<cfg, frames>>
     \/ /\ keepAlives' = Rest(keepAlives, stray) + 1
        /\ keepKnown' = TRUE
        /\ UNCHANGED <<vars, leaseVars, echoKey, md5>>
  /\ UNCHANGED <<plug, strayLeases>>

----------------------------------------------------------------------------
RjInit ==
  /\ Init
  /\ plug \in Plugins
  /\ succCount = 0
  /\ dhcpCount = 0
  /\ leaseAlarms = 0
  /\ leaseKnown = FALSE
  /\ keepAlives = 0
  /\ keepKnown = FALSE
  /\ echoKey = FALSE
  /\ dup = "none"
  /\ md5 = FALSE
  /\ strayLeases = 0
  /\ strayBeats = 0
  /\ strayed = FALSE

RjServerStep ==
  /\ \/ \E kind \in Requests : RjRecvRequest(kind)
     \/ RjRecvSuccess
     \/ RjRecvFailure
     \/ RjRecvOther
     \/ RjRecvUncopied
  /\ UNCHANGED <<plug, strays>>

RjMachineStep ==
  /\ RjPrepare \/ RjStop \/ RjRetransmit \/ RjRepeatSuccess \/ RjRestartTimer
  /\ UNCHANGED <<plug, strays>>

RjCheckStep == RjCheck /\ UNCHANGED plug

LeaseStep ==
  \E stray \in BOOLEAN :
    LeaseMissing(stray) \/ LeaseGivenUp(stray) \/ LeaseCrashes(stray) \/ LeaseObtained(stray)

BeatStep == \E stray \in BOOLEAN : Beat(stray)

RjNext ==
  RjServerStep \/ RjMachineStep \/ RjCheckStep \/ RingEnds \/ LeaseStep \/ BeatStep

RjSpec == RjInit /\ [][RjNext]_rjVars

\* The alarm of the plugin goes off like those of the supplicant; what the
\* interface says about its lease is not assumed.
RjFairSpec == RjSpec /\ WF_rjVars(LeaseStep)

----------------------------------------------------------------------------
(* Safety. *)

\* There is one pending alarm of the plugin at most, and it is the one its id
\* names, so that a reset of the session reaches it.  A stray that is called
\* schedules itself again beside the alarms of the next session.
TimersAreOwned ==
  strayed \/ /\ leaseAlarms > 0 <=> leaseKnown
             /\ keepAlives > 0 <=> keepKnown
             /\ leaseAlarms + keepAlives <= 1

\* The success frame of the first pass is kept no longer than a lease alarm is
\* pending that will free it, strays or not; and as long as it is, so that the
\* alarm never reads a freed frame unless a stray has been called
\* (packet_plugin_rjv3_priv.c: "Duplicated in process_success").
LeaseWaitHoldsFrame ==
  /\ dup # "none" => leaseAlarms > 0
  /\ strayed \/ (leaseAlarms > 0 => dup # "none")

\* Where the heartbeat is on, a key of the server is always used, and the beat
\* without one happens only after the lease was given up, or after a beat of
\* the session that was reset came too late to be stopped.
HeartbeatHasKey ==
  strayed \/ (keepAlives > 0 <=> plug.heartbeat /\ (echoKey \/ dhcpCount > plug.maxDhcp))

\* Nothing of a session outlives the EAP-Failure that ended it: no alarm of
\* the plugin can fire in the authentication that follows.  A stray that was
\* called belongs to no session, and no EAP-Failure ends it.
FailureEndsSession ==
  state = "FAILURE" /\ ~strayed =>
    /\ leaseAlarms + keepAlives + succCount + dhcpCount = 0
    /\ dup = "none"
    /\ ~echoKey

\* A kept challenge is the one being answered: no response of a later attempt
\* is hashed with the challenge of an earlier one.
ChallengeIsCurrent ==
  md5 => state = "CHALLENGE_SENT" /\ lastFrame = "challenge"

\* The plugin calls switch_to_state behind the supplicant's back: from its alarm
\* in whatever state that finds, and from inside the handler of an EAP-Success
\* that goes on with the state it was called in.  What the supplicant relies on
\* (a watchdog over every awaited answer, a frame for every retransmission, a
\* retry for every failure, counters that meet their limits, a session that
\* ends nothing once it is up) holds all the same.
SupplicantUndisturbed ==
  /\ AwaitedAnswerIsWatched
  /\ WatchdogHasTransition
  /\ RetransmissionHasFrame
  /\ FailureHasRetry
  /\ LimitsRespected
  /\ SingleRoundSuccessIsFinal
  /\ OnlineIsMonitored

----------------------------------------------------------------------------
(* Liveness. *)

\* The wait for a lease ends, even if DHCP never answers.
LeaseWaitEnds == leaseAlarms > 0 ~> leaseAlarms = 0

=============================================================================
