---------------------------- MODULE WinRecovery ----------------------------
(***************************************************************************)
(* The Windows build: the rebuild loop of run_windows_network, the capture *)
(* loop of libpcap, the alarms it polls and the notifications of win32.c.  *)
(*                                                                         *)
(* The main thread takes one step between two looks at the state that the  *)
(* notification callbacks share with it.  The callbacks run on threads of  *)
(* the system; each of their interlocked operations is one step, and a     *)
(* power callback ends before the next one begins.                         *)
(*                                                                         *)
(* g_network_generation and g_attempt_generation are only ever compared,   *)
(* so the model keeps whether they differ.  An authentication session is   *)
(* what it holds and whether it makes the process give up.                 *)
(***************************************************************************)
EXTENDS Naturals

CONSTANTS
  Batch,     \* bound: frames of a pcap_dispatch, and alarms of a poll
  MaxSleeps, \* bound: times the system sleeps
  MaxLinks   \* bound: times the link goes down or up

ASSUME BatchAssumption == Batch \in Nat \ {0}
ASSUME BoundsAssumption == MaxSleeps \in Nat /\ MaxLinks \in Nat

VARIABLES
  main,       \* where the main thread is
  ret,        \* where it goes back to from a poll or from switch_to_state
  batch,      \* frames or alarms handled in this round
  handle,     \* libpcap_priv.pcapdev is open
  held,       \* what the attempt has allocated
  moved,      \* g_network_generation # g_attempt_generation
  suspended,  \* g_suspended
  power,      \* where the power callbacks are
  linkUp,     \* GetIfEntry2 finds the interface up and connected
  linkCheck,  \* g_link_check_requested
  recent,     \* less than a second since g_last_link_check
  slept,      \* the system has slept since g_last_tick and g_last_awake
  clockValid, \* g_clock_valid
  exit,       \* "no" while the process runs, then why exit() was called
  sleeps,     \* bound
  links,      \* bound
  broken      \* history: a plugin has failed to prepare the frame in hand

loop   == <<ret, batch>>
owned  == <<handle, held>>
net    == <<linkUp, links>>
check  == <<linkCheck, recent>>
clock  == <<slept, clockValid>>
fate   == <<exit, broken>>
bounds == <<sleeps, links>>
vars == <<main, loop, owned, moved, suspended, power, net, check, clock, fate,
          sleeps>>

Things == {"alarms", "session"}
Working == {"init", "start", "switch", "send", "failed", "capture", "poll",
            "link", "query", "dispatch", "alarm"}
Places == Working \cup {"setup", "begin", "open", "prepare", "cleanup", "over"}

TypeOK ==
  /\ main \in Places
  /\ ret \in {"start", "dispatch", "alarm"}
  /\ batch \in 0..Batch
  /\ handle \in BOOLEAN
  /\ held \subseteq Things
  /\ moved \in BOOLEAN
  /\ suspended \in BOOLEAN
  /\ power \in {"idle", "suspending", "suspended", "asleep", "resuming",
                "resumed", "user"}
  /\ linkUp \in BOOLEAN
  /\ linkCheck \in BOOLEAN
  /\ recent \in BOOLEAN
  /\ slept \in BOOLEAN
  /\ clockValid \in BOOLEAN
  /\ exit \in {"no", "setup", "plugin", "limit", "stopped"}
  /\ sleeps \in 0..MaxSleeps
  /\ links \in 0..MaxLinks
  /\ broken \in BOOLEAN

\* win32_reconnect_pending
Pending == suspended \/ moved

\* What the callbacks and the machine own.
shared == <<suspended, power, linkUp, bounds>>

----------------------------------------------------------------------------
(* The main thread: run_windows_network. *)

\* exit() with the exit handler.
ExitProcess(why) ==
  /\ main' = "over"
  /\ exit' = why
  /\ handle' = FALSE
  /\ held' = {}
  /\ UNCHANGED <<moved, check, clock, broken>>

At(place) == main = place /\ UNCHANGED shared

\* Both notifications are registered, or the process ends.
Setup ==
  /\ At("setup")
  /\ \/ ExitProcess("setup")
     \/ /\ main' = "begin"
        /\ UNCHANGED <<owned, moved, check, clock, fate>>
  /\ UNCHANGED loop

\* win32_begin_network_attempt
Begin ==
  /\ At("begin")
  /\ main' = "open"
  /\ moved' = FALSE
  /\ linkCheck' = TRUE
  /\ slept' = FALSE
  /\ clockValid' \in BOOLEAN
  /\ UNCHANGED <<loop, owned, recent, fate>>

\* A look at win32_reconnect_pending on the way to a place.
Checked(from, to) ==
  /\ At(from)
  /\ main' = IF Pending THEN "cleanup" ELSE to
  /\ UNCHANGED <<loop, owned, moved, check, clock, fate>>

\* prepare_interface may fail; when it does not, the handle is open.
PrepareInterface ==
  /\ At("prepare")
  /\ \/ main' = "cleanup" /\ UNCHANGED <<handle, linkCheck>>
     \/ main' = "init" /\ handle' = TRUE /\ linkCheck' = TRUE
  /\ UNCHANGED <<loop, held, moved, recent, clock, fate>>

\* Bug: the notifications are acknowledged once the handle is open.
InitMachineAcknowledging ==
  /\ At("init")
  /\ \/ main' = "cleanup" /\ UNCHANGED held
     \/ main' = "start" /\ held' = held \cup {"session"}
  /\ moved' = FALSE
  /\ UNCHANGED <<loop, handle, check, clock, fate>>

\* eap_state_machine_init, unless a notification is pending.
InitMachine ==
  /\ At("init")
  /\ \/ main' = "cleanup" /\ UNCHANGED held
     \/ ~Pending /\ main' = "start" /\ held' = held \cup {"session"}
  /\ UNCHANGED <<loop, handle, moved, check, clock, fate>>

\* The first switch_to_state(START_SENT) of the attempt.
Start ==
  /\ At("start")
  /\ main' = IF Pending THEN "cleanup" ELSE "switch"
  /\ ret' = "start"
  /\ UNCHANGED <<batch, owned, moved, check, clock, fate>>

\* Bug: the alarms of the attempt are left in the list.
CleanupKeepingAlarms ==
  /\ At("cleanup")
  /\ main' = "begin"
  /\ handle' = FALSE
  /\ held' = held \ {"session"}
  /\ UNCHANGED <<loop, moved, check, clock, fate>>

\* Everything the attempt holds is freed; then five seconds of sleep.
Cleanup ==
  /\ At("cleanup")
  /\ main' = "begin"
  /\ handle' = FALSE
  /\ held' = {}
  /\ UNCHANGED <<loop, moved, check, clock, fate>>

----------------------------------------------------------------------------
(* The main thread: switch_to_state, from the loop, a frame or an alarm. *)

\* Back to the caller, which looks at win32_reconnect_pending itself.
Return(result) ==
  main' = CASE ret # "start"       -> ret
            [] result = "success"  -> "capture"
            [] result = "failure"  -> "cleanup"

\* The watchdog is armed before the transition function is called; at the
\* retry limit the session is to be rebuilt.
Switch ==
  /\ At("switch")
  /\ \/ Pending /\ Return("failure") /\ UNCHANGED <<held, moved>>
     \/ /\ ~Pending
        /\ main' = "send"
        /\ held' = held \cup {"alarms"}
        /\ UNCHANGED moved
     \/ /\ ~Pending
        /\ ret # "start"
        /\ Return("failure")
        /\ moved' = TRUE
        /\ UNCHANGED held
  /\ UNCHANGED <<loop, handle, check, clock, fate>>

\* Bug: a frame that cannot be sent does not ask for a new session.
SendQuietly ==
  /\ At("send")
  /\ \/ Return("success") /\ UNCHANGED <<moved, broken>>
     \/ main' = "failed" /\ UNCHANGED <<moved, broken>>
     \/ main' = "failed" /\ broken' = TRUE /\ UNCHANGED moved
  /\ UNCHANGED <<loop, owned, check, clock, exit>>

\* The transition function: a plugin fails to prepare the frame, the session
\* is out of date, pcap_sendpacket fails, or the frame is sent.
Send ==
  /\ At("send")
  /\ \/ main' = "failed" /\ broken' = TRUE /\ UNCHANGED moved
     \/ Pending /\ main' = "failed" /\ UNCHANGED <<moved, broken>>
     \/ ~Pending /\ main' = "failed" /\ moved' = TRUE /\ UNCHANGED broken
     \/ ~Pending /\ Return("success") /\ UNCHANGED <<moved, broken>>
  /\ UNCHANGED <<loop, owned, check, clock, exit>>

\* A failed transition function ends the process, unless the session is to be
\* rebuilt anyway.
Failed ==
  /\ At("failed")
  /\ \/ /\ Pending
        /\ Return("failure")
        /\ broken' = FALSE
        /\ UNCHANGED <<owned, moved, check, clock, exit>>
     \/ /\ ~Pending
        /\ ExitProcess("plugin")
  /\ UNCHANGED loop

----------------------------------------------------------------------------
(* The main thread: libpcap_start_capture. *)

\* The head of the loop and its bounded wait, which may fail, and which may
\* take so long that the process must have been frozen.
Capture ==
  /\ At("capture")
  /\ \/ main' = "cleanup" /\ UNCHANGED <<ret, moved>>
     \/ /\ ~Pending
        /\ main' = "poll"
        /\ ret' = "dispatch"
        /\ moved' \in {moved, TRUE}
  /\ UNCHANGED <<batch, owned, check, clock, fate>>

\* Back from win32_poll_network.
EndPoll ==
  /\ main' = ret
  /\ batch' = 0

\* The clocks: a tick count that has run ahead of the time awake is a sleep
\* that nobody has notified.
Poll ==
  /\ At("poll")
  /\ \/ /\ Pending
        /\ EndPoll
        /\ UNCHANGED <<clock, moved>>
     \/ /\ ~Pending
        /\ main' = "link"
        /\ clockValid' = FALSE
        /\ UNCHANGED <<slept, moved, batch>>
     \/ /\ ~Pending
        /\ main' = "link"
        /\ moved' = (clockValid /\ slept)
        /\ slept' = FALSE
        /\ clockValid' = TRUE
        /\ UNCHANGED batch
  /\ UNCHANGED <<ret, owned, check, fate>>

AskLink ==
  /\ main' = "query"
  /\ linkCheck' = FALSE
  /\ recent' = TRUE
  /\ UNCHANGED batch

\* Bug: an interface is only asked when a notification says so.
PollLinkOnRequest ==
  /\ At("link")
  /\ IF Pending \/ ~linkCheck
       THEN EndPoll /\ UNCHANGED check
       ELSE AskLink
  /\ UNCHANGED <<ret, owned, moved, clock, fate>>

\* The flag is taken before the interface is asked; without it the interface
\* is asked once in a second.
PollLink ==
  /\ At("link")
  /\ IF Pending \/ (~linkCheck /\ recent)
       THEN EndPoll /\ UNCHANGED check
       ELSE AskLink
  /\ UNCHANGED <<ret, owned, moved, clock, fate>>

\* GetIfEntry2 finds the link down, or cannot tell.
QueryLink ==
  /\ At("query")
  /\ EndPoll
  /\ \/ moved' = TRUE
     \/ linkUp /\ UNCHANGED moved
  /\ UNCHANGED <<ret, owned, check, clock, fate>>

\* A handler that sends nothing through switch_to_state: it changes what the
\* session holds, its keep-alive may fail to be sent, and it may give up.
Handle(next) ==
  \/ /\ main' = next
     /\ held' \in {h \in SUBSET Things : "session" \in h}
     /\ moved' \in {moved, TRUE}
     /\ UNCHANGED <<handle, check, clock, fate>>
  \/ ExitProcess("limit")

\* Bug: a batch is as long as the interface is busy.
DispatchUnbounded ==
  /\ At("dispatch")
  /\ \/ /\ main' = "cleanup"
        /\ UNCHANGED <<loop, owned, moved, check, clock, fate>>
     \/ /\ main' = "poll"
        /\ ret' = "alarm"
        /\ batch' = 0
        /\ UNCHANGED <<owned, moved, check, clock, fate>>
     \/ /\ ~Pending
        /\ batch' = batch
        /\ ret' = "dispatch"
        /\ \/ /\ main' = "switch"
              /\ UNCHANGED <<owned, moved, check, clock, fate>>
           \/ Handle("dispatch")

\* Bug: a batch takes one frame more than its limit.
DispatchOneMore ==
  /\ At("dispatch")
  /\ \/ /\ main' = "cleanup"
        /\ UNCHANGED <<loop, owned, moved, check, clock, fate>>
     \/ /\ main' = "poll"
        /\ ret' = "alarm"
        /\ batch' = 0
        /\ UNCHANGED <<owned, moved, check, clock, fate>>
     \/ /\ ~Pending
        /\ batch <= Batch
        /\ batch' = batch + 1
        /\ ret' = "dispatch"
        /\ \/ /\ main' = "switch"
              /\ UNCHANGED <<owned, moved, check, clock, fate>>
           \/ Handle("dispatch")

\* pcap_dispatch: an error or a break ends the capture; a frame that comes
\* while a notification is pending is dropped; the batch ends.
Dispatch ==
  /\ At("dispatch")
  /\ \/ /\ main' = "cleanup"
        /\ UNCHANGED <<loop, owned, moved, check, clock, fate>>
     \/ /\ main' = "poll"
        /\ ret' = "alarm"
        /\ batch' = 0
        /\ UNCHANGED <<owned, moved, check, clock, fate>>
     \/ /\ ~Pending
        /\ batch < Batch
        /\ batch' = batch + 1
        /\ ret' = "dispatch"
        /\ \/ /\ main' = "switch"
              /\ UNCHANGED <<owned, moved, check, clock, fate>>
           \/ Handle("dispatch")

\* sched_alarm_poll: every alarm that is due is called, unless a notification
\* is pending.  An alarm set by a callback waits for the next poll.
Alarm ==
  /\ At("alarm")
  /\ \/ /\ main' = "capture"
        /\ UNCHANGED <<loop, owned, moved, check, clock, fate>>
     \/ /\ ~Pending
        /\ "alarms" \in held
        /\ batch < Batch
        /\ batch' = batch + 1
        /\ ret' = "alarm"
        /\ \/ /\ main' = "switch"
              /\ UNCHANGED <<owned, moved, check, clock, fate>>
           \/ Handle("alarm")

MainStep ==
  \/ Setup
  \/ Begin
  \/ Checked("open", "prepare")
  \/ PrepareInterface
  \/ InitMachine
  \/ Start
  \/ Switch
  \/ Send
  \/ Failed
  \/ Capture
  \/ Poll
  \/ PollLink
  \/ QueryLink
  \/ Dispatch
  \/ Alarm
  \/ Cleanup

----------------------------------------------------------------------------
(* Other threads: power_notification, each interlocked operation a step. *)

\* What the notification threads leave alone.
private == <<main, loop, owned, clock, recent, fate>>

Alive == main \notin {"setup", "over"}

\* PBT_APMSUSPEND
Suspend ==
  /\ Alive
  /\ power \in {"idle", "resumed"}
  /\ sleeps < MaxSleeps
  /\ sleeps' = sleeps + 1
  /\ suspended' = TRUE
  /\ power' = "suspending"
  /\ UNCHANGED <<private, moved, net, linkCheck>>

\* Bug: a suspend only sets the flag.
SuspendRequestForgotten ==
  /\ power = "suspending"
  /\ power' = "suspended"
  /\ UNCHANGED <<private, moved, suspended, net, linkCheck, sleeps>>

SuspendRequest ==
  /\ Alive
  /\ power = "suspending"
  /\ moved' = TRUE
  /\ power' = "suspended"
  /\ UNCHANGED <<private, suspended, net, linkCheck, sleeps>>

\* PBT_APMRESUMEAUTOMATIC; it also comes when the suspend was not notified.
ResumeAutomatic ==
  /\ Alive
  /\ power = "asleep"
  /\ moved' = TRUE
  /\ power' = "resuming"
  /\ UNCHANGED <<private, suspended, net, linkCheck, sleeps>>

\* Bug: the flag is cleared only by a user-present resume.
ResumeAutomaticFlagKept ==
  /\ Alive
  /\ power = "resuming"
  /\ power' = "resumed"
  /\ UNCHANGED <<private, moved, suspended, net, linkCheck, sleeps>>

ResumeAutomaticDone ==
  /\ Alive
  /\ power = "resuming"
  /\ suspended' = FALSE
  /\ power' = "resumed"
  /\ UNCHANGED <<private, moved, net, linkCheck, sleeps>>

\* Bug: every user-present resume asks for a new session.
ResumeSuspendAlways ==
  /\ Alive
  /\ power \in {"asleep", "resumed"}
  /\ suspended' = FALSE
  /\ power' = "user"
  /\ UNCHANGED <<private, moved, net, linkCheck, sleeps>>

\* PBT_APMRESUMESUSPEND
ResumeSuspend ==
  /\ Alive
  /\ power \in {"asleep", "resumed"}
  /\ suspended' = FALSE
  /\ power' = IF suspended THEN "user" ELSE "idle"
  /\ UNCHANGED <<private, moved, net, linkCheck, sleeps>>

ResumeSuspendRequest ==
  /\ Alive
  /\ power = "user"
  /\ moved' = TRUE
  /\ power' = "idle"
  /\ UNCHANGED <<private, suspended, net, linkCheck, sleeps>>

\* A wake that is not notified, whether or not the sleep was.
ResumeLost ==
  /\ Alive
  /\ power = "asleep"
  /\ power' = "idle"
  /\ UNCHANGED <<private, moved, suspended, net, linkCheck, sleeps>>

PowerStep ==
  \/ SuspendRequest
  \/ ResumeAutomatic
  \/ ResumeAutomaticDone
  \/ ResumeSuspend
  \/ ResumeSuspendRequest
  \/ ResumeLost

----------------------------------------------------------------------------
(* The machine the process runs on. *)

\* The system sleeps: the tick count runs on while the time awake stands.
GoesToSleep ==
  /\ Alive
  /\ power' = "asleep"
  /\ slept' = TRUE
  /\ UNCHANGED <<main, loop, owned, clockValid, check, fate, moved, suspended, net>>

Sleep ==
  /\ power = "suspended"
  /\ GoesToSleep
  /\ UNCHANGED sleeps

SleepUnnoticed ==
  /\ power \in {"idle", "resumed"}
  /\ sleeps < MaxSleeps
  /\ sleeps' = sleeps + 1
  /\ GoesToSleep

\* The link changes, and interface_notification hears of it or not.
LinkChanges ==
  /\ Alive
  /\ links < MaxLinks
  /\ links' = links + 1
  /\ linkUp' = ~linkUp
  /\ linkCheck' \in {linkCheck, TRUE}
  /\ UNCHANGED <<private, moved, suspended, power, sleeps>>

\* A second passes since the last look at the link.
SecondPasses ==
  /\ Alive
  /\ recent
  /\ recent' = FALSE
  /\ UNCHANGED <<main, loop, owned, clock, fate, moved, suspended, power, net,
                 linkCheck, sleeps>>

\* console_ctrl_handler
Stop ==
  /\ Alive
  /\ UNCHANGED <<shared, loop>>
  /\ ExitProcess("stopped")

Init ==
  /\ main = "setup"
  /\ ret = "start"
  /\ batch = 0
  /\ handle = FALSE
  /\ held = {}
  /\ moved = FALSE
  /\ suspended = FALSE
  /\ power = "idle"
  /\ linkUp = TRUE
  /\ linkCheck = FALSE
  /\ recent = FALSE
  /\ slept = FALSE
  /\ clockValid = FALSE
  /\ exit = "no"
  /\ sleeps = 0
  /\ links = 0
  /\ broken = FALSE

Next ==
  \/ MainStep
  \/ PowerStep
  \/ Suspend
  \/ Sleep
  \/ SleepUnnoticed
  \/ LinkChanges
  \/ SecondPasses
  \/ Stop

Spec == Init /\ [][Next]_vars

\* The main thread never blocks for long, a power callback that has begun
\* ends, a notified sleep happens and ends in a wake (that a user is present is
\* not promised), and time passes.
Fairness ==
  /\ WF_vars(MainStep)
  /\ WF_vars(power # "resumed" /\ PowerStep)
  /\ WF_vars(Sleep)
  /\ WF_vars(SecondPasses)

FairSpec == Spec /\ Fairness

----------------------------------------------------------------------------
(* Safety. *)

\* Nothing of an attempt is left when the next one begins: no alarm, no copy
\* of a frame, no handle (run_windows_network: "free the EAP frame/builder and
\* every outstanding timer").
CleanSlate ==
  main \in {"begin", "open", "prepare"} => held = {} /\ ~handle

\* Neither a failing network nor a notification ends the process ("Transport
\* failure is recovered by the main loop. Plugin preparation/configuration
\* failures remain fatal."): when switch_to_state looks a second time whether
\* a reconnect is pending, it still is.
TransportFailureIsNotFatal ==
  exit = "plugin" => broken

\* PBT_APMRESUMEAUTOMATIC has asked for a new session.
WakeAnswered == power \in {"resuming", "resumed"}

\* A wake that PBT_APMRESUMEAUTOMATIC has answered does not disturb an attempt
\* that began afterwards ("one wake cannot tear down a new session twice").
OneWakeOneTeardown ==
  [][WakeAnswered /\ power' \in {"resumed", "idle", "user"} /\ power' # power
       => moved' = moved /\ power' # "user"]_vars

\* The next step of an attempt that is to be rebuilt.
PendingSticksStep ==
  (main \in Working /\ main' \in Working /\ Pending) => Pending'

\* Once a session is to be rebuilt, no order of notifications takes that back
\* before the attempt is over.
PendingSticks == [][PendingSticksStep]_vars

----------------------------------------------------------------------------
(* Liveness. *)

\* A handle that lives through a sleep is closed, although nobody may have
\* notified the sleep, as long as the system can tell the time awake.
SleepIsNoticed ==
  []((handle /\ slept /\ []clockValid) => <>~handle)

\* A link that stays down ends the session, although no notification may come.
LinkLossIsNoticed ==
  (handle /\ ~linkUp) ~> (~handle \/ linkUp)

\* The wake of a notified sleep was not notified: g_suspended stays set, and as
\* win32_poll_network returns while it is, the clocks are not compared, although
\* they are there to find such a wake.
WakeIsMissed == suspended /\ power = "idle"

\* After every disturbance but that one there is an attempt that is not disturbed.
Recovers == []<>(~Pending \/ WakeIsMissed \/ main = "over")

\* An attempt as the rest of the program sees it.
Attempt == INSTANCE NetworkAttempt WITH
  open <- handle, disturbed <- handle /\ moved

\* A session that is disturbed is never used as a good one again, and ends.
Implements == Attempt!FairSpec

=============================================================================
