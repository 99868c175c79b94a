# MiniEAP: a TLA+ model

MiniEAP is an 802.1X supplicant: a single process that captures EAPOL frames on
one interface, answers the authentication server, keeps the session alive and
starts over when it is lost. On POSIX the capture loop blocks in the main
program and everything that depends on time runs in the handler of `SIGALRM`.
On Windows the main loop polls the same alarms and rebuilds the whole session
when the interface or the power state changes.

The modules here are translated from the C sources. `PROJECT.json` maps every
definition to the lines it stands for.

## The system

| component | state it keeps | operations | talks to |
|---|---|---|---|
| EAP state machine, `eap_state_machine.c`, started by `minieap.c` | `STATE_MACH_PRIV`: state, retry count, round, failure count, watchdog id, copy of the last frame | `switch_to_state` and its transition functions, `recv_handler`, the watchdog, `restart_auth`, `reset` | called by the capture loop and by alarms; calls the plugins, the check, the scheduler, `exit` |
| reachability check, `internet_check.c` | alarm id, failure count | `start`, `stop`, the timed probe | started by success, stopped by reset and failure; asks the state machine to restart |
| alarm scheduler, `sched_alarm.c` on `linkedlist.c` | event list, list of events added while ringing, last id, ringing flag, time last set | `schedule_alarm`, `unschedule_alarm`, the `SIGALRM` handler (Windows: `sched_alarm_poll`) | calls the state machine, the check, the keep-alive |
| RJv3 plugin, `packet_plugin_rjv3*.c` | success count, lease and keep-alive alarms, properties of the next frame | called on every frame, before every response, on success and failure | sends frames, schedules alarms, starts the second authentication |
| RJv3 property codec, `packet_plugin_rjv3_prop.c` | none | append, modify, parse, write | used by the plugin |
| Windows recovery, `win32.c`, `run_windows_network`, libpcap capture loop | generation counters, suspend flag, clocks, link flag | notifications on other threads, poll, begin an attempt | makes `switch_to_state` and the alarms give up |
| pid lock, `pid_lock.c` | the lock file | lock, kill the other instance, save the pid, destroy | other processes |
| configuration, `config.c`, `conf_parser.c` | `PROG_CONFIG` | defaults, file, options, validation | read by everything |
| packet builder and frame helpers, `packet_builder.c`, `packet_util.c` | the header fields, challenge and account of the next frame | set fields, build, append, copy | used by the state machine and the plugin |
| plugin registry, `packet_plugin.c`; printer | active plugins in order | select, and one round over the plugins per event | called by `main` and the state machine |
| interfaces and addresses, `if_impl*`, `net_util.c` | capture handle | select, addresses, gateway, name servers, capture | frames to the state machine, leases to the plugin |
| hashes, `md5.c`, `rjv3_hashes/`; character tables, `gbconv.c` | a context per message | update, final; GBK to UTF-8 | used by the builder, the plugin and the log |
| vendored `compat/getopt.c`; logging, `logging.c`, `misc.c` | position in the command line | `getopt_long`; output, conversions | used by the configuration |

What is hard here: one handler calls `switch_to_state`, which calls a
transition function, which may call `switch_to_state` again, so an inner call's
effects and an outer call's assignments overwrite one another; the server may
send anything, repeatedly or never; the watchdog, the retry after a failure and
the reachability probe all come back later to a state that has moved on; limits
are compared with `==`; and the scheduler's callbacks change the list that the
handler is walking. The plugin adds two alarms of its own and calls the state
machine from inside the handler that called it; on Windows, system threads change
the flags that the main thread has just read; and several processes share one pid
file. What makes each component correct:

- state machine: nothing waits without a timer that ends the waiting; retries
  and failures end at their limits; a session that is up stays up; success is
  announced when the server has granted it;
- reachability check: it runs exactly while the session is up, and its verdict
  is that of the answer, in whatever pieces it comes;
- scheduler: each event is called once, not early, not after it was cancelled,
  and in the end;
- RJv3: no alarm, copy, key or challenge outlives the session it belongs to, and
  the wait for a lease ends; what one side writes the other reads;
- Windows recovery: a disturbance is never lost, a disturbed session is never
  used as a good one, nothing of it is left to the next, and the client comes
  back;
- pid lock: at most one instance runs with the lock, and `-k` signals that one;
- configuration: the command line overrides the file, and what is saved is what
  is read;
- hashes, fields, frames, addresses: they agree with their definition at every
  boundary.

## Modules

**`EapStateMachine`** is the supplicant of a POSIX build: `eap_state_machine.c`
and the state of `internet_check.c`. One action is one complete handler.
`RecvRequest`, `RecvSuccess`, `RecvFailure` and `RecvOther` are the branches of
`eap_state_machine_recv_handler`; `Retransmit` and `RepeatSuccess` are
`state_watchdog`; `RestartTimer` is `restart_auth`; `CheckSkipped`,
`CheckAnswered` and `CheckFailed` are the outcomes of `internet_check_timed`;
`Prepare` is `switch_to_state(PREPARING)` from `main`; `Stop` is a signal or the
end of the capture loop. The operators they share stand for what the handlers
share: `ClearSession` is `eap_state_machine_reset`, `Respond` is
`switch_to_state` for a state that only sends, `Exhausts` is its retry branch,
`FinalSuccess` and `NextRound` are the two branches of
`state_mach_process_success`, `Exit` is `exit()` with the exit handler. The
configuration is a variable that never changes, so one run covers several.
Variables carry the names of the C fields in camel case; `earned` and `failRun`
are history that no action reads, and `frames` only bounds the server.

Abstracted: a frame is its kind; that a frame cannot be built or sent is an
outcome of every transition that sends; the probe has an arbitrary outcome; the
plugins neither fail on reception nor change the state. A frame of which no copy
could be made (`Keep`: `frame_duplicate` returns NULL, which nobody checks) ends
the process when a retransmission reads it (`Unreadable`); that `schedule_alarm`
runs out of memory is left out. The timers are an ideal alarm service: a scheduled
callback may run at any later moment, a cancelled one never does. The real
scheduler (`SchedAlarm`) differs in one thing that matters here: an alarm
cancelled inside the ring in which it is due, or was scheduled, is still called.
For the supplicant alone this is a watchdog scheduled and cancelled in one ring:
by a SUCCESS repeated between two rounds (`eap_state_machine.c:199`, then `:296`),
or by two `restart_auth` alarms due together. It stays in the list for one ring
(`sched_alarm.c:121-124`) and, if it is due at the next one, runs beside the
watchdog that replaced it. It is never in the list longer, which is
`RingLeavesListClean`; that one call of it is not in this module. Nor is `SIGALRM`
in the middle of a handler.

**`MCEapStateMachine`** names the configurations TLC uses, and
**`EapStateMachineProofs`** holds the theorems.

**`RjV3Session`** composes the RJv3 plugin with that supplicant: it extends
`EapStateMachine`, and each of its actions is a handler of the supplicant
together with what the plugin does in it. `eap_state_machine_recv_handler` shows
every frame to the plugin first and ignores its result, so `RjRecvRequest`,
`RjRecvSuccess` and `RjRecvFailure` conjoin the two. Every frame that is sent
passes through `rjv3_prepare_frame`. The plugin's own state is the success count,
the lease alarm with its count and its copy of the success frame, the heartbeat
alarm with its key, and the copy of the challenge; a pending alarm and the id the
plugin remembers for it are separate, because losing an id is the hazard. With
`DHCP_DOUBLE_AUTH` the plugin calls `switch_to_state(START_SENT)`, from its alarm
(`LeaseObtained`) or from inside the handler of the first EAP-Success
(`NestedStarts`). In the second case the code sends a Start, arms the watchdog,
handles the same frame in the state START_SENT, disarms the watchdog and assigns
SUCCESS; the model keeps that. Whether a frame has a key, whether the interface
has a lease and whether a frame can be copied are arbitrary; the plugin reads the
copy of a frame at once, so one that could not be copied ends the process
(`RjRecvUncopied`).

The alarms of the plugin are not ideal. The internet check resets the session from
inside a ring (`internet_check.c:338`), where `unschedule_alarm` only marks, and a
lease or heartbeat alarm that is due in that ring, or was scheduled in it, is
called all the same. `MayStray` keeps such an alarm as a *stray*: it is no longer
known to the plugin, but it may be called once (`LeaseStep` and `BeatStep` take
pending alarms and strays) until the ring that drops it ends (`RingEnds`). The
model lets that ring last as long as it likes, so it allows more orders than the
code does. `strayed` is history and says that a stray has been called: it runs with
a freed frame or a cleared key, schedules itself again, and from then on there are
two alarms where the plugin knows of one (see Findings). `MCRjV3Session`
names configurations, `RjV3SessionProofs` holds the theorems about the plugin and
`RjV3SupplicantProofs` those about the supplicant under it.

**`AlarmService`** is what a caller of `sched_alarm.h` can rely on: events
called once, none of them early, and none after it was unscheduled outside a
callback. A callback may come too late: an event it unschedules is still called by
the same ring if it is due in it, or by the next ring if it was scheduled in this
one (`tardy`), and never later than that.

**`SchedAlarm`** is the POSIX half of `sched_alarm.c`. The event list is a set
whose order is the order of the ids (`insert_data` appends, ids increase).
`Schedule` and `Unschedule` are calls of the main program while no handler
runs; `Ring`, `Fire` and `RingEnd` are the handler from its entry over each
callback to its end; `CallbackSchedule` and `CallbackUnschedule` are what a
callback does in between, to the second list and to the marks. `Second` is the
clock. The field `due` of an event is history: when the caller wanted it; so is
`since`, the last id handed out before the ring. Callbacks may schedule and
unschedule what they like. The substitution in `Promised` maps a state to its live
events (`Live`) and to those that are called although they were unscheduled
(`Doomed`). `SchedAlarmProofs` holds the theorems.

**`NetworkAttempt`** is what the Windows build promises about a capture handle:
once the network session that uses it is disturbed, it is never taken for a good
one again, and it is closed in the end.

**`WinRecovery`** is the Windows build: the rebuild loop of
`run_windows_network`, the capture loop of libpcap, `win32_poll_network`, the
polled half of the scheduler and the notifications of `win32.c`. The main thread
takes one step between two looks at state it shares with the notification
threads: `Setup`, `Begin`, `Checked` (a test of `win32_reconnect_pending`),
`PrepareInterface`, `InitMachine`, `Start`, `Switch`, `Send`, `Failed` (the parts
of `switch_to_state`), `Capture`, `Poll`, `PollLink`, `QueryLink`, `Dispatch`,
`Alarm`, `Cleanup`. The callbacks run on threads of the system and each of their
interlocked operations is a step: `Suspend` and `SuspendRequest`,
`ResumeAutomatic` and `ResumeAutomaticDone`, `ResumeSuspend` and
`ResumeSuspendRequest`, `LinkChanges`. Around them is the machine: `Sleep`, also
`SleepUnnoticed`, also a wake nobody hears of (`ResumeLost`), `SecondPasses`, and
the console handler as `Stop`. The two generation counters are only ever compared
for equality, so the model keeps whether they differ (a wrap of 2^32 requests
within one attempt is left out). An authentication session is what it holds and
whether it makes the process give up. The substitution `Attempt` maps to
`NetworkAttempt`.

**`PidLock`** is `pid_lock.c` with several instances: POSIX and Windows, with
`-k` or without, with a pid file or `--pid-file none`. A system call is a step:
`Launch`, `ConfigFails`, `OpenFile`, `SkipLock`, `Lock`, the reading of a busy
file with the signal it leads to (`GiveUp`, `Unknown`, `Report`, `KillOnly`,
`KillAndStart`), `SavePid`, `ExitCloses`, `ExitUnlinks`, and `Crash` between any
two. The path names one file or none, files
live on while they are open, a pid is a sequence of digits (each of which tells
whose it is, their number how long it is, and no two instances have the same), and a
file keeps the digits that an overwriting does not reach. `SavePid` may write all of
the pid, a part or nothing, because `main` ignores its result (`minieap.c:294`).
What `-k` signals is a set of instances. `InFile` are the possible ones when the
number ends where the file does: the instance it names, and for a mixture of digits
of several pids any one instance or none. `InBuffer` adds what POSIX makes of it: the
buffer is neither cleared nor ended, so that digits may follow, or be all there is
if the file is empty, and any set of instances may be hit (a zero or a negative
number is a group of processes). `MCPidLock` names instances; `PidLockProofs` holds the theorems.

**The library**: what computes and keeps no state of its own, each module being
operators translated function by function.

| module | source |
|---|---|
| `Words` | integers of a width as sets of bit positions, for the hashes |
| `Md5`, `RjHashes` | the block functions: MD5, its altered form, RIPEMD-128, SHA-1, both builds of Tiger, Whirlpool |
| `HashStream` | update and final of six hashes with the buffer between pieces, `computeV4`, `computePwd` |
| `RjProps` | making, replacing, removing, writing and parsing of fields |
| `RjFrame` | the packet builder with what it keeps between frames, the trailer, the private header, the heartbeat, the checksum |
| `Texts`, `GetOpt`, `Settings` | conversions, lists and the parser of the file; `getopt_long`; `config.c`, the plugin's options, selection, saving, and a launch as a whole (`init_cfg`) |
| `NetAddresses` | addresses, gateways and name servers on Linux, BSD, macOS and Windows; a DHCP lease of the plugin |
| `HttpProbe` | the probe of `internet_check.c`: connecting, sending, and its answer in pieces |
| `GbConv` | messages of the server from GBK to UTF-8 |

A digest inside a frame is not computed: its bytes are tuples that name the hash
and the text it is of, so that hashing the wrong text shows. The substitution
boxes are a parameter (`Box`), the GBK table too. `HashStreamProofs` holds the
theorems about the streaming of the hashes, `RjFrameProofs` those about fields,
frames and messages.

**`MCLibrary`** drives them. A state is a job, the inputs of one computation, one
action per kind of job; a property says of every step what the results must be.

## Runs

| run | what it asks | result |
|---|---|---|
| `EapStateMachine` | the safety, action and liveness properties of the state machine | hold |
| `EapPhantomSuccess` | is success announced only after `auth_round` EAP-Success frames? | no, with two rounds |
| `EapStaleRetry` | does the server's request replace the pending retry? | no |
| `EapFailureLimit` | do `max_failures` failures in a row end the process? | no, a timed retry resets the count |
| `SchedAlarm` | does the scheduler implement `AlarmService`, cover its events and call each in the end? | yes, for positive delays |
| `SchedAlarmCancel` | is an event that a callback unscheduled never called? | no, one due or new in the same ring is |
| `SchedAlarmDrift` | is a callback called in the second it was asked for? | no, a later `schedule_alarm` delays it |
| `SchedAlarmZero` | is an event with a delay of 0 called? | no |
| `RjV3Session` | does anything of a session of the plugin get lost or outlive it? | no, until an alarm that was cancelled in its ring is called (272,872 states) |
| `WinRecovery` | does the Windows build notice every disturbance, clean up and come back? | yes, but for one lost wake (92,742 states) |
| `PidLock` | one instance per name, and does `-k` find the holder? | yes, by the number in the file (1,988,705 states) |
| `Library` | does each computation do what it is for? | yes, on these inputs (26,984 jobs) |

`EapStateMachine`:

- `AwaitedAnswerIsWatched`, `FailureHasRetry`: no state waits for the server
  without a watchdog and FAILURE has a `restart_auth` pending. Several handlers
  disarm, arm or leave the watchdog depending on the state before.
- `WatchdogHasTransition`, `RetransmissionHasFrame`: whenever the watchdog runs,
  the state has a function in the table, and a frame to answer is still there
  although every reset frees it.
- `LimitsRespected`: no nested call steps over a limit that is compared with
  `==`. A limit of 0 means none.
- `SingleRoundSuccessIsFinal`, `OnlineSurvives`: with one round a session that
  is up was granted and no repetition by the server ends it. With several rounds
  this is false, see `EapPhantomSuccess`; a `max_retries` of 1 is excluded from
  `OnlineSurvives` because a second EAP-Success then ends the process at once.
- `OnlineIsMonitored`: the reachability check runs while the session is up,
  although a probe that met another state stops rescheduling itself. Without
  re-authentication (`restart_on_logoff`) it stops at its limit by design.
- `SilenceSettles`: when the server is silent for good, a client with one round
  and a retry limit ends authenticated or gone. With several rounds the client
  can be left in SUCCESS between two rounds.

`SchedAlarm`:

- `TimerCoversEvents`: the one kernel timer runs out no later than the first event
  that waits, whoever set it last.
- `RingLeavesListClean`: after a ring there is one list, nothing in it has run out,
  and only an event that was scheduled and unscheduled in that very ring is still
  marked; it does not stay for a second ring.
- `EveryEventRings`: what is scheduled is called or unscheduled in the end.
- `Implements`: the scheduler refines `AlarmService`.

`RjV3Session`; the first four hold until a stray has been called, and say so:

- `TimersAreOwned`: every pending alarm of the plugin is the one its id names, so
  that a reset reaches it, and a session either waits for a lease or beats.
- `LeaseWaitHoldsFrame`: the copy of the first success frame is kept exactly as
  long as the lease is waited for; its alarm never reads a freed frame. That the
  copy is never leaked holds with strays too.
- `HeartbeatHasKey`: a heartbeat without a key of the server happens only after
  the lease was given up, where the code starts it whether or not there is one.
- `FailureEndsSession`: nothing of a session outlives the EAP-Failure that ended
  it. The plugin acts on the frame before the supplicant does.
- `ChallengeIsCurrent`: a kept challenge is the one being answered. It is an
  implication because a frame of another type in CHALLENGE_SENT frees the
  challenge while the response may still be repeated.
- `LeaseWaitEnds`: the wait for a lease ends although DHCP never answers.
- `SupplicantUndisturbed`, `OnlineSurvives`: what the supplicant promises alone, the
  seven safety invariants of the run `EapStateMachine` and that a session that is
  up is not ended, holds under the plugin too, which calls `switch_to_state` from
  its own alarm and from inside a handler that is still at work.

`WinRecovery`:

- `CleanSlate`: an attempt begins without an alarm, a frame or a handle of an
  earlier one, wherever that one was given up.
- `TransportFailureIsNotFatal`: a send that fails because the interface goes away
  does not end the process as a failing plugin does: `switch_to_state` looks
  twice whether a rebuild is pending, and between the looks a resume may clear a
  flag.
- `OneWakeOneTeardown`: after `PBT_APMRESUMEAUTOMATIC` has asked for a new
  session, the second notification of the same wake does not ask again.
- `PendingSticks`: no order of notifications takes a request back before the
  attempt is over.
- `SleepIsNoticed`, `LinkLossIsNoticed`: a handle that lives through a sleep, or
  whose link stays down, is closed although no notification comes. The first
  assumes that the system can tell the time awake; while it cannot, a sleep is
  missed.
- `Recovers`: after every disturbance there is an attempt that is not disturbed,
  with one exception that it names, `WakeIsMissed` (see Findings).
- `Implements`: all of this refines `NetworkAttempt`, liveness included.

`PidLock`:

- `SingleInstance`: two instances with the lock are never both on the file that
  bears the name. On POSIX a third can start on a new file while an instance that
  does not hold the lock has removed the name of the old one; on Windows the name
  of an open file stays. An instance that `-k` let go on without the lock is not
  counted.
- `KillHitsHolder`: as long as no `-k` has let an instance go on without the lock,
  and when what is read ends where the file does: if the file has the pid of one
  instance, `-k` signals the holder or nobody that runs; and when the holder has
  written its pid over all that the file held, it signals the holder and no other.
  A mixture of digits, or what lies behind them in the buffer, may hit anybody.

`Library`:

- `DigestsAgree`: the blocks a hash sees are those of the padded message, in
  whatever pieces it comes and wherever they lie in memory; the block functions
  give recorded digests, both builds of Tiger agree, Whirlpool's alternating
  arrays do not mix; and what `computeV4` hashes holds every byte of the
  challenge (but for type 0 with a byte above 127, where it does not).
- `FieldsSurvive`: fields are read back from their bytes, also where lengths are
  not to be trusted; a frame has the length it says and nothing of an earlier
  one, the digest's text included; the trailer holds the common fields as
  replaced, then those of the command line; checksum, heartbeat and key fit
  together; and a message of the server, whole or cut, is a string inside its
  buffer with all of its whole characters.
- `SettingsSurvive`: a run started from the file that `--save` wrote has the
  settings of the run that saved it.
- `CommandLineWins`: option by option the command line overrides the file, and
  the two readers of the command line do not disturb one another.
- `AnswersAreOfTheInterface`: address, gateway, name server and lease are those
  of the chosen interface, on each system; the probe's verdict is that of the
  first line.

## Bounds

`EapStateMachine`: `FrameBound = 7` frames: a failing authentication takes three
at most, so two can follow one another and a third start, and every limit (at
most 3) is reachable by frames alone as well as by timeouts. The configurations
cover one round and two, retry limits 1 to 3, failure limits 0, 2 and 3, both
values of `restart_on_logoff` and `internet_check`. The check's limit is 2: one
failure below it and one at it. The violation runs use the defaults of `config.h`
(`Defaults`) or change only the number of rounds (`TwoRounds`).

`SchedAlarm` has four events with delays of 1 to 3 seconds, so two events fall due
together, one rings while others wait, and one is scheduled while the timer runs;
`Never` (the code's `INT_MAX`) is 5, beyond every delay. Three events are enough
for the cancellation, two for the drift and the zero delay.

`RjV3Session`: six frames take two complete authentications, the second one of a
double authentication or one after a failure. Two configurations of the
supplicant meet four of the plugin: double authentication with a wait, with a wait
of none, without a heartbeat, and a session of a single pass.

`WinRecovery`: `Batch = 2` stands for the 64 frames of a dispatch, so there is a
frame after the first and an end of the batch; two sleeps, so that one
notification sequence can overlap the attempt that the one before caused; one
change of the link, which may be missed. `PidLock`: three instances, the smallest
number in which one is signalled, one exits and one starts; pids of one and two
digits. `Library`: lengths around the end of a block and of the padding (55, 56,
57, 63, 64, 65, 120, 128), cuts at the same places, lists of up to three fields
whose contents look like the start of the next field, every byte for the codings,
pairs of options of each kind with files that contradict them, dumps of up to
three routes in three parts, also longer than the buffer of 8192 bytes, refused or
cut off.

Deadlock is not checked: the process exits, each instance starts once, a bound on
events is used up, or a job is the end of a behaviour.

## Fairness

Weak fairness of `Prepare` (main runs) and of the two alarms of the state machine,
the watchdog (`Retransmit`, `RepeatSuccess`) and `RestartTimer`: the kernel
delivers `SIGALRM` and the handler calls everything that is due, which
`EveryEventRings` shows of the scheduler. In `RjV3Session` the lease alarm goes off
in the same way (`LeaseStep`), and DHCP promises nothing. Nothing is assumed about
the probe, and nothing about the server: no frame is ever promised, which is what
`SilenceSettles` is about. In `SchedAlarm` the clock and the steps of the handler
are fair; callers are not. In `WinRecovery` the main thread is fair, because every
call it makes is bounded in time; a power callback that has begun ends, a suspend
that was notified is followed by a sleep and a sleep by a wake; the second
notification of a wake, that a user is present, is not promised, and neither is a
notification of the link.

## Proofs

`EapStateMachineProofs` proves for every set of configurations and every number
of frames that `TypeOK` and the seven safety invariants of the run hold in every
reachable state, and that every step satisfies `OnlineSurvives`. The assumptions
are `ConfigAssumption` (limits are naturals, there is at least one round and one
probe failure) and `FrameBoundAssumption`. The invariants are not inductive
alone. `IInv` conjoins them, because they need each other (a repeated SUCCESS is
ruled out by the missing watchdog, the missing watchdog by how success was
reached), and adds `CheckBelowLimit` (a probe is only pending below its limit,
which types `checkFails`) and `GoneIsReset` (after `exit` the machine is in
UNKNOWN, which keeps a dead process from counting as an established session). Each
shared effect has a lemma that it establishes `IInv'` (`ExitIInv`, `RespondIInv`,
`RestartIInv`, `FinalSuccessIInv`, `NextRoundIInv`), each longer handler has one
that combines them, and `StepIInv` splits `Next` into its actions.
`OnlineSurvives` follows from `IInv`: the retry count of a session that is up is
0, so its next value 1 is a limit only if `max_retries = 1`.

`SchedAlarmProofs` proves `TypeOK` for every caller and every set of delays, and,
with positive delays (the hypothesis `0 \notin Delays` of the theorems, which the
run `SchedAlarmZero` shows to be needed), `TimerCoversEvents`,
`RingLeavesListClean` and `Implements`, for every number of events and whatever the
callbacks schedule and unschedule. The refinement needs the inductive invariant
`SInv`. Its core is `NeverEarly`: what the scheduler believes to be left of an
event, less the time since the timer was set, is never less than what the caller
still has to wait, so an event the handler finds expired is one the caller already
waits for. Around it are that ids are distinct and issued (`IdsIssued`,
`IdsDistinct`, `SinceIssued`), that the second list holds events that are newer than
the ring and not due in it (`TempIsNew`), and that a ring takes no time
(`RingIsInstant`); the two safety invariants are part of it because the timer must
not pass an event in the list, and because a mark in the list between two rings is
of an event new in the last one. `LeastNatural` and `MinIsLeast` give the minimum
that `find_min_remaining` computes, by well-founded induction on the naturals. For
the refinement, `StepRefines` maps `Schedule` and `CallbackSchedule` to one abstract
`Schedule`, unscheduling to `Unschedule` and `CallbackUnschedule`, `Ring` and
`RingEnd` to the abstract `Begin` and `End`, `Fire` and `Second` to theirs.

`RjV3SessionProofs` proves the five safety invariants of the run and its types for
every configuration of both components and any number of frames
(`ChoicesAssumption`, `PluginsAssumption` and those of the supplicant). The
plugin's part, `PluginInv`, is inductive without the supplicant: `PluginTypeInv`
holds with strays too (an id names a pending alarm, a kept frame has an alarm that
will free it), and `Calm` until one is called: after every handler the session of the
plugin is quiet, beats or waits (`Quiet`, `Beating`, `Waiting`), with alarms, copy
and key as these need them, and each handler leaves one of the three. Four of the
theorems therefore speak, as the properties do, of the time until a stray has been
called; the types, that no copy is leaked, and `ResponsesUseTheirChallenge` have no
such condition. `IInv` then adds what relates the plugin to the state of the
supplicant, `OverInFailure` and `ChallengeIsCurrent`.

`WinRecoveryProofs` proves, for every batch and any number of sleeps and changes of
the link (`BatchAssumption`, `BoundsAssumption`), the types, `CleanSlate`,
`TransportFailureIsNotFatal`, `OneWakeOneTeardown`, `PendingSticks`, and that the
specification implements the safety part of `NetworkAttempt`
(`AttemptsAreKeptApart`). That a failing transport is not fatal rests on
`FailureIsExplained`, a transition function only fails because of a plugin or with
a rebuild to come; a notification preserves this only thanks to
`SuspendIsRemembered`: when an attempt sees the flag, a new session was asked for
too, or is about to be, so that clearing the flag does not take the request back.
`HandleHasAttempt` and `SetupIsClean` carry `CleanSlate`; `WakeClearsSuspend`
carries `OneWakeOneTeardown`.

`PidLockProofs` proves `TypeOK`, `SingleInstance` and `KillHitsHolder` for any
number of instances, any lengths of pids, failed and short writes, and crashes anywhere
(`ProcsAssumption`, `DigitsAssumption`). `Locking` says who holds a lock on which
file and that the name is kept while Windows has it open (`LockIsHeld`,
`NameIsKept`, and that no more files exist than instances have made,
`FilesAreFew`); `Contents` adds the digits of a file and the positions in it;
`Naming` adds, as long as no `-k` has let an instance go on without the lock, that
a file that begins like a pid was written by that instance (`WritersAreKnown`), that a
holder that wrote all of its pid (`saved`) finds it there (`HoldersAreNamed`), that
writing starts at the beginning (`Rewound`) and that what lies behind a pid was left
by a longer one (`NoLongerThanAPid`).

`RjV3SupplicantProofs` proves that the invariants of the supplicant survive the
composition (`SupplicantStaysSafe`, `OnlineSurvivesThePlugin`), under the same
assumptions and with strays. `WhatThePluginDoes` says that a step of the composition
is, for the supplicant, a step of `EapStateMachine` or one of three that the supplicant
alone never takes: a second Start (`SecondStart`), an exit because a heartbeat cannot
be sent or a frame was not copied (`PluginEnds`), and a first success whose handler
sends the Start itself (`FirstWithLease`). The inductive invariant of
`EapStateMachineProofs` is kept by the former by its own theorem and by each of the
latter by a lemma, so nothing of the supplicant is proved twice and nothing is added
to its invariant. `OnlineSurvivesThePlugin` says two things of a session of one round
that is up, where `max_retries` is not 1. It is never ended by the retry or the failure
limit (`OnlineSurvives`); there are other ends, and `OnlineLeftStep` lists them all: the
process ends (a signal, a send that fails, a heartbeat's too, a frame that was not
copied, a logoff without re-authentication), the server begins anew or forces the client
off, or a Start is sent by a retry left from an earlier failure, by the probe at its
limit, or by the plugin's lease alarm.

`HashStreamProofs` proves that the streaming of the six hashes is right for messages
of every length: `UpdateFollows`, `FinalPads`, `PiecesDoNotMatter`, `ComputeHashPads`.
The invariant of a context is `Follows`: it has passed on the whole blocks of what it
was given, its buffer begins with the bytes left over, and it counts them all; what
lies behind them in the buffer is arbitrary. `MD5UpdateFollows` and
`RhashUpdateFollows` keep it for the two styles of update, for bytes that lie aligned
and bytes that do not. The three styles of final step are compared with `PaddedBlocks`, a
definition that knows of no buffer: the marking byte, the zeros and the number may
take the rest of one block or spill into a second (`EndedInOne`, `EndedInTwo`).
`PiecesDoNotMatter` is an induction over the number of pieces, written as the least
number for which it would fail (`LeastNatural`), because an induction theorem with an
operator as its parameter cannot be used. The block functions are not part of it: a
theorem says which blocks they are given.

`RjFrameProofs` proves what fields are read as. A field is *carried* by its bytes
(`Carries`) when its length is right or, where the length is not to be trusted, when
its content holds no mark (and its first header does not begin with one of the mark's
last two bytes, with which a mark could begin in what precedes it). The mark `00 00 13 11` has no border, so the first mark found is that of the next
field. `Splits` divides the pieces into those read and those left, every `ReadField`
takes one field over, and `Counting` repeats that: `FieldsAreRead`, with the first
header and without it. `FieldsAreWritten` is the converse for the writer, of fields
with contents of at most 253 bytes (a length is a byte) that fit the room, and
`WrittenIsRead` joins the two. `TrailerIsRead` says the same of a whole trailer under
the hypotheses that there is a common field and that `delta = 0`, no replacement has
another length than what it replaces; with another length the code counts the difference twice (see Findings), and
the theorem is false. The common fields meet its hypotheses (`CommonAreFields`).
`BuilderForgets` says that a frame is what its own fields, account and challenge say,
whatever the one builder has made before, given that a response has a challenge.
`FrameTellsItsLength` says that the lengths in the EAPOL and the EAP header of a frame are
both that of what is behind the EAPOL header, for every account with which the frame fits
its buffer.
`MessageIsString` says that `pr_info_gbk` finds the whole converted text in its buffer,
with its end, for every message but the empty one (for which the code allocates no
byte), cut or not: no text takes more than three bytes for one (`TextIsShort`), and
no pair of bytes is looked up beyond the 24576 entries of the table
(`IndexIsInTable`).

Only model-checked: the liveness properties (`SilenceSettles`, `EveryEventRings`,
`LeaseWaitEnds`, `SleepIsNoticed`, `LinkLossIsNoticed`, `Recovers`, and `Implements` of
`WinRecovery` as far as it is liveness), which are out of the prover's reach; and the
five properties of `Library` as they are run, on given inputs. Of the library,
streaming, fields, the builder and the messages have the theorems above; the block
functions, of one block each and compared with recorded digests, the checksum, the
configuration, `getopt_long`, the addresses and the probe have none.

## Findings

Six places where the code does not do what its comments or messages say are
listed in `PROJECT.json`, each with the run that shows it: the phantom success
between two rounds, the retry that survives the server's own request, the failure
count that a timed retry resets, and in the scheduler the event called after it was
unscheduled, the drift of waiting events, and the delay of zero.

Where the code is wrong and no run says so, the models do what the code does and
the properties leave the case out by name:

- `win32_poll_network` returns while `g_suspended` is set (`win32.c:81`), so its
  clocks do not "catch resumes whose power callback was not delivered" when the
  suspend was: every later attempt is given up at its first look at the flag
  (`WakeIsMissed`).
- The second authentication of the plugin, started inside the success handler,
  leaves the supplicant in SUCCESS with no watchdog; a lost answer is not asked
  for again.
- A session that the internet check resets (`internet_check.c:338`) from inside a
  ring leaves the lease or heartbeat alarm that is due in it (`sched_alarm.c:84-88`),
  or new in it (`:121-124`). The heartbeat then runs with a cleared key, and schedules
  itself again beside that of the next session. The lease alarm runs after its frame
  was freed: it starts a second authentication in the middle of the first, or schedules
  itself again and at its limit gives `rjv3_process_result_prop` a null pointer
  (`packet_plugin_rjv3_priv.c:519-520`, `LeaseCrashes`). The properties of `RjV3Session`
  except the time after such a call (`strayed`).
- A frame of which `frame_duplicate` can make no copy is read all the same, by the
  plugin at once and by a retransmission later (`eap_state_machine.c:255-256`, `295`).
- After a frame of another type in CHALLENGE_SENT the challenge is freed, and the
  repeated response is hashed with no challenge. `restart_auth` does not reset the
  plugin. `rjv3_should_fill_dhcp_prop` is never true for a double authentication,
  so the lease is never sent.
- `rjv3_append_priv` counts the difference in length of a replaced field twice
  (`packet_plugin_rjv3_priv.c:408`): the help's own example, `6f:000102:r`, cuts
  the last fields off. `append_rjv3_prop_list_to_buffer` keeps a length in a
  `size_t`, so its own error of -1 counts as room used
  (`packet_plugin_rjv3_prop.c:122`). `modify_rjv3_prop` frees a field that is
  still in the list when memory runs out. The heartbeat says 30 bytes over 27.
- The parser of fields copies as many bytes as the length of a field says, also from
  behind the buffer (`packet_plugin_rjv3_prop.c:205-216` and `245-249`; `CopyOf` marks
  them as `Behind`).
- `computeV4` of type 0 prints signed bytes with `%02x`: eight digits for a byte
  above 127, and the text is cut at 96.
- A saved `no-auto-reauth=0` is read as "do not" (`config.c:313` and 166). `-x`
  takes an argument (`config.c:221`). `my_itoa` loses the sign. `DAEMON_NO_LOG`
  only sets the path of a log. `--conf-file=path` is not recognised. Trailing
  blanks of a saved text are lost, and an empty one becomes the default. A plugin
  named twice, or `--save` together with `--rj-option`, duplicates options, and
  saving without the plugin drops its settings. What one pass over the command
  line takes as an argument and begins with `-` is an option for the other, and
  `-neth0` is a heartbeat of 0 for the plugin.
- `obtain_dns_list` of a machine without a name server ends in a null dereference
  (`packet_plugin_rjv3_priv.c:229`). The netlink request has sequence number 0 and
  the reader compares with 1. The answer is cut at 8192 bytes, where a message that is cut
  counts as a refusal; and a refusal takes its own length off what was read before
  (`net_util.c:402-442`), so that routes already received are lost.
- The mask in `gbk_to_index` never matches (`gbconv.c:3084`), so characters with
  an ASCII trailing byte are converted to others; a character cut at the end is
  read one byte beyond it.
- `pid_lock_save_pid` on POSIX neither truncates nor seeks, so a longer pid leaves
  its digits behind; `main` ignores that the pid could not be written
  (`minieap.c:294`), and a short write is not noticed; the buffer that `-k` reads into
  is neither cleared nor ended (`pid_lock.c:192-198`), so that an empty file, or digits
  behind those of the file, make a number of what was there before; on POSIX the file is closed before its name is removed; and on
  Windows the exclusive lock keeps `-k` from reading the pid of a running holder.
- The probe has a time limit per call of `recv`, not for the whole answer. The BPF
  loop hands over only the first frame of a read.

## Not modelled

- `SIGALRM` in the middle of a handler, of `schedule_alarm` or of `malloc`. A
  handler is one step; on a half-updated heap the outcome is undefined and nothing
  useful can be stated.
- The ids of frames: the models keep the kind of the last frame, so an answer with
  the id of another frame is not told apart.
- Threads of Windows beyond the interlocked operations: power callbacks come one
  after the other, and the console handler ends the process in one step.
- The data: the substitution boxes, the two arrays of `checkV4.c` and the GBK
  table, some four thousand lines, are parameters.
- The capture loops of `sockraw` and `bpf`, which hand over what the kernel gives:
  they are the frames of `EapStateMachine`.
- The printer, help, banner, logging and `go_background`: output and system calls.
  Lengths of texts against their buffers, and file errors of the configuration.
- In `RjV3Session` a negative `--max-dhcp-count`, which `atoi` accepts and which
  would never be reached.

## What is left

Theorems: that the key of an answer and the numbers of the heartbeat survive their
coding, and that the two appended bytes of the checksum make it zero; that a text read from the file is the
one that was saved, where `Settings` says so; that the first line decides the probe,
however its pieces are cut. Models: a composition of `SchedAlarm` with the watchdog of
the state machine, in which the marks of the real scheduler meet an alarm that
reschedules itself; preemption, once the code blocks the signal where it must; frame
ids in `EapStateMachine`, for the frames that no transition handles.
