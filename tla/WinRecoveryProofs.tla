-------------------------- MODULE WinRecoveryProofs --------------------------
(***************************************************************************)
(* The safety of the Windows rebuild loop for every batch and any number   *)
(* of sleeps and changes of the link, and that it keeps the safety part of *)
(* the promise of NetworkAttempt.                                          *)
(***************************************************************************)
EXTENDS WinRecovery, TLAPS

\* The first attempt begins with nothing.
SetupIsClean == main = "setup" => held = {} /\ ~handle

\* A handle is only open while an attempt works with it or is being cleaned up.
HandleHasAttempt == handle => main \in Working \cup {"cleanup"}

\* An attempt that has passed its first look at g_suspended only sees the flag
\* when a new session has been asked for, or is about to be.
SuspendIsRemembered ==
  main \in Working \cup {"prepare"} /\ suspended => moved \/ power = "suspending"

\* A transition function fails because of a plugin or with a rebuild to come.
FailureIsExplained == main = "failed" => broken \/ Pending

\* A process that gave up for a plugin has ended.
PluginExitIsOver == exit = "plugin" => main = "over"

\* A wake that has been answered has cleared g_suspended.
WakeClearsSuspend == power = "resumed" => ~suspended

\* The types, in the groups that the proofs take together.
PlaceTypes ==
  /\ main \in Places
  /\ ret \in {"start", "dispatch", "alarm"}
  /\ exit \in {"no", "setup", "plugin", "limit", "stopped"}

FlagTypes ==
  /\ handle \in BOOLEAN
  /\ held \subseteq Things
  /\ moved \in BOOLEAN
  /\ suspended \in BOOLEAN
  /\ linkUp \in BOOLEAN
  /\ linkCheck \in BOOLEAN
  /\ recent \in BOOLEAN
  /\ slept \in BOOLEAN
  /\ clockValid \in BOOLEAN
  /\ broken \in BOOLEAN

PowerType ==
  power \in {"idle", "suspending", "suspended", "asleep", "resuming", "resumed", "user"}

CountTypes ==
  /\ batch \in 0..Batch
  /\ sleeps \in 0..MaxSleeps
  /\ links \in 0..MaxLinks

Types == PlaceTypes /\ FlagTypes /\ PowerType /\ CountTypes

\* The inductive invariant.  That a failing transport is not fatal rests on
\* FailureIsExplained, which the notifications preserve only because of
\* SuspendIsRemembered: the flag they clear is not all that is pending.
Safety ==
  /\ SetupIsClean
  /\ CleanSlate
  /\ HandleHasAttempt
  /\ SuspendIsRemembered
  /\ FailureIsExplained
  /\ PluginExitIsOver
  /\ TransportFailureIsNotFatal
  /\ WakeClearsSuspend

IInv == Types /\ Safety

----------------------------------------------------------------------------
(* Types. *)

\* The parts of the type invariant are all of it.
LEMMA TypesAreTypeOK == Types <=> TypeOK
  BY DEF Types, TypeOK, PlaceTypes, FlagTypes, PowerType, CountTypes

\* The types hold at first,
LEMMA InitTypes == Init => Types
  <1> SUFFICES ASSUME Init PROVE Types
    OBVIOUS
  <1>1. PlaceTypes
    BY DEF Init, PlaceTypes, Places
  <1>2. FlagTypes
    BY DEF Init, FlagTypes
  <1>3. PowerType
    BY DEF Init, PowerType
  <1>4. CountTypes
    BY BatchAssumption, BoundsAssumption DEF Init, CountTypes
  <1> QED
    BY <1>1, <1>2, <1>3, <1>4 DEF Types

\* Every step leads to a place there is.
LEMMA PlaceTypesStep == PlaceTypes /\ [Next]_vars => PlaceTypes'
  <1> SUFFICES ASSUME PlaceTypes, [Next]_vars PROVE PlaceTypes'
    OBVIOUS
  <1> USE DEF PlaceTypes, Places, Working, At, shared, bounds, loop, owned, net, check, clock,
      fate, private
  <1>1. CASE Setup
    BY <1>1 DEF Setup, ExitProcess
  <1>2. CASE Begin
    BY <1>2 DEF Begin
  <1>3. CASE Checked("open", "prepare")
    BY <1>3 DEF Checked
  <1>4. CASE PrepareInterface
    BY <1>4 DEF PrepareInterface
  <1>5. CASE InitMachine
    BY <1>5 DEF InitMachine
  <1>6. CASE Start
    BY <1>6 DEF Start
  <1>7. CASE Switch
    BY <1>7 DEF Switch, Return
  <1>8. CASE Send
    BY <1>8 DEF Send, Return
  <1>9. CASE Failed
    BY <1>9 DEF Failed, Return, ExitProcess
  <1>10. CASE Capture
    BY <1>10 DEF Capture
  <1>11. CASE Poll
    BY <1>11 DEF Poll, EndPoll
  <1>12. CASE PollLink
    BY <1>12 DEF PollLink, EndPoll, AskLink
  <1>13. CASE QueryLink
    BY <1>13 DEF QueryLink, EndPoll
  <1>14. CASE Dispatch
    BY <1>14 DEF Dispatch, Handle, ExitProcess
  <1>15. CASE Alarm
    BY <1>15 DEF Alarm, Handle, ExitProcess
  <1>16. CASE Cleanup
    BY <1>16 DEF Cleanup
  <1>17. CASE SuspendRequest
    BY <1>17 DEF SuspendRequest
  <1>18. CASE ResumeAutomatic
    BY <1>18 DEF ResumeAutomatic
  <1>19. CASE ResumeAutomaticDone
    BY <1>19 DEF ResumeAutomaticDone
  <1>20. CASE ResumeSuspend
    BY <1>20 DEF ResumeSuspend
  <1>21. CASE ResumeSuspendRequest
    BY <1>21 DEF ResumeSuspendRequest
  <1>22. CASE ResumeLost
    BY <1>22 DEF ResumeLost
  <1>23. CASE Suspend
    BY <1>23 DEF Suspend
  <1>24. CASE Sleep
    BY <1>24 DEF Sleep, GoesToSleep
  <1>25. CASE SleepUnnoticed
    BY <1>25 DEF SleepUnnoticed, GoesToSleep
  <1>26. CASE LinkChanges
    BY <1>26 DEF LinkChanges
  <1>27. CASE SecondPasses
    BY <1>27 DEF SecondPasses
  <1>28. CASE Stop
    BY <1>28 DEF Stop, ExitProcess
  <1>29. CASE UNCHANGED vars
    BY <1>29 DEF vars
  <1> QED
    BY <1>1, <1>2, <1>3, <1>4, <1>5, <1>6, <1>7, <1>8, <1>9, <1>10, <1>11, <1>12, <1>13, <1>14,
       <1>15, <1>16, <1>17, <1>18, <1>19, <1>20, <1>21, <1>22, <1>23, <1>24, <1>25, <1>26, <1>27, <1>28, <1>29
    DEF Next, MainStep, PowerStep

\* Flags stay flags, and an attempt holds nothing but what there is to hold.
LEMMA FlagTypesStep == FlagTypes /\ [Next]_vars => FlagTypes'
  <1> SUFFICES ASSUME FlagTypes, [Next]_vars PROVE FlagTypes'
    OBVIOUS
  <1> USE DEF FlagTypes, Things, At, shared, bounds, loop, owned, net, check, clock,
      fate, private
  <1>1. CASE Setup
    BY <1>1 DEF Setup, ExitProcess
  <1>2. CASE Begin
    BY <1>2 DEF Begin
  <1>3. CASE Checked("open", "prepare")
    BY <1>3 DEF Checked
  <1>4. CASE PrepareInterface
    BY <1>4 DEF PrepareInterface
  <1>5. CASE InitMachine
    BY <1>5 DEF InitMachine
  <1>6. CASE Start
    BY <1>6 DEF Start
  <1>7. CASE Switch
    BY <1>7 DEF Switch, Return
  <1>8. CASE Send
    BY <1>8 DEF Send, Return
  <1>9. CASE Failed
    BY <1>9 DEF Failed, Return, ExitProcess
  <1>10. CASE Capture
    BY <1>10 DEF Capture
  <1>11. CASE Poll
    BY <1>11 DEF Poll, EndPoll
  <1>12. CASE PollLink
    BY <1>12 DEF PollLink, EndPoll, AskLink
  <1>13. CASE QueryLink
    BY <1>13 DEF QueryLink, EndPoll
  <1>14. CASE Dispatch
    BY <1>14 DEF Dispatch, Handle, ExitProcess
  <1>15. CASE Alarm
    BY <1>15 DEF Alarm, Handle, ExitProcess
  <1>16. CASE Cleanup
    BY <1>16 DEF Cleanup
  <1>17. CASE SuspendRequest
    BY <1>17 DEF SuspendRequest
  <1>18. CASE ResumeAutomatic
    BY <1>18 DEF ResumeAutomatic
  <1>19. CASE ResumeAutomaticDone
    BY <1>19 DEF ResumeAutomaticDone
  <1>20. CASE ResumeSuspend
    BY <1>20 DEF ResumeSuspend
  <1>21. CASE ResumeSuspendRequest
    BY <1>21 DEF ResumeSuspendRequest
  <1>22. CASE ResumeLost
    BY <1>22 DEF ResumeLost
  <1>23. CASE Suspend
    BY <1>23 DEF Suspend
  <1>24. CASE Sleep
    BY <1>24 DEF Sleep, GoesToSleep
  <1>25. CASE SleepUnnoticed
    BY <1>25 DEF SleepUnnoticed, GoesToSleep
  <1>26. CASE LinkChanges
    BY <1>26 DEF LinkChanges
  <1>27. CASE SecondPasses
    BY <1>27 DEF SecondPasses
  <1>28. CASE Stop
    BY <1>28 DEF Stop, ExitProcess
  <1>29. CASE UNCHANGED vars
    BY <1>29 DEF vars
  <1> QED
    BY <1>1, <1>2, <1>3, <1>4, <1>5, <1>6, <1>7, <1>8, <1>9, <1>10, <1>11, <1>12, <1>13, <1>14,
       <1>15, <1>16, <1>17, <1>18, <1>19, <1>20, <1>21, <1>22, <1>23, <1>24, <1>25, <1>26, <1>27, <1>28, <1>29
    DEF Next, MainStep, PowerStep

\* The power callbacks stay where they can be.
LEMMA PowerTypeStep == PowerType /\ [Next]_vars => PowerType'
  <1> SUFFICES ASSUME PowerType, [Next]_vars PROVE PowerType'
    OBVIOUS
  <1> USE DEF PowerType, At, shared, bounds, loop, owned, net, check, clock,
      fate, private
  <1>1. CASE Setup
    BY <1>1 DEF Setup, ExitProcess
  <1>2. CASE Begin
    BY <1>2 DEF Begin
  <1>3. CASE Checked("open", "prepare")
    BY <1>3 DEF Checked
  <1>4. CASE PrepareInterface
    BY <1>4 DEF PrepareInterface
  <1>5. CASE InitMachine
    BY <1>5 DEF InitMachine
  <1>6. CASE Start
    BY <1>6 DEF Start
  <1>7. CASE Switch
    BY <1>7 DEF Switch
  <1>8. CASE Send
    BY <1>8 DEF Send
  <1>9. CASE Failed
    BY <1>9 DEF Failed, ExitProcess
  <1>10. CASE Capture
    BY <1>10 DEF Capture
  <1>11. CASE Poll
    BY <1>11 DEF Poll, EndPoll
  <1>12. CASE PollLink
    BY <1>12 DEF PollLink, EndPoll
  <1>13. CASE QueryLink
    BY <1>13 DEF QueryLink, EndPoll
  <1>14. CASE Dispatch
    BY <1>14 DEF Dispatch, ExitProcess
  <1>15. CASE Alarm
    BY <1>15 DEF Alarm, ExitProcess
  <1>16. CASE Cleanup
    BY <1>16 DEF Cleanup
  <1>17. CASE SuspendRequest
    BY <1>17 DEF SuspendRequest
  <1>18. CASE ResumeAutomatic
    BY <1>18 DEF ResumeAutomatic
  <1>19. CASE ResumeAutomaticDone
    BY <1>19 DEF ResumeAutomaticDone
  <1>20. CASE ResumeSuspend
    BY <1>20 DEF ResumeSuspend
  <1>21. CASE ResumeSuspendRequest
    BY <1>21 DEF ResumeSuspendRequest
  <1>22. CASE ResumeLost
    BY <1>22 DEF ResumeLost
  <1>23. CASE Suspend
    BY <1>23 DEF Suspend
  <1>24. CASE Sleep
    BY <1>24 DEF Sleep, GoesToSleep
  <1>25. CASE SleepUnnoticed
    BY <1>25 DEF SleepUnnoticed, GoesToSleep
  <1>26. CASE LinkChanges
    BY <1>26 DEF LinkChanges
  <1>27. CASE SecondPasses
    BY <1>27 DEF SecondPasses
  <1>28. CASE Stop
    BY <1>28 DEF Stop, ExitProcess
  <1>29. CASE UNCHANGED vars
    BY <1>29 DEF vars
  <1> QED
    BY <1>1, <1>2, <1>3, <1>4, <1>5, <1>6, <1>7, <1>8, <1>9, <1>10, <1>11, <1>12, <1>13, <1>14,
       <1>15, <1>16, <1>17, <1>18, <1>19, <1>20, <1>21, <1>22, <1>23, <1>24, <1>25, <1>26, <1>27, <1>28, <1>29
    DEF Next, MainStep, PowerStep

\* No batch grows beyond its limit, and the bounds hold.
LEMMA CountTypesStep == CountTypes /\ [Next]_vars => CountTypes'
  <1> SUFFICES ASSUME CountTypes, [Next]_vars PROVE CountTypes'
    OBVIOUS
  <1> USE BatchAssumption, BoundsAssumption DEF CountTypes, At, shared, bounds, loop, owned, net, check, clock,
      fate, private
  <1>1. CASE Setup
    BY <1>1 DEF Setup, ExitProcess
  <1>2. CASE Begin
    BY <1>2 DEF Begin
  <1>3. CASE Checked("open", "prepare")
    BY <1>3 DEF Checked
  <1>4. CASE PrepareInterface
    BY <1>4 DEF PrepareInterface
  <1>5. CASE InitMachine
    BY <1>5 DEF InitMachine
  <1>6. CASE Start
    BY <1>6 DEF Start
  <1>7. CASE Switch
    BY <1>7 DEF Switch
  <1>8. CASE Send
    BY <1>8 DEF Send
  <1>9. CASE Failed
    BY <1>9 DEF Failed, ExitProcess
  <1>10. CASE Capture
    BY <1>10 DEF Capture
  <1>11. CASE Poll
    BY <1>11 DEF Poll, EndPoll
  <1>12. CASE PollLink
    BY <1>12 DEF PollLink, EndPoll, AskLink
  <1>13. CASE QueryLink
    BY <1>13 DEF QueryLink, EndPoll
  <1>14. CASE Dispatch
    BY <1>14 DEF Dispatch, ExitProcess
  <1>15. CASE Alarm
    BY <1>15 DEF Alarm, ExitProcess
  <1>16. CASE Cleanup
    BY <1>16 DEF Cleanup
  <1>17. CASE SuspendRequest
    BY <1>17 DEF SuspendRequest
  <1>18. CASE ResumeAutomatic
    BY <1>18 DEF ResumeAutomatic
  <1>19. CASE ResumeAutomaticDone
    BY <1>19 DEF ResumeAutomaticDone
  <1>20. CASE ResumeSuspend
    BY <1>20 DEF ResumeSuspend
  <1>21. CASE ResumeSuspendRequest
    BY <1>21 DEF ResumeSuspendRequest
  <1>22. CASE ResumeLost
    BY <1>22 DEF ResumeLost
  <1>23. CASE Suspend
    BY <1>23 DEF Suspend
  <1>24. CASE Sleep
    BY <1>24 DEF Sleep, GoesToSleep
  <1>25. CASE SleepUnnoticed
    BY <1>25 DEF SleepUnnoticed, GoesToSleep
  <1>26. CASE LinkChanges
    BY <1>26 DEF LinkChanges
  <1>27. CASE SecondPasses
    BY <1>27 DEF SecondPasses
  <1>28. CASE Stop
    BY <1>28 DEF Stop, ExitProcess
  <1>29. CASE UNCHANGED vars
    BY <1>29 DEF vars
  <1> QED
    BY <1>1, <1>2, <1>3, <1>4, <1>5, <1>6, <1>7, <1>8, <1>9, <1>10, <1>11, <1>12, <1>13, <1>14,
       <1>15, <1>16, <1>17, <1>18, <1>19, <1>20, <1>21, <1>22, <1>23, <1>24, <1>25, <1>26, <1>27, <1>28, <1>29
    DEF Next, MainStep, PowerStep

\* and after every step.
LEMMA TypesStep == Types /\ [Next]_vars => Types'
  BY PlaceTypesStep, FlagTypesStep, PowerTypeStep, CountTypesStep DEF Types

----------------------------------------------------------------------------
(* Safety. *)

\* Nothing is held, pending or suspended at first.
LEMMA InitSafety == Init => Safety
  BY DEF Init, Safety, Working, Pending, SetupIsClean, CleanSlate, HandleHasAttempt, SuspendIsRemembered,
      FailureIsExplained, PluginExitIsOver, TransportFailureIsNotFatal, WakeClearsSuspend

\* Every step keeps the safety part.
LEMMA SafetyStep == IInv /\ [Next]_vars => Safety'
  <1> SUFFICES ASSUME PlaceTypes, FlagTypes, Safety, [Next]_vars PROVE Safety'
    BY DEF IInv, Types
  <1>0. ret \in {"start", "dispatch", "alarm"} /\ moved \in BOOLEAN /\ handle \in BOOLEAN
    BY DEF PlaceTypes, FlagTypes
  <1> USE <1>0 DEF Safety, Working, Pending, Alive, SetupIsClean, CleanSlate, HandleHasAttempt, SuspendIsRemembered,
      FailureIsExplained, PluginExitIsOver, TransportFailureIsNotFatal, WakeClearsSuspend,
      At, shared, bounds, loop, owned, net, check, clock,
      fate, private
  <1>1. CASE Setup
    BY <1>1 DEF Setup, ExitProcess
  <1>2. CASE Begin
    BY <1>2 DEF Begin
  <1>3. CASE Checked("open", "prepare")
    BY <1>3 DEF Checked
  <1>4. CASE PrepareInterface
    BY <1>4 DEF PrepareInterface
  <1>5. CASE InitMachine
    BY <1>5 DEF InitMachine
  <1>6. CASE Start
    BY <1>6 DEF Start
  <1>7. CASE Switch
    BY <1>7 DEF Switch, Return
  <1>8. CASE Send
    BY <1>8 DEF Send, Return
  <1>9. CASE Failed
    BY <1>9 DEF Failed, Return, ExitProcess
  <1>10. CASE Capture
    BY <1>10 DEF Capture
  <1>11. CASE Poll
    BY <1>11 DEF Poll, EndPoll
  <1>12. CASE PollLink
    BY <1>12 DEF PollLink, EndPoll, AskLink
  <1>13. CASE QueryLink
    BY <1>13 DEF QueryLink, EndPoll
  <1>14. CASE Dispatch
    BY <1>14 DEF Dispatch, Handle, ExitProcess
  <1>15. CASE Alarm
    BY <1>15 DEF Alarm, Handle, ExitProcess
  <1>16. CASE Cleanup
    BY <1>16 DEF Cleanup
  <1>17. CASE SuspendRequest
    BY <1>17 DEF SuspendRequest
  <1>18. CASE ResumeAutomatic
    BY <1>18 DEF ResumeAutomatic
  <1>19. CASE ResumeAutomaticDone
    BY <1>19 DEF ResumeAutomaticDone
  <1>20. CASE ResumeSuspend
    BY <1>20 DEF ResumeSuspend
  <1>21. CASE ResumeSuspendRequest
    BY <1>21 DEF ResumeSuspendRequest
  <1>22. CASE ResumeLost
    BY <1>22 DEF ResumeLost
  <1>23. CASE Suspend
    BY <1>23 DEF Suspend
  <1>24. CASE Sleep
    BY <1>24 DEF Sleep, GoesToSleep
  <1>25. CASE SleepUnnoticed
    BY <1>25 DEF SleepUnnoticed, GoesToSleep
  <1>26. CASE LinkChanges
    BY <1>26 DEF LinkChanges
  <1>27. CASE SecondPasses
    BY <1>27 DEF SecondPasses
  <1>28. CASE Stop
    BY <1>28 DEF Stop, ExitProcess
  <1>29. CASE UNCHANGED vars
    BY <1>29 DEF vars
  <1> QED
    BY <1>1, <1>2, <1>3, <1>4, <1>5, <1>6, <1>7, <1>8, <1>9, <1>10, <1>11, <1>12, <1>13, <1>14,
       <1>15, <1>16, <1>17, <1>18, <1>19, <1>20, <1>21, <1>22, <1>23, <1>24, <1>25, <1>26, <1>27, <1>28, <1>29
    DEF Next, MainStep, PowerStep

\* The inductive invariant holds always.
LEMMA Invariance == Spec => []IInv
  <1>1. Init => IInv
    BY InitTypes, InitSafety DEF IInv
  <1>2. IInv /\ [Next]_vars => IInv'
    BY TypesStep, SafetyStep DEF IInv
  <1> QED
    BY <1>1, <1>2, PTL DEF Spec

\* The variables keep their types, and no batch of frames or alarms grows
\* beyond its limit, whatever the limit is.
THEOREM WinRecoveryTypes == Spec => []TypeOK
  <1>1. IInv => TypeOK
    BY TypesAreTypeOK DEF IInv
  <1> QED
    BY <1>1, Invariance, PTL

\* run_windows_network begins an attempt, and prepares its interface, with no
\* alarm, no session and no handle of an earlier one.
THEOREM EveryAttemptStartsClean == Spec => []CleanSlate
  <1>1. IInv => CleanSlate
    BY DEF IInv, Safety
  <1> QED
    BY <1>1, Invariance, PTL

\* switch_to_state only ends the process for a plugin: after a frame that could
\* not be sent, a reconnect is still pending when it looks a second time,
\* although a resume may have cleared g_suspended in between.
THEOREM TransportNeverExits == Spec => []TransportFailureIsNotFatal
  <1>1. IInv => TransportFailureIsNotFatal
    BY DEF IInv, Safety
  <1> QED
    BY <1>1, Invariance, PTL

\* Nothing takes a request for a new session back before the attempt is over:
\* not the resume that clears g_suspended, not the poll that writes the clocks.
THEOREM RequestsAreKept == Spec => PendingSticks
  <1>1. IInv /\ [Next]_vars => [PendingSticksStep]_vars
    <2> SUFFICES ASSUME PlaceTypes, FlagTypes, SuspendIsRemembered, Next PROVE PendingSticksStep
      BY DEF IInv, Types, Safety
    <2>0. ret \in {"start", "dispatch", "alarm"} /\ moved \in BOOLEAN
      BY DEF PlaceTypes, FlagTypes
    <2> USE <2>0 DEF PendingSticksStep, SuspendIsRemembered, Working, Pending, Alive,
        At, shared, bounds, loop, owned, net, check, clock,
      fate, private
    <2>1. CASE Setup
      BY <2>1 DEF Setup, ExitProcess
    <2>2. CASE Begin
      BY <2>2 DEF Begin
    <2>3. CASE Checked("open", "prepare")
      BY <2>3 DEF Checked
    <2>4. CASE PrepareInterface
      BY <2>4 DEF PrepareInterface
    <2>5. CASE InitMachine
      BY <2>5 DEF InitMachine
    <2>6. CASE Start
      BY <2>6 DEF Start
    <2>7. CASE Switch
      BY <2>7 DEF Switch, Return
    <2>8. CASE Send
      BY <2>8 DEF Send, Return
    <2>9. CASE Failed
      BY <2>9 DEF Failed, Return, ExitProcess
    <2>10. CASE Capture
      BY <2>10 DEF Capture
    <2>11. CASE Poll
      BY <2>11 DEF Poll, EndPoll
    <2>12. CASE PollLink
      BY <2>12 DEF PollLink, EndPoll, AskLink
    <2>13. CASE QueryLink
      BY <2>13 DEF QueryLink, EndPoll
    <2>14. CASE Dispatch
      BY <2>14 DEF Dispatch, Handle, ExitProcess
    <2>15. CASE Alarm
      BY <2>15 DEF Alarm, Handle, ExitProcess
    <2>16. CASE Cleanup
      BY <2>16 DEF Cleanup
    <2>17. CASE SuspendRequest
      BY <2>17 DEF SuspendRequest
    <2>18. CASE ResumeAutomatic
      BY <2>18 DEF ResumeAutomatic
    <2>19. CASE ResumeAutomaticDone
      BY <2>19 DEF ResumeAutomaticDone
    <2>20. CASE ResumeSuspend
      BY <2>20 DEF ResumeSuspend
    <2>21. CASE ResumeSuspendRequest
      BY <2>21 DEF ResumeSuspendRequest
    <2>22. CASE ResumeLost
      BY <2>22 DEF ResumeLost
    <2>23. CASE Suspend
      BY <2>23 DEF Suspend
    <2>24. CASE Sleep
      BY <2>24 DEF Sleep, GoesToSleep
    <2>25. CASE SleepUnnoticed
      BY <2>25 DEF SleepUnnoticed, GoesToSleep
    <2>26. CASE LinkChanges
      BY <2>26 DEF LinkChanges
    <2>27. CASE SecondPasses
      BY <2>27 DEF SecondPasses
    <2>28. CASE Stop
      BY <2>28 DEF Stop, ExitProcess
    <2> QED
      BY <2>1, <2>2, <2>3, <2>4, <2>5, <2>6, <2>7, <2>8, <2>9, <2>10, <2>11, <2>12, <2>13, <2>14,
         <2>15, <2>16, <2>17, <2>18, <2>19, <2>20, <2>21, <2>22, <2>23, <2>24, <2>25, <2>26, <2>27, <2>28
      DEF Next, MainStep, PowerStep
  <1> QED
    BY <1>1, Invariance, PTL DEF Spec, PendingSticks

\* Once PBT_APMRESUMEAUTOMATIC has asked for a new session, no later callback of
\* the same wake asks for another.
THEOREM OneWakeOneRequest == Spec => OneWakeOneTeardown
  <1> DEFINE Step == WakeAnswered /\ power' \in {"resumed", "idle", "user"} /\ power' # power
                       => moved' = moved /\ power' # "user"
  <1>1. WakeClearsSuspend /\ [Next]_vars => [Step]_vars
    <2> SUFFICES ASSUME WakeClearsSuspend, Next PROVE Step
      OBVIOUS
    <2> USE DEF WakeAnswered, WakeClearsSuspend, At, shared
    <2>1. CASE MainStep \/ Stop
      <3>1. power' = power
        BY <2>1 DEF MainStep, Setup, Begin, Checked, PrepareInterface, InitMachine, Start, Switch,
                    Send, Failed, Capture, Poll, PollLink, QueryLink, Dispatch, Alarm, Cleanup, Stop
      <3> QED
        BY <3>1
    <2>2. CASE PowerStep
      BY <2>2 DEF PowerStep, SuspendRequest, ResumeAutomatic, ResumeAutomaticDone, ResumeSuspend,
                  ResumeSuspendRequest, ResumeLost
    <2>3. CASE Suspend \/ Sleep \/ SleepUnnoticed
      BY <2>3 DEF Suspend, Sleep, SleepUnnoticed, GoesToSleep
    <2>4. CASE LinkChanges \/ SecondPasses
      BY <2>4 DEF LinkChanges, SecondPasses
    <2> QED
      BY <2>1, <2>2, <2>3, <2>4 DEF Next
  <1>2. IInv => WakeClearsSuspend
    BY DEF IInv, Safety
  <1>3. IInv /\ [Next]_vars => [Step]_vars
    BY <1>1, <1>2
  <1> QED
    BY <1>3, Invariance, PTL DEF Spec, OneWakeOneTeardown

----------------------------------------------------------------------------
(* Refinement. *)

\* Every step of the rebuild loop and of the notifications is a step of
\* NetworkAttempt or none: a handle that a disturbance has reached is closed
\* before it counts as undisturbed again.  (That it is closed in the end is
\* model-checked.)
THEOREM AttemptsAreKeptApart == Spec => Attempt!Spec
  <1>1. Init => Attempt!Init
    BY DEF Init, Attempt!Init
  <1>2. IInv /\ [Next]_vars => [Attempt!Next]_(Attempt!vars)
    <2> SUFFICES ASSUME PlaceTypes, FlagTypes, HandleHasAttempt, [Next]_vars
                 PROVE  [Attempt!Next]_(Attempt!vars)
      BY DEF IInv, Types, Safety
    <2>0. ret \in {"start", "dispatch", "alarm"} /\ moved \in BOOLEAN /\ handle \in BOOLEAN
      BY DEF PlaceTypes, FlagTypes
    <2> USE <2>0 DEF HandleHasAttempt, Working, Pending, Attempt!Next, Attempt!Open, Attempt!Close,
        Attempt!Disturb, Attempt!vars, At, shared, bounds, loop, owned, net, check, clock,
      fate, private
    <2>1. CASE Setup
      BY <2>1 DEF Setup, ExitProcess
    <2>2. CASE Begin
      BY <2>2 DEF Begin
    <2>3. CASE Checked("open", "prepare")
      BY <2>3 DEF Checked
    <2>4. CASE PrepareInterface
      BY <2>4 DEF PrepareInterface
    <2>5. CASE InitMachine
      BY <2>5 DEF InitMachine
    <2>6. CASE Start
      BY <2>6 DEF Start
    <2>7. CASE Switch
      BY <2>7 DEF Switch, Return
    <2>8. CASE Send
      BY <2>8 DEF Send, Return
    <2>9. CASE Failed
      BY <2>9 DEF Failed, Return, ExitProcess
    <2>10. CASE Capture
      BY <2>10 DEF Capture
    <2>11. CASE Poll
      BY <2>11 DEF Poll, EndPoll
    <2>12. CASE PollLink
      BY <2>12 DEF PollLink, EndPoll, AskLink
    <2>13. CASE QueryLink
      BY <2>13 DEF QueryLink, EndPoll
    <2>14. CASE Dispatch
      BY <2>14 DEF Dispatch, Handle, ExitProcess
    <2>15. CASE Alarm
      BY <2>15 DEF Alarm, Handle, ExitProcess
    <2>16. CASE Cleanup
      BY <2>16 DEF Cleanup
    <2>17. CASE SuspendRequest
      BY <2>17 DEF SuspendRequest
    <2>18. CASE ResumeAutomatic
      BY <2>18 DEF ResumeAutomatic
    <2>19. CASE ResumeAutomaticDone
      BY <2>19 DEF ResumeAutomaticDone
    <2>20. CASE ResumeSuspend
      BY <2>20 DEF ResumeSuspend
    <2>21. CASE ResumeSuspendRequest
      BY <2>21 DEF ResumeSuspendRequest
    <2>22. CASE ResumeLost
      BY <2>22 DEF ResumeLost
    <2>23. CASE Suspend
      BY <2>23 DEF Suspend
    <2>24. CASE Sleep
      BY <2>24 DEF Sleep, GoesToSleep
    <2>25. CASE SleepUnnoticed
      BY <2>25 DEF SleepUnnoticed, GoesToSleep
    <2>26. CASE LinkChanges
      BY <2>26 DEF LinkChanges
    <2>27. CASE SecondPasses
      BY <2>27 DEF SecondPasses
    <2>28. CASE Stop
      BY <2>28 DEF Stop, ExitProcess
    <2>29. CASE UNCHANGED vars
      BY <2>29 DEF vars
    <2> QED
      BY <2>1, <2>2, <2>3, <2>4, <2>5, <2>6, <2>7, <2>8, <2>9, <2>10, <2>11, <2>12, <2>13, <2>14,
         <2>15, <2>16, <2>17, <2>18, <2>19, <2>20, <2>21, <2>22, <2>23, <2>24, <2>25, <2>26, <2>27, <2>28, <2>29
      DEF Next, MainStep, PowerStep
  <1> QED
    BY <1>1, <1>2, Invariance, PTL DEF Spec, Attempt!Spec
=============================================================================
