----------------------------- MODULE SchedAlarm -----------------------------
(***************************************************************************)
(* The POSIX half of util/sched_alarm.c: a list of events multiplexed on   *)
(* the one timer of alarm().                                               *)
(*                                                                         *)
(* Events are appended with increasing ids, so a list is a set of events   *)
(* whose order is the order of their ids.  The main program calls          *)
(* schedule_alarm and unschedule_alarm while no handler runs, and each of  *)
(* its calls is one step: that SIGALRM may interrupt a call half way is    *)
(* not modelled here.  The SIGALRM handler takes several steps, and        *)
(* between them the callbacks it calls may schedule and unschedule too.    *)
(* The handler takes no time.                                              *)
(***************************************************************************)
EXTENDS Integers, FiniteSets, FiniteSetsExt

CONSTANTS
  Delays,      \* the secs that callers ask for
  Never,       \* INT_MAX: the timer when there is nothing to wait for
  MaxEvents    \* bound: calls of schedule_alarm in a behaviour

ASSUME DelaysAssumption == Delays \subseteq 0..(Never - 1)
ASSUME NeverAssumption == Never \in Nat \ {0}
ASSUME MaxEventsAssumption == MaxEvents \in Nat

VARIABLES
  list,     \* g_alarm_list
  temp,     \* g_alarm_list_add_temp
  lastId,   \* g_last_id
  ringing,  \* g_ringing
  lastFired, \* position of the traversal: the last id called in this ring
  lastSet,  \* g_last_set_time; the kernel timer is off when it is 0
  elapsed,  \* seconds since the kernel timer was set
  fired,    \* history: ids whose callback has been called
  cancelled, \* history: ids given to unschedule_alarm
  since     \* history: the last id handed out when the last ring began

vars == <<list, temp, lastId, ringing, lastFired, lastSet, elapsed, fired,
          cancelled, since>>

\* ALARM_EVENT.  left is the field remaining; due is history: the seconds
\* until the caller wanted the callback, negative when it is late.
Event == [id : 1..MaxEvents, left : Int, marked : BOOLEAN, due : Int]

\* Bug: the id is taken before the counter is incremented.
NewEventOldId(secs) ==
  [id |-> lastId, left |-> secs, marked |-> FALSE, due |-> secs]

NewEvent(secs) ==
  [id |-> lastId + 1, left |-> secs, marked |-> FALSE, due |-> secs]

\* Bug: an event that has just run out is kept.
SurvivesExpiry(e) == e.left >= 0 /\ ~e.marked

\* Bug: the clean-up forgets the events marked while ringing.
SurvivesMark(e) == e.left > 0

\* alarm_valid_cmpfunc does not match: the event survives the clean-up.
Survives(e) == e.left > 0 /\ ~e.marked

\* find_min_remaining
MinRemaining(events) == Min({Never} \cup ({e.left : e \in events} \ {0}))

\* Bug: the timer in progress is not considered.
TimeLeftIgnored == Never

\* What alarm(0) returns, with 0 read as INT_MAX.
TimeLeft == IF lastSet = 0 THEN Never ELSE lastSet - elapsed

\* update_remaining_single over a list.
Aged(events, secs) == {[e EXCEPT !.left = @ - secs] : e \in events}

\* A second passes for what the callers wait for.
Awaited(events) == {[e EXCEPT !.due = @ - 1] : e \in events}

\* alarm_mark_as_delete_single over a list.
Mark(events, id) ==
  {[e EXCEPT !.marked = @ \/ e.id = id] : e \in events}

\* The events fire_single still has to call in this ring.
ToFire == {e \in list : e.left <= 0 /\ e.id > lastFired}

InCallback == ringing /\ lastFired > 0

\* The kernel timer has run out: SIGALRM interrupts whatever is running.
Expired == lastSet > 0 /\ elapsed = lastSet

\* The main program runs between two signals.
MainRuns == ~ringing /\ ~Expired

TypeOK ==
  /\ list \subseteq Event
  /\ temp \subseteq Event
  /\ lastId \in 0..MaxEvents
  /\ ringing \in BOOLEAN
  /\ lastFired \in 0..MaxEvents
  /\ lastSet \in 0..Never
  /\ elapsed \in 0..lastSet
  /\ fired \subseteq 1..MaxEvents
  /\ cancelled \subseteq 1..MaxEvents
  /\ since \in 0..MaxEvents

----------------------------------------------------------------------------
(* Called from the main program. *)

Schedule(secs) ==
  /\ MainRuns
  /\ lastId < MaxEvents
  /\ lastSet' = Min({TimeLeft, secs})
  /\ elapsed' = 0
  /\ list' = list \cup {NewEvent(secs)}
  /\ lastId' = lastId + 1
  /\ UNCHANGED <<temp, ringing, lastFired, fired, cancelled, since>>

Unschedule(id) ==
  /\ MainRuns
  /\ list' = {e \in list : e.id # id}
  /\ cancelled' = cancelled \cup {id}
  /\ UNCHANGED <<temp, lastId, ringing, lastFired, lastSet, elapsed, fired,
                 since>>

----------------------------------------------------------------------------
(* Called from a callback of the handler. *)

CallbackSchedule(secs) ==
  /\ InCallback
  /\ lastId < MaxEvents
  /\ temp' = temp \cup {NewEvent(secs)}
  /\ lastId' = lastId + 1
  /\ UNCHANGED <<list, ringing, lastFired, lastSet, elapsed, fired, cancelled,
                 since>>

\* Whatever it is given is only marked: the event may be due in this very
\* ring, or new in it.
CallbackUnschedule(id) ==
  /\ InCallback
  /\ list' = Mark(list, id)
  /\ temp' = Mark(temp, id)
  /\ cancelled' = cancelled \cup {id}
  /\ UNCHANGED <<lastId, ringing, lastFired, lastSet, elapsed, fired, since>>

----------------------------------------------------------------------------
(* alarm_sig_handler. *)

\* On entry every event is g_last_set_time older.
Ring ==
  /\ ~ringing
  /\ Expired
  /\ ringing' = TRUE
  /\ lastFired' = 0
  /\ elapsed' = 0
  /\ list' = Aged(list, lastSet)
  /\ since' = lastId
  /\ UNCHANGED <<temp, lastId, lastSet, fired, cancelled>>

\* fire_single calls the next expired event, marked or not.
Fire(e) ==
  /\ ringing
  /\ e \in ToFire
  /\ \A f \in ToFire : e.id <= f.id
  /\ lastFired' = e.id
  /\ fired' = fired \cup {e.id}
  /\ UNCHANGED <<list, temp, lastId, ringing, lastSet, elapsed, cancelled, since>>

\* Bug: the second list is forgotten before it is appended.
RingEndForgetting ==
  /\ ringing
  /\ ToFire = {}
  /\ list' = {e \in list : Survives(e)}
  /\ temp' = {}
  /\ lastSet' = MinRemaining(list')
  /\ elapsed' = 0
  /\ ringing' = FALSE
  /\ lastFired' = 0
  /\ UNCHANGED <<lastId, fired, cancelled, since>>

\* Clean up the first list, append what the callbacks scheduled, cancelled or
\* not, and set the timer.
RingEnd ==
  /\ ringing
  /\ ToFire = {}
  /\ list' = {e \in list : Survives(e)} \cup temp
  /\ temp' = {}
  /\ lastSet' = MinRemaining(list')
  /\ elapsed' = 0
  /\ ringing' = FALSE
  /\ lastFired' = 0
  /\ UNCHANGED <<lastId, fired, cancelled, since>>

----------------------------------------------------------------------------

\* A second passes while the kernel timer runs.
Second ==
  /\ ~ringing
  /\ elapsed < lastSet
  /\ elapsed' = elapsed + 1
  /\ list' = Awaited(list)
  /\ UNCHANGED <<temp, lastId, ringing, lastFired, lastSet, fired, cancelled,
                 since>>

Init ==
  /\ list = {}
  /\ temp = {}
  /\ lastId = 0
  /\ ringing = FALSE
  /\ lastFired = 0
  /\ lastSet = 0
  /\ elapsed = 0
  /\ fired = {}
  /\ cancelled = {}
  /\ since = 0

Next ==
  \/ \E secs \in Delays : Schedule(secs)
  \/ \E secs \in Delays : CallbackSchedule(secs)
  \/ \E id \in 1..lastId : Unschedule(id)
  \/ \E id \in 1..lastId : CallbackUnschedule(id)
  \/ Ring
  \/ \E e \in list : Fire(e)
  \/ RingEnd
  \/ Second

Spec == Init /\ [][Next]_vars

\* The clock runs, the kernel delivers SIGALRM and the handler returns.
FairSpec ==
  /\ Spec
  /\ WF_vars(Second)
  /\ WF_vars(Ring)
  /\ WF_vars(\E e \in list : Fire(e))
  /\ WF_vars(RingEnd)

----------------------------------------------------------------------------
(* What the scheduler guarantees. *)

\* fire_single has passed this event in the ring in progress.
Passed(e) == ringing /\ e.left <= 0 /\ e.id <= lastFired

\* The events that a caller still expects to be called: not unscheduled, and
\* not yet called by the ring in progress.
Live == {e \in list \cup temp : ~e.marked /\ ~Passed(e)}

\* The events that are called although they were unscheduled: those this ring
\* has still to call, and those new in the ring that marked them, which its
\* clean-up does not see.
Doomed == {e \in list : e.marked /\ (ringing => e \in ToFire)}
            \cup {e \in temp : e.marked}

\* What AlarmService sees of an event.
Known(events) == {[id |-> e.id, due |-> e.due] : e \in events}

Promised == INSTANCE AlarmService WITH
  pending <- Known(Live), tardy <- Known(Doomed), calling <- ringing,
  issued <- lastId

\* Every event is called once and never early; an unscheduled event is called
\* only by the ring that was under way, if it was due in it, or by the ring
\* after that, if it was scheduled in the one that unscheduled it: this is
\* what sched_alarm.c makes of the promise of sched_alarm.h.
Implements == Promised!Spec

\* Outside the handler the kernel timer is set no later than the first event
\* of the list runs out, so none can be slept through.
TimerCoversEvents ==
  ~ringing => \A e \in list : 0 < lastSet /\ lastSet <= e.left

\* What the handler leaves in the list has time left, and is unscheduled only
\* if it was scheduled in that very ring (alarm_sig_handler cleans up before it
\* appends): a half-removed event outlives no second ring.
RingLeavesListClean ==
  ~ringing => temp = {} /\ \A e \in list : e.left > 0 /\ (e.marked => e.id > since)

\* A scheduled callback is called in the end, unless it is unscheduled.
EveryEventRings ==
  \A id \in 1..MaxEvents : id <= lastId ~> id \in fired \cup cancelled

\* No callback is called after its event was unscheduled, not even by the ring
\* in which that happened.
CancelledNotCalled ==
  [][(fired' \ fired) \cap cancelled = {}]_vars

\* A callback is called in the very second it was asked for: the handler
\* subtracts the time that has passed from every other event.
CalledOnTime ==
  [][\A e \in list : e.id \in fired' \ fired => e.due = 0]_vars

=============================================================================
