---------------------------- MODULE AlarmService ----------------------------
(***************************************************************************)
(* What the callers of sched_alarm.h can rely on: schedule_alarm(secs,     *)
(* func) calls func once, secs seconds later or as soon after that as it   *)
(* can, unless unschedule_alarm is given the id first.                     *)
(*                                                                         *)
(* Outside a callback unschedule_alarm is final.  In a callback it may be  *)
(* too late for an event that is already due, which is then called before  *)
(* the callbacks of this ring are over, and it may miss one that was       *)
(* scheduled since they began, which is then called by the next ring or    *)
(* never.                                                                  *)
(*                                                                         *)
(* Time is relative: due is the number of seconds until the callback is    *)
(* due, negative when it is late.  How late a callback may be is not       *)
(* promised, only that it is never early.                                  *)
(***************************************************************************)
EXTENDS Integers

CONSTANTS
  Delays,    \* the secs that callers ask for
  MaxEvents  \* bound: calls of schedule_alarm in a behaviour

VARIABLES
  pending,   \* the scheduled events: id and due
  tardy,     \* unscheduled in a callback and still called, perhaps
  calling,   \* a ring is calling its callbacks
  since,     \* the last id handed out when that ring began
  fired,     \* ids whose callback has been called
  cancelled, \* ids given to unschedule_alarm
  issued     \* the last id handed out

vars == <<pending, tardy, calling, since, fired, cancelled, issued>>

Init ==
  /\ pending = {}
  /\ tardy = {}
  /\ calling = FALSE
  /\ since = 0
  /\ fired = {}
  /\ cancelled = {}
  /\ issued = 0

Schedule(secs) ==
  /\ issued < MaxEvents
  /\ issued' = issued + 1
  /\ pending' = pending \cup {[id |-> issued + 1, due |-> secs]}
  /\ UNCHANGED <<tardy, calling, since, fired, cancelled>>

Others(events, id) == {p \in events : p.id # id}

Unschedule(id) ==
  /\ ~calling
  /\ pending' = Others(pending, id)
  /\ tardy' = Others(tardy, id)
  /\ cancelled' = cancelled \cup {id}
  /\ UNCHANGED <<calling, since, fired, issued>>

\* What a callback comes too late for, and what it misses.
CallbackUnschedule(id) ==
  /\ calling
  /\ pending' = Others(pending, id)
  /\ tardy' \in {tardy, tardy \cup
       {p \in pending : p.id = id /\ (p.due <= 0 \/ id > since)}}
  /\ cancelled' = cancelled \cup {id}
  /\ UNCHANGED <<calling, since, fired, issued>>

Begin ==
  /\ ~calling
  /\ calling' = TRUE
  /\ since' = issued
  /\ tardy' \in SUBSET tardy
  /\ UNCHANGED <<pending, fired, cancelled, issued>>

Fire(p) ==
  /\ calling
  /\ p.due <= 0
  /\ pending' = pending \ {p}
  /\ tardy' = tardy \ {p}
  /\ fired' = fired \cup {p.id}
  /\ UNCHANGED <<calling, since, cancelled, issued>>

\* Only what was new in this ring can still be called although unscheduled.
End ==
  /\ calling
  /\ calling' = FALSE
  /\ tardy' = {p \in tardy : p.id > since}
  /\ UNCHANGED <<pending, since, fired, cancelled, issued>>

Later(events) == {[p EXCEPT !.due = @ - 1] : p \in events}

Second ==
  /\ ~calling
  /\ pending' = Later(pending)
  /\ tardy' = Later(tardy)
  /\ UNCHANGED <<calling, since, fired, cancelled, issued>>

Next ==
  \/ \E secs \in Delays : Schedule(secs)
  \/ \E id \in 1..issued : Unschedule(id) \/ CallbackUnschedule(id)
  \/ Begin
  \/ \E p \in pending \cup tardy : Fire(p)
  \/ End
  \/ Second

Spec == Init /\ [][Next]_vars

=============================================================================
