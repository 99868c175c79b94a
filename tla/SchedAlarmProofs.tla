-------------------------- MODULE SchedAlarmProofs --------------------------
(***************************************************************************)
(* The scheduler of sched_alarm.c keeps its promises for every set of      *)
(* delays, every INT_MAX and every number of events: its types for all     *)
(* callers, the rest for positive delays.                                  *)
(***************************************************************************)
EXTENDS SchedAlarm, WellFoundedInduction, TLAPS

----------------------------------------------------------------------------
(* Facts about the operators. *)

\* A non-empty set of naturals has a least element.
LEMMA LeastNatural ==
  ASSUME NEW S, S \subseteq Nat, S # {}
  PROVE  \E x \in S : \A y \in S : x <= y
  <1> DEFINE R == OpToRel(<, Nat)
  <1>1. IsWellFoundedOn(R, Nat)
    BY NatLessThanWellFounded
  <1> HIDE DEF R
  <1>2. PICK x \in S : \A y \in S : ~ (<<y, x>> \in R)
    BY <1>1, WFMin
  <1>3. \A y \in S : y < x => <<y, x>> \in R
    BY DEF R, OpToRel
  <1>4. \A y \in S : x <= y
    <2> TAKE y \in S
    <2>1. x \in Nat /\ y \in Nat
      OBVIOUS
    <2>2. ~(y < x)
      BY <1>2, <1>3
    <2> QED
      BY <2>1, <2>2
  <1> QED
    BY <1>4

\* Min is that element.
LEMMA MinIsLeast ==
  ASSUME NEW S, S \subseteq Nat, S # {}
  PROVE  Min(S) \in S /\ \A y \in S : Min(S) <= y
  BY LeastNatural DEF Min

\* The timer set for a list whose events have not run out is never off, and is
\* set no later than any of them.
LEMMA MinRemainingFacts ==
  ASSUME NEW events, \A e \in events : e.left \in Nat
  PROVE  /\ MinRemaining(events) \in 1..Never
         /\ \A e \in events : e.left > 0 => MinRemaining(events) <= e.left
  <1> DEFINE S == {Never} \cup ({e.left : e \in events} \ {0})
  <1>1. S \subseteq Nat /\ S # {} /\ Never \in S /\ 0 \notin S
    BY NeverAssumption
  <1>2. MinRemaining(events) = Min(S)
    BY DEF MinRemaining
  <1> HIDE DEF S
  <1>3. Min(S) \in S /\ \A y \in S : Min(S) <= y
    BY <1>1, MinIsLeast
  <1>4. Min(S) \in 1..Never
    <2>1. Min(S) \in Nat /\ Min(S) # 0 /\ Min(S) <= Never
      BY <1>1, <1>3
    <2> QED
      BY <2>1, NeverAssumption
  <1>5. \A e \in events : e.left > 0 => e.left \in S
    BY DEF S
  <1> QED
    BY <1>2, <1>3, <1>4, <1>5

\* A new event is an event.
LEMMA NewEventFacts ==
  ASSUME lastId \in 0..MaxEvents, lastId < MaxEvents, NEW secs \in Delays
  PROVE  /\ NewEvent(secs) \in Event
         /\ NewEvent(secs).id = lastId + 1
         /\ NewEvent(secs).left = secs
         /\ NewEvent(secs).due = secs
         /\ NewEvent(secs).marked = FALSE
         /\ secs \in Nat /\ secs < Never
  <1>1. secs \in Nat /\ secs < Never /\ lastId + 1 \in 1..MaxEvents
    BY DelaysAssumption, NeverAssumption, MaxEventsAssumption
  <1> QED
    BY <1>1 DEF NewEvent, Event

\* update_remaining_single counts every event of the list down.
LEMMA AgedMembers ==
  ASSUME NEW events \in SUBSET Event, NEW n \in Int
  PROVE  /\ Aged(events, n) \subseteq Event
         /\ \A f \in Aged(events, n) : \E e \in events :
              /\ f.id = e.id /\ f.left = e.left - n /\ f.due = e.due
              /\ f.marked = e.marked
         /\ \A e \in events : \E f \in Aged(events, n) :
              /\ f.id = e.id /\ f.left = e.left - n /\ f.due = e.due
              /\ f.marked = e.marked
  <1> DEFINE g(e) == [e EXCEPT !.left = @ - n]
  <1>1. ASSUME NEW e \in Event
        PROVE  /\ g(e) \in Event
               /\ g(e).id = e.id /\ g(e).left = e.left - n /\ g(e).due = e.due
               /\ g(e).marked = e.marked
    BY DEF Event
  <1>2. Aged(events, n) = {g(e) : e \in events}
    BY DEF Aged
  <1> HIDE DEF g
  <1> QED
    BY <1>1, <1>2

\* A second brings every event of the list closer.
LEMMA AwaitedMembers ==
  ASSUME NEW events \in SUBSET Event
  PROVE  /\ Awaited(events) \subseteq Event
         /\ \A f \in Awaited(events) : \E e \in events :
              /\ f.id = e.id /\ f.left = e.left /\ f.due = e.due - 1
              /\ f.marked = e.marked
         /\ \A e \in events : \E f \in Awaited(events) :
              /\ f.id = e.id /\ f.left = e.left /\ f.due = e.due - 1
              /\ f.marked = e.marked
  <1> DEFINE g(e) == [e EXCEPT !.due = @ - 1]
  <1>1. ASSUME NEW e \in Event
        PROVE  /\ g(e) \in Event
               /\ g(e).id = e.id /\ g(e).left = e.left /\ g(e).due = e.due - 1
               /\ g(e).marked = e.marked
    BY DEF Event
  <1>2. Awaited(events) = {g(e) : e \in events}
    BY DEF Awaited
  <1> HIDE DEF g
  <1> QED
    BY <1>1, <1>2

\* alarm_mark_as_delete_single marks the event it is given.
LEMMA MarkMembers ==
  ASSUME NEW events \in SUBSET Event, NEW id
  PROVE  /\ Mark(events, id) \subseteq Event
         /\ \A f \in Mark(events, id) : \E e \in events :
              /\ f.id = e.id /\ f.left = e.left /\ f.due = e.due
              /\ f.marked = (e.marked \/ e.id = id)
         /\ \A e \in events : \E f \in Mark(events, id) :
              /\ f.id = e.id /\ f.left = e.left /\ f.due = e.due
              /\ f.marked = (e.marked \/ e.id = id)
  <1> DEFINE g(e) == [e EXCEPT !.marked = @ \/ e.id = id]
  <1>1. ASSUME NEW e \in Event
        PROVE  /\ g(e) \in Event
               /\ g(e).id = e.id /\ g(e).left = e.left /\ g(e).due = e.due
               /\ g(e).marked = (e.marked \/ e.id = id)
    <2>1. (e.marked \/ e.id = id) \in BOOLEAN
      OBVIOUS
    <2> QED
      BY <2>1 DEF Event
  <1>2. Mark(events, id) = {g(e) : e \in events}
    BY DEF Mark
  <1> HIDE DEF g
  <1> QED
    BY <1>1, <1>2

----------------------------------------------------------------------------
(* Type correctness, for all callers. *)

\* The new timer never exceeds the time left of the old one nor the new delay.
LEMMA ScheduleTimer ==
  ASSUME TypeOK, NEW secs \in Delays
  PROVE  /\ Min({TimeLeft, secs}) \in {TimeLeft, secs}
         /\ Min({TimeLeft, secs}) <= TimeLeft
         /\ Min({TimeLeft, secs}) <= secs
         /\ TimeLeft \in 0..Never
         /\ Min({TimeLeft, secs}) \in 0..Never
  <1>1. TimeLeft \in 0..Never /\ secs \in Nat
    BY NeverAssumption, DelaysAssumption DEF TypeOK, TimeLeft
  <1>2. {TimeLeft, secs} \subseteq Nat /\ {TimeLeft, secs} # {}
    BY <1>1
  <1>3. /\ Min({TimeLeft, secs}) \in {TimeLeft, secs}
        /\ Min({TimeLeft, secs}) <= TimeLeft
        /\ Min({TimeLeft, secs}) <= secs
    BY <1>2, MinIsLeast
  <1>4. TimeLeft \in 0..Never /\ secs \in 0..Never
    BY <1>1, NeverAssumption, DelaysAssumption
  <1> QED
    BY <1>3, <1>4

\* Types, with the one fact they need: what waits in the second list has not
\* been counted down.
TypeInv == TypeOK /\ \A e \in temp : e.left \in Nat

\* The empty scheduler has the types.
LEMMA InitTypeInv == Init => TypeInv
  <1>1. 0 \in 0..MaxEvents /\ 0 \in 0..Never /\ 0 \in 0..0
    BY MaxEventsAssumption, NeverAssumption
  <1> QED
    BY <1>1 DEF Init, TypeOK, TypeInv

\* Every step keeps them.
LEMMA TypeInvStep == TypeInv /\ [Next]_vars => TypeInv'
  <1> SUFFICES ASSUME TypeInv, [Next]_vars PROVE TypeInv'
    OBVIOUS
  <1>1. TypeOK /\ \A e \in temp : e.left \in Nat
    BY DEF TypeInv
  <1>2. lastId \in 0..MaxEvents /\ \A id \in 1..lastId : id \in 1..MaxEvents
    <2>1. lastId \in 0..MaxEvents
      BY <1>1 DEF TypeOK
    <2> QED
      BY <2>1, MaxEventsAssumption
  <1>3. 0 \in 0..MaxEvents
    BY MaxEventsAssumption
  <1>4. ASSUME NEW secs \in Delays, lastId < MaxEvents
        PROVE  /\ NewEvent(secs) \in Event /\ NewEvent(secs).left \in Nat
               /\ secs \in Nat /\ secs < Never
               /\ lastId + 1 \in 0..MaxEvents
    <2>1. lastId + 1 \in 0..MaxEvents
      BY <1>2, <1>4, MaxEventsAssumption
    <2> QED
      BY <1>2, <1>4, <2>1, NewEventFacts
  <1>5. ASSUME NEW secs \in Delays, Schedule(secs) PROVE TypeInv'
    <2>1. lastId < MaxEvents /\ lastSet' = Min({TimeLeft, secs}) /\ elapsed' = 0
      BY <1>5 DEF Schedule
    <2>2. lastSet' \in 0..Never
      BY <1>1, <2>1, ScheduleTimer
    <2>3. 0 \in 0..lastSet'
      BY <2>2, NeverAssumption
    <2> QED
      BY <1>1, <1>4, <1>5, <2>1, <2>2, <2>3 DEF Schedule, TypeOK, TypeInv
  <1>6. ASSUME NEW secs \in Delays, CallbackSchedule(secs) PROVE TypeInv'
    <2>1. lastId < MaxEvents
      BY <1>6 DEF CallbackSchedule
    <2> QED
      BY <1>1, <1>4, <1>6, <2>1 DEF CallbackSchedule, TypeOK, TypeInv
  <1>7. ASSUME NEW id \in 1..lastId, Unschedule(id) PROVE TypeInv'
    <2>1. id \in 1..MaxEvents
      BY <1>2
    <2> QED
      BY <1>1, <1>7, <2>1 DEF Unschedule, TypeOK, TypeInv
  <1>8. ASSUME NEW id \in 1..lastId, CallbackUnschedule(id) PROVE TypeInv'
    <2>1. id \in 1..MaxEvents
      BY <1>2
    <2>2. list \subseteq Event /\ temp \subseteq Event
      BY <1>1 DEF TypeOK
    <2>3. /\ list' \subseteq Event /\ temp' \subseteq Event
          /\ \A e \in temp' : e.left \in Nat
      <3>1. list' = Mark(list, id) /\ temp' = Mark(temp, id)
        BY <1>8 DEF CallbackUnschedule
      <3> QED
        BY <1>1, <2>2, <3>1, MarkMembers
    <2> QED
      BY <1>1, <1>8, <2>1, <2>3 DEF CallbackUnschedule, TypeOK, TypeInv
  <1>9. CASE Ring
    <2>1. list \subseteq Event /\ lastSet \in Int
      BY <1>1 DEF TypeOK
    <2>2. list' \subseteq Event
      BY <1>9, <2>1, AgedMembers DEF Ring
    <2>3. 0 \in 0..lastSet
      BY <1>1, NeverAssumption DEF TypeOK
    <2> QED
      BY <1>1, <1>3, <1>9, <2>2, <2>3 DEF Ring, TypeOK, TypeInv
  <1>10. ASSUME NEW e \in list, Fire(e) PROVE TypeInv'
    <2>1. e.id \in 1..MaxEvents
      BY <1>1 DEF TypeOK, Event
    <2>2. e.id \in 0..MaxEvents
      BY <2>1, MaxEventsAssumption
    <2> QED
      BY <1>1, <1>10, <2>1, <2>2 DEF Fire, TypeOK, TypeInv
  <1>11. CASE RingEnd
    <2>1. list' = {e \in list : Survives(e)} \cup temp
      BY <1>11 DEF RingEnd
    <2>2. \A e \in list : Survives(e) => e.left \in Nat
      BY <1>1 DEF Survives, TypeOK, Event
    <2>3. list' \subseteq Event /\ \A e \in list' : e.left \in Nat
      BY <1>1, <2>1, <2>2 DEF TypeOK
    <2>4. MinRemaining(list') \in 1..Never
      BY <2>3, MinRemainingFacts
    <2>5. lastSet' \in 0..Never
      <3>1. lastSet' = MinRemaining(list')
        BY <1>11 DEF RingEnd
      <3>2. lastSet' \in 1..Never
        BY <2>4, <3>1
      <3> QED
        BY <3>2, NeverAssumption
    <2>6. 0 \in 0..lastSet'
      BY <2>5, NeverAssumption
    <2> QED
      BY <1>1, <1>3, <1>11, <2>3, <2>5, <2>6 DEF RingEnd, TypeOK, TypeInv
  <1>12. CASE Second
    <2>1. list \subseteq Event
      BY <1>1 DEF TypeOK
    <2>2. list' \subseteq Event
      BY <1>12, <2>1, AwaitedMembers DEF Second
    <2>3. elapsed' \in 0..lastSet'
      <3>1. /\ elapsed \in 0..lastSet /\ lastSet \in 0..Never
            /\ elapsed < lastSet /\ elapsed' = elapsed + 1 /\ lastSet' = lastSet
        BY <1>1, <1>12 DEF Second, TypeOK
      <3> QED
        BY <3>1, NeverAssumption
    <2> QED
      BY <1>1, <1>12, <2>2, <2>3 DEF Second, TypeOK, TypeInv
  <1>13. CASE UNCHANGED vars
    BY <1>1, <1>13 DEF vars, TypeOK, TypeInv
  <1> QED
    BY <1>5, <1>6, <1>7, <1>8, <1>9, <1>10, <1>11, <1>12, <1>13 DEF Next

\* Type correctness: in particular the kernel timer is never set beyond
\* INT_MAX nor to a negative time, whatever the callers do.
THEOREM TypeCorrect == Spec => []TypeOK
  <1>1. TypeInv => TypeOK
    BY DEF TypeInv
  <1> QED
    BY <1>1, InitTypeInv, TypeInvStep, PTL DEF Spec

----------------------------------------------------------------------------
(* Positive delays. *)

\* An id names one event in the two lists.
IdsIssued ==
  \A e \in list \cup temp : e.id <= lastId

IdsDistinct ==
  \A e, f \in list \cup temp :
    e.id = f.id => e.left = f.left /\ e.due = f.due /\ e.marked = f.marked

\* The time left is no less than what the caller still waits for: an event may
\* drift later but never earlier.
NeverEarly ==
  /\ \A e \in list : e.due <= e.left - elapsed
  /\ \A e \in temp : e.due <= e.left

RingIsInstant ==
  ringing => elapsed = 0

\* What callbacks scheduled is not due in the same ring, and is newer than it.
TempIsNew ==
  \A e \in temp : e.left > 0 /\ e.id > since

\* A ring begins with ids that have been handed out.
SinceIssued ==
  since <= lastId

\* The inductive invariant.
SInv ==
  /\ TypeInv
  /\ IdsIssued
  /\ IdsDistinct
  /\ NeverEarly
  /\ RingIsInstant
  /\ TempIsNew
  /\ SinceIssued
  /\ TimerCoversEvents
  /\ RingLeavesListClean

\* The types of what SInv speaks about.
LEMMA SInvTypes ==
  ASSUME SInv
  PROVE  /\ list \subseteq Event /\ temp \subseteq Event
         /\ \A e \in list \cup temp :
              e.id \in Nat /\ e.id > 0 /\ e.left \in Int /\ e.due \in Int
              /\ e.marked \in BOOLEAN
         /\ lastId \in Nat /\ lastFired \in Nat /\ since \in Nat
         /\ lastSet \in Nat /\ elapsed \in Nat /\ elapsed <= lastSet
  <1>1. TypeOK
    BY DEF SInv, TypeInv
  <1>2. list \subseteq Event /\ temp \subseteq Event
    BY <1>1 DEF TypeOK
  <1>3. lastId \in Nat /\ lastFired \in Nat /\ since \in Nat /\ lastSet \in Nat
    BY <1>1, MaxEventsAssumption, NeverAssumption DEF TypeOK
  <1>4. elapsed \in 0..lastSet
    BY <1>1 DEF TypeOK
  <1>5. \A e \in Event : e.id \in 1..MaxEvents /\ e.left \in Int /\ e.due \in Int
                         /\ e.marked \in BOOLEAN
    BY DEF Event
  <1>6. \A n \in 1..MaxEvents : n \in Nat /\ n > 0
    BY MaxEventsAssumption
  <1>7. elapsed \in Nat /\ elapsed <= lastSet
    BY <1>3, <1>4
  <1> QED
    BY <1>2, <1>3, <1>5, <1>6, <1>7

\* A call of schedule_alarm by the main program.
LEMMA ScheduleSInv ==
  ASSUME 0 \notin Delays, SInv, NEW secs \in Delays, Schedule(secs), TypeInv'
  PROVE  SInv'
  <1> DEFINE new == NewEvent(secs)
  <1>1. TypeOK
    BY DEF SInv, TypeInv
  <1>2. /\ ~ringing /\ lastId < MaxEvents
        /\ lastSet' = Min({TimeLeft, secs}) /\ elapsed' = 0
        /\ list' = list \cup {new} /\ lastId' = lastId + 1
        /\ temp' = temp /\ ringing' = ringing /\ lastFired' = lastFired
        /\ since' = since /\ ~Expired
    BY DEF Schedule, MainRuns
  <1>3. lastId \in 0..MaxEvents
    BY <1>1 DEF TypeOK
  <1>4. /\ new.id = lastId + 1 /\ new.left = secs /\ new.due = secs
        /\ new.marked = FALSE /\ secs \in Nat /\ secs > 0
    <2>1. lastId < MaxEvents /\ lastId \in 0..MaxEvents
      BY <1>2, <1>3
    <2>2. /\ new.id = lastId + 1 /\ new.left = secs /\ new.due = secs
          /\ new.marked = FALSE /\ secs \in Nat
      BY <2>1, NewEventFacts
    <2>3. secs # 0
      OBVIOUS
    <2> QED
      BY <2>2, <2>3
  <1> HIDE DEF new
  <1>5. temp = {} /\ \A e \in list : e.left > 0 /\ (e.marked => e.id > since)
    BY <1>2 DEF SInv, RingLeavesListClean
  <1>6. \A e \in list : 0 < lastSet /\ lastSet <= e.left
    BY <1>2 DEF SInv, TimerCoversEvents
  <1>7. /\ lastSet' \in {TimeLeft, secs} /\ lastSet' <= TimeLeft /\ lastSet' <= secs
        /\ TimeLeft \in 0..Never
    BY <1>1, <1>2, ScheduleTimer
  <1>8. TimeLeft \in Nat /\ TimeLeft > 0 /\ (lastSet # 0 => TimeLeft <= lastSet)
    BY <1>2, SInvTypes, NeverAssumption DEF TimeLeft, Expired
  <1>9. IdsIssued' /\ IdsDistinct'
    <2>1. \A e \in list : e.id \in Nat /\ e.id <= lastId /\ e.id # new.id
      BY <1>4, SInvTypes DEF SInv, IdsIssued
    <2> QED
      BY <1>2, <1>4, <1>5, <2>1, SInvTypes DEF SInv, IdsIssued, IdsDistinct
  <1>10. NeverEarly'
    <2>1. \A e \in list : e.due <= e.left
      BY SInvTypes DEF SInv, NeverEarly
    <2> QED
      BY <1>2, <1>4, <1>5, <2>1, SInvTypes DEF NeverEarly
  <1>11. RingIsInstant' /\ TempIsNew' /\ SinceIssued'
    BY <1>2, <1>5, SInvTypes DEF SInv, RingIsInstant, TempIsNew, SinceIssued
  <1>12. TimerCoversEvents'
    <2>1. 0 < lastSet'
      BY <1>4, <1>7, <1>8
    <2>2. ASSUME NEW e \in list PROVE lastSet' <= e.left
      BY <1>6, <1>7, <1>8, SInvTypes
    <2> QED
      BY <1>2, <1>4, <1>7, <2>1, <2>2 DEF TimerCoversEvents
  <1>13. RingLeavesListClean'
    BY <1>2, <1>4, <1>5 DEF RingLeavesListClean
  <1> QED
    BY <1>9, <1>10, <1>11, <1>12, <1>13 DEF SInv

\* A call of schedule_alarm by a callback.
LEMMA CallbackScheduleSInv ==
  ASSUME 0 \notin Delays, SInv, NEW secs \in Delays, CallbackSchedule(secs),
         TypeInv'
  PROVE  SInv'
  <1> DEFINE new == NewEvent(secs)
  <1>1. /\ ringing /\ lastId < MaxEvents
        /\ temp' = temp \cup {new} /\ lastId' = lastId + 1
        /\ list' = list /\ ringing' = ringing /\ lastFired' = lastFired
        /\ elapsed' = elapsed /\ lastSet' = lastSet /\ since' = since
    BY DEF CallbackSchedule, InCallback
  <1>2. lastId \in 0..MaxEvents
    BY DEF SInv, TypeInv, TypeOK
  <1>3. /\ new.id = lastId + 1 /\ new.left = secs /\ new.due = secs
        /\ new.marked = FALSE /\ secs \in Nat /\ secs > 0
    <2>1. lastId < MaxEvents /\ lastId \in 0..MaxEvents
      BY <1>1, <1>2
    <2>2. /\ new.id = lastId + 1 /\ new.left = secs /\ new.due = secs
          /\ new.marked = FALSE /\ secs \in Nat
      BY <2>1, NewEventFacts
    <2>3. secs # 0
      OBVIOUS
    <2> QED
      BY <2>2, <2>3
  <1> HIDE DEF new
  <1>4. IdsIssued' /\ IdsDistinct'
    <2>1. \A e \in list \cup temp : e.id \in Nat /\ e.id <= lastId /\ e.id # new.id
      BY <1>3, SInvTypes DEF SInv, IdsIssued
    <2> QED
      BY <1>1, <1>3, <2>1, SInvTypes DEF SInv, IdsIssued, IdsDistinct
  <1>5. NeverEarly'
    BY <1>1, <1>3 DEF SInv, NeverEarly
  <1>6. TempIsNew' /\ SinceIssued'
    <2>1. since <= lastId
      BY DEF SInv, SinceIssued
    <2>2. new.id > since /\ since <= lastId + 1
      BY <1>3, <2>1, SInvTypes
    <2> QED
      BY <1>1, <1>3, <2>2 DEF SInv, TempIsNew, SinceIssued
  <1>7. RingIsInstant' /\ TimerCoversEvents' /\ RingLeavesListClean'
    BY <1>1
    DEF SInv, RingIsInstant, TimerCoversEvents, RingLeavesListClean
  <1> QED
    BY <1>4, <1>5, <1>6, <1>7 DEF SInv

\* A call of unschedule_alarm by the main program.
LEMMA UnscheduleSInv ==
  ASSUME SInv, NEW id, Unschedule(id), TypeInv'
  PROVE  SInv'
  BY DEF SInv, Unschedule, MainRuns, IdsIssued, IdsDistinct, NeverEarly,
     RingIsInstant, TempIsNew, SinceIssued, TimerCoversEvents,
     RingLeavesListClean

\* A call of unschedule_alarm by a callback.
LEMMA CallbackUnscheduleSInv ==
  ASSUME SInv, NEW id \in Nat, CallbackUnschedule(id), TypeInv'
  PROVE  SInv'
  <1>1. /\ ringing /\ list' = Mark(list, id) /\ temp' = Mark(temp, id)
        /\ UNCHANGED <<lastId, ringing, lastFired, lastSet, elapsed, since>>
    BY DEF CallbackUnschedule, InCallback
  <1>2. list \in SUBSET Event /\ temp \in SUBSET Event
    BY SInvTypes
  <1>3. \A f \in list' : \E e \in list :
          /\ f.id = e.id /\ f.left = e.left /\ f.due = e.due
          /\ f.marked = (e.marked \/ e.id = id)
    BY <1>1, <1>2, MarkMembers
  <1>4. \A f \in temp' : \E e \in temp :
          /\ f.id = e.id /\ f.left = e.left /\ f.due = e.due
          /\ f.marked = (e.marked \/ e.id = id)
    BY <1>1, <1>2, MarkMembers
  <1>5. \A f \in list' \cup temp' : \E e \in list \cup temp :
          /\ f.id = e.id /\ f.left = e.left /\ f.due = e.due
          /\ f.marked = (e.marked \/ e.id = id)
    BY <1>3, <1>4
  <1>6. IdsIssued'
    BY <1>1, <1>5 DEF SInv, IdsIssued
  <1>7. IdsDistinct'
    <2> SUFFICES ASSUME NEW f \in list' \cup temp', NEW g \in list' \cup temp',
                        f.id = g.id
                 PROVE  f.left = g.left /\ f.due = g.due /\ f.marked = g.marked
      BY DEF IdsDistinct
    <2>1. PICK e \in list \cup temp :
            /\ f.id = e.id /\ f.left = e.left /\ f.due = e.due
            /\ f.marked = (e.marked \/ e.id = id)
      BY <1>5
    <2>2. PICK h \in list \cup temp :
            /\ g.id = h.id /\ g.left = h.left /\ g.due = h.due
            /\ g.marked = (h.marked \/ h.id = id)
      BY <1>5
    <2>3. e.left = h.left /\ e.due = h.due /\ e.marked = h.marked
      BY <2>1, <2>2 DEF SInv, IdsDistinct
    <2> QED
      BY <2>1, <2>2, <2>3
  <1>8. NeverEarly'
    BY <1>1, <1>3, <1>4 DEF SInv, NeverEarly
  <1>9. TempIsNew' /\ SinceIssued'
    BY <1>1, <1>4 DEF SInv, TempIsNew, SinceIssued
  <1>10. RingIsInstant' /\ TimerCoversEvents' /\ RingLeavesListClean'
    BY <1>1 DEF SInv, RingIsInstant, TimerCoversEvents, RingLeavesListClean
  <1> QED
    BY <1>6, <1>7, <1>8, <1>9, <1>10 DEF SInv

\* The handler begins: every event is counted down by the time that was set.
LEMMA RingSInv ==
  ASSUME SInv, Ring, TypeInv'
  PROVE  SInv'
  <1>1. /\ ~ringing /\ lastSet > 0 /\ elapsed = lastSet
        /\ ringing' = TRUE /\ lastFired' = 0 /\ elapsed' = 0
        /\ list' = Aged(list, lastSet) /\ temp' = temp /\ lastId' = lastId
        /\ since' = lastId
    BY DEF Ring, Expired
  <1>2. list \in SUBSET Event /\ lastSet \in Int
    BY SInvTypes
  <1>3. \A f \in list' : \E e \in list :
          /\ f.id = e.id /\ f.left = e.left - lastSet /\ f.due = e.due
          /\ f.marked = e.marked
    BY <1>1, <1>2, AgedMembers
  <1>4. temp = {}
    BY <1>1 DEF SInv, RingLeavesListClean
  <1>5. IdsIssued'
    BY <1>1, <1>3, <1>4 DEF SInv, IdsIssued
  <1>6. IdsDistinct'
    <2> SUFFICES ASSUME NEW f \in list', NEW g \in list', f.id = g.id
                 PROVE  f.left = g.left /\ f.due = g.due /\ f.marked = g.marked
      BY <1>1, <1>4 DEF IdsDistinct
    <2>1. PICK e \in list : /\ f.id = e.id /\ f.left = e.left - lastSet
                            /\ f.due = e.due /\ f.marked = e.marked
      BY <1>3
    <2>2. PICK h \in list : /\ g.id = h.id /\ g.left = h.left - lastSet
                            /\ g.due = h.due /\ g.marked = h.marked
      BY <1>3
    <2>3. e.left = h.left /\ e.due = h.due /\ e.marked = h.marked
      BY <2>1, <2>2 DEF SInv, IdsDistinct
    <2> QED
      BY <2>1, <2>2, <2>3
  <1>7. NeverEarly'
    <2> SUFFICES ASSUME NEW f \in list' PROVE f.due <= f.left - 0
      BY <1>1, <1>4 DEF NeverEarly
    <2>1. PICK e \in list : f.left = e.left - lastSet /\ f.due = e.due
      BY <1>3
    <2>2. e.due <= e.left - elapsed
      BY DEF SInv, NeverEarly
    <2> QED
      BY <1>1, <2>1, <2>2, SInvTypes
  <1>8. /\ RingIsInstant' /\ TempIsNew' /\ SinceIssued'
        /\ TimerCoversEvents' /\ RingLeavesListClean'
    BY <1>1, <1>4, SInvTypes
    DEF RingIsInstant, TempIsNew, SinceIssued, TimerCoversEvents,
        RingLeavesListClean
  <1> QED
    BY <1>5, <1>6, <1>7, <1>8 DEF SInv

\* The handler calls the next event.
LEMMA FireSInv ==
  ASSUME SInv, NEW e \in list, Fire(e), TypeInv'
  PROVE  SInv'
  BY DEF SInv, Fire, IdsIssued, IdsDistinct, NeverEarly, RingIsInstant,
         TempIsNew, SinceIssued, TimerCoversEvents, RingLeavesListClean

\* The handler ends: what expired and what was cancelled is gone, the new ones
\* are appended, and the timer is set for what is left.
LEMMA RingEndSInv ==
  ASSUME SInv, RingEnd, TypeInv'
  PROVE  SInv'
  <1>1. /\ ringing /\ temp' = {} /\ elapsed' = 0 /\ ringing' = FALSE
        /\ list' = {e \in list : Survives(e)} \cup temp
        /\ lastSet' = MinRemaining(list') /\ lastId' = lastId /\ since' = since
    BY DEF RingEnd
  <1>2. /\ list' \subseteq list \cup temp
        /\ \A e \in list' : e.left > 0 /\ (e.marked => e.id > since)
    BY <1>1 DEF SInv, TempIsNew, Survives
  <1>3. \A e \in list' : e.left \in Nat
    BY <1>2, SInvTypes
  <1>4. IdsIssued' /\ IdsDistinct'
    BY <1>1, <1>2 DEF SInv, IdsIssued, IdsDistinct
  <1>5. NeverEarly'
    <2>1. elapsed = 0
      BY <1>1 DEF SInv, RingIsInstant
    <2>2. \A e \in list \cup temp : e.due <= e.left - 0
      BY <2>1, SInvTypes DEF SInv, NeverEarly
    <2> QED
      BY <1>1, <1>2, <2>2 DEF NeverEarly
  <1>6. TimerCoversEvents'
    <2>1. /\ MinRemaining(list') \in 1..Never
          /\ \A e \in list' : e.left > 0 => MinRemaining(list') <= e.left
      BY <1>3, MinRemainingFacts
    <2>2. \A n \in 1..Never : 0 < n
      BY NeverAssumption
    <2> QED
      BY <1>1, <1>2, <2>1, <2>2 DEF TimerCoversEvents
  <1>7. RingIsInstant' /\ TempIsNew' /\ SinceIssued' /\ RingLeavesListClean'
    BY <1>1, <1>2
    DEF SInv, RingIsInstant, TempIsNew, SinceIssued, RingLeavesListClean
  <1> QED
    BY <1>4, <1>5, <1>6, <1>7 DEF SInv

\* A second passes.
LEMMA SecondSInv ==
  ASSUME SInv, Second, TypeInv'
  PROVE  SInv'
  <1>1. /\ ~ringing /\ elapsed' = elapsed + 1 /\ list' = Awaited(list)
        /\ UNCHANGED <<temp, lastId, ringing, lastFired, lastSet, since>>
    BY DEF Second
  <1>2. list \in SUBSET Event
    BY SInvTypes
  <1>3. \A f \in list' : \E e \in list :
          /\ f.id = e.id /\ f.left = e.left /\ f.due = e.due - 1
          /\ f.marked = e.marked
    BY <1>1, <1>2, AwaitedMembers
  <1>4. temp = {} /\ \A e \in list : e.left > 0 /\ (e.marked => e.id > since)
    BY <1>1 DEF SInv, RingLeavesListClean
  <1>5. IdsIssued'
    BY <1>1, <1>3, <1>4 DEF SInv, IdsIssued
  <1>6. IdsDistinct'
    <2> SUFFICES ASSUME NEW f \in list', NEW g \in list', f.id = g.id
                 PROVE  f.left = g.left /\ f.due = g.due /\ f.marked = g.marked
      BY <1>1, <1>4 DEF IdsDistinct
    <2>1. PICK e \in list : /\ f.id = e.id /\ f.left = e.left
                            /\ f.due = e.due - 1 /\ f.marked = e.marked
      BY <1>3
    <2>2. PICK h \in list : /\ g.id = h.id /\ g.left = h.left
                            /\ g.due = h.due - 1 /\ g.marked = h.marked
      BY <1>3
    <2>3. e.left = h.left /\ e.due = h.due /\ e.marked = h.marked
      BY <2>1, <2>2 DEF SInv, IdsDistinct
    <2> QED
      BY <2>1, <2>2, <2>3
  <1>7. NeverEarly'
    <2> SUFFICES ASSUME NEW f \in list' PROVE f.due <= f.left - (elapsed + 1)
      BY <1>1, <1>4 DEF NeverEarly
    <2>1. PICK e \in list : f.left = e.left /\ f.due = e.due - 1
      BY <1>3
    <2>2. e.due <= e.left - elapsed
      BY DEF SInv, NeverEarly
    <2> QED
      BY <2>1, <2>2, SInvTypes
  <1>8. RingIsInstant' /\ TempIsNew' /\ SinceIssued'
    BY <1>1, <1>4 DEF SInv, RingIsInstant, TempIsNew, SinceIssued
  <1>9. TimerCoversEvents' /\ RingLeavesListClean'
    BY <1>1, <1>3, <1>4 DEF SInv, TimerCoversEvents, RingLeavesListClean
  <1> QED
    BY <1>5, <1>6, <1>7, <1>8, <1>9 DEF SInv

\* Every step preserves the invariant.
LEMMA SInvStep ==
  ASSUME 0 \notin Delays
  PROVE  SInv /\ [Next]_vars => SInv'
  <1> SUFFICES ASSUME SInv, [Next]_vars PROVE SInv'
    OBVIOUS
  <1>1. TypeInv'
    BY TypeInvStep DEF SInv
  <1>2. ASSUME NEW secs \in Delays, Schedule(secs) PROVE SInv'
    BY <1>1, <1>2, ScheduleSInv
  <1>3. ASSUME NEW secs \in Delays, CallbackSchedule(secs) PROVE SInv'
    BY <1>1, <1>3, CallbackScheduleSInv
  <1>4. ASSUME NEW id \in 1..lastId, Unschedule(id) PROVE SInv'
    BY <1>1, <1>4, UnscheduleSInv
  <1>5. ASSUME NEW id \in 1..lastId, CallbackUnschedule(id) PROVE SInv'
    <2>1. id \in Nat
      BY SInvTypes
    <2> QED
      BY <1>1, <1>5, <2>1, CallbackUnscheduleSInv
  <1>6. CASE Ring
    BY <1>1, <1>6, RingSInv
  <1>7. ASSUME NEW e \in list, Fire(e) PROVE SInv'
    BY <1>1, <1>7, FireSInv
  <1>8. CASE RingEnd
    BY <1>1, <1>8, RingEndSInv
  <1>9. CASE Second
    BY <1>1, <1>9, SecondSInv
  <1>10. CASE UNCHANGED vars
    BY <1>1, <1>10
    DEF vars, SInv, IdsIssued, IdsDistinct, NeverEarly, RingIsInstant, TempIsNew,
        SinceIssued, TimerCoversEvents, RingLeavesListClean
  <1> QED
    BY <1>2, <1>3, <1>4, <1>5, <1>6, <1>7, <1>8, <1>9, <1>10 DEF Next

\* The invariant holds at the start.
LEMMA InitSInv == Init => SInv
  BY InitTypeInv
  DEF Init, SInv, IdsIssued, IdsDistinct, NeverEarly, RingIsInstant, TempIsNew,
      SinceIssued, TimerCoversEvents, RingLeavesListClean

\* With positive delays it always holds.
LEMMA SInvInvariant ==
  ASSUME 0 \notin Delays
  PROVE  Spec => []SInv
  BY InitSInv, SInvStep, PTL DEF Spec

\* With positive delays the kernel timer is always set while an event waits, and
\* no later than the first one runs out (schedule_alarm, the handler), whatever
\* the callbacks schedule and unschedule.
THEOREM TimerCovers ==
  ASSUME 0 \notin Delays
  PROVE  Spec => []TimerCoversEvents
  <1>1. SInv => TimerCoversEvents
    BY DEF SInv
  <1> QED
    BY <1>1, SInvInvariant, PTL

\* The handler always returns with one list of unexpired events, in which only
\* an event scheduled and unscheduled in that ring is still marked: a mark
\* outlives no second ring, whatever the callbacks schedule and unschedule.
THEOREM RingLeavesClean ==
  ASSUME 0 \notin Delays
  PROVE  Spec => []RingLeavesListClean
  <1>1. SInv => RingLeavesListClean
    BY DEF SInv
  <1> QED
    BY <1>1, SInvInvariant, PTL

----------------------------------------------------------------------------
(* The scheduler implements AlarmService. *)

\* An id names one event.
LEMMA OneEventPerId ==
  ASSUME SInv, NEW e \in list \cup temp, NEW f \in list \cup temp, e.id = f.id
  PROVE  e = f
  <1>1. e \in Event /\ f \in Event
    BY SInvTypes
  <1>2. e.left = f.left /\ e.due = f.due /\ e.marked = f.marked
    BY DEF SInv, IdsDistinct
  <1> QED
    BY <1>1, <1>2 DEF Event

\* While no handler runs the list has the live events and the marked ones.
LEMMA QuietLive ==
  ASSUME SInv, ~ringing
  PROVE  /\ temp = {}
         /\ Live = {e \in list : ~e.marked} /\ Doomed = {e \in list : e.marked}
  BY DEF SInv, RingLeavesListClean, Live, Passed, Doomed

\* The same, of the next state.
LEMMA QuietLiveNext ==
  ASSUME SInv', ~ringing'
  PROVE  /\ temp' = {}
         /\ Live' = {e \in list' : ~e.marked} /\ Doomed' = {e \in list' : e.marked}
  BY DEF SInv, RingLeavesListClean, Live, Passed, Doomed

\* schedule_alarm adds a pending event, wherever it is called from.
LEMMA ScheduleRefines ==
  ASSUME 0 \notin Delays, SInv, SInv', NEW secs \in Delays,
         Schedule(secs) \/ CallbackSchedule(secs)
  PROVE  Promised!Next
  <1> DEFINE new == NewEvent(secs)
  <1>1. /\ lastId < MaxEvents /\ lastId' = lastId + 1
        /\ fired' = fired /\ cancelled' = cancelled
        /\ ringing' = ringing /\ since' = since
    BY DEF Schedule, CallbackSchedule
  <1>2. lastId \in 0..MaxEvents
    BY DEF SInv, TypeInv, TypeOK
  <1>3. /\ new.id = lastId + 1 /\ new.left = secs /\ new.due = secs
        /\ new.marked = FALSE /\ secs \in Nat
    BY <1>1, <1>2, NewEventFacts
  <1>4. secs > 0
    BY <1>3
  <1> HIDE DEF new
  <1>5. Live' = Live \cup {new} /\ Doomed' = Doomed
    <2>1. CASE Schedule(secs)
      <3>1. ~ringing /\ ~ringing' /\ list' = list \cup {new}
        BY <2>1 DEF Schedule, MainRuns, new
      <3> QED
        BY <1>3, <3>1, QuietLive, QuietLiveNext
    <2>2. CASE CallbackSchedule(secs)
      <3>1. /\ temp' = temp \cup {new}
            /\ UNCHANGED <<list, ringing, lastFired>>
        BY <2>2 DEF CallbackSchedule, new
      <3>2. ~(new.left <= 0)
        BY <1>3, <1>4
      <3> QED
        BY <1>3, <3>1, <3>2 DEF Live, Passed, Doomed, ToFire
    <2> QED
      BY <2>1, <2>2
  <1>6. /\ Known(Live)' = Known(Live) \cup {[id |-> lastId + 1, due |-> secs]}
        /\ Known(Doomed)' = Known(Doomed)
    BY <1>3, <1>5 DEF Known
  <1>7. Promised!Schedule(secs)
    BY <1>1, <1>6 DEF Promised!Schedule
  <1> QED
    BY <1>7 DEF Promised!Next

\* unschedule_alarm from the main program is final.
LEMMA UnscheduleRefines ==
  ASSUME SInv, SInv', NEW id \in 1..lastId, Unschedule(id)
  PROVE  Promised!Next
  <1>1. /\ ~ringing /\ ~ringing' /\ list' = {e \in list : e.id # id}
        /\ cancelled' = cancelled \cup {id}
        /\ UNCHANGED <<fired, lastId, ringing, since>>
    BY DEF Unschedule, MainRuns
  <1>2. /\ Live' = {e \in Live : e.id # id}
        /\ Doomed' = {e \in Doomed : e.id # id}
    BY <1>1, QuietLive, QuietLiveNext
  <1>3. /\ Known(Live)' = Promised!Others(Known(Live), id)
        /\ Known(Doomed)' = Promised!Others(Known(Doomed), id)
    BY <1>2 DEF Known, Promised!Others
  <1>4. Promised!Unschedule(id)
    BY <1>1, <1>3 DEF Promised!Unschedule
  <1> QED
    BY <1>4 DEF Promised!Next

\* unschedule_alarm from a callback: the marked event is no longer live, and if
\* it is to be called in this ring or waits in the second list it is doomed.
LEMMA CallbackUnscheduleRefines ==
  ASSUME SInv, NEW id \in 1..lastId, CallbackUnschedule(id)
  PROVE  Promised!Next
  <1> DEFINE late == {p \in Known(Live) : p.id = id /\ (p.due <= 0 \/ id > since)}
             missed == \E e \in Live : e.id = id /\ (e \in ToFire \/ e \in temp)
  <1>1. /\ ringing /\ ringing'
        /\ list' = Mark(list, id) /\ temp' = Mark(temp, id)
        /\ cancelled' = cancelled \cup {id}
        /\ UNCHANGED <<fired, lastId, ringing, since, lastFired>>
    BY DEF CallbackUnschedule, InCallback
  <1>2. list \in SUBSET Event /\ temp \in SUBSET Event
    BY SInvTypes
  <1>3. /\ \A f \in list' : \E e \in list :
             /\ f.id = e.id /\ f.left = e.left /\ f.due = e.due
             /\ f.marked = (e.marked \/ e.id = id)
        /\ \A e \in list : \E f \in list' :
             /\ f.id = e.id /\ f.left = e.left /\ f.due = e.due
             /\ f.marked = (e.marked \/ e.id = id)
    <2>1. list' = Mark(list, id)
      BY <1>1
    <2> QED
      BY <1>2, <2>1, MarkMembers
  <1>4. /\ \A f \in temp' : \E e \in temp :
             /\ f.id = e.id /\ f.left = e.left /\ f.due = e.due
             /\ f.marked = (e.marked \/ e.id = id)
        /\ \A e \in temp : \E f \in temp' :
             /\ f.id = e.id /\ f.left = e.left /\ f.due = e.due
             /\ f.marked = (e.marked \/ e.id = id)
    <2>1. temp' = Mark(temp, id)
      BY <1>1
    <2> QED
      BY <1>2, <2>1, MarkMembers
  <1>5. Known(Live)' = Promised!Others(Known(Live), id)
    <2>1. ASSUME NEW p \in Known(Live)' PROVE p \in Known(Live) /\ p.id # id
      <3>1. PICK f \in Live' : p = [id |-> f.id, due |-> f.due]
        BY <2>1 DEF Known
      <3>2. PICK e \in list \cup temp :
              /\ f.id = e.id /\ f.left = e.left /\ f.due = e.due
              /\ f.marked = (e.marked \/ e.id = id)
        BY <1>3, <1>4, <3>1 DEF Live
      <3>3. e \in Live /\ e.id # id
        BY <1>1, <3>1, <3>2 DEF Live, Passed
      <3> QED
        BY <3>1, <3>2, <3>3 DEF Known
    <2>2. ASSUME NEW p \in Known(Live), p.id # id PROVE p \in Known(Live)'
      <3>1. PICK e \in Live : p = [id |-> e.id, due |-> e.due]
        BY DEF Known
      <3>2. PICK f \in list' \cup temp' :
              /\ f.id = e.id /\ f.left = e.left /\ f.due = e.due
              /\ f.marked = (e.marked \/ e.id = id)
        BY <1>3, <1>4, <3>1 DEF Live
      <3>3. f \in Live'
        BY <1>1, <2>2, <3>1, <3>2 DEF Live, Passed
      <3> QED
        BY <3>1, <3>2, <3>3 DEF Known
    <2> QED
      BY <2>1, <2>2 DEF Promised!Others
  <1>6. ASSUME NEW e \in list \cup temp, e.marked \/ e.id = id,
               e \in ToFire \/ e \in temp
        PROVE  [id |-> e.id, due |-> e.due] \in Known(Doomed)'
    <2>1. PICK f \in list' \cup temp' :
            /\ f.id = e.id /\ f.left = e.left /\ f.due = e.due /\ f.marked
            /\ f \in ToFire' \/ f \in temp'
      <3>1. CASE e \in ToFire
        <4>1. e \in list /\ e.left <= 0 /\ e.id > lastFired
          BY <3>1 DEF ToFire
        <4>2. PICK f \in list' : /\ f.id = e.id /\ f.left = e.left /\ f.due = e.due
                                /\ f.marked = (e.marked \/ e.id = id)
          BY <1>3, <4>1
        <4>3. f \in ToFire'
          BY <1>1, <4>1, <4>2 DEF ToFire
        <4> QED
          BY <1>6, <4>2, <4>3
      <3>2. CASE e \in temp
        BY <1>4, <1>6, <3>2
      <3> QED
        BY <1>6, <3>1, <3>2
    <2>2. f \in Doomed'
      BY <1>1, <2>1 DEF Doomed, ToFire
    <2> QED
      BY <2>1, <2>2 DEF Known
  <1>7. Known(Doomed) \subseteq Known(Doomed)'
    <2> SUFFICES ASSUME NEW p \in Known(Doomed) PROVE p \in Known(Doomed)'
      OBVIOUS
    <2>1. PICK e \in Doomed : p = [id |-> e.id, due |-> e.due]
      BY DEF Known
    <2>2. e \in list \cup temp /\ e.marked /\ (e \in ToFire \/ e \in temp)
      BY <1>1, <2>1 DEF Doomed
    <2> QED
      BY <1>6, <2>1, <2>2
  <1>8. ASSUME NEW p \in Known(Doomed)'
        PROVE  p \in Known(Doomed) \/ (missed /\ p \in late)
    <2>1. PICK f \in Doomed' : p = [id |-> f.id, due |-> f.due]
      BY <1>8 DEF Known
    <2>2. PICK e \in list \cup temp :
            /\ f.id = e.id /\ f.left = e.left /\ f.due = e.due
            /\ f.marked = (e.marked \/ e.id = id)
            /\ e \in ToFire \/ e \in temp
      <3>1. CASE f \in temp'
        BY <1>4, <3>1
      <3>2. CASE f \in ToFire'
        BY <1>1, <1>3, <3>2 DEF ToFire
      <3> QED
        BY <1>1, <2>1, <3>1, <3>2 DEF Doomed
    <2>3. e.marked \/ e.id = id
      BY <2>1, <2>2 DEF Doomed
    <2>4. CASE e.marked
      <3>1. e \in Doomed
        BY <2>2, <2>4 DEF Doomed
      <3> QED
        BY <2>1, <2>2, <3>1 DEF Known
    <2>5. CASE ~e.marked
      <3>1. ~(e.left <= 0 /\ e.id <= lastFired)
        BY <2>2, SInvTypes DEF ToFire, SInv, TempIsNew
      <3>2. e \in Live
        BY <2>5, <3>1 DEF Live, Passed
      <3>3. e.due <= 0 \/ id > since
        <4>1. CASE e \in temp
          BY <2>3, <2>5, <4>1 DEF SInv, TempIsNew
        <4>2. CASE e \in ToFire
          <5>1. e \in list /\ e.left <= 0 /\ e.due <= e.left - elapsed /\ elapsed = 0
            BY <1>1, <4>2 DEF ToFire, SInv, NeverEarly, RingIsInstant
          <5> QED
            BY <5>1, SInvTypes
        <4> QED
          BY <2>2, <4>1, <4>2
      <3>4. p.id = id /\ p.due = e.due /\ p \in Known(Live)
        BY <2>1, <2>2, <2>3, <2>5, <3>2 DEF Known
      <3> QED
        BY <2>2, <2>3, <2>5, <3>2, <3>3, <3>4
    <2> QED
      BY <2>4, <2>5
  <1>9. ASSUME missed, NEW p \in late PROVE p \in Known(Doomed)'
    <2>1. PICK e \in Live : p = [id |-> e.id, due |-> e.due]
      BY <1>9 DEF Known
    <2>2. PICK g \in Live : g.id = id /\ (g \in ToFire \/ g \in temp)
      BY <1>9
    <2>3. e.id = id /\ e \in list \cup temp /\ g \in list \cup temp
      BY <1>9, <2>1, <2>2 DEF Live
    <2>4. e = g
      BY <2>2, <2>3, OneEventPerId
    <2> QED
      BY <1>6, <2>1, <2>2, <2>3, <2>4
  <1>10. Known(Doomed)' \in {Known(Doomed), Known(Doomed) \cup late}
    <2> HIDE DEF late, missed
    <2>1. CASE missed
      BY <1>7, <1>8, <1>9, <2>1
    <2>2. CASE ~missed
      BY <1>7, <1>8, <2>2
    <2> QED
      BY <2>1, <2>2
  <1>11. Promised!CallbackUnschedule(id)
    BY <1>1, <1>5, <1>10 DEF Promised!CallbackUnschedule
  <1> QED
    BY <1>11 DEF Promised!Next

\* The handler begins: what it drops unseen was doomed.
LEMMA RingRefines ==
  ASSUME SInv, SInv', Ring
  PROVE  Promised!Next
  <1>1. /\ ~ringing /\ ringing' = TRUE /\ lastFired' = 0 /\ since' = lastId
        /\ list' = Aged(list, lastSet) /\ temp' = temp
        /\ UNCHANGED <<fired, cancelled, lastId>>
    BY DEF Ring
  <1>2. list \in SUBSET Event /\ lastSet \in Int
    BY SInvTypes
  <1>3. /\ \A f \in list' : \E e \in list :
             f.id = e.id /\ f.due = e.due /\ f.marked = e.marked
        /\ \A e \in list : \E f \in list' :
             f.id = e.id /\ f.due = e.due /\ f.marked = e.marked
    BY <1>1, <1>2, AgedMembers
  <1>4. /\ Live = {e \in list : ~e.marked} /\ temp = {}
        /\ Doomed = {e \in list : e.marked}
    BY <1>1, QuietLive
  <1>5. \A f \in list' : ~(f.id <= 0)
    BY <1>1, <1>3, SInvTypes
  <1>6. Live' = {f \in list' : ~f.marked}
    BY <1>1, <1>4, <1>5 DEF Live, Passed
  <1>7. Known(Live)' = Known(Live)
    BY <1>3, <1>4, <1>6 DEF Known
  <1>8. Known(Doomed)' \subseteq Known(Doomed)
    <2>1. \A f \in Doomed' : f \in list' /\ f.marked
      BY <1>1, <1>4 DEF Doomed
    <2> QED
      BY <1>3, <1>4, <2>1 DEF Known
  <1>9. Promised!Begin
    BY <1>1, <1>7, <1>8 DEF Promised!Begin
  <1> QED
    BY <1>9 DEF Promised!Next

\* The handler calls an event: it is live or doomed, it is due, and no other
\* event disappears with it.
LEMMA FireRefines ==
  ASSUME SInv, NEW e \in list, Fire(e)
  PROVE  Promised!Next
  <1> DEFINE p == [id |-> e.id, due |-> e.due]
  <1>1. /\ ringing /\ e \in ToFire /\ \A f \in ToFire : e.id <= f.id
        /\ lastFired' = e.id /\ fired' = fired \cup {e.id}
        /\ UNCHANGED <<list, temp, lastId, ringing, cancelled, since>>
    BY DEF Fire
  <1>2. e.left <= 0 /\ e.id > lastFired
    BY <1>1 DEF ToFire
  <1>3. e \in Live \cup Doomed
    BY <1>1, <1>2, SInvTypes DEF Live, Passed, Doomed
  <1>4. e.due <= 0
    <2>1. elapsed = 0 /\ e.due <= e.left - elapsed
      BY <1>1 DEF SInv, RingIsInstant, NeverEarly
    <2> QED
      BY <1>2, <2>1, SInvTypes
  <1>5. \A f \in list \cup temp : f.id = e.id => f.left = e.left /\ f.due = e.due
    BY DEF SInv, IdsDistinct
  <1>6. \A f \in Live' : f \in Live /\ f.id # e.id
    <2> SUFFICES ASSUME NEW f \in Live' PROVE f \in Live /\ f.id # e.id
      OBVIOUS
    <2>1. f \in list \cup temp /\ ~f.marked /\ ~(f.left <= 0 /\ f.id <= e.id)
      BY <1>1 DEF Live, Passed
    <2>2. f.id # e.id
      BY <1>2, <1>5, <2>1, SInvTypes
    <2>3. ~(f.left <= 0 /\ f.id <= lastFired)
      BY <1>2, <2>1, SInvTypes
    <2> QED
      BY <1>1, <2>1, <2>2, <2>3 DEF Live, Passed
  <1>7. \A f \in Live : f.id # e.id => f \in Live'
    <2> SUFFICES ASSUME NEW f \in Live, f.id # e.id PROVE f \in Live'
      OBVIOUS
    <2>1. f \in list \cup temp /\ ~f.marked /\ ~(f.left <= 0 /\ f.id <= lastFired)
      BY <1>1 DEF Live, Passed
    <2>2. ASSUME f.left <= 0, f.id <= e.id PROVE FALSE
      <3>1. f \in list
        BY <2>1, <2>2, SInvTypes DEF SInv, TempIsNew
      <3>2. f \in ToFire
        BY <2>1, <2>2, <3>1, SInvTypes DEF ToFire
      <3> QED
        BY <1>1, <2>1, <2>2, <3>2, SInvTypes
    <2> QED
      BY <1>1, <2>1, <2>2 DEF Live, Passed
  <1>8. \A f \in Doomed' : f \in Doomed /\ f.id # e.id
    <2> SUFFICES ASSUME NEW f \in Doomed' PROVE f \in Doomed /\ f.id # e.id
      OBVIOUS
    <2>1. /\ f \in list \cup temp /\ f.marked
          /\ f \in temp \/ (f \in list /\ f.left <= 0 /\ f.id > e.id)
      BY <1>1 DEF Doomed, ToFire
    <2>2. f.id # e.id
      BY <1>2, <1>5, <2>1, SInvTypes DEF SInv, TempIsNew
    <2>3. f \in temp \/ f \in ToFire
      BY <1>2, <2>1, SInvTypes DEF ToFire
    <2> QED
      BY <2>1, <2>2, <2>3 DEF Doomed
  <1>9. \A f \in Doomed : f.id # e.id => f \in Doomed'
    <2> SUFFICES ASSUME NEW f \in Doomed, f.id # e.id PROVE f \in Doomed'
      OBVIOUS
    <2>1. f \in list \cup temp /\ f.marked /\ (f \in temp \/ f \in ToFire)
      BY <1>1 DEF Doomed
    <2>2. f \in ToFire => f \in list /\ f.left <= 0 /\ f.id > e.id
      BY <1>1, SInvTypes DEF ToFire
    <2> QED
      BY <1>1, <2>1, <2>2 DEF Doomed, ToFire
  <1>10. /\ Known(Live)' = Known(Live) \ {p}
         /\ Known(Doomed)' = Known(Doomed) \ {p}
    <2>1. \A f \in list \cup temp :
            [id |-> f.id, due |-> f.due] = p <=> f.id = e.id
      BY <1>5
    <2>2. Live \subseteq list \cup temp /\ Doomed \subseteq list \cup temp
      BY DEF Live, Doomed
    <2> HIDE DEF p
    <2>3. Known(Live)' = Known(Live) \ {p}
      BY <1>6, <1>7, <2>1, <2>2 DEF Known
    <2>4. Known(Doomed)' = Known(Doomed) \ {p}
      BY <1>8, <1>9, <2>1, <2>2 DEF Known
    <2> QED
      BY <2>3, <2>4
  <1>11. p \in Known(Live) \cup Known(Doomed) /\ p.due <= 0 /\ p.id = e.id
    BY <1>3, <1>4 DEF Known
  <1> HIDE DEF p
  <1>12. Promised!Fire(p)
    BY <1>1, <1>10, <1>11 DEF Promised!Fire
  <1> QED
    BY <1>11, <1>12 DEF Promised!Next

\* The handler ends: the clean-up takes what is no longer live, and what is
\* still doomed is new in this ring.
LEMMA RingEndRefines ==
  ASSUME SInv, SInv', RingEnd
  PROVE  Promised!Next
  <1>1. /\ ringing /\ ~ringing' /\ ringing' = FALSE /\ ToFire = {}
        /\ list' = {e \in list : Survives(e)} \cup temp
        /\ UNCHANGED <<fired, cancelled, lastId, since>>
    BY DEF RingEnd
  <1>2. \A e \in list : e.left <= 0 => e.id <= lastFired
    BY <1>1, SInvTypes DEF ToFire
  <1>3. \A e \in list : e \in Live <=> Survives(e) \/ (e \in temp /\ ~e.marked)
    BY <1>1, <1>2, SInvTypes DEF SInv, TempIsNew, Live, Passed, Survives
  <1>4. \A e \in temp : (e \in Live <=> ~e.marked) /\ e.left > 0 /\ e.id > since
    BY SInvTypes DEF SInv, TempIsNew, Live, Passed
  <1>5. /\ Live' = {e \in list' : ~e.marked}
        /\ Doomed' = {e \in list' : e.marked}
    BY <1>1, QuietLiveNext
  <1>6. Live' = Live
    <2>1. Live \subseteq list \cup temp
      BY DEF Live
    <2> QED
      BY <1>1, <1>3, <1>4, <1>5, <2>1 DEF Survives
  <1>7. Doomed' = {e \in temp : e.marked} /\ Doomed = {e \in temp : e.marked}
    BY <1>1, <1>5 DEF Doomed, Survives
  <1>8. Known(Doomed)' = {p \in Known(Doomed) : p.id > since}
    BY <1>4, <1>7 DEF Known
  <1>9. Known(Live)' = Known(Live)
    BY <1>6 DEF Known
  <1>10. Promised!End
    BY <1>1, <1>8, <1>9 DEF Promised!End
  <1> QED
    BY <1>10 DEF Promised!Next

\* A second passes for a set of events.
LEMMA LaterKnown ==
  ASSUME NEW S \in SUBSET Event, NEW T,
         \A f \in T : \E e \in S : f.id = e.id /\ f.due = e.due - 1,
         \A e \in S : \E f \in T : f.id = e.id /\ f.due = e.due - 1
  PROVE  Known(T) = Promised!Later(Known(S))
  <1> DEFINE later(p) == [p EXCEPT !.due = @ - 1]
  <1>1. \A e \in S : later([id |-> e.id, due |-> e.due])
                       = [id |-> e.id, due |-> e.due - 1]
    OBVIOUS
  <1>2. Promised!Later(Known(S)) = {later(p) : p \in Known(S)}
    BY DEF Promised!Later
  <1> HIDE DEF later
  <1>3. ASSUME NEW q \in Known(T) PROVE q \in {later(p) : p \in Known(S)}
    <2>1. PICK f \in T : q = [id |-> f.id, due |-> f.due]
      BY <1>3 DEF Known
    <2>2. PICK e \in S : f.id = e.id /\ f.due = e.due - 1
      OBVIOUS
    <2>3. [id |-> e.id, due |-> e.due] \in Known(S)
      BY DEF Known
    <2> QED
      BY <1>1, <2>1, <2>2, <2>3
  <1>4. ASSUME NEW p \in Known(S) PROVE later(p) \in Known(T)
    <2>1. PICK e \in S : p = [id |-> e.id, due |-> e.due]
      BY <1>4 DEF Known
    <2>2. PICK f \in T : f.id = e.id /\ f.due = e.due - 1
      OBVIOUS
    <2>3. [id |-> f.id, due |-> f.due] \in Known(T)
      BY DEF Known
    <2> QED
      BY <1>1, <2>1, <2>2, <2>3
  <1> QED
    BY <1>2, <1>3, <1>4

\* A second passes for every event of the list.
LEMMA SecondRefines ==
  ASSUME SInv, SInv', Second
  PROVE  Promised!Next
  <1>1. /\ ~ringing /\ ~ringing' /\ list' = Awaited(list)
        /\ UNCHANGED <<fired, cancelled, lastId, ringing, since>>
    BY DEF Second
  <1>2. list \in SUBSET Event
    BY SInvTypes
  <1>3. /\ \A f \in list' : \E e \in list :
             f.id = e.id /\ f.due = e.due - 1 /\ f.marked = e.marked
        /\ \A e \in list : \E f \in list' :
             f.id = e.id /\ f.due = e.due - 1 /\ f.marked = e.marked
    BY <1>1, <1>2, AwaitedMembers
  <1>4. /\ Live = {e \in list : ~e.marked} /\ Live' = {e \in list' : ~e.marked}
        /\ Doomed = {e \in list : e.marked} /\ Doomed' = {e \in list' : e.marked}
    BY <1>1, QuietLive, QuietLiveNext
  <1>5. Known(Live)' = Promised!Later(Known(Live))
    <2>1. Known(Live') = Promised!Later(Known(Live))
      BY <1>2, <1>3, <1>4, LaterKnown
    <2> QED
      BY <2>1 DEF Known
  <1>6. Known(Doomed)' = Promised!Later(Known(Doomed))
    <2>1. Known(Doomed') = Promised!Later(Known(Doomed))
      BY <1>2, <1>3, <1>4, LaterKnown
    <2> QED
      BY <2>1 DEF Known
  <1>7. Promised!Second
    BY <1>1, <1>5, <1>6 DEF Promised!Second
  <1> QED
    BY <1>7 DEF Promised!Next

\* Every step is a step of the service or leaves its state alone.
LEMMA StepRefines ==
  ASSUME 0 \notin Delays
  PROVE  SInv /\ SInv' /\ [Next]_vars => [Promised!Next]_(Promised!vars)
  <1> SUFFICES ASSUME SInv, SInv', [Next]_vars
               PROVE  Promised!Next \/ UNCHANGED Promised!vars
    OBVIOUS
  <1>1. CASE \E secs \in Delays : Schedule(secs) \/ CallbackSchedule(secs)
    BY <1>1, ScheduleRefines
  <1>2. CASE \E id \in 1..lastId : Unschedule(id)
    BY <1>2, UnscheduleRefines
  <1>3. CASE \E id \in 1..lastId : CallbackUnschedule(id)
    BY <1>3, CallbackUnscheduleRefines
  <1>4. CASE Ring
    BY <1>4, RingRefines
  <1>5. CASE \E e \in list : Fire(e)
    BY <1>5, FireRefines
  <1>6. CASE RingEnd
    BY <1>6, RingEndRefines
  <1>7. CASE Second
    BY <1>7, SecondRefines
  <1>8. CASE UNCHANGED vars
    BY <1>8 DEF vars, Promised!vars, Known, Live, Passed, Doomed, ToFire
  <1> QED
    BY <1>1, <1>2, <1>3, <1>4, <1>5, <1>6, <1>7, <1>8 DEF Next

\* With positive delays sched_alarm.c implements AlarmService, whatever its
\* callbacks do: every callback runs once, never early, no event is lost, and
\* after unschedule_alarm none runs but one that was already due when another
\* callback of the same ring cancelled it, or, in the next ring only, one that
\* was scheduled and cancelled in one ring.
THEOREM Refinement ==
  ASSUME 0 \notin Delays
  PROVE  Spec => Implements
  <1>1. Init => Promised!Init
    BY DEF Init, Promised!Init, Known, Live, Doomed
  <1> QED
    BY <1>1, SInvInvariant, StepRefines, PTL DEF Spec, Implements, Promised!Spec

=============================================================================
