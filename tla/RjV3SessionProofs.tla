-------------------------- MODULE RjV3SessionProofs --------------------------
(***************************************************************************)
(* The safety of the RJv3 session for every set of plugin options and of   *)
(* configurations, every limit on the waits for a lease, and any number of *)
(* frames.                                                                 *)
(***************************************************************************)
EXTENDS RjV3Session, TLAPS

\* What holds of the alarms and the kept frame strays or not: an id names an
\* alarm that is pending, and a frame is kept by a double session that waits.
PluginTypeInv ==
  /\ plug \in Plugins
  /\ succCount \in Nat
  /\ dhcpCount \in Nat
  /\ leaseAlarms \in Nat
  /\ leaseKnown \in BOOLEAN
  /\ keepAlives \in Nat
  /\ keepKnown \in BOOLEAN
  /\ echoKey \in BOOLEAN
  /\ dup \in {"none", "plain", "keyed"}
  /\ md5 \in BOOLEAN
  /\ leaseKnown => leaseAlarms > 0
  /\ keepKnown => keepAlives > 0
  /\ dup # "none" => leaseAlarms > 0 /\ plug.dhcp = "double"

StrayTypes ==
  /\ strayLeases \in Nat
  /\ strayBeats \in Nat
  /\ strayed \in BOOLEAN

\* Until a stray is called, a session that is not double has no wait, and
\* neither has one without a success; a wait has not reached its limit.
WaitsAreCounted ==
  /\ plug.dhcp # "double" \/ succCount = 0 => dhcpCount = 0 /\ leaseAlarms = 0
  /\ leaseAlarms > 0 => dhcpCount <= plug.maxDhcp

\* The properties of RjV3Session as they are until a stray is called: the types
\* of the timers need their owners, the key needs WaitsAreCounted.
OneAlarm ==
  /\ leaseAlarms > 0 <=> leaseKnown
  /\ keepAlives > 0 <=> keepKnown
  /\ leaseAlarms + keepAlives <= 1
FrameIsHeld == leaseAlarms > 0 <=> dup # "none"
KeyIsThere ==
  keepAlives > 0 <=> plug.heartbeat /\ (echoKey \/ dhcpCount > plug.maxDhcp)

Calm ==
  /\ PluginTypeInv
  /\ dhcpCount <= plug.maxDhcp + 1
  /\ OneAlarm
  /\ FrameIsHeld
  /\ KeyIsThere
  /\ WaitsAreCounted

\* What concerns the plugin alone is inductive by itself.
PluginInv ==
  /\ PluginTypeInv
  /\ StrayTypes
  /\ ~strayed => Calm

\* FailureEndsSession, count by count.
SessionOver ==
  /\ leaseAlarms = 0 /\ keepAlives = 0 /\ succCount = 0 /\ dhcpCount = 0
  /\ dup = "none"
  /\ echoKey = FALSE
OverInFailure == state = "FAILURE" /\ ~strayed => SessionOver

IInv == PluginInv /\ OverInFailure /\ ChallengeIsCurrent

----------------------------------------------------------------------------
(* The plugin. *)

\* What a configuration of the plugin holds.
LEMMA PluginTypes ==
  ASSUME plug \in Plugins
  PROVE  plug.heartbeat \in BOOLEAN /\ plug.maxDhcp \in Nat
  BY PluginsAssumption

\* A plugin that has done nothing yet is sound.
LEMMA InitPlugin == RjInit => PluginInv
  <1> SUFFICES ASSUME RjInit PROVE PluginInv
    OBVIOUS
  <1>1. plug \in Plugins /\ plug.maxDhcp \in Nat /\ plug.heartbeat \in BOOLEAN
    BY PluginTypes DEF RjInit
  <1>2. PluginTypeInv /\ StrayTypes
    BY <1>1 DEF RjInit, PluginTypeInv, StrayTypes
  <1>3. OneAlarm /\ FrameIsHeld
    BY DEF RjInit, OneAlarm, FrameIsHeld
  <1>4. KeyIsThere /\ dhcpCount <= plug.maxDhcp + 1
    BY <1>1 DEF RjInit, KeyIsThere
  <1>5. WaitsAreCounted
    BY <1>1 DEF RjInit, WaitsAreCounted
  <1> QED
    BY <1>2, <1>3, <1>4, <1>5 DEF PluginInv, Calm

\* What a handler may do to the plugin: leave its timers alone,
Untouched == UNCHANGED <<leaseVars, keepVars>> /\ md5' \in BOOLEAN

\* begin the second authentication at the first success,
SecondAuthAtOnce ==
  /\ FirstOfTwo
  /\ CancelLease
  /\ ResetKeepAlive
  /\ succCount' = succCount + 1
  /\ dup' = "none"
  /\ md5' = FALSE
  /\ UNCHANGED dhcpCount

\* wait, give up or go on with the lease, or beat, for a pending alarm or for
\* a stray.
Calls(alarms, stray) ==
  /\ strayed' = (strayed \/ stray)
  /\ stray \/ alarms > 0
WaitMore(stray) ==
  /\ Calls(leaseAlarms, stray)
  /\ ~AtLimit
  /\ dhcpCount' = dhcpCount + 1
  /\ leaseAlarms' = Rest(leaseAlarms, stray) + 1
  /\ leaseKnown' = TRUE
  /\ UNCHANGED <<succCount, dup, keepVars, md5>>
GiveWaitUp(stray) ==
  /\ Calls(leaseAlarms, stray)
  /\ AtLimit
  /\ dhcpCount' = dhcpCount + 1
  /\ leaseAlarms' = Rest(leaseAlarms, stray)
  /\ leaseKnown' = FALSE
  /\ dup' = "none"
  /\ StartKeepAlive(echoKey \/ dup = "keyed")
  /\ UNCHANGED <<succCount, md5>>
GoOn(stray) ==
  /\ Calls(leaseAlarms, stray)
  /\ leaseAlarms' = Rest(leaseAlarms, stray)
  /\ leaseKnown' = FALSE
  /\ dup' = "none"
  /\ md5' = FALSE
  /\ UNCHANGED <<succCount, dhcpCount, keepVars>>
BeatAgain(stray) ==
  /\ Calls(keepAlives, stray)
  /\ keepAlives' = Rest(keepAlives, stray) + 1
  /\ keepKnown' = TRUE
  /\ UNCHANGED <<leaseVars, echoKey, md5>>

PluginStep ==
  \/ Untouched
  \/ ResetSession
  \/ Destroy
  \/ \E keyed \in BOOLEAN : SinglePass(keyed)
  \/ \E keyed \in BOOLEAN : AwaitLease(keyed)
  \/ \E keyed \in BOOLEAN : SkipLease(keyed)
  \/ \E keyed \in BOOLEAN : SecondSuccess(keyed)
  \/ SecondAuthAtOnce
  \/ \E stray \in BOOLEAN : WaitMore(stray)
  \/ \E stray \in BOOLEAN : GiveWaitUp(stray)
  \/ \E stray \in BOOLEAN : GoOn(stray)
  \/ \E stray \in BOOLEAN : BeatAgain(stray)

\* The three states a session can be left in: quiet,
Quiet ==
  /\ plug \in Plugins
  /\ leaseAlarms = 0 /\ leaseKnown = FALSE /\ dup = "none"
  /\ keepAlives = 0 /\ keepKnown = FALSE /\ echoKey = FALSE
  /\ dhcpCount \in Nat /\ dhcpCount <= plug.maxDhcp
  /\ succCount \in Nat
  /\ plug.dhcp # "double" \/ succCount = 0 => dhcpCount = 0
  /\ md5 \in BOOLEAN

\* A session without alarms is sound.
LEMMA QuietIsSound ==
  ASSUME Quiet'
  PROVE  Calm'
  <1> USE DEF Quiet
  <1>0. plug'.heartbeat \in BOOLEAN /\ plug'.maxDhcp \in Nat
    BY PluginsAssumption
  <1>f. /\ leaseKnown' \in BOOLEAN
        /\ keepKnown' \in BOOLEAN
        /\ echoKey' \in BOOLEAN
    BY <1>0
  <1>n. plug' \in Plugins /\ dup' \in {"none", "plain", "keyed"}
    OBVIOUS
  <1>c. /\ succCount' \in Nat
        /\ dhcpCount' \in Nat /\ dhcpCount' <= plug'.maxDhcp + 1
        /\ leaseAlarms' \in Nat
        /\ keepAlives' \in Nat
    BY <1>0
  <1>t. /\ leaseKnown' => leaseAlarms' > 0
        /\ keepKnown' => keepAlives' > 0
        /\ dup' # "none" => leaseAlarms' > 0 /\ plug'.dhcp = "double"
    BY <1>0
  <1>1. PluginTypeInv'
    BY <1>f, <1>n, <1>c, <1>t DEF PluginTypeInv
  <1>2. OneAlarm' /\ FrameIsHeld'
    BY <1>0 DEF OneAlarm, FrameIsHeld
  <1>3. KeyIsThere'
    BY <1>0 DEF KeyIsThere
  <1>4. WaitsAreCounted'
    BY <1>0 DEF WaitsAreCounted
  <1> QED
    BY <1>1, <1>2, <1>3, <1>4, <1>c DEF Calm

\* beating,
Beating ==
  /\ plug \in Plugins
  /\ leaseAlarms = 0 /\ leaseKnown = FALSE /\ dup = "none"
  /\ keepAlives = (IF plug.heartbeat THEN 1 ELSE 0) /\ keepKnown = plug.heartbeat
  /\ echoKey \in BOOLEAN
  /\ echoKey \/ dhcpCount > plug.maxDhcp
  /\ dhcpCount \in Nat /\ dhcpCount <= plug.maxDhcp + 1
  /\ succCount \in Nat
  /\ plug.dhcp # "double" \/ succCount = 0 => dhcpCount = 0
  /\ md5 \in BOOLEAN

\* So is one that beats,
LEMMA BeatingIsSound ==
  ASSUME Beating'
  PROVE  Calm'
  <1> USE DEF Beating
  <1>0. plug'.heartbeat \in BOOLEAN /\ plug'.maxDhcp \in Nat
    BY PluginsAssumption
  <1>f. /\ leaseKnown' \in BOOLEAN
        /\ keepKnown' \in BOOLEAN
        /\ echoKey' \in BOOLEAN
    BY <1>0
  <1>n. plug' \in Plugins /\ dup' \in {"none", "plain", "keyed"}
    OBVIOUS
  <1>c. /\ succCount' \in Nat
        /\ dhcpCount' \in Nat /\ dhcpCount' <= plug'.maxDhcp + 1
        /\ leaseAlarms' \in Nat
        /\ keepAlives' \in Nat
    BY <1>0
  <1>t. /\ leaseKnown' => leaseAlarms' > 0
        /\ keepKnown' => keepAlives' > 0
        /\ dup' # "none" => leaseAlarms' > 0 /\ plug'.dhcp = "double"
    BY <1>0
  <1>1. PluginTypeInv'
    BY <1>f, <1>n, <1>c, <1>t DEF PluginTypeInv
  <1>2. OneAlarm' /\ FrameIsHeld'
    BY <1>0 DEF OneAlarm, FrameIsHeld
  <1>3. KeyIsThere'
    BY <1>0 DEF KeyIsThere
  <1>4. WaitsAreCounted'
    BY <1>0 DEF WaitsAreCounted
  <1> QED
    BY <1>1, <1>2, <1>3, <1>4, <1>c DEF Calm

\* or waiting for its lease.
Waiting ==
  /\ plug \in Plugins /\ plug.dhcp = "double"
  /\ leaseAlarms = 1 /\ leaseKnown = TRUE /\ dup \in {"plain", "keyed"}
  /\ keepAlives = 0 /\ keepKnown = FALSE /\ echoKey = FALSE
  /\ dhcpCount \in Nat /\ dhcpCount <= plug.maxDhcp
  /\ succCount \in Nat /\ succCount > 0
  /\ md5 \in BOOLEAN

\* and one that waits for a lease.
LEMMA WaitingIsSound ==
  ASSUME Waiting'
  PROVE  Calm'
  <1> USE DEF Waiting
  <1>0. plug'.heartbeat \in BOOLEAN /\ plug'.maxDhcp \in Nat
    BY PluginsAssumption
  <1>f. /\ leaseKnown' \in BOOLEAN
        /\ keepKnown' \in BOOLEAN
        /\ echoKey' \in BOOLEAN
    BY <1>0
  <1>n. plug' \in Plugins /\ dup' \in {"none", "plain", "keyed"}
    OBVIOUS
  <1>c. /\ succCount' \in Nat
        /\ dhcpCount' \in Nat /\ dhcpCount' <= plug'.maxDhcp + 1
        /\ leaseAlarms' \in Nat
        /\ keepAlives' \in Nat
    BY <1>0
  <1>t. /\ leaseKnown' => leaseAlarms' > 0
        /\ keepKnown' => keepAlives' > 0
        /\ dup' # "none" => leaseAlarms' > 0 /\ plug'.dhcp = "double"
    BY <1>0
  <1>1. PluginTypeInv'
    BY <1>f, <1>n, <1>c, <1>t DEF PluginTypeInv
  <1>2. OneAlarm' /\ FrameIsHeld'
    BY <1>0 DEF OneAlarm, FrameIsHeld
  <1>3. KeyIsThere'
    BY <1>0 DEF KeyIsThere
  <1>4. WaitsAreCounted'
    BY <1>0 DEF WaitsAreCounted
  <1> QED
    BY <1>1, <1>2, <1>3, <1>4, <1>c DEF Calm

\* Unscheduling by id leaves no fewer than none,
LEMMA LeftIsCount ==
  ASSUME PluginTypeInv
  PROVE  Left(leaseAlarms, leaseKnown) \in Nat /\ Left(keepAlives, keepKnown) \in Nat
  BY DEF PluginTypeInv, Left

\* and with one alarm that its id names, none.
LEMMA NothingLeft ==
  ASSUME Calm
  PROVE  Left(leaseAlarms, leaseKnown) = 0 /\ Left(keepAlives, keepKnown) = 0
  BY DEF Calm, PluginTypeInv, OneAlarm, Left

\* Strays or not, a handler counts the alarms right and leaves no frame behind.
LEMMA PluginTypeStep ==
  ASSUME PluginTypeInv, PluginStep, UNCHANGED plug
  PROVE  PluginTypeInv'
  <1> USE DEF PluginTypeInv
  <1>0. plug' \in Plugins /\ plug.heartbeat \in BOOLEAN /\ plug.maxDhcp \in Nat
    BY PluginTypes
  <1>n. succCount + 1 \in Nat /\ dhcpCount + 1 \in Nat /\ 0 \in Nat
    OBVIOUS
  <1>a. Left(leaseAlarms, leaseKnown) \in Nat /\ Left(keepAlives, keepKnown) \in Nat
    BY LeftIsCount
  <1>r. ASSUME ResetKeepAlive
        PROVE  keepAlives' \in Nat /\ keepKnown' = FALSE /\ echoKey' = FALSE
    BY <1>a, <1>r DEF ResetKeepAlive
  <1>s. ASSUME NEW keyed \in BOOLEAN, StartKeepAlive(keyed)
        PROVE  /\ keepAlives' \in Nat /\ keepKnown' \in BOOLEAN /\ echoKey' \in BOOLEAN
               /\ keepKnown' => keepAlives' > 0
    BY <1>0, <1>a, <1>s DEF StartKeepAlive
  <1>l. ASSUME CancelLease PROVE leaseAlarms' \in Nat /\ leaseKnown' = FALSE
    BY <1>a, <1>l DEF CancelLease
  <1>q. ASSUME NEW keyed \in BOOLEAN, IF keyed THEN StartKeepAlive(TRUE) ELSE ResetKeepAlive
        PROVE  /\ keepAlives' \in Nat /\ keepKnown' \in BOOLEAN /\ echoKey' \in BOOLEAN
               /\ keepKnown' => keepAlives' > 0
    <2>1. CASE keyed
      BY <1>q, <1>s, <2>1
    <2>2. CASE ~keyed
      BY <1>q, <1>r, <2>2
    <2> QED
      BY <2>1, <2>2
  <1>1. CASE Untouched
    BY <1>0, <1>1 DEF Untouched, leaseVars, keepVars
  <1>2. CASE ResetSession
    <2>1. /\ leaseAlarms' \in Nat /\ leaseKnown' = FALSE
          /\ keepAlives' \in Nat /\ keepKnown' = FALSE /\ echoKey' = FALSE
      BY <1>2, <1>r, <1>l DEF ResetSession
    <2> QED
      BY <1>0, <1>2, <2>1 DEF ResetSession
  <1>3. CASE Destroy
    BY <1>0, <1>3 DEF Destroy
  <1>4. ASSUME NEW keyed \in BOOLEAN, SinglePass(keyed) PROVE PluginTypeInv'
    <2>1. leaseAlarms' \in Nat /\ leaseKnown' = FALSE
      BY <1>4, <1>l DEF SinglePass
    <2>2. /\ keepAlives' \in Nat /\ keepKnown' \in BOOLEAN /\ echoKey' \in BOOLEAN
          /\ keepKnown' => keepAlives' > 0
      BY <1>4, <1>q DEF SinglePass
    <2>3. /\ dup = "none" /\ dup' = dup /\ dhcpCount' = dhcpCount
          /\ succCount' \in Nat /\ md5' = FALSE
      BY <1>4 DEF SinglePass
    <2> QED
      BY <1>0, <1>n, <2>1, <2>2, <2>3
  <1>5. ASSUME NEW keyed \in BOOLEAN, AwaitLease(keyed) PROVE PluginTypeInv'
    <2>1. keepAlives' \in Nat /\ keepKnown' = FALSE /\ echoKey' = FALSE
      BY <1>5, <1>r DEF AwaitLease
    <2>2. /\ leaseAlarms' \in Nat /\ leaseAlarms' > 0 /\ leaseKnown' = TRUE
          /\ plug.dhcp = "double"
          /\ dhcpCount' = dhcpCount + 1 /\ succCount' \in Nat /\ md5' = FALSE
      BY <1>a, <1>5 DEF AwaitLease, FirstOfTwo
    <2>3. dup' \in {"none", "plain", "keyed"}
      BY <1>5 DEF AwaitLease
    <2> QED
      BY <1>0, <1>n, <2>1, <2>2, <2>3
  <1>6. ASSUME NEW keyed \in BOOLEAN, SkipLease(keyed) PROVE PluginTypeInv'
    <2>1. leaseAlarms' \in Nat /\ leaseKnown' = FALSE
      BY <1>6, <1>l DEF SkipLease
    <2>2. /\ keepAlives' \in Nat /\ keepKnown' \in BOOLEAN /\ echoKey' \in BOOLEAN
          /\ keepKnown' => keepAlives' > 0
      BY <1>6, <1>s DEF SkipLease
    <2>3. /\ dup' = "none" /\ dhcpCount' = dhcpCount + 1
          /\ succCount' \in Nat /\ md5' = FALSE
      BY <1>6 DEF SkipLease
    <2> QED
      BY <1>0, <1>n, <2>1, <2>2, <2>3
  <1>7. ASSUME NEW keyed \in BOOLEAN, SecondSuccess(keyed) PROVE PluginTypeInv'
    <2>1. leaseAlarms' \in Nat /\ leaseKnown' = FALSE
      BY <1>7, <1>l DEF SecondSuccess
    <2>2. /\ keepAlives' \in Nat /\ keepKnown' \in BOOLEAN /\ echoKey' \in BOOLEAN
          /\ keepKnown' => keepAlives' > 0
      BY <1>7, <1>q DEF SecondSuccess
    <2>3. dup' = "none" /\ dhcpCount' = 0 /\ succCount' = 0 /\ md5' = FALSE
      BY <1>7 DEF SecondSuccess
    <2> QED
      BY <1>0, <1>n, <2>1, <2>2, <2>3
  <1>8. CASE SecondAuthAtOnce
    <2>1. /\ leaseAlarms' \in Nat /\ leaseKnown' = FALSE
          /\ keepAlives' \in Nat /\ keepKnown' = FALSE /\ echoKey' = FALSE
      BY <1>8, <1>r, <1>l DEF SecondAuthAtOnce
    <2>2. /\ dup' = "none" /\ dhcpCount' = dhcpCount
          /\ succCount' \in Nat /\ md5' = FALSE
      BY <1>8 DEF SecondAuthAtOnce
    <2> QED
      BY <1>0, <1>n, <2>1, <2>2
  <1>c. ASSUME NEW stray \in BOOLEAN, NEW alarms \in Nat, Calls(alarms, stray)
        PROVE  Rest(alarms, stray) \in Nat /\ Rest(alarms, stray) + 1 > 0
    BY <1>c DEF Calls, Rest
  <1>9. ASSUME NEW stray \in BOOLEAN, WaitMore(stray) PROVE PluginTypeInv'
    <2>1. leaseAlarms' \in Nat /\ leaseAlarms' > 0
      BY <1>9, <1>c DEF WaitMore
    <2>2. /\ leaseKnown' = TRUE /\ dhcpCount' = dhcpCount + 1
          /\ UNCHANGED <<succCount, dup, keepAlives, keepKnown, echoKey, md5>>
      BY <1>9 DEF WaitMore, keepVars
    <2> QED
      BY <1>0, <1>n, <2>1, <2>2
  <1>10. ASSUME NEW stray \in BOOLEAN, GiveWaitUp(stray) PROVE PluginTypeInv'
    <2>1. leaseAlarms' \in Nat
      BY <1>10, <1>c DEF GiveWaitUp
    <2>2. StartKeepAlive(echoKey \/ dup = "keyed") /\ (echoKey \/ dup = "keyed") \in BOOLEAN
      BY <1>10 DEF GiveWaitUp
    <2>3. /\ keepAlives' \in Nat /\ keepKnown' \in BOOLEAN /\ echoKey' \in BOOLEAN
          /\ keepKnown' => keepAlives' > 0
      BY <1>s, <2>2
    <2>4. /\ leaseKnown' = FALSE /\ dup' = "none" /\ dhcpCount' = dhcpCount + 1
          /\ succCount' = succCount /\ md5' = md5
      BY <1>10 DEF GiveWaitUp
    <2> QED
      BY <1>0, <1>n, <2>1, <2>3, <2>4
  <1>11. ASSUME NEW stray \in BOOLEAN, GoOn(stray) PROVE PluginTypeInv'
    <2>1. leaseAlarms' \in Nat
      BY <1>11, <1>c DEF GoOn
    <2>2. /\ leaseKnown' = FALSE /\ dup' = "none" /\ md5' = FALSE
          /\ UNCHANGED <<succCount, dhcpCount, keepAlives, keepKnown, echoKey>>
      BY <1>11 DEF GoOn, keepVars
    <2> QED
      BY <1>0, <1>n, <2>1, <2>2
  <1>12. ASSUME NEW stray \in BOOLEAN, BeatAgain(stray) PROVE PluginTypeInv'
    <2>1. keepAlives' \in Nat /\ keepAlives' > 0
      BY <1>12, <1>c DEF BeatAgain
    <2>2. /\ keepKnown' = TRUE
          /\ UNCHANGED <<succCount, dhcpCount, leaseAlarms, leaseKnown, dup, echoKey, md5>>
      BY <1>12 DEF BeatAgain, leaseVars
    <2> QED
      BY <1>0, <1>n, <2>1, <2>2
  <1> QED
    BY <1>1, <1>2, <1>3, <1>4, <1>5, <1>6, <1>7, <1>8, <1>9, <1>10, <1>11, <1>12
    DEF PluginStep

\* Until a stray is called, a handler leaves one of the three.
LEMMA CalmStep ==
  ASSUME Calm, PluginStep, UNCHANGED plug, ~strayed'
  PROVE  Calm'
  <1>0. /\ plug \in Plugins
        /\ plug.heartbeat \in BOOLEAN
        /\ plug.maxDhcp \in Nat
        /\ succCount \in Nat
        /\ dhcpCount \in Nat
        /\ dhcpCount <= plug.maxDhcp + 1
        /\ echoKey \in BOOLEAN
        /\ md5 \in BOOLEAN
    BY PluginTypes DEF Calm, PluginTypeInv
  <1>a. Left(leaseAlarms, leaseKnown) = 0 /\ Left(keepAlives, keepKnown) = 0
    BY NothingLeft
  <1>b. /\ plug.dhcp # "double" \/ succCount = 0 => dhcpCount = 0 /\ leaseAlarms = 0
        /\ leaseAlarms > 0 => dhcpCount <= plug.maxDhcp
    BY DEF Calm, WaitsAreCounted
  <1>c. leaseAlarms > 0 =>
          leaseAlarms = 1 /\ leaseKnown = TRUE /\ keepAlives = 0 /\ keepKnown = FALSE
    BY DEF Calm, PluginTypeInv, OneAlarm
  <1>d. leaseAlarms \in Nat /\ keepAlives \in Nat
    BY DEF Calm, PluginTypeInv
  <1>t. PluginTypeInv'
    BY PluginTypeStep DEF Calm
  <1>1. CASE Untouched
    <2>1. UNCHANGED <<plug, succCount, dhcpCount, leaseAlarms, leaseKnown, dup,
                      keepAlives, keepKnown, echoKey>> /\ md5' \in BOOLEAN
      BY <1>1 DEF Untouched, leaseVars, keepVars
    <2> QED
      BY <2>1 DEF Calm, PluginTypeInv, OneAlarm, FrameIsHeld,
                  KeyIsThere, WaitsAreCounted
  <1>2. CASE ResetSession
    <2>1. /\ leaseAlarms' = 0 /\ leaseKnown' = FALSE /\ dup' = "none"
          /\ keepAlives' = 0 /\ keepKnown' = FALSE /\ echoKey' = FALSE
          /\ dhcpCount' = 0 /\ succCount' = 0
          /\ md5' = FALSE
      BY <1>a, <1>2 DEF ResetSession, CancelLease, ResetKeepAlive
    <2>n. /\ dhcpCount' \in Nat /\ dhcpCount' <= plug'.maxDhcp
          /\ succCount' \in Nat
          /\ plug'.dhcp # "double" \/ succCount' = 0 => dhcpCount' = 0
      BY <1>0, <2>1
    <2>m. plug' \in Plugins
      BY <1>0, <2>1
    <2>b. md5' \in BOOLEAN
      BY <1>0, <2>1
    <2>q. Quiet'
      BY <2>1, <2>n, <2>m, <2>b DEF Quiet
    <2> QED
      BY <2>q, QuietIsSound
  <1>3. CASE Destroy
    <2>1. /\ leaseAlarms' = 0 /\ leaseKnown' = FALSE /\ dup' = "none"
          /\ keepAlives' = 0 /\ keepKnown' = FALSE /\ echoKey' = FALSE
          /\ dhcpCount' = 0 /\ succCount' = 0
          /\ md5' = FALSE
      BY <1>3 DEF Destroy
    <2>n. /\ dhcpCount' \in Nat /\ dhcpCount' <= plug'.maxDhcp
          /\ succCount' \in Nat
          /\ plug'.dhcp # "double" \/ succCount' = 0 => dhcpCount' = 0
      BY <1>0, <2>1
    <2>m. plug' \in Plugins
      BY <1>0, <2>1
    <2>b. md5' \in BOOLEAN
      BY <1>0, <2>1
    <2>q. Quiet'
      BY <2>1, <2>n, <2>m, <2>b DEF Quiet
    <2> QED
      BY <2>q, QuietIsSound
  <1>4. ASSUME NEW keyed \in BOOLEAN, SinglePass(keyed) PROVE Calm'
    <2>1. /\ leaseAlarms' = 0 /\ leaseKnown' = FALSE
          /\ dhcpCount = 0 /\ dhcpCount' = 0
          /\ succCount' \in Nat
          /\ md5' = FALSE
      BY <1>0, <1>a, <1>b, <1>4 DEF SinglePass, CancelLease
    <2>2. dup' = "none"
      BY <1>0, <1>b, <1>4 DEF SinglePass, Calm, FrameIsHeld
    <2>3. CASE keyed
      <3>1. keepAlives' = (IF plug.heartbeat THEN 1 ELSE 0) /\ keepKnown' = plug.heartbeat
            /\ echoKey' = TRUE
        BY <1>0, <1>a, <1>4, <2>3 DEF SinglePass, StartKeepAlive
      <3>n. /\ dhcpCount' \in Nat /\ dhcpCount' <= plug'.maxDhcp + 1
            /\ succCount' \in Nat
            /\ plug'.dhcp # "double" \/ succCount' = 0 => dhcpCount' = 0
        BY <1>0, <2>1, <2>2, <3>1
      <3>m. plug' \in Plugins
        BY <1>0, <2>1, <2>2, <3>1
      <3>b. md5' \in BOOLEAN
        BY <1>0, <2>1, <2>2, <3>1
      <3>e. echoKey' \in BOOLEAN /\ (echoKey' \/ dhcpCount' > plug'.maxDhcp)
        BY <1>0, <2>1, <2>2, <3>1
      <3>q. Beating'
        BY <2>1, <2>2, <3>1, <3>n, <3>m, <3>b, <3>e DEF Beating
      <3> QED
        BY <3>q, BeatingIsSound
    <2>4. CASE ~keyed
      <3>1. keepAlives' = 0 /\ keepKnown' = FALSE /\ echoKey' = FALSE
        BY <1>a, <1>4, <2>4 DEF SinglePass, ResetKeepAlive
      <3>n. /\ dhcpCount' \in Nat /\ dhcpCount' <= plug'.maxDhcp
            /\ succCount' \in Nat
            /\ plug'.dhcp # "double" \/ succCount' = 0 => dhcpCount' = 0
        BY <1>0, <2>1, <2>2, <3>1
      <3>m. plug' \in Plugins
        BY <1>0, <2>1, <2>2, <3>1
      <3>b. md5' \in BOOLEAN
        BY <1>0, <2>1, <2>2, <3>1
      <3>q. Quiet'
        BY <2>1, <2>2, <3>1, <3>n, <3>m, <3>b DEF Quiet
      <3> QED
        BY <3>q, QuietIsSound
    <2> QED
      BY <2>3, <2>4
  <1>5. ASSUME NEW keyed \in BOOLEAN, AwaitLease(keyed) PROVE Calm'
    <2>1. /\ plug.dhcp = "double"
          /\ leaseAlarms' = 1 /\ leaseKnown' = TRUE
          /\ dhcpCount' = dhcpCount + 1 /\ dhcpCount + 1 <= plug.maxDhcp
          /\ succCount' = succCount + 1
          /\ md5' = FALSE
      BY <1>a, <1>5 DEF AwaitLease, FirstOfTwo
    <2>2. dup' \in {"plain", "keyed"}
      BY <1>5 DEF AwaitLease
    <2>3. keepAlives' = 0 /\ keepKnown' = FALSE /\ echoKey' = FALSE
      BY <1>a, <1>5 DEF AwaitLease, ResetKeepAlive
    <2>n. /\ dhcpCount' \in Nat /\ dhcpCount' <= plug'.maxDhcp
          /\ succCount' \in Nat /\ succCount' > 0
      BY <1>0, <2>1, <2>2, <2>3
    <2>m. plug' \in Plugins /\ plug'.dhcp = "double"
      BY <1>0, <2>1, <2>2, <2>3
    <2>b. md5' \in BOOLEAN
      BY <1>0, <2>1, <2>2, <2>3
    <2>q. Waiting'
      BY <2>1, <2>2, <2>3, <2>n, <2>m, <2>b DEF Waiting
    <2> QED
      BY <2>q, WaitingIsSound
  <1>6. ASSUME NEW keyed \in BOOLEAN, SkipLease(keyed) PROVE Calm'
    <2>1. /\ plug.dhcp = "double"
          /\ leaseAlarms' = 0 /\ leaseKnown' = FALSE
          /\ dhcpCount' = dhcpCount + 1 /\ dhcpCount + 1 > plug.maxDhcp
          /\ succCount = 0 /\ succCount' = succCount + 1
          /\ md5' = FALSE /\ dup' = "none"
      BY <1>a, <1>6 DEF SkipLease, FirstOfTwo, CancelLease
    <2>2. keepAlives' = (IF plug.heartbeat THEN 1 ELSE 0) /\ keepKnown' = plug.heartbeat
          /\ echoKey' = keyed
      BY <1>0, <1>a, <1>6 DEF SkipLease, StartKeepAlive
    <2>3. dhcpCount' <= plug.maxDhcp + 1
      BY <1>0, <1>b, <2>1
    <2>n. /\ dhcpCount' \in Nat /\ dhcpCount' <= plug'.maxDhcp + 1
          /\ succCount' \in Nat
          /\ plug'.dhcp # "double" \/ succCount' = 0 => dhcpCount' = 0
      BY <1>0, <2>1, <2>2, <2>3
    <2>m. plug' \in Plugins
      BY <1>0, <2>1, <2>2, <2>3
    <2>b. md5' \in BOOLEAN
      BY <1>0, <2>1, <2>2, <2>3
    <2>e. echoKey' \in BOOLEAN /\ (echoKey' \/ dhcpCount' > plug'.maxDhcp)
      BY <1>0, <2>1, <2>2, <2>3
    <2>q. Beating'
      BY <2>1, <2>2, <2>3, <2>n, <2>m, <2>b, <2>e DEF Beating
    <2> QED
      BY <2>q, BeatingIsSound
  <1>7. ASSUME NEW keyed \in BOOLEAN, SecondSuccess(keyed) PROVE Calm'
    <2>1. /\ leaseAlarms' = 0 /\ leaseKnown' = FALSE
          /\ dhcpCount' = 0 /\ succCount' = 0
          /\ md5' = FALSE /\ dup' = "none"
      BY <1>a, <1>7 DEF SecondSuccess, CancelLease
    <2>3. CASE keyed
      <3>1. keepAlives' = (IF plug.heartbeat THEN 1 ELSE 0) /\ keepKnown' = plug.heartbeat
            /\ echoKey' = TRUE
        BY <1>0, <1>a, <1>7, <2>3 DEF SecondSuccess, StartKeepAlive
      <3>n. /\ dhcpCount' \in Nat /\ dhcpCount' <= plug'.maxDhcp + 1
            /\ succCount' \in Nat
            /\ plug'.dhcp # "double" \/ succCount' = 0 => dhcpCount' = 0
        BY <1>0, <2>1, <3>1
      <3>m. plug' \in Plugins
        BY <1>0, <2>1, <3>1
      <3>b. md5' \in BOOLEAN
        BY <1>0, <2>1, <3>1
      <3>e. echoKey' \in BOOLEAN /\ (echoKey' \/ dhcpCount' > plug'.maxDhcp)
        BY <1>0, <2>1, <3>1
      <3>q. Beating'
        BY <2>1, <3>1, <3>n, <3>m, <3>b, <3>e DEF Beating
      <3> QED
        BY <3>q, BeatingIsSound
    <2>4. CASE ~keyed
      <3>1. keepAlives' = 0 /\ keepKnown' = FALSE /\ echoKey' = FALSE
        BY <1>a, <1>7, <2>4 DEF SecondSuccess, ResetKeepAlive
      <3>n. /\ dhcpCount' \in Nat /\ dhcpCount' <= plug'.maxDhcp
            /\ succCount' \in Nat
            /\ plug'.dhcp # "double" \/ succCount' = 0 => dhcpCount' = 0
        BY <1>0, <2>1, <3>1
      <3>m. plug' \in Plugins
        BY <1>0, <2>1, <3>1
      <3>b. md5' \in BOOLEAN
        BY <1>0, <2>1, <3>1
      <3>q. Quiet'
        BY <2>1, <3>1, <3>n, <3>m, <3>b DEF Quiet
      <3> QED
        BY <3>q, QuietIsSound
    <2> QED
      BY <2>3, <2>4
  <1>8. CASE SecondAuthAtOnce
    <2>1. /\ leaseAlarms' = 0 /\ leaseKnown' = FALSE /\ dup' = "none"
          /\ keepAlives' = 0 /\ keepKnown' = FALSE /\ echoKey' = FALSE
          /\ succCount = 0 /\ succCount' = succCount + 1 /\ md5' = FALSE
          /\ dhcpCount' = dhcpCount
      BY <1>a, <1>8 DEF SecondAuthAtOnce, FirstOfTwo, CancelLease, ResetKeepAlive
    <2>2. dhcpCount' = 0 /\ dhcpCount' <= plug.maxDhcp
      BY <1>0, <1>b, <2>1
    <2>n. /\ dhcpCount' \in Nat /\ dhcpCount' <= plug'.maxDhcp
          /\ succCount' \in Nat
          /\ plug'.dhcp # "double" \/ succCount' = 0 => dhcpCount' = 0
      BY <1>0, <2>1, <2>2
    <2>m. plug' \in Plugins
      BY <1>0, <2>1, <2>2
    <2>b. md5' \in BOOLEAN
      BY <1>0, <2>1, <2>2
    <2>q. Quiet'
      BY <2>1, <2>2, <2>n, <2>m, <2>b DEF Quiet
    <2> QED
      BY <2>q, QuietIsSound
  <1>9. ASSUME NEW stray \in BOOLEAN, WaitMore(stray) PROVE Calm'
    <2>s. stray = FALSE
      BY <1>9 DEF WaitMore, Calls
    <2>1. /\ leaseAlarms > 0
          /\ leaseAlarms' = leaseAlarms /\ leaseKnown' = TRUE /\ dup' = dup
          /\ keepAlives' = keepAlives /\ keepKnown' = keepKnown /\ echoKey' = echoKey
          /\ dhcpCount' = dhcpCount + 1 /\ dhcpCount + 1 <= plug.maxDhcp
          /\ succCount' = succCount /\ md5' = md5
      BY <1>0, <1>d, <1>9, <2>s DEF WaitMore, Calls, Rest, AtLimit, keepVars
    <2>2. dup # "none" /\ dup \in {"none", "plain", "keyed"}
      BY <2>1 DEF Calm, FrameIsHeld, PluginTypeInv
    <2>3. leaseAlarms = 1 /\ keepKnown = FALSE /\ keepAlives = 0
      BY <2>1, <1>c
    <2>4. succCount > 0 /\ plug.dhcp = "double"
      BY <1>0, <1>b, <2>1
    <2>5. OneAlarm' /\ FrameIsHeld'
      BY <2>1, <2>2, <2>3 DEF OneAlarm, FrameIsHeld
    <2>6. KeyIsThere'
      <3>1. ~(plug.heartbeat /\ (echoKey \/ dhcpCount > plug.maxDhcp))
        BY <2>3 DEF Calm, KeyIsThere
      <3>2. ~(dhcpCount' > plug.maxDhcp) /\ ~(keepAlives' > 0)
        BY <1>0, <2>1, <2>3
      <3> QED
        BY <2>1, <3>1, <3>2 DEF KeyIsThere
    <2>7. WaitsAreCounted' /\ dhcpCount' <= plug'.maxDhcp + 1
      BY <1>0, <2>1, <2>4 DEF WaitsAreCounted
    <2> QED
      BY <1>t, <2>5, <2>6, <2>7 DEF Calm
  <1>10. ASSUME NEW stray \in BOOLEAN, GiveWaitUp(stray) PROVE Calm'
    <2>s. stray = FALSE
      BY <1>10 DEF GiveWaitUp, Calls
    <2>1. /\ leaseAlarms > 0
          /\ leaseAlarms' = leaseAlarms - 1 /\ leaseKnown' = FALSE /\ dup' = "none"
          /\ dhcpCount' = dhcpCount + 1 /\ dhcpCount + 1 > plug.maxDhcp
          /\ succCount' = succCount /\ md5' = md5
      BY <1>0, <1>d, <1>10, <2>s DEF GiveWaitUp, Calls, Rest, AtLimit
    <2>2. /\ keepAlives' = (IF plug.heartbeat THEN 1 ELSE 0) /\ keepKnown' = plug.heartbeat
          /\ echoKey' = (echoKey \/ dup = "keyed")
      BY <1>0, <1>a, <1>10 DEF GiveWaitUp, StartKeepAlive
    <2>3. leaseAlarms' = 0 /\ echoKey' \in BOOLEAN
      BY <1>0, <1>c, <2>1, <2>2
    <2>4. dhcpCount' <= plug.maxDhcp + 1 /\ dhcpCount' > plug.maxDhcp /\ dhcpCount' \in Nat
          /\ succCount' # 0 /\ plug.dhcp = "double"
      BY <1>0, <1>b, <2>1
    <2>n. /\ dhcpCount' \in Nat /\ dhcpCount' <= plug'.maxDhcp + 1
          /\ succCount' \in Nat
          /\ plug'.dhcp # "double" \/ succCount' = 0 => dhcpCount' = 0
      BY <1>0, <2>1, <2>2, <2>3, <2>4
    <2>m. plug' \in Plugins
      BY <1>0, <2>1, <2>2, <2>3, <2>4
    <2>b. md5' \in BOOLEAN
      BY <1>0, <2>1, <2>2, <2>3, <2>4
    <2>e. echoKey' \in BOOLEAN /\ (echoKey' \/ dhcpCount' > plug'.maxDhcp)
      BY <1>0, <2>1, <2>2, <2>3, <2>4
    <2>q. Beating'
      BY <2>1, <2>2, <2>3, <2>4, <2>n, <2>m, <2>b, <2>e DEF Beating
    <2> QED
      BY <2>q, BeatingIsSound
  <1>11. ASSUME NEW stray \in BOOLEAN, GoOn(stray) PROVE Calm'
    <2>s. stray = FALSE
      BY <1>11 DEF GoOn, Calls
    <2>1. /\ leaseAlarms > 0
          /\ leaseAlarms' = leaseAlarms - 1 /\ leaseKnown' = FALSE /\ dup' = "none"
          /\ dhcpCount' = dhcpCount
          /\ succCount' = succCount /\ md5' = FALSE
          /\ keepAlives' = keepAlives /\ keepKnown' = keepKnown /\ echoKey' = echoKey
      BY <1>d, <1>11, <2>s DEF GoOn, Calls, Rest, keepVars
    <2>2. leaseAlarms' = 0 /\ keepAlives' = 0 /\ keepKnown' = FALSE
      BY <1>c, <2>1
    <2>3. dhcpCount' <= plug.maxDhcp /\ succCount # 0 /\ plug.dhcp = "double"
      BY <1>0, <1>b, <2>1
    <2>5. OneAlarm' /\ FrameIsHeld'
      BY <2>1, <2>2 DEF OneAlarm, FrameIsHeld
    <2>6. KeyIsThere'
      <3>1. ~(plug.heartbeat /\ (echoKey \/ dhcpCount > plug.maxDhcp))
        BY <1>c, <2>1 DEF Calm, KeyIsThere
      <3> QED
        BY <2>1, <2>2, <3>1 DEF KeyIsThere
    <2>7. WaitsAreCounted' /\ dhcpCount' <= plug'.maxDhcp + 1
      BY <1>0, <2>1, <2>2, <2>3 DEF WaitsAreCounted
    <2> QED
      BY <1>t, <2>5, <2>6, <2>7 DEF Calm
  <1>12. ASSUME NEW stray \in BOOLEAN, BeatAgain(stray) PROVE Calm'
    <2>s. stray = FALSE
      BY <1>12 DEF BeatAgain, Calls
    <2>1. /\ keepAlives > 0 /\ keepKnown' = TRUE
          /\ UNCHANGED <<plug, succCount, dhcpCount, leaseAlarms, leaseKnown, dup,
                         keepAlives, echoKey, md5>>
      BY <1>d, <1>12, <2>s DEF BeatAgain, Calls, Rest, leaseVars
    <2>2. keepKnown = TRUE
      BY <2>1 DEF Calm, OneAlarm, PluginTypeInv
    <2> QED
      BY <2>1, <2>2 DEF Calm, PluginTypeInv, OneAlarm, FrameIsHeld,
                  KeyIsThere, WaitsAreCounted
  <1> QED
    BY <1>1, <1>2, <1>3, <1>4, <1>5, <1>6, <1>7, <1>8, <1>9, <1>10, <1>11, <1>12
    DEF PluginStep

\* A call of a stray is never forgotten, and strays are counted.
LEMMA StraysAreCounted ==
  ASSUME PluginInv, RjNext
  PROVE  StrayTypes' /\ (strayed => strayed')
  <1>0. strayLeases \in Nat /\ strayBeats \in Nat /\ strayed \in BOOLEAN /\ PluginTypeInv
    BY DEF PluginInv, StrayTypes
  <1>1. CASE UNCHANGED strays
    BY <1>0, <1>1 DEF strays, StrayTypes
  <1>2. ASSUME NEW stray \in BOOLEAN,
               LeaseDue(stray) \/ Beat(stray)
        PROVE  StrayTypes' /\ (strayed => strayed')
    <2>1. /\ strayed' = (strayed \/ stray)
          /\ strayLeases' \in Nat
          /\ strayBeats' \in Nat
      BY <1>0, <1>2 DEF LeaseDue, Beat
    <2> QED
      BY <1>0, <2>1 DEF StrayTypes
  <1>3. CASE RingEnds
    BY <1>0, <1>3 DEF RingEnds, StrayTypes
  <1>4. CASE ResetSession /\ MayStray
    <2>1. /\ leaseAlarms' = leaseAlarms \/ (leaseKnown /\ leaseAlarms' = leaseAlarms - 1)
          /\ keepAlives' = keepAlives \/ (keepKnown /\ keepAlives' = keepAlives - 1)
      BY <1>4 DEF ResetSession, CancelLease, ResetKeepAlive, Left
    <2>2. leaseAlarms - leaseAlarms' \in Nat /\ keepAlives - keepAlives' \in Nat
      BY <1>0, <2>1 DEF PluginTypeInv
    <2>3. /\ strayLeases' \in {strayLeases, strayLeases + (leaseAlarms - leaseAlarms')}
          /\ strayBeats' \in {strayBeats, strayBeats + (keepAlives - keepAlives')}
          /\ strayed' = strayed
      BY <1>4 DEF MayStray
    <2> QED
      BY <1>0, <2>2, <2>3 DEF StrayTypes
  <1>5. CASE RjCheck
    BY <1>1, <1>4, <1>5 DEF RjCheck
  <1>6. CASE RjServerStep \/ RjMachineStep
    BY <1>1, <1>6 DEF RjServerStep, RjMachineStep
  <1>7. CASE LeaseStep \/ BeatStep
    BY <1>2, <1>7
    DEF LeaseStep, BeatStep, LeaseMissing, LeaseGivenUp, LeaseCrashes, LeaseObtained
  <1> QED
    BY <1>3, <1>5, <1>6, <1>7 DEF RjNext, RjCheckStep

\* Whatever handler runs, the plugin takes one of those steps.
LEMMA SeeOtherIsUntouched ==
  ASSUME md5 \in BOOLEAN
  PROVE  SeeOther \/ PrepareStart \/ UNCHANGED session => Untouched
  <1>1. md5' = FALSE => md5' \in BOOLEAN
    OBVIOUS
  <1>2. UNCHANGED session => UNCHANGED <<leaseVars, keepVars>> /\ md5' = md5
    BY DEF session
  <1> QED
    BY <1>1, <1>2 DEF SeeOther, PrepareStart, Untouched

\* Every handler of the composition is a step of the plugin.
LEMMA HandlersTakePluginSteps ==
  ASSUME md5 \in BOOLEAN, RjNext
  PROVE  PluginStep /\ UNCHANGED plug
  <1> USE DEF PluginStep, UnlessExit
  <1>1. ASSUME NEW kind \in Requests, RjRecvRequest(kind) PROVE PluginStep
    BY <1>1 DEF RjRecvRequest, SeeRequest, Untouched
  <1>2. ASSUME UnlessExit(SeeSuccess) PROVE PluginStep
    <2>1. Destroy \/ SeeSuccess
      BY <1>2
    <2> QED
      BY <2>1 DEF SeeSuccess, CopyFails
  <1>3. ASSUME FirstWithLease PROVE PluginStep
    <2>1. Destroy \/ SecondAuthAtOnce
      BY <1>3 DEF FirstWithLease, SecondAuthAtOnce
    <2> QED
      BY <2>1
  <1>4. ASSUME RjRecvFailure \/ RjRecvOther \/ RjRecvUncopied PROVE PluginStep
    <2>1. Destroy \/ ResetSession \/ SeeOther
      BY <1>4 DEF RjRecvFailure, RjRecvOther, RjRecvUncopied
    <2> QED
      BY <2>1, SeeOtherIsUntouched
  <1>5. ASSUME RjPrepare \/ RjStop \/ RjRetransmit \/ RjRepeatSuccess \/ RjRestartTimer PROVE PluginStep
    <2>1. Destroy \/ PrepareStart \/ UNCHANGED session
      BY <1>5 DEF RjPrepare, RjStop, RjRetransmit, RjRepeatSuccess, RjRestartTimer
    <2> QED
      BY <2>1, SeeOtherIsUntouched
  <1>6. ASSUME RjCheck PROVE PluginStep
    <2>1. Destroy \/ ResetSession \/ UNCHANGED session
      BY <1>6 DEF RjCheck
    <2> QED
      BY <2>1, SeeOtherIsUntouched
  <1>7. ASSUME RingEnds PROVE PluginStep
    <2>1. UNCHANGED session
      BY <1>7 DEF RingEnds
    <2> QED
      BY <2>1, SeeOtherIsUntouched
  <1>8. ASSUME NEW stray \in BOOLEAN, LeaseMissing(stray) PROVE PluginStep
    <2>1. WaitMore(stray)
      BY <1>8 DEF LeaseMissing, LeaseDue, WaitMore, Calls
    <2> QED
      BY <2>1
  <1>9. ASSUME NEW stray \in BOOLEAN, LeaseGivenUp(stray) \/ LeaseCrashes(stray) PROVE PluginStep
    <2>1. Destroy \/ GiveWaitUp(stray)
      BY <1>9 DEF LeaseGivenUp, LeaseCrashes, LeaseDue, GiveWaitUp, Calls
    <2> QED
      BY <2>1
  <1>10. ASSUME NEW stray \in BOOLEAN, LeaseObtained(stray) PROVE PluginStep
    <2>1. Destroy \/ GoOn(stray)
      BY <1>10 DEF LeaseObtained, LeaseDue, GoOn, Calls
    <2> QED
      BY <2>1
  <1>11. ASSUME NEW stray \in BOOLEAN, Beat(stray) PROVE PluginStep
    <2>1. Destroy \/ BeatAgain(stray)
      BY <1>11 DEF Beat, BeatAgain, Calls
    <2> QED
      BY <2>1
  <1>12. UNCHANGED plug
    BY DEF RjNext, RjServerStep, RjMachineStep, RjCheckStep, RingEnds, LeaseStep, BeatStep,
           LeaseMissing, LeaseGivenUp, LeaseCrashes, LeaseObtained, LeaseDue, Beat
  <1> QED
    BY <1>1, <1>2, <1>3, <1>4, <1>5, <1>6, <1>7, <1>8, <1>9, <1>10, <1>11, <1>12
    DEF RjNext, RjServerStep, RjMachineStep, RjCheckStep, LeaseStep, BeatStep, RjRecvSuccess

\* Every step keeps what concerns the plugin alone.
LEMMA PluginStepKeeps ==
  ASSUME PluginInv, RjNext
  PROVE  PluginInv'
  <1>1. PluginTypeInv /\ md5 \in BOOLEAN
    BY DEF PluginInv, PluginTypeInv
  <1>2. PluginStep /\ UNCHANGED plug
    BY <1>1, HandlersTakePluginSteps
  <1>3. PluginTypeInv'
    BY <1>1, <1>2, PluginTypeStep
  <1>4. StrayTypes' /\ (~strayed' => ~strayed)
    BY StraysAreCounted
  <1>5. ~strayed' => Calm'
    BY <1>2, <1>4, CalmStep DEF PluginInv
  <1> QED
    BY <1>3, <1>4, <1>5 DEF PluginInv

----------------------------------------------------------------------------
(* The plugin and the state of the supplicant. *)

\* An EAP-Failure resets the session, and nothing is begun before the next
\* Start: the alarms that could are gone.
LEMMA FailureStep ==
  ASSUME PluginInv, OverInFailure, RjNext, state' = "FAILURE", ~strayed'
  PROVE  SessionOver'
  <1>0. ~strayed
    BY StraysAreCounted
  <1>u. ASSUME RjRecvUncopied PROVE FALSE
    BY <1>u DEF RjRecvUncopied, Exit
  <1>1. ASSUME NEW kind \in Requests, RjRecvRequest(kind) PROVE FALSE
    BY <1>1 DEF RjRecvRequest, Copied, RecvRequest, RespondExits, Respond, SendFails, Exit, AnswerTo
  <1>2. ASSUME RjRecvSuccess PROVE FALSE
    <2>1. RecvSuccess \/ FirstWithLease
      BY <1>2 DEF RjRecvSuccess, Copied
    <2> QED
      BY <2>1 DEF RecvSuccess, FirstWithLease, Exit, SendFails, NextRoundExits, FinalSuccess, NextRound
  <1>3. ASSUME RjRecvFailure PROVE SessionOver'
    <2>1. exit = "no" /\ exit' = "no"
      <3>1. RecvFailure /\ exit = "no"
        BY <1>3 DEF RjRecvFailure, Copied, RecvFailure, Receive, Running
      <3> QED
        BY <3>1 DEF RecvFailure, Exit, EnterFailure
    <2>2. ResetSession
      BY <1>3, <2>1 DEF RjRecvFailure, UnlessExit
    <2> QED
      BY <1>0, <2>2, NothingLeft DEF PluginInv, ResetSession, CancelLease, ResetKeepAlive, SessionOver
  <1>4. ASSUME RjRecvOther PROVE SessionOver'
    <2>1. exit' = "no" /\ state = "FAILURE"
      BY <1>4 DEF RjRecvOther, Copied, RecvOther, Receive, Running
    <2>2. UNCHANGED <<leaseVars, keepVars>>
      BY <1>4, <2>1 DEF RjRecvOther, UnlessExit, SeeOther
    <2> QED
      BY <1>0, <2>1, <2>2 DEF OverInFailure, SessionOver, leaseVars, keepVars
  <1>5. ASSUME RjPrepare \/ RjStop \/ RjRestartTimer PROVE FALSE
    BY <1>5 DEF RjPrepare, RjStop, RjRestartTimer, Prepare, Stop, RestartTimer, SendFails, Exit,
                RestartAuth
  <1>6. ASSUME RjRetransmit PROVE FALSE
    BY <1>6 DEF RjRetransmit, Retransmit, RespondExits, Respond, SendFails, Exit, Responding
  <1>7. ASSUME RjRepeatSuccess PROVE FALSE
    BY <1>7 DEF RjRepeatSuccess, RepeatSuccess, Exit, SendFails, NextRoundExits, FinalSuccess,
                NextRound
  <1>8. ASSUME RjCheck PROVE SessionOver'
    <2>1. ASSUME CheckFailed PROVE FALSE
      BY <2>1 DEF CheckFailed, SendFails, Exit, RestartAuth
    <2>2. state = "FAILURE" /\ UNCHANGED session
      BY <1>8, <2>1 DEF RjCheck, CheckSkipped, CheckAnswered
    <2>3. UNCHANGED <<leaseVars, keepVars>>
      BY <2>2 DEF session
    <2> QED
      BY <1>0, <2>2, <2>3 DEF OverInFailure, SessionOver, leaseVars, keepVars
  <1>9. ASSUME NEW stray \in BOOLEAN, LeaseMissing(stray) \/ LeaseGivenUp(stray) PROVE FALSE
    <2>1. stray = FALSE /\ UNCHANGED vars
      BY <1>9 DEF LeaseMissing, LeaseGivenUp, LeaseDue
    <2>2. leaseAlarms > 0
      BY <1>9, <2>1 DEF LeaseMissing, LeaseGivenUp, LeaseDue
    <2>3. state = "FAILURE"
      BY <2>1 DEF vars
    <2> QED
      BY <1>0, <2>2, <2>3 DEF OverInFailure, SessionOver
  <1>10. ASSUME NEW stray \in BOOLEAN, LeaseCrashes(stray) \/ LeaseObtained(stray) PROVE FALSE
    BY <1>10 DEF LeaseCrashes, LeaseObtained, RespondExits, Respond, SendFails, Exit
  <1>11. ASSUME NEW stray \in BOOLEAN, Beat(stray) PROVE FALSE
    <2>1. stray = FALSE /\ (state' = "UNKNOWN" \/ state' = state)
      BY <1>11 DEF Beat, SendFails, Exit, vars
    <2>2. keepAlives > 0
      BY <1>11, <2>1 DEF Beat
    <2> QED
      BY <1>0, <2>1, <2>2 DEF OverInFailure, SessionOver
  <1>12. ASSUME RingEnds PROVE SessionOver'
    <2>1. UNCHANGED vars /\ UNCHANGED session
      BY <1>12 DEF RingEnds
    <2>2. state = "FAILURE" /\ UNCHANGED <<leaseVars, keepVars>>
      BY <2>1 DEF vars, session
    <2> QED
      BY <1>0, <2>2 DEF OverInFailure, SessionOver, leaseVars, keepVars
  <1> QED
    BY <1>u, <1>1, <1>2, <1>3, <1>4, <1>5, <1>6, <1>7, <1>8, <1>9, <1>10, <1>11, <1>12
    DEF RjNext, RjServerStep, RjMachineStep, RjCheckStep, LeaseStep, BeatStep

\* The challenge is kept by the request that is answered with it, and only
\* its retransmission leaves it.
LEMMA ChallengeStep ==
  ASSUME PluginInv, ChallengeIsCurrent, RjNext, md5'
  PROVE  state' = "CHALLENGE_SENT" /\ lastFrame' = "challenge"
  <1> DEFINE Answering == state' = "CHALLENGE_SENT" /\ lastFrame' = "challenge"
  <1>0. ~Destroy /\ ~ResetSession /\ ~SeeOther /\ ~PrepareStart
    BY DEF Destroy, ResetSession, SeeOther, PrepareStart
  <1>1. ASSUME NEW kind \in Requests, RjRecvRequest(kind) PROVE Answering
    <2>1. exit' = "no" /\ SeeRequest(kind) /\ RecvRequest(kind)
      BY <1>0, <1>1 DEF RjRecvRequest, Copied, UnlessExit
    <2>2. kind = "challenge"
      BY <2>1 DEF SeeRequest
    <2> QED
      <3>1. lastFrame' # "uncopied"
        BY <1>1 DEF RjRecvRequest, Copied
      <3> QED
        BY <2>1, <2>2, <3>1
        DEF RecvRequest, RespondExits, Respond, SendFails, Exit, AnswerTo, Keep
  <1>2. ASSUME RjRecvSuccess PROVE FALSE
    <2>1. ~SeeSuccess
      BY <1>0 DEF SeeSuccess, CopyFails, SinglePass, AwaitLease, SkipLease, SecondSuccess
    <2>2. FirstWithLease
      BY <1>0, <1>2, <2>1 DEF RjRecvSuccess, Copied, UnlessExit
    <2> QED
      BY <1>0, <2>2 DEF FirstWithLease, UnlessExit
  <1>3. ASSUME RjRecvFailure \/ RjRecvOther \/ RjRecvUncopied \/ RjPrepare \/ RjStop \/ RjRestartTimer PROVE FALSE
    BY <1>0, <1>3 DEF RjRecvFailure, RjRecvOther, RjRecvUncopied, RjPrepare, RjStop, RjRestartTimer, UnlessExit
  <1>4. ASSUME RjRetransmit PROVE Answering
    <2>1. exit' = "no" /\ UNCHANGED session /\ Retransmit
      BY <1>0, <1>4 DEF RjRetransmit, UnlessExit
    <2>2. state' = state /\ lastFrame' = lastFrame
      BY <2>1 DEF Retransmit, RespondExits, Respond, SendFails, Exit
    <2> QED
      BY <2>1, <2>2 DEF ChallengeIsCurrent, session
  <1>5. ASSUME RjRepeatSuccess PROVE FALSE
    <2>1. UNCHANGED session /\ state = "SUCCESS"
      BY <1>0, <1>5 DEF RjRepeatSuccess, RepeatSuccess, UnlessExit
    <2> QED
      BY <2>1 DEF ChallengeIsCurrent, session
  <1>6. ASSUME RjCheck PROVE Answering
    <2>1. UNCHANGED session
      BY <1>0, <1>6 DEF RjCheck, UnlessExit
    <2>2. state = "CHALLENGE_SENT" /\ lastFrame = "challenge"
      BY <2>1 DEF ChallengeIsCurrent, session
    <2>3. CheckSkipped
      BY <1>6, <2>2 DEF RjCheck, CheckAnswered, CheckFailed
    <2> QED
      BY <2>2, <2>3 DEF CheckSkipped
  <1>7. ASSUME NEW stray \in BOOLEAN, LeaseMissing(stray) \/ LeaseGivenUp(stray) PROVE Answering
    <2>1. md5' = md5 /\ UNCHANGED vars
      BY <1>7 DEF LeaseMissing, LeaseGivenUp
    <2> QED
      BY <2>1 DEF ChallengeIsCurrent, vars
  <1>8. ASSUME NEW stray \in BOOLEAN, LeaseCrashes(stray) \/ LeaseObtained(stray) PROVE FALSE
    BY <1>0, <1>8 DEF LeaseCrashes, LeaseObtained, UnlessExit
  <1>9. ASSUME (\E stray \in BOOLEAN : Beat(stray)) \/ RingEnds PROVE Answering
    <2>1. md5' = md5 /\ UNCHANGED vars
      BY <1>0, <1>9 DEF Beat, RingEnds, session
    <2> QED
      BY <2>1 DEF ChallengeIsCurrent, vars
  <1> QED
    BY <1>1, <1>2, <1>3, <1>4, <1>5, <1>6, <1>7, <1>8, <1>9
    DEF RjNext, RjServerStep, RjMachineStep, RjCheckStep, LeaseStep, BeatStep

----------------------------------------------------------------------------
\* The invariant of plugin and supplicant holds always.
LEMMA Inductive == RjSpec => []IInv
  <1>1. RjInit => IInv
    <2>1. RjInit => OverInFailure /\ ChallengeIsCurrent
      BY DEF RjInit, Init, OverInFailure, ChallengeIsCurrent
    <2> QED
      BY <2>1, InitPlugin DEF IInv
  <1>2. IInv /\ [RjNext]_rjVars => IInv'
    <2> SUFFICES ASSUME IInv, [RjNext]_rjVars PROVE IInv'
      OBVIOUS
    <2>0. PluginInv /\ OverInFailure /\ ChallengeIsCurrent
      BY DEF IInv
    <2>1. CASE RjNext
      <3>1. PluginInv'
        BY <2>0, <2>1, PluginStepKeeps
      <3>2. OverInFailure'
        BY <2>0, <2>1, FailureStep DEF OverInFailure
      <3>3. ChallengeIsCurrent'
        BY <2>0, <2>1, ChallengeStep DEF ChallengeIsCurrent
      <3> QED
        BY <3>1, <3>2, <3>3 DEF IInv
    <2>2. CASE UNCHANGED rjVars
      <3>1. UNCHANGED vars /\ UNCHANGED session /\ UNCHANGED plug /\ UNCHANGED strays
        BY <2>2 DEF rjVars
      <3>2. UNCHANGED <<succCount, dhcpCount, leaseAlarms, leaseKnown, dup, keepAlives,
                        keepKnown, echoKey, md5, plug, strayLeases, strayBeats, strayed>>
        BY <3>1 DEF session, strays, leaseVars, keepVars
      <3>3. PluginInv'
        BY <2>0, <3>2
        DEF PluginInv, PluginTypeInv, StrayTypes, Calm, OneAlarm, FrameIsHeld, KeyIsThere,
            WaitsAreCounted
      <3>4. OverInFailure' /\ ChallengeIsCurrent'
        BY <2>0, <3>1, <3>2 DEF OverInFailure, SessionOver, ChallengeIsCurrent, vars
      <3> QED
        BY <3>3, <3>4 DEF IInv
    <2> QED
      BY <2>1, <2>2
  <1> QED
    BY <1>1, <1>2, PTL DEF RjSpec

\* The parts of the invariant that the properties of RjV3Session are made of.
LEMMA InvParts ==
  ASSUME IInv
  PROVE  /\ SessionTypeOK
         /\ TimersAreOwned
         /\ LeaseWaitHoldsFrame
         /\ HeartbeatHasKey
         /\ FailureEndsSession
         /\ ChallengeIsCurrent
  <1>1. PluginTypeInv /\ StrayTypes /\ (strayed \/ Calm) /\ OverInFailure /\ ChallengeIsCurrent
    BY DEF IInv, PluginInv, StrayTypes
  <1>2. SessionTypeOK
    BY <1>1 DEF PluginTypeInv, StrayTypes, Calm, SessionTypeOK
  <1>3. TimersAreOwned /\ HeartbeatHasKey
    BY <1>1 DEF Calm, OneAlarm, KeyIsThere, TimersAreOwned, HeartbeatHasKey
  <1>4. LeaseWaitHoldsFrame
    BY <1>1 DEF PluginTypeInv, Calm, FrameIsHeld, LeaseWaitHoldsFrame
  <1>5. FailureEndsSession
    BY <1>1 DEF OverInFailure, SessionOver, FailureEndsSession
  <1> QED
    BY <1>1, <1>2, <1>3, <1>4, <1>5

\* The type invariant: every count is a number, and dhcp_count stops one above
\* max_dhcp_count unless a stray has been called.
THEOREM SessionTypes == RjSpec => []SessionTypeOK
  BY Inductive, InvParts, PTL

\* Whatever the server sends and whenever the alarms go off, the alarms of the
\* plugin stay within reach of the ids it keeps (rjv3_reset_session,
\* rjv3_process_success, rjv3_start_secondary_auth), until an alarm that was
\* cancelled in its ring is called all the same.
THEOREM TimersStayOwned == RjSpec => []TimersAreOwned
  BY Inductive, InvParts, PTL

\* rjv3_start_secondary_auth finds the frame it was scheduled with, whatever
\* happened in between, unless it is called for an alarm that was cancelled in
\* its ring; and even then no copy of a frame is left behind without an alarm
\* that will free it.
THEOREM WaitKeepsItsFrame == RjSpec => []LeaseWaitHoldsFrame
  BY Inductive, InvParts, PTL

\* The heartbeat is sent exactly while there is a key for it, the sessions
\* whose lease was given up excepted, and the beats that were cancelled in
\* their ring.
THEOREM HeartbeatIsKeyed == RjSpec => []HeartbeatHasKey
  BY Inductive, InvParts, PTL

\* An EAP-Failure leaves nothing of the session behind, and no alarm begins
\* one before the supplicant starts again, until a stray has been called.
THEOREM FailureIsTheEnd == RjSpec => []FailureEndsSession
  BY Inductive, InvParts, PTL

\* The challenge that rjv3_prepare_frame hashes a response with is the one of
\* the request being answered.
THEOREM ResponsesUseTheirChallenge == RjSpec => []ChallengeIsCurrent
  BY Inductive, InvParts, PTL

=============================================================================
