--------------------------- MODULE LinkClockProofs ---------------------------
(***************************************************************************)
(* Proofs about the timing of the link, for every value of its constants   *)
(* that meets LinkClockAssumption: the numbers of hub.go, client.go and    *)
(* sensor.go may change, as long as that stays true.                       *)
(***************************************************************************)
EXTENDS LinkClock, TLAPS

LEMMA Positive ==
  /\ OfflineAfter \in Nat /\ PollHold \in Nat /\ ClientTimeout \in Nat /\ Retry \in Nat
  /\ SweepEvery \in Nat /\ Delay \in Nat
  /\ 0 < OfflineAfter
  /\ PollHold + Retry + 3 * Delay < OfflineAfter
BY LinkClockAssumption

\* No timer runs past its end.
TimersInv ==
  /\ swept <= SweepEvery
  /\ at \in Moving \cup {"pause"} => timer <= Lasts(at)
  /\ at \in Moving \cup {"lost"} => asked <= ClientTimeout

\* What a Location that is online has left until the next sweep.
SweepInv == online => idle < OfflineAfter + swept

\* The last poll of a Sensor that has at most one failure behind it: what it can
\* have taken before the poll came to where it is.
Before ==
  CASE at = "held" -> 0
    [] at = "response" -> PollHold
    [] at = "request" -> IF failed = 0 THEN PollHold + Delay ELSE PollHold + Retry + 2 * Delay
    [] OTHER -> PollHold + 2 * Delay

HealthyInv ==
  /\ at \in {"lost", "dead"} => cut
  /\ at = "pause" => failed > 0
  /\ at \in {"held", "response"} => failed = 0 /\ ~cut
  /\ online /\ ~cut /\ failed <= 1 => idle <= Before + timer

\* A poll that arrived made the Location online; one that did not follows on
\* trouble, and is not yet late.
BackInv ==
  /\ at = "held" => online /\ idle <= timer
  /\ at = "response" => online /\ idle <= PollHold + timer
  /\ at = "request" => \/ online /\ idle <= PollHold + Delay + timer
                       \/ calm <= ClientTimeout + Retry + timer
  /\ at = "lost" => calm <= asked
  /\ at = "pause" => calm <= ClientTimeout + timer

ClockInv == TypeOK /\ TimersInv /\ SweepInv /\ HealthyInv /\ BackInv

LEMMA ClockStarts == Init => ClockInv
<1> SUFFICES ASSUME Init PROVE ClockInv
  OBVIOUS
<1> USE Positive DEF Init, Moving
<1>1. TypeOK
  <2>1. online \in BOOLEAN /\ cut \in BOOLEAN
    BY Zenon
  <2> QED BY <2>1 DEF TypeOK
<1>2. TimersInv
  BY DEF TimersInv, Lasts
<1>3. SweepInv /\ HealthyInv
  BY DEF SweepInv, HealthyInv
<1>4. BackInv
  BY DEF BackInv
<1> QED BY <1>1, <1>2, <1>3, <1>4 DEF ClockInv

\* No sweep takes a Location offline whose poll arrived and came back.
LEMMA NotStale ==
  ASSUME ClockInv, at \in {"held", "response"} \/ (at = "request" /\ idle <= PollHold + Delay + timer)
  PROVE  ~Stale
BY Positive DEF ClockInv, TypeOK, TimersInv, BackInv, Stale, Moving, Lasts

LEMMA HealthyNotStale ==
  ASSUME ClockInv, online, ~cut, failed <= 1
  PROVE  ~Stale
<1>1. at \in {"held", "response", "request", "pause"} /\ idle <= Before + timer
  BY DEF ClockInv, HealthyInv, TypeOK, Moving
<1>2. timer <= Lasts(at) /\ timer \in Nat /\ idle \in Nat
  BY <1>1 DEF ClockInv, TimersInv, TypeOK, Moving
<1> QED BY <1>1, <1>2, Positive DEF Before, Lasts, Stale

LEMMA ClockTick ==
  ASSUME ClockInv, Tick
  PROVE  ClockInv'
<1> USE Positive DEF ClockInv, Tick, Moving
<1>1. TypeOK'
  BY DEF TypeOK
<1>2. TimersInv'
  BY DEF TypeOK, TimersInv, Lasts
<1>3. SweepInv'
  BY DEF TypeOK, SweepInv
<1>4. HealthyInv'
  BY DEF TypeOK, HealthyInv, Before
<1>5. BackInv'
  BY DEF TypeOK, BackInv
<1> QED BY <1>1, <1>2, <1>3, <1>4, <1>5

LEMMA ClockHub ==
  ASSUME ClockInv, HubStep
  PROVE  ClockInv'
<1> USE Positive DEF ClockInv, Moving
<1>1. CASE Arrives
  <2> USE <1>1 DEF Arrives
  <2>1. TypeOK'
    <3>1. online' \in BOOLEAN /\ cut' \in BOOLEAN
      BY Zenon
    <3> QED BY <3>1 DEF TypeOK
  <2>2. TimersInv'
    BY DEF TypeOK, TimersInv, Lasts
  <2>3. SweepInv'
    BY DEF TypeOK, SweepInv
  <2>4. HealthyInv' /\ BackInv'
    BY DEF HealthyInv, Before, BackInv
  <2> QED BY <2>1, <2>2, <2>3, <2>4
<1>2. CASE Answers
  BY <1>2 DEF Answers, TypeOK, TimersInv, Lasts, SweepInv, HealthyInv, Before, BackInv
<1>3. CASE Sweep
  <2>1. TypeOK' /\ TimersInv' /\ HealthyInv'
    BY <1>3 DEF Sweep, TypeOK, TimersInv, Lasts, HealthyInv, Before
  <2>2. SweepInv'
    <3>1. online' => ~Stale
      BY <1>3 DEF Sweep
    <3> QED BY <1>3, <3>1 DEF Sweep, TypeOK, SweepInv, Stale
  <2>3. BackInv'
    BY <1>3, NotStale DEF Sweep, BackInv
  <2> QED BY <2>1, <2>2, <2>3
<1> QED BY <1>1, <1>2, <1>3 DEF HubStep

LEMMA ClockSensor ==
  ASSUME ClockInv, SensorStep
  PROVE  ClockInv'
<1> USE Positive DEF ClockInv, Moving, TypeOK, TimersInv, Lasts, SweepInv, HealthyInv, Before, BackInv
<1>1. CASE Returns
  BY <1>1 DEF Returns, Poll
<1>2. CASE Resumes
  BY <1>2 DEF Resumes, Poll
<1>3. CASE TimesOut
  BY <1>3 DEF TimesOut, Pause
<1> QED BY <1>1, <1>2, <1>3 DEF SensorStep

LEMMA ClockTrouble ==
  ASSUME ClockInv, Trouble
  PROVE  ClockInv'
<1> USE Positive DEF ClockInv, Moving, TypeOK, TimersInv, Lasts, SweepInv, HealthyInv, Before, BackInv
<1>1. CASE Fails
  BY <1>1 DEF Fails, Pause
<1>2. CASE IsLost
  BY <1>2 DEF IsLost
<1>3. CASE SensorDies
  BY <1>3 DEF SensorDies
<1>4. CASE SensorStarts
  BY <1>4 DEF SensorStarts, Poll
<1>5. CASE HubRestarts
  <2>1. online' \in BOOLEAN /\ cut' \in BOOLEAN
    BY <1>5, Zenon DEF HubRestarts
  <2>2. CASE at \in Moving
    BY <1>5, <2>1, <2>2 DEF HubRestarts, Pause
  <2>3. CASE at \notin Moving
    BY <1>5, <2>1, <2>3 DEF HubRestarts
  <2> QED BY <2>2, <2>3
<1> QED BY <1>1, <1>2, <1>3, <1>4, <1>5 DEF Trouble

LEMMA ClockStands == ClockInv /\ UNCHANGED vars => ClockInv'
BY DEF ClockInv, vars, TypeOK, TimersInv, SweepInv, HealthyInv, BackInv, Before, Lasts

\* Where a poll is bounds how old the last one is, through every step.
THEOREM ClockInductive == Spec => []ClockInv
<1>1. ClockInv /\ [Next]_vars => ClockInv'
  BY ClockTick, ClockHub, ClockSensor, ClockTrouble, ClockStands DEF Next
<1> QED BY <1>1, ClockStarts, PTL DEF Spec

\* "It must exceed the poll hold, so a healthy Sensor never crosses it": whatever
\* the constants are, one failed poll between two that arrive is no reason to take
\* a Location offline.
THEOREM HealthyStays == Spec => HealthyStaysOnline
<1>1. ClockInv /\ [Next]_vars => [online /\ ~online' => failed >= 2 \/ cut \/ cut']_vars
  <2> SUFFICES ASSUME ClockInv, Next, online, ~online', ~cut, ~cut' PROVE failed >= 2
    BY DEF vars
  <2>1. CASE Sweep
    <3>1. Stale
      BY <2>1 DEF Sweep
    <3> QED BY <3>1, HealthyNotStale DEF ClockInv, TypeOK
  <2>2. CASE HubRestarts
    BY <2>2 DEF HubRestarts
  <2>3. CASE Tick \/ Arrives \/ Answers \/ SensorStep \/ Fails \/ IsLost \/ SensorDies \/ SensorStarts
    BY <2>3 DEF Tick, Arrives, Answers, SensorStep, Returns, Resumes, TimesOut, Fails, IsLost,
                SensorDies, SensorStarts
  <2> QED BY <2>1, <2>2, <2>3 DEF Next, HubStep, Trouble
<1> QED BY <1>1, ClockInductive, PTL DEF Spec, HealthyStaysOnline

\* A Sensor that falls silent is offline one sweep after OfflineAfter.
THEOREM SilenceNoticed == Spec => []SilenceIsNoticed
<1>1. ClockInv => SilenceIsNoticed
  BY Positive DEF ClockInv, TypeOK, TimersInv, SweepInv, SilenceIsNoticed
<1> QED BY <1>1, ClockInductive, PTL

\* A Sensor that lives is online again RecoveryTime after the last trouble.
THEOREM Back == Spec => []ComesBack
<1>1. ClockInv => ComesBack
  BY Positive DEF ClockInv, TypeOK, TimersInv, BackInv, ComesBack, RecoveryTime, Moving, Lasts
<1> QED BY <1>1, ClockInductive, PTL
=============================================================================
