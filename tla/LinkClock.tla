------------------------------ MODULE LinkClock ------------------------------
(***************************************************************************)
(* The timing of one Location's link: how OfflineAfter, the poll hold, the *)
(* client's timeout, the pause after a failed poll and the sweep of        *)
(* internal/link (hub.go, client.go) and internal/sensor fit together.     *)
(* Module Link has the same steps without time; this one has time and only *)
(* the polls.  Time is in whole seconds; what takes no time by itself (a   *)
(* handler, a timer that fires) is done before the clock moves on, and a   *)
(* message takes up to Delay.                                              *)
(***************************************************************************)
EXTENDS Naturals

CONSTANTS OfflineAfter,  \* a Location goes offline this long after its last poll
          PollHold,      \* how long the Hub holds a poll
          ClientTimeout, \* how long the Sensor waits for the answer to a poll
          Retry,         \* its pause after a poll that failed
          SweepEvery,    \* the Hub's ticker
          Delay          \* the longest a message takes

\* The constants of the code meet this for a Delay of one second.
ASSUME LinkClockAssumption ==
  /\ {OfflineAfter, PollHold, ClientTimeout, Retry, SweepEvery, Delay} \subseteq Nat \ {0}
  /\ PollHold + Retry + 3 * Delay < OfflineAfter
  /\ PollHold + 2 * Delay <= ClientTimeout

VARIABLES
  online,  \* the Location is online
  idle,    \* while online: seconds since its last poll
  swept,   \* seconds since the last sweep
  at,      \* where the Sensor's poll is
  timer,   \* for how many seconds
  asked,   \* seconds since the poll was sent
  \* what went wrong, for the properties
  failed,  \* polls that failed since the last one that arrived: 0, 1, or 2 and more
  cut,     \* since then a message was lost or an end of the link was killed
  calm     \* seconds since anything went wrong

vars == <<online, idle, swept, at, timer, asked, failed, cut, calm>>

Init ==
  /\ online = FALSE /\ idle = 0 /\ swept = 0
  /\ at = "request" /\ timer = 0 /\ asked = 0
  /\ failed = 0 /\ cut = FALSE /\ calm = 0

-----------------------------------------------------------------------------
(* Time.                                                                   *)

\* Mutant of Lasts: the pause is twice as long.
LastsTwice(where) ==
  CASE where = "held" -> PollHold
    [] where = "pause" -> 2 * Retry
    [] OTHER -> Delay

\* The longest that a poll stays where it is.
Lasts(where) ==
  CASE where = "held" -> PollHold
    [] where = "pause" -> Retry
    [] OTHER -> Delay

Moving == {"request", "held", "response"}

\* Long enough for a Sensor to find out that its poll is lost, and to poll again.
RecoveryTime == ClientTimeout + Retry + Delay

\* The last poll of a Location that is offline is not looked at, and calm is
\* counted for as long as it matters.
Tick ==
  /\ swept < SweepEvery
  /\ at \in Moving \cup {"pause"} => timer < Lasts(at)
  /\ at \in Moving \cup {"lost"} => asked < ClientTimeout
  /\ swept' = swept + 1
  /\ idle' = IF online THEN idle + 1 ELSE idle
  /\ timer' = IF at \in Moving \cup {"pause"} THEN timer + 1 ELSE timer
  /\ asked' = IF at \in Moving \cup {"lost"} THEN asked + 1 ELSE asked
  /\ calm' = IF calm <= RecoveryTime THEN calm + 1 ELSE calm
  /\ UNCHANGED <<online, at, failed, cut>>

-----------------------------------------------------------------------------
(* The Hub.                                                                *)

\* Mutant of Arrives: a poll does not bring a Location back.
ArrivesOffline ==
  /\ at = "request"
  /\ idle' = 0
  /\ at' = "held" /\ timer' = 0
  /\ failed' = 0 /\ cut' = FALSE
  /\ UNCHANGED <<online, swept, asked, calm>>

\* Hub.next: the poll is recorded, and held.
Arrives ==
  /\ at = "request"
  /\ online' = TRUE /\ idle' = 0
  /\ at' = "held" /\ timer' = 0
  /\ failed' = 0 /\ cut' = FALSE
  /\ UNCHANGED <<swept, asked, calm>>

\* A Call is taken at any moment of the hold, or the hold is over.
Answers ==
  /\ at = "held"
  /\ at' = "response" /\ timer' = 0
  /\ UNCHANGED <<online, idle, swept, asked, failed, cut, calm>>

\* Mutant of Stale: a Location has a second more.
StaleLate == idle > OfflineAfter

\* now.Sub(l.lastPoll) >= OfflineAfter
Stale == idle >= OfflineAfter

Sweep ==
  /\ swept = SweepEvery
  /\ swept' = 0
  /\ online' = (online /\ ~Stale)
  /\ UNCHANGED <<idle, at, timer, asked, failed, cut, calm>>

-----------------------------------------------------------------------------
(* The Sensor.                                                             *)

Poll == at' = "request" /\ timer' = 0 /\ asked' = 0

\* Sensor.Run: the next poll follows at once, the Call runs beside it.
Returns ==
  /\ at = "response"
  /\ Poll
  /\ UNCHANGED <<online, idle, swept, failed, cut, calm>>

\* The poll failed, and the Sensor pauses.
Pause ==
  /\ at' = "pause" /\ timer' = 0 /\ asked' = 0
  /\ failed' = IF failed < 2 THEN failed + 1 ELSE failed

\* Sensor.Run, after the pause.
Resumes ==
  /\ at = "pause" /\ timer = Lasts("pause")
  /\ Poll
  /\ UNCHANGED <<online, idle, swept, failed, cut, calm>>

\* The http.Client gives a silent poll up.
TimesOut ==
  /\ at = "lost" /\ asked = ClientTimeout
  /\ Pause
  /\ UNCHANGED <<online, idle, swept, cut, calm>>

-----------------------------------------------------------------------------
(* What goes wrong.                                                        *)

\* An error the Sensor gets to know of: a connection refused or reset, a status
\* it did not want (401, or 500 when the Hub cannot audit), a broken body.
Fails ==
  /\ at \in Moving
  /\ Pause /\ calm' = 0
  /\ UNCHANGED <<online, idle, swept, cut>>

\* A message vanishes and the connection stays.
IsLost ==
  /\ at \in Moving
  /\ at' = "lost" /\ timer' = 0 /\ cut' = TRUE /\ calm' = 0
  /\ UNCHANGED <<online, idle, swept, asked, failed>>

SensorDies ==
  /\ at # "dead"
  /\ at' = "dead" /\ timer' = 0 /\ asked' = 0 /\ cut' = TRUE /\ calm' = 0
  /\ UNCHANGED <<online, idle, swept, failed>>

SensorStarts ==
  /\ at = "dead"
  /\ Poll /\ calm' = 0
  /\ UNCHANGED <<online, idle, swept, failed, cut>>

\* The Control plane starts again, with every Location offline and no poll.
HubRestarts ==
  /\ online' = FALSE /\ swept' = 0
  /\ IF at \in Moving THEN Pause ELSE UNCHANGED <<at, timer, asked, failed>>
  /\ cut' = TRUE /\ calm' = 0
  /\ UNCHANGED idle

-----------------------------------------------------------------------------
HubStep == Arrives \/ Answers \/ Sweep
SensorStep == Returns \/ Resumes \/ TimesOut
Trouble == Fails \/ IsLost \/ SensorDies \/ SensorStarts \/ HubRestarts

Next == Tick \/ HubStep \/ SensorStep \/ Trouble

Spec == Init /\ [][Next]_vars
-----------------------------------------------------------------------------
(* Correctness.                                                            *)

\* The type invariant.
TypeOK ==
  /\ online \in BOOLEAN /\ cut \in BOOLEAN
  /\ idle \in Nat /\ swept \in Nat /\ timer \in Nat /\ asked \in Nat /\ calm \in Nat
  /\ failed \in 0..2
  /\ at \in Moving \cup {"lost", "pause", "dead"}

\* "It must exceed the poll hold, so a healthy Sensor never crosses it"
\* (hub.go:27): neither the hold, nor the way there and back, nor even one poll
\* that failed and the pause after it makes a Location go offline.  It takes two
\* failures in a row, a message that vanished, or an end that was killed.
HealthyStaysOnline == [][online /\ ~online' => failed >= 2 \/ cut \/ cut']_vars

\* A Location whose Sensor is silent for any reason is taken offline by the
\* first sweep after OfflineAfter: no Query waits for it longer than that.
SilenceIsNoticed == online => idle < OfflineAfter + SweepEvery

\* A Sensor that lives has its Location online again RecoveryTime after the last
\* trouble, whichever that was: also after a poll that vanished, of which only
\* the client's timeout tells it, and after a restart of the Control plane.
ComesBack == at # "dead" /\ calm > RecoveryTime => online
=============================================================================
