-------------------------------- MODULE Link --------------------------------
(***************************************************************************)
(* The Control plane's link to its Sensors: internal/link (Hub, Client),   *)
(* internal/sensor and the call under Evidence.Query.  A Query hands its   *)
(* Call to its Location's queue; a Sensor's long poll takes it from there, *)
(* and the answer comes back in a request of its own.  Callers time out,   *)
(* polls are held by handlers whose client has gone, messages are lost,    *)
(* Sensors are killed and started, and so is the Control plane.  Nothing   *)
(* is counted: whatever fails may fail any number of times.                *)
(*                                                                         *)
(* Time is what it makes happen: a caller's deadline, the end of a hold,   *)
(* and a Location whose last poll is OfflineAfter old.  As OfflineAfter    *)
(* exceeds PollHold, a Location with a poll held is never that silent.     *)
(***************************************************************************)
EXTENDS Integers, Sequences, FiniteSets

CONSTANTS Locations,  \* configured Locations
          Calls,      \* Evidence queries, by call id
          At,         \* the Location of each Call's Target, configured or not
          Polls,      \* slots for poll handlers
          MaxQueued,  \* capacity of a Location's queue
          None        \* no Call, no answer

ASSUME LinkAssumption ==
  /\ DOMAIN At = Calls
  /\ MaxQueued \in Nat \ {0}
  /\ None \notin Calls \cup Locations

VARIABLES
  \* the Hub
  online,   \* Locations that are online
  silent,   \* Locations whose last poll is OfflineAfter old
  queue,    \* per Location: Calls not yet taken by a poll
  pending,  \* per Location: Calls whose caller waits
  reply,    \* per Call: the Location whose Sensor's answer is in its channel
  poll,     \* per slot: [step, location, call, live]
  \* the callers
  pc, result,
  \* the Sensors
  running,  \* per Location: Calls its Sensor works on
  \* the audit log
  status,   \* per Location: its last entry
  entry     \* per Call: the outcome of its evidence.query entry

hub == <<online, silent, queue, pending, reply, poll>>
caller == <<pc, result>>
log == <<status, entry>>
vars == <<online, silent, queue, pending, reply, poll, pc, result, running, status, entry>>

Free == [step |-> "free", location |-> None, call |-> None, live |-> FALSE]

Init ==
  /\ online = {} /\ silent = {}
  /\ queue = [l \in Locations |-> <<>>]
  /\ pending = [l \in Locations |-> {}]
  /\ reply = [c \in Calls |-> None]
  /\ poll = [p \in Polls |-> Free]
  /\ pc = [c \in Calls |-> "idle"]
  /\ result = [c \in Calls |-> "none"]
  /\ running = [l \in Locations |-> {}]
  /\ status = [l \in Locations |-> "location.offline"]
  /\ entry = [c \in Calls |-> "none"]

-----------------------------------------------------------------------------
(* Evidence.Query and Hub.Call.                                            *)

Return(c, step, outcome) == pc' = [pc EXCEPT ![c] = step] /\ result' = [result EXCEPT ![c] = outcome]

\* An unknown or offline Location is an error at once; else the caller waits.
Start(c) ==
  /\ pc[c] = "idle"
  /\ IF At[c] \in online
     THEN /\ pending' = [pending EXCEPT ![At[c]] = @ \cup {c}]
          /\ Return(c, "queue", "none")
     ELSE /\ Return(c, "entry", IF At[c] \in Locations THEN "offline" ELSE "unknown")
          /\ UNCHANGED pending
  /\ UNCHANGED <<online, silent, queue, reply, poll, running, log>>

\* Mutant of Enqueue: the queue takes one more than it has room for.
EnqueueOver(c) ==
  /\ pc[c] = "queue" /\ Len(queue[At[c]]) <= MaxQueued
  /\ queue' = [queue EXCEPT ![At[c]] = Append(@, c)]
  /\ pc' = [pc EXCEPT ![c] = "wait"]
  /\ UNCHANGED <<online, silent, pending, reply, poll, result, running, log>>

Enqueue(c) ==
  /\ pc[c] = "queue" /\ Len(queue[At[c]]) < MaxQueued
  /\ queue' = [queue EXCEPT ![At[c]] = Append(@, c)]
  /\ pc' = [pc EXCEPT ![c] = "wait"]
  /\ UNCHANGED <<online, silent, pending, reply, poll, result, running, log>>

\* Mutant of Deadline: a caller waits for room in the queue without its context.
DeadlineInWait(c) ==
  /\ pc[c] = "wait"
  /\ Return(c, "leave", "deadline")
  /\ UNCHANGED <<hub, running, log>>

\* The context is done: CallDeadline, the investigation's time budget, or an
\* operator who went away.  A select with an answer too may choose this.
Deadline(c) ==
  /\ pc[c] \in {"queue", "wait"}
  /\ Return(c, "leave", "deadline")
  /\ UNCHANGED <<hub, running, log>>

Receive(c) ==
  /\ pc[c] = "wait" /\ reply[c] # None
  /\ Return(c, "leave", "ok")
  /\ UNCHANGED <<hub, running, log>>

\* Mutant of Leave: the Call stays in the map.
LeavePending(c) ==
  /\ pc[c] = "leave"
  /\ pc' = [pc EXCEPT ![c] = "entry"]
  /\ UNCHANGED <<hub, result, running, log>>

\* The deferred delete.
Leave(c) ==
  /\ pc[c] = "leave"
  /\ pending' = [pending EXCEPT ![At[c]] = @ \ {c}]
  /\ pc' = [pc EXCEPT ![c] = "entry"]
  /\ UNCHANGED <<online, silent, queue, reply, poll, result, running, log>>

\* The evidence.query entry; without it the answer is not used.
QueryEntry(c) ==
  /\ pc[c] = "entry"
  /\ \/ entry' = [entry EXCEPT ![c] = result[c]] /\ Return(c, "done", result[c])
     \/ Return(c, "done", "unaudited") /\ UNCHANGED entry
  /\ UNCHANGED <<hub, running, status>>

-----------------------------------------------------------------------------
(* Hub.next.                                                               *)

\* The poll a Sensor waits on: of those in its name, the one it still reads.
Polling(l) == \E p \in Polls : poll[p].location = l /\ poll[p].live

\* A Sensor polls (Run, Client.Next, polled).  When the entry of a Location that
\* comes online cannot be written, the poll fails and nothing changes.
PollStarts(l, p) ==
  /\ poll[p] = Free /\ ~Polling(l)
  /\ online' = online \cup {l}
  /\ status' = IF l \in online THEN status ELSE [status EXCEPT ![l] = "location.online"]
  /\ silent' = silent \ {l}
  /\ poll' = [poll EXCEPT ![p] = [step |-> "held", location |-> l, call |-> None, live |-> TRUE]]
  /\ UNCHANGED <<queue, pending, reply, caller, running, entry>>

\* Mutant of Take: the Call stays in the queue.
TakeTwice(p) ==
  LET l == poll[p].location
  IN /\ poll[p].step = "held" /\ queue[l] # <<>>
     /\ poll' = [poll EXCEPT ![p].step = "write", ![p].call = Head(queue[l])]
     /\ UNCHANGED <<online, silent, queue, pending, reply, caller, running, log>>

\* The first Call queued is taken, and dropped if its caller no longer waits.
Take(p) ==
  LET l == poll[p].location
      c == Head(queue[l])
  IN /\ poll[p].step = "held" /\ queue[l] # <<>>
     /\ queue' = [queue EXCEPT ![l] = Tail(@)]
     /\ poll' = IF c \in pending[l]
                THEN [poll EXCEPT ![p].step = "write", ![p].call = c]
                ELSE poll
     /\ UNCHANGED <<online, silent, pending, reply, caller, running, log>>

\* The Call is written to the connection.  It reaches the Sensor unless that is
\* not there any more or the connection breaks; the Hub does not know.
Write(p) ==
  LET l == poll[p].location
  IN /\ poll[p].step = "write"
     /\ \/ poll[p].live /\ running' = [running EXCEPT ![l] = @ \cup {poll[p].call}]
        \/ UNCHANGED running
     /\ poll' = [poll EXCEPT ![p] = Free]
     /\ UNCHANGED <<online, silent, queue, pending, reply, caller, log>>

\* 204 when the hold is over or the Hub stops, or a client that went away.
HoldEnds(p) ==
  /\ poll[p].step = "held"
  /\ poll' = [poll EXCEPT ![p] = Free]
  /\ UNCHANGED <<online, silent, queue, pending, reply, caller, running, log>>

\* The Sensor's connection breaks or its client times out: it will poll again
\* while the handler still holds the poll it left.
Disconnect(p) ==
  /\ poll[p].live
  /\ poll' = [poll EXCEPT ![p].live = FALSE]
  /\ UNCHANGED <<online, silent, queue, pending, reply, caller, running, log>>

-----------------------------------------------------------------------------
(* The Sensor, and Hub.reply.                                              *)

\* Mutant of Deliver: any Location's pending Calls can be answered.
DeliverAnywhere(l, c) ==
  reply' = IF (\E k \in Locations : c \in pending[k]) /\ reply[c] = None
           THEN [reply EXCEPT ![c] = l] ELSE reply

\* Mutant of Deliver: whether the caller still waits is not looked up.
DeliverLate(l, c) ==
  reply' = IF At[c] = l /\ reply[c] = None THEN [reply EXCEPT ![c] = l] ELSE reply

\* What the Hub does with an answer to c from l's Sensor: it goes into the
\* channel of a Call pending at l, unless one is there; any other is dropped.
Deliver(l, c) ==
  reply' = IF c \in pending[l] /\ reply[c] = None THEN [reply EXCEPT ![c] = l] ELSE reply

\* The Sensor answers a Call, with data or a tool's error.
Reply(l, c) ==
  /\ c \in running[l]
  /\ Deliver(l, c)
  /\ running' = [running EXCEPT ![l] = @ \ {c}]
  /\ UNCHANGED <<online, silent, queue, pending, poll, caller, log>>

\* The answer does not arrive: the Sensor's own deadline passed, or the request
\* was lost.
ReplyLost(l, c) ==
  /\ c \in running[l]
  /\ running' = [running EXCEPT ![l] = @ \ {c}]
  /\ UNCHANGED <<hub, caller, log>>

\* A Sensor answers a Call of another Location.
Meddle(l, c) ==
  /\ At[c] # l
  /\ Deliver(l, c)
  /\ UNCHANGED <<online, silent, queue, pending, poll, caller, running, log>>

\* The Sensor is killed, and starts again with nothing to do.
SensorRestarts(l) ==
  /\ running' = [running EXCEPT ![l] = {}]
  /\ poll' = [p \in Polls |-> IF poll[p].location = l THEN [poll[p] EXCEPT !.live = FALSE] ELSE poll[p]]
  /\ UNCHANGED <<online, silent, queue, pending, reply, caller, log>>

-----------------------------------------------------------------------------
(* Hub.Sweep and restarts.                                                 *)

\* OfflineAfter passes since a Location's last poll; no poll is held that long.
FallSilent(l) ==
  /\ l \in online \ silent
  /\ \A p \in Polls : ~(poll[p].location = l /\ poll[p].step = "held")
  /\ silent' = silent \cup {l}
  /\ UNCHANGED <<online, queue, pending, reply, poll, caller, running, log>>

Sweep(l) ==
  /\ l \in online \cap silent
  /\ online' = online \ {l}
  /\ status' = [status EXCEPT ![l] = "location.offline"]
  /\ UNCHANGED <<silent, queue, pending, reply, poll, caller, running, entry>>

\* The Control plane is killed, or ends because Sweep could not write its entry,
\* and starts again with no Hub state and no callers.
Restart ==
  /\ online' = {} /\ silent' = {}
  /\ queue' = [l \in Locations |-> <<>>]
  /\ pending' = [l \in Locations |-> {}]
  /\ reply' = [c \in Calls |-> None]
  /\ poll' = [p \in Polls |-> Free]
  /\ pc' = [c \in Calls |-> IF pc[c] = "idle" THEN "idle" ELSE "done"]
  /\ result' = [c \in Calls |-> IF pc[c] \in {"idle", "done"} THEN result[c] ELSE "lost"]
  /\ UNCHANGED <<running, log>>

-----------------------------------------------------------------------------
CallerStep(c) == Enqueue(c) \/ Deadline(c) \/ Receive(c) \/ Leave(c) \/ QueryEntry(c)

Next ==
  \/ \E c \in Calls : Start(c) \/ CallerStep(c)
  \/ \E p \in Polls : Take(p) \/ Write(p) \/ HoldEnds(p) \/ Disconnect(p)
  \/ \E l \in Locations : \/ FallSilent(l) \/ Sweep(l) \/ SensorRestarts(l)
                          \/ \E p \in Polls : PollStarts(l, p)
                          \/ \E c \in Calls : Reply(l, c) \/ ReplyLost(l, c) \/ Meddle(l, c)
  \/ Restart

Spec == Init /\ [][Next]_vars

\* Callers' goroutines run, and a caller's context has a deadline.  Nothing is
\* assumed of Sensors or the network.
FairSpec == Spec /\ \A c \in Calls : WF_vars(CallerStep(c))
-----------------------------------------------------------------------------
(* Correctness.                                                            *)

Outcomes == {"none", "ok", "deadline", "offline", "unknown"}

\* The type invariant; a queue never exceeds its capacity.
TypeOK ==
  /\ online \subseteq Locations /\ silent \subseteq Locations
  /\ queue \in [Locations -> Seq(Calls)] /\ \A l \in Locations : Len(queue[l]) <= MaxQueued
  /\ pending \in [Locations -> SUBSET Calls]
  /\ reply \in [Calls -> Locations \cup {None}]
  /\ poll \in [Polls -> [step: {"free", "held", "write"}, location: Locations \cup {None},
                         call: Calls \cup {None}, live: BOOLEAN]]
  /\ pc \in [Calls -> {"idle", "queue", "wait", "leave", "entry", "done"}]
  /\ result \in [Calls -> Outcomes \cup {"unaudited", "lost"}]
  /\ running \in [Locations -> SUBSET Calls]
  /\ status \in [Locations -> {"location.online", "location.offline"}]
  /\ entry \in [Calls -> Outcomes]

\* The pending Calls are those whose caller is in Hub.Call: none is forgotten
\* there, however its Query ended, and none is missing while its caller waits.
PendingIsWaiting ==
  \A l \in Locations :
    pending[l] = {c \in Calls : At[c] = l /\ pc[c] \in {"queue", "wait", "leave"}}

\* "one Sensor cannot speak for another" (hub.go:223): an answer that a Query
\* gets comes from the Sensor of its own Location, whatever others send.
AnsweredByItsOwn ==
  \A c \in Calls : pc[c] # "done" /\ result[c] = "ok" => reply[c] = At[c]

\* The places a Call can be: queued, with a poll about to be answered, or with a
\* Sensor.
Copies(c) ==
  {x \in Locations \X (1..MaxQueued) : x[2] \in DOMAIN queue[x[1]] /\ queue[x[1]][x[2]] = c}
  \cup {<<p, 0>> : p \in {q \in Polls : poll[q].call = c}}
  \cup {<<l, -1>> : l \in {k \in Locations : c \in running[k]}}

\* A Call is worked on once: it is never in two places, so no two polls, nor a
\* poll and a Sensor that has it already, get the same Call, whatever is lost or
\* restarted; and it is only where it is addressed to.
WorkedOnOnce ==
  \A c \in Calls :
    /\ Cardinality(Copies(c)) <= 1
    /\ \A l \in Locations \ {At[c]} : c \notin running[l]

\* What becomes of a Call.
InTransit(c) ==
  \/ \E l \in Locations : \E n \in DOMAIN queue[l] : queue[l][n] = c
  \/ \E p \in Polls : poll[p].call = c
Working(c) == \E l \in Locations : c \in running[l]
Work ==
  [c \in Calls |->
     IF Working(c) THEN "working"
     ELSE IF InTransit(c) THEN "underway"
     ELSE IF pc[c] \in {"idle", "queue"} THEN "unasked" ELSE "over"]

\* What its caller is told.
Outcome ==
  [c \in Calls |-> IF pc[c] # "done" THEN "none" ELSE IF result[c] = "ok" THEN "ok" ELSE "error"]

\* The link implements a query: queues, polls that outlive their clients,
\* deadlines, lost and forged answers and restarts of both ends come down to a
\* Call that is worked on at most once, ever, and an outcome that is "ok" only
\* with the answer of that work.
Query == INSTANCE EvidenceQuery WITH work <- Work, outcome <- Outcome,
                                     answered <- {c \in Calls : reply[c] # None}
ImplementsQuery == Query!QuerySpec

\* Every Query returns, however full the queue of its Location is and whether
\* or not anything polls it: "waits for its Answer or for ctx" (hub.go:115).
EveryQueryReturns == \A c \in Calls : pc[c] = "queue" ~> pc[c] = "done"
=============================================================================
