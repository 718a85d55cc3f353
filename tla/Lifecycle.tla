----------------------------- MODULE Lifecycle -----------------------------
(***************************************************************************)
(* How the Control plane's process stops: runControlPlane from the select  *)
(* on, the two HTTP servers and the hub it started, the handlers in flight *)
(* and the investigations they launched.  Steps that take no time to speak *)
(* of happen within the grace of 10 s; what can outlast it is a ticket     *)
(* call (30 s), a query by hand (20 s) and a held poll (20 s).             *)
(***************************************************************************)
EXTENDS Naturals, FiniteSets

CONSTANTS Webhooks, \* requests to POST /webhook/alertmanager
          Polls,    \* requests to GET /link/{location}/next
          Queries   \* requests to POST /debug/evidence

Servers == {"srv", "debug"}
Goroutines == Servers \cup {"hub"}  \* what sends to errc
ErrcSize == 3

Handlers == Webhooks \cup Polls \cup Queries

ServerOf(h) == IF h \in Queries THEN "debug" ELSE "srv"

ASSUME LifecycleAssumption ==
  /\ Webhooks \cap Polls = {} /\ Webhooks \cap Queries = {} /\ Polls \cap Queries = {}

VARIABLES
  signalled,     \* ctx is done: SIGINT or SIGTERM came
  main,          \* where runControlPlane is
  goroutine,     \* of each of Goroutines: "runs", "sending", "ended"
  errc,          \* errors in the channel
  grace,         \* "off", "on", "expired"
  result,        \* what runControlPlane returns: "none", "error", "nil"
  logOpen,
  handler,       \* of each request: where its handler is
  investigation  \* of each webhook: "none", "running", "finished", "cut"

vars == <<signalled, main, goroutine, errc, grace, result, logOpen,
          handler, investigation>>
process == <<signalled, main, goroutine, errc, grace, result, logOpen>>

TypeOK ==
  /\ signalled \in BOOLEAN
  /\ main \in {"select", "hubDone", "srv", "debug", "wait", "log", "store", "gone"}
  /\ goroutine \in [Goroutines -> {"runs", "sending", "ended"}]
  /\ errc \in 0..ErrcSize
  /\ grace \in {"off", "on", "expired"}
  /\ result \in {"none", "error", "nil"}
  /\ logOpen \in BOOLEAN
  /\ handler \in [Handlers -> {"idle", "held", "asking", "begun", "ticket", "ticketed",
                               "stored", "answered", "killed"}]
  /\ investigation \in [Webhooks -> {"none", "running", "finished", "cut"}]

Init ==
  /\ signalled = FALSE /\ main = "select" /\ errc = 0 /\ grace = "off" /\ result = "none"
  /\ goroutine = [g \in Goroutines |-> "runs"]
  /\ logOpen = TRUE
  /\ handler = [h \in Handlers |-> "idle"]
  /\ investigation = [r \in Webhooks |-> "none"]

Running == main # "gone"
InFlight(h) == handler[h] \notin {"idle", "answered", "killed"}
Listening(s) == goroutine[s] = "runs"
-----------------------------------------------------------------------------
(* Handlers and investigations.                                            *)

Moves(h, to) == handler' = [handler EXCEPT ![h] = to]

\* A request reaches its handler.  A server that shuts down takes no more.
Arrive(h) ==
  /\ Running /\ handler[h] = "idle" /\ Listening(ServerOf(h))
  /\ Moves(h, CASE h \in Webhooks -> "begun" [] h \in Polls -> "held" [] OTHER -> "asking")
  /\ UNCHANGED <<investigation, process>>

\* A Signal is audited before its ticket is written; a log that is closed, or
\* full, refuses, and the request is answered with the error.
AuditSignal(r) ==
  /\ Running /\ handler[r] = "begun"
  /\ \/ logOpen /\ Moves(r, "ticket")
     \/ Moves(r, "answered")
  /\ UNCHANGED <<investigation, process>>

\* Create returns: a ref, or an error after its client's 30 seconds at most.
TicketReturns(r) ==
  /\ Running /\ handler[r] = "ticket"
  /\ \/ Moves(r, "ticketed")
     \/ Moves(r, "answered")
  /\ UNCHANGED <<investigation, process>>

\* ticket.created is audited, and the transaction commits.
Commit(r) ==
  /\ Running /\ handler[r] = "ticketed"
  /\ \/ logOpen /\ Moves(r, "stored")
     \/ Moves(r, "answered")
  /\ UNCHANGED <<investigation, process>>

\* The Incident's investigation is added to the WaitGroup and started.
Launch(r) ==
  /\ Running /\ handler[r] = "stored"
  /\ Moves(r, "answered")
  /\ investigation' = [investigation EXCEPT ![r] = "running"]
  /\ UNCHANGED process

\* An investigation ends within its budgets.  Its RCA is in the log, or it was
\* cut short: the log refuses the entry.
Finish(r) ==
  /\ Running /\ investigation[r] = "running"
  /\ investigation' = [investigation EXCEPT ![r] = IF logOpen THEN "finished" ELSE "cut"]
  /\ UNCHANGED <<handler, process>>

\* Mutant of Released: the hub leaves its stop channel open.
ReleasedNot(h) == FALSE

\* A held poll that need not wait its hold out: the hub closed its stop channel.
Released(h) == h \in Polls /\ goroutine["hub"] # "runs"

\* A poll returns: released, or with a Call, or when its hold is over.
PollReturns(h) ==
  /\ Running /\ h \in Polls /\ handler[h] = "held"
  /\ Moves(h, "answered")
  /\ UNCHANGED <<investigation, process>>

\* A query by hand returns: answered, or after CallDeadline.
QueryReturns(h) ==
  /\ Running /\ h \in Queries /\ handler[h] = "asking"
  /\ Moves(h, "answered")
  /\ UNCHANGED <<investigation, process>>

-----------------------------------------------------------------------------
(* The goroutines, and the channel they report to.                         *)

requests == <<handler, investigation>>

Signalled ==
  /\ Running /\ ~signalled /\ signalled' = TRUE
  /\ UNCHANGED <<main, goroutine, errc, grace, result, logOpen, requests>>

\* ListenAndServe cannot listen, or the sweep cannot audit: an error to send.
Fails(g) ==
  /\ Running /\ goroutine[g] = "runs"
  /\ goroutine' = [goroutine EXCEPT ![g] = "sending"]
  /\ UNCHANGED <<signalled, main, errc, grace, result, logOpen, requests>>

\* Mutant of CanSend: errc is unbuffered, and only the select receives.
CanSendUnbuffered == main = "select"

CanSend == errc < ErrcSize

\* Mutant of Reports: an error is sent again and again.
ReportsAgain(g) ==
  /\ Running /\ goroutine[g] = "sending" /\ errc <= ErrcSize
  /\ errc' = errc + 1
  /\ UNCHANGED <<signalled, main, goroutine, grace, result, logOpen, requests>>

\* The error goes to errc; only then is hubDone closed.
Reports(g) ==
  /\ Running /\ goroutine[g] = "sending" /\ CanSend
  /\ errc' = errc + 1
  /\ goroutine' = [goroutine EXCEPT ![g] = "ended"]
  /\ UNCHANGED <<signalled, main, grace, result, logOpen, requests>>

\* hub.Run returns nil once ctx is done.
HubEnds ==
  /\ Running /\ signalled /\ goroutine["hub"] = "runs"
  /\ goroutine' = [goroutine EXCEPT !["hub"] = "ended"]
  /\ UNCHANGED <<signalled, main, errc, grace, result, logOpen, requests>>

-----------------------------------------------------------------------------
(* runControlPlane.                                                        *)

\* The select takes an error: it is returned at once, with no Shutdown.
SelectError ==
  /\ main = "select" /\ errc > 0
  /\ errc' = errc - 1 /\ result' = "error" /\ main' = "wait"
  /\ UNCHANGED <<signalled, goroutine, grace, logOpen, requests>>

SelectDone ==
  /\ main = "select" /\ signalled /\ main' = "hubDone"
  /\ UNCHANGED <<signalled, goroutine, errc, grace, result, logOpen, requests>>

\* Shutdown closes the listener: ListenAndServe returns ErrServerClosed.
Closed(s) == [goroutine EXCEPT ![s] = IF Listening(s) THEN "sending" ELSE @]

\* The hub has ended: the grace starts, and srv stops listening.
StartShutdown ==
  /\ main = "hubDone" /\ goroutine["hub"] = "ended"
  /\ grace' = "on" /\ main' = "srv"
  /\ goroutine' = Closed("srv")
  /\ UNCHANGED <<signalled, errc, result, logOpen, requests>>

Idle(s) == \A h \in Handlers : ServerOf(h) = s => ~InFlight(h)

\* A handler that can take longer than the grace; a webhook also while it waits
\* for the Server's mutex behind another's ticket.
Slow(h) ==
  \/ h \in Polls /\ handler[h] = "held" /\ ~Released(h)
  \/ handler[h] \in {"asking", "ticket"}
  \/ handler[h] = "begun" /\ \E r \in Webhooks : handler[r] = "ticket"

\* The grace runs out while something slow, and nothing quick, is in flight.
GraceExpires ==
  /\ main \in {"srv", "debug"} /\ grace = "on"
  /\ \E h \in Handlers : Slow(h)
  /\ \A h \in Handlers : InFlight(h) => Slow(h)
  /\ grace' = "expired"
  /\ UNCHANGED <<signalled, main, goroutine, errc, result, logOpen, requests>>

\* srv.Shutdown returns; the other server's begins, and it stops listening.
SrvDown ==
  /\ main = "srv" /\ (Idle("srv") \/ grace = "expired")
  /\ result' = IF Idle("srv") THEN "nil" ELSE "error"
  /\ goroutine' = Closed("debug")
  /\ main' = "debug"
  /\ UNCHANGED <<signalled, errc, grace, logOpen, requests>>

DebugDown ==
  /\ main = "debug" /\ (Idle("debug") \/ grace = "expired")
  /\ result' = IF Idle("debug") THEN result ELSE "error"
  /\ main' = "wait"
  /\ UNCHANGED <<signalled, goroutine, errc, grace, logOpen, requests>>

\* Mutant of Wait: the log closes first.
WaitNot ==
  /\ main = "wait"
  /\ main' = "log"
  /\ UNCHANGED <<signalled, goroutine, errc, grace, result, logOpen, requests>>

\* The deferred calls, last first.  Wait returns when no investigation runs.
Wait ==
  /\ main = "wait" /\ \A r \in Webhooks : investigation[r] # "running"
  /\ main' = "log"
  /\ UNCHANGED <<signalled, goroutine, errc, grace, result, logOpen, requests>>

CloseLog ==
  /\ main = "log" /\ logOpen' = FALSE /\ main' = "store"
  /\ UNCHANGED <<signalled, goroutine, errc, grace, result, requests>>

\* The store closes, the process exits, and what is in flight is gone with it.
Exit ==
  /\ main = "store" /\ main' = "gone"
  /\ handler' = [h \in Handlers |-> IF InFlight(h) THEN "killed" ELSE handler[h]]
  /\ investigation' = [r \in Webhooks |-> IF investigation[r] = "running" THEN "cut"
                                          ELSE investigation[r]]
  /\ UNCHANGED <<signalled, goroutine, errc, grace, result, logOpen>>

Progress(h) ==
  \/ h \in Webhooks /\ (AuditSignal(h) \/ TicketReturns(h) \/ Commit(h) \/ Launch(h) \/ Finish(h))
  \/ PollReturns(h) \/ QueryReturns(h)

MainStep ==
  \/ SelectError \/ SelectDone \/ StartShutdown \/ SrvDown \/ DebugDown
  \/ Wait \/ CloseLog \/ Exit

Next ==
  \/ \E h \in Handlers : Arrive(h) \/ Progress(h)
  \/ \E g \in Goroutines : Fails(g) \/ Reports(g)
  \/ Signalled \/ HubEnds \/ GraceExpires \/ MainStep

Spec == Init /\ [][Next]_vars

\* Every goroutine is scheduled; every ticket call, query and investigation has
\* a deadline of its own.  Nothing makes a request come, a signal be sent, a
\* goroutine fail or the grace run out.
FairSpec ==
  /\ Spec
  /\ WF_vars(MainStep) /\ WF_vars(HubEnds)
  /\ \A g \in Goroutines : WF_vars(Reports(g))
  /\ \A h \in Handlers : WF_vars(Progress(h))
-----------------------------------------------------------------------------
(* Correctness.                                                            *)

\* A stop that returned no error lost nothing: when the log is closed after
\* Shutdown emptied both servers, no handler is in flight that could still want
\* it, no investigation runs, and none was cut short.
CleanStopLosesNothing ==
  result = "nil" /\ ~logOpen =>
    /\ \A h \in Handlers : ~InFlight(h) /\ handler[h] # "killed"
    /\ \A r \in Webhooks : investigation[r] \in {"none", "finished"}

\* main.go:133 waits for the hub because it "releases held polls, which Shutdown
\* would otherwise wait for": when the grace runs out, what it ran out on is a
\* ticket call or a query, never a Sensor's poll.
GraceIsForWork ==
  [][grace' = "expired" /\ grace = "on" =>
       \A p \in Polls : handler[p] # "held"]_vars

\* A signal, and an error of a server or of the hub, ends the process: nothing
\* main waits for waits for main.
StopsWhenTold == signalled \/ errc > 0 ~> main = "gone"
-----------------------------------------------------------------------------
(* Why they hold.                                                          *)

\* Each of the three goroutines sends at most one error in its life.
Sent(g) == IF goroutine[g] = "ended" THEN 1 ELSE 0
ErrcInv == errc <= Sent("srv") + Sent("debug") + Sent("hub")

\* The log is open until main closes it, the last but one of its steps.  Only the
\* exit kills a handler, and only a closed log cuts an investigation short.
LogInv ==
  /\ logOpen <=> main \notin {"store", "gone"}
  /\ main # "gone" => \A h \in Handlers : handler[h] # "killed"
  /\ logOpen => \A r \in Webhooks : investigation[r] # "cut"

\* A server that is being shut down, or was, takes no more requests.
ShutInv ==
  /\ main \in {"srv", "debug"} => ~Listening("srv")
  /\ main = "debug" => ~Listening("debug")

\* A server that Shutdown emptied: it takes no requests, and has none.
Empty(s) ==
  /\ ~Listening(s)
  /\ \A h \in Handlers : ServerOf(h) = s => ~InFlight(h) /\ handler[h] # "killed"

\* The result is nil only while every Shutdown so far emptied its server; so
\* once the investigations have been waited for, nothing starts another.
CleanInv ==
  result = "nil" =>
    /\ main \notin {"select", "hubDone", "srv"}
    /\ Empty("srv")
    /\ main # "debug" => Empty("debug")
    /\ main \in {"log", "store", "gone"} =>
         \A r \in Webhooks : investigation[r] \in {"none", "finished"}

\* The grace starts after the hub has ended, so no poll is held for its sake.
GraceInv == grace # "off" => goroutine["hub"] = "ended"

\* Together they are inductive.
LifeInv == TypeOK /\ ErrcInv /\ LogInv /\ ShutInv /\ CleanInv /\ GraceInv

\* None of the senders can block: errc has room whenever one has an error to send.
NoSendBlocks == \A g \in Goroutines : goroutine[g] = "sending" => CanSend
=============================================================================
