-------------------------- MODULE LifecycleProofs --------------------------
(***************************************************************************)
(* How the Control plane's process stops, for any number of webhooks,      *)
(* polls and queries.                                                      *)
(***************************************************************************)
EXTENDS Lifecycle, TLAPS

-----------------------------------------------------------------------------
(* Steps of the handlers, and steps of the goroutines.                     *)

\* Which steps change what: a handler's step leaves the process alone, and every
\* other but the exit leaves the handlers and the investigations alone.
LEMMA StepKinds ==
  ASSUME [Next]_vars
  PROVE  \/ UNCHANGED process
         \/ UNCHANGED requests
         \/ Exit
BY DEF Next, vars, process, requests, Arrive, Progress, Moves, AuditSignal, TicketReturns, Commit, Launch,
   Finish, PollReturns, QueryReturns, Signalled, Fails, Reports, HubEnds, GraceExpires, MainStep, SelectError,
   SelectDone, StartShutdown, SrvDown, DebugDown, Wait, CloseLog, Exit

\* Which step changes which of the process's variables.
LEMMA ProcessStep ==
  ASSUME [Next]_vars
  PROVE  /\ signalled' = signalled \/ Signalled
         /\ main' = main \/ MainStep
         /\ goroutine' = goroutine \/ HubEnds \/ StartShutdown \/ SrvDown
              \/ \E g \in Goroutines : Fails(g) \/ Reports(g)
         /\ errc' = errc \/ SelectError \/ \E g \in Goroutines : Reports(g)
         /\ grace' = grace \/ StartShutdown \/ GraceExpires
         /\ result' = result \/ SelectError \/ SrvDown \/ DebugDown
         /\ logOpen' = logOpen \/ CloseLog
BY DEF Next, vars, process, requests, Arrive, Progress, AuditSignal, TicketReturns, Commit, Launch, Finish,
   PollReturns, QueryReturns, Signalled, Fails, Reports, HubEnds, GraceExpires, MainStep, SelectError,
   SelectDone, StartShutdown, SrvDown, DebugDown, Wait, CloseLog, Exit

\* A goroutine that does not run never runs again, and one that has ended has
\* for good.
LEMMA GoroutinesEnd ==
  ASSUME TypeOK, [Next]_vars, NEW g \in Goroutines
  PROVE  /\ goroutine[g] # "runs" => goroutine'[g] # "runs"
         /\ goroutine[g] = "ended" => goroutine'[g] = "ended"
BY ProcessStep DEF TypeOK, Fails, Reports, HubEnds, StartShutdown, SrvDown, Closed, Listening, Goroutines, Servers

\* What a handler's step does to a handler and to an investigation: none leaves
\* a request's end, and none begins where the server does not listen.
LEMMA HandlerStep ==
  ASSUME TypeOK, UNCHANGED process, [Next]_vars
  PROVE  /\ handler' \in [Handlers -> {"idle", "held", "asking", "begun", "ticket", "ticketed",
                                       "stored", "answered", "killed"}]
         /\ investigation' \in [Webhooks -> {"none", "running", "finished", "cut"}]
         /\ \A h \in Handlers :
              /\ handler[h] # "killed" => handler'[h] # "killed"
              /\ InFlight(h)' => InFlight(h) \/ Listening(ServerOf(h))
         /\ \A r \in Webhooks :
              /\ investigation'[r] = "cut" => investigation[r] = "cut" \/ (investigation[r] = "running" /\ ~logOpen)
              /\ investigation'[r] = "running" => investigation[r] = "running" \/ InFlight(r)
<1> DEFINE States == {"idle", "held", "asking", "begun", "ticket", "ticketed", "stored", "answered", "killed"}
           H == /\ handler' \in [Handlers -> States]
                /\ \A h \in Handlers : /\ handler[h] # "killed" => handler'[h] # "killed"
                                       /\ InFlight(h)' => InFlight(h) \/ Listening(ServerOf(h))
           I == /\ investigation' \in [Webhooks -> {"none", "running", "finished", "cut"}]
                /\ \A r \in Webhooks :
                     /\ investigation'[r] = "cut" => investigation[r] = "cut" \/ (investigation[r] = "running" /\ ~logOpen)
                     /\ investigation'[r] = "running" => investigation[r] = "running" \/ InFlight(r)
<1>0. Webhooks \subseteq Handlers
  BY DEF Handlers
<1>1. ASSUME NEW h \in Handlers, NEW to \in States \ {"killed"}, Moves(h, to),
             InFlight(h) \/ Listening(ServerOf(h))
      PROVE  H
  BY <1>1 DEF Moves, TypeOK, InFlight
<1>2. ASSUME UNCHANGED handler PROVE H
  BY <1>2 DEF TypeOK, InFlight
<1>3. ASSUME UNCHANGED investigation PROVE I
  BY <1>3 DEF TypeOK
<1>4. ASSUME NEW h \in Handlers, Arrive(h) PROVE H /\ I
  <2>1. PICK to \in States \ {"killed"} : Moves(h, to)
    BY <1>4 DEF Arrive
  <2> QED BY <1>1, <1>3, <1>4, <2>1 DEF Arrive
<1>5. ASSUME NEW r \in Webhooks, AuditSignal(r) \/ TicketReturns(r) \/ Commit(r) PROVE H /\ I
  <2>1. InFlight(r) /\ UNCHANGED investigation
    BY <1>5 DEF InFlight, AuditSignal, TicketReturns, Commit
  <2>2. PICK to \in States \ {"killed"} : Moves(r, to)
    BY <1>5 DEF AuditSignal, TicketReturns, Commit
  <2> QED BY <1>0, <1>1, <1>3, <2>1, <2>2
<1>6. ASSUME NEW r \in Webhooks, Launch(r) PROVE H /\ I
  <2>1. InFlight(r) /\ Moves(r, "answered")
    BY <1>6 DEF InFlight, Launch
  <2> QED BY <1>0, <1>1, <1>6, <2>1 DEF Launch, TypeOK
<1>7. ASSUME NEW r \in Webhooks, Finish(r) PROVE H /\ I
  BY <1>2, <1>7 DEF Finish, TypeOK
<1>8. ASSUME NEW h \in Handlers, PollReturns(h) \/ QueryReturns(h) PROVE H /\ I
  <2>1. InFlight(h) /\ Moves(h, "answered") /\ UNCHANGED investigation
    BY <1>8 DEF InFlight, PollReturns, QueryReturns
  <2> QED BY <1>1, <1>3, <2>1
<1>9. CASE UNCHANGED requests
  BY <1>2, <1>3, <1>9 DEF requests
<1>10. (\E h \in Handlers : Arrive(h) \/ Progress(h)) \/ UNCHANGED requests
  BY DEF Next, vars, process, requests, Signalled, Fails, Reports, HubEnds, GraceExpires, MainStep, SelectError,
     SelectDone, StartShutdown, SrvDown, DebugDown, Wait, CloseLog, Exit, TypeOK
<1> QED BY <1>4, <1>5, <1>6, <1>7, <1>8, <1>9, <1>10 DEF Progress

-----------------------------------------------------------------------------
(* The invariants, one by one.                                             *)

\* Types; errc in its bounds, since only a sender with room sends.
LEMMA TypeStep ==
  ASSUME TypeOK, [Next]_vars
  PROVE  TypeOK'
<1>1. CASE UNCHANGED process
  BY <1>1, HandlerStep DEF TypeOK, process
<1>2. CASE UNCHANGED requests
  <2>1. /\ handler' = handler /\ investigation' = investigation
    BY <1>2 DEF requests
  <2>2. errc' \in 0..ErrcSize
    <3>1. \/ errc' = errc \/ (errc < ErrcSize /\ errc' = errc + 1) \/ (errc > 0 /\ errc' = errc - 1)
      BY ProcessStep DEF SelectError, Reports, CanSend
    <3> QED BY <3>1 DEF TypeOK, ErrcSize
  <2>4. goroutine' \in [Goroutines -> {"runs", "sending", "ended"}]
    <3>1. \A s \in Servers : Closed(s) \in [Goroutines -> {"runs", "sending", "ended"}]
      BY DEF Closed, TypeOK
    <3>2. \/ goroutine' = goroutine
          \/ \E g \in Goroutines : \E to \in {"sending", "ended"} : goroutine' = [goroutine EXCEPT ![g] = to]
          \/ \E s \in Servers : goroutine' = Closed(s)
      <4>1. ASSUME NEW g \in Goroutines, Fails(g) \/ Reports(g)
            PROVE  \E to \in {"sending", "ended"} : goroutine' = [goroutine EXCEPT ![g] = to]
        BY <4>1 DEF Fails, Reports
      <4>2. HubEnds => "hub" \in Goroutines /\ goroutine' = [goroutine EXCEPT !["hub"] = "ended"]
        BY DEF HubEnds, Goroutines
      <4>3. StartShutdown \/ SrvDown => \E s \in Servers : goroutine' = Closed(s)
        BY DEF StartShutdown, SrvDown, Servers
      <4> QED BY <4>1, <4>2, <4>3, ProcessStep
    <3> QED BY <3>1, <3>2 DEF TypeOK
  <2>3. signalled' \in BOOLEAN /\ logOpen' \in BOOLEAN
    <3>1. (signalled' = signalled \/ signalled' = TRUE) /\ (logOpen' = logOpen \/ logOpen' = FALSE)
      BY ProcessStep DEF Signalled, CloseLog
    <3> QED BY <3>1 DEF TypeOK
  <2>5. main' \in {"select", "hubDone", "srv", "debug", "wait", "log", "store", "gone"}
    <3>1. main' = main \/ main' \in {"hubDone", "srv", "debug", "wait", "log", "store", "gone"}
      BY ProcessStep DEF MainStep, SelectError, SelectDone, StartShutdown, SrvDown, DebugDown, Wait, CloseLog, Exit
    <3> QED BY <3>1 DEF TypeOK
  <2>6. grace' \in {"off", "on", "expired"} /\ result' \in {"none", "error", "nil"}
    <3>1. /\ grace' = grace \/ grace' \in {"on", "expired"}
          /\ result' = result \/ result' \in {"error", "nil"}
      BY ProcessStep DEF StartShutdown, GraceExpires, SelectError, SrvDown, DebugDown
    <3> QED BY <3>1 DEF TypeOK
  <2> QED BY <2>1, <2>2, <2>3, <2>4, <2>5, <2>6 DEF TypeOK
<1>3. CASE Exit
  BY <1>3, LifecycleAssumption DEF Exit, TypeOK, Handlers
<1> QED BY <1>1, <1>2, <1>3, StepKinds

\* An error enters errc as its sender ends.
LEMMA ErrcStep ==
  ASSUME TypeOK, TypeOK', ErrcInv, [Next]_vars
  PROVE  ErrcInv'
<1>1. errc \in Nat /\ errc' \in Nat
  BY DEF TypeOK, ErrcSize
<1>2. ASSUME NEW g \in Goroutines PROVE Sent(g) \in {0, 1} /\ Sent(g)' \in {0, 1} /\ Sent(g) <= Sent(g)'
  BY GoroutinesEnd, <1>2 DEF Sent
<1>3. "srv" \in Goroutines /\ "debug" \in Goroutines /\ "hub" \in Goroutines
  BY DEF Goroutines, Servers
<1>4. CASE errc' <= errc
  BY <1>1, <1>2, <1>3, <1>4 DEF ErrcInv
<1>5. ASSUME NEW g \in Goroutines, Reports(g) PROVE ErrcInv'
  <2>1. errc' = errc + 1 /\ Sent(g) = 0 /\ Sent(g)' = 1
    BY <1>5 DEF Reports, Sent, TypeOK
  <2>2. g \in {"srv", "debug", "hub"}
    BY DEF Goroutines, Servers
  <2> QED BY <1>1, <1>2, <1>3, <2>1, <2>2 DEF ErrcInv
<1>6. errc' <= errc \/ \E g \in Goroutines : Reports(g)
  BY <1>1, ProcessStep DEF SelectError
<1> QED BY <1>4, <1>5, <1>6

\* The log is closed late, and nothing is killed or cut short before.
LEMMA LogStep ==
  ASSUME TypeOK, LogInv, [Next]_vars
  PROVE  LogInv'
<1>1. CASE UNCHANGED process
  BY <1>1, HandlerStep DEF LogInv, process
<1>2. CASE UNCHANGED requests
  <2>1. CASE CloseLog
    BY <1>2, <2>1 DEF CloseLog, LogInv, requests
  <2>2. CASE ~CloseLog
    <3>1. logOpen' = logOpen
      BY <2>2, ProcessStep
    <3>2. (main = "gone" => main' = "gone") /\ (main' \in {"store", "gone"} <=> main \in {"store", "gone"})
      BY <2>2, ProcessStep DEF MainStep, SelectError, SelectDone, StartShutdown, SrvDown, DebugDown, Wait, Exit
    <3> QED BY <1>2, <3>1, <3>2 DEF LogInv, requests
  <2> QED BY <2>1, <2>2
<1>3. CASE Exit
  BY <1>3 DEF Exit, LogInv
<1> QED BY <1>1, <1>2, <1>3, StepKinds

\* main reaches "srv" and "debug" only by closing the server's listener.
LEMMA ShutStep ==
  ASSUME TypeOK, ShutInv, [Next]_vars
  PROVE  ShutInv'
<1>1. \A s \in Servers : s \in Goroutines /\ (~Listening(s) => ~Listening(s)')
  BY GoroutinesEnd DEF Goroutines, Listening
<1>2. ASSUME NEW s \in Servers, goroutine' = Closed(s) PROVE ~Listening(s)'
  BY <1>1, <1>2 DEF Closed, Listening, TypeOK
<1>3. /\ main' = "srv" => main = "srv" \/ goroutine' = Closed("srv")
      /\ main' = "debug" => main = "debug" \/ (main = "srv" /\ goroutine' = Closed("debug"))
  BY ProcessStep DEF MainStep, SelectError, SelectDone, StartShutdown, SrvDown, DebugDown, Wait, CloseLog, Exit
<1> QED BY <1>1, <1>2, <1>3 DEF ShutInv, Servers

\* The grace starts where main has seen the hub's end, and the hub does not come
\* back.
LEMMA GraceStep ==
  ASSUME TypeOK, GraceInv, [Next]_vars
  PROVE  GraceInv'
<1>1. goroutine["hub"] = "ended" => goroutine'["hub"] = "ended"
  BY GoroutinesEnd DEF Goroutines
<1>2. grace' # "off" => grace # "off" \/ (StartShutdown /\ goroutine["hub"] = "ended")
  BY ProcessStep DEF StartShutdown, GraceExpires
<1> QED BY <1>1, <1>2 DEF GraceInv

\* A server that is empty stays so while the process runs.
LEMMA EmptyStays ==
  ASSUME TypeOK, LogInv, [Next]_vars, NEW s \in Servers, Empty(s)
  PROVE  Empty(s)'
<1>1. ~Listening(s)'
  BY GoroutinesEnd DEF Empty, Listening, Goroutines
<1>2. CASE UNCHANGED process
  BY <1>1, <1>2, HandlerStep DEF Empty
<1>3. CASE UNCHANGED requests
  BY <1>1, <1>3 DEF Empty, requests, InFlight
<1>4. CASE Exit
  BY <1>1, <1>4 DEF Empty, Exit, InFlight
<1> QED BY <1>2, <1>3, <1>4, StepKinds

\* A result of nil: what Shutdown emptied stays empty, so nothing launches an
\* investigation behind Wait.
LEMMA CleanStep ==
  ASSUME TypeOK, LogInv, ShutInv, CleanInv, [Next]_vars
  PROVE  CleanInv'
<1>0. "srv" \in Servers /\ "debug" \in Servers /\ Webhooks \subseteq Handlers
  BY DEF Servers, Handlers
<1>1. \A r \in Webhooks : ServerOf(r) = "srv"
  BY LifecycleAssumption DEF ServerOf
<1>2. CASE UNCHANGED process
  <2> SUFFICES ASSUME result = "nil" PROVE CleanInv'
    BY <1>2 DEF process, CleanInv
  <2>1. main' = main /\ result' = result
    BY <1>2 DEF process
  <2>2. Empty("srv") /\ Empty("srv")' /\ (main # "debug" => Empty("debug")')
    BY <1>0, EmptyStays DEF CleanInv
  <2>3. ASSUME NEW r \in Webhooks, main \in {"log", "store", "gone"}
        PROVE  investigation'[r] \in {"none", "finished"}
    <3>1. ~InFlight(r) /\ investigation[r] \in {"none", "finished"}
      BY <1>0, <1>1, <2>2, <2>3 DEF Empty, CleanInv
    <3> QED BY <1>2, <3>1, HandlerStep
  <2> QED BY <2>1, <2>2, <2>3 DEF CleanInv
<1>3. CASE UNCHANGED requests /\ ~Exit
  <2> SUFFICES ASSUME result' = "nil" PROVE CleanInv'
    BY DEF CleanInv
  <2>1. CASE SrvDown
    <3>1. Empty("srv")
      BY <2>1 DEF SrvDown, Idle, Empty, LogInv, ShutInv
    <3> QED BY <1>0, <2>1, <3>1, EmptyStays DEF SrvDown, CleanInv
  <2>2. CASE DebugDown
    <3>1. Empty("debug") /\ result = "nil"
      BY <2>2 DEF DebugDown, Idle, Empty, LogInv, ShutInv
    <3> QED BY <1>0, <2>2, <3>1, EmptyStays DEF DebugDown, CleanInv
  <2>3. CASE Wait
    <3>1. \A r \in Webhooks : investigation'[r] \in {"none", "finished"}
      BY <2>3 DEF Wait, requests, LogInv, TypeOK
    <3> QED BY <1>0, <2>3, <3>1, EmptyStays DEF Wait, CleanInv
  <2>4. CASE ~SrvDown /\ ~DebugDown /\ ~Wait
    <3>1. /\ result = "nil" /\ (main' = main \/ (main = "log" /\ main' = "store"))
      BY <1>3, <2>4, ProcessStep DEF CleanInv, MainStep, SelectError, SelectDone, StartShutdown, CloseLog
    <3> QED BY <1>0, <1>3, <3>1, EmptyStays DEF CleanInv, requests
  <2> QED BY <2>1, <2>2, <2>3, <2>4
<1>4. CASE Exit
  <2> SUFFICES ASSUME result = "nil" PROVE CleanInv'
    BY <1>4 DEF Exit, CleanInv
  <2>1. \A r \in Webhooks : investigation'[r] \in {"none", "finished"}
    BY <1>4 DEF Exit, CleanInv
  <2> QED BY <1>0, <1>4, <2>1, EmptyStays DEF Exit, CleanInv
<1> QED BY <1>2, <1>3, <1>4, StepKinds

-----------------------------------------------------------------------------
(* The theorems.                                                           *)

\* The process has just started its servers and its hub.
LEMMA LifeInvInit == Init => LifeInv
<1> SUFFICES ASSUME Init PROVE LifeInv
  OBVIOUS
<1>1. TypeOK
  <2>1. errc \in 0..ErrcSize
    BY DEF Init, ErrcSize
  <2> QED BY <2>1 DEF Init, TypeOK
<1>2. ErrcInv
  BY DEF Init, ErrcInv, Sent, Goroutines, Servers
<1>3. LogInv /\ ShutInv /\ CleanInv /\ GraceInv
  BY DEF Init, LogInv, ShutInv, CleanInv, GraceInv
<1> QED BY <1>1, <1>2, <1>3 DEF LifeInv

\* The invariants hold together through every step.
THEOREM LifeInvariance == Spec => []LifeInv
<1>1. LifeInv /\ [Next]_vars => LifeInv'
  BY TypeStep, ErrcStep, LogStep, ShutStep, CleanStep, GraceStep DEF LifeInv
<1> QED BY <1>1, LifeInvInit, PTL DEF Spec

\* The types; errc never holds more than its three errors.
THEOREM LifeTypes == Spec => []TypeOK
<1>1. LifeInv => TypeOK
  BY DEF LifeInv
<1> QED BY <1>1, LifeInvariance, PTL

\* No server and no hub ever blocks on errc, whether or not main still receives.
THEOREM SendersGoOn == Spec => []NoSendBlocks
<1>1. LifeInv => NoSendBlocks
  <2> SUFFICES ASSUME LifeInv, NEW g \in Goroutines, goroutine[g] = "sending" PROVE errc < ErrcSize
    BY DEF NoSendBlocks, CanSend
  <2>1. Sent(g) = 0 /\ \A o \in Goroutines : Sent(o) \in {0, 1}
    BY DEF Sent
  <2>2. g \in {"srv", "debug", "hub"} /\ Goroutines = {"srv", "debug", "hub"}
    BY DEF Goroutines, Servers
  <2>3. errc \in Nat /\ errc <= Sent("srv") + Sent("debug") + Sent("hub")
    BY DEF LifeInv, TypeOK, ErrcInv, ErrcSize
  <2> QED BY <2>1, <2>2, <2>3 DEF ErrcSize
<1> QED BY <1>1, LifeInvariance, PTL

\* A stop that returned no error lost nothing: no request was killed under way,
\* no investigation cut short.
THEOREM CleanStops == Spec => []CleanStopLosesNothing
<1>1. LifeInv => CleanStopLosesNothing
  <2> SUFFICES ASSUME LifeInv, result = "nil", ~logOpen
               PROVE  /\ \A h \in Handlers : ~InFlight(h) /\ handler[h] # "killed"
                      /\ \A r \in Webhooks : investigation[r] \in {"none", "finished"}
    BY DEF CleanStopLosesNothing
  <2>1. main \in {"store", "gone"} /\ Empty("srv") /\ Empty("debug")
    BY DEF LifeInv, LogInv, CleanInv
  <2>2. \A h \in Handlers : ServerOf(h) \in {"srv", "debug"}
    BY DEF ServerOf
  <2> QED BY <2>1, <2>2 DEF LifeInv, CleanInv, Empty
<1> QED BY <1>1, LifeInvariance, PTL

\* The grace never runs out on a Sensor's held poll.
THEOREM GraceIsSpentOnWork == Spec => GraceIsForWork
<1>1. LifeInv /\ [Next]_vars =>
        [grace' = "expired" /\ grace = "on" => \A p \in Polls : handler[p] # "held"]_vars
  <2> SUFFICES ASSUME LifeInv, [Next]_vars, grace' = "expired", grace = "on", NEW p \in Polls, handler[p] = "held"
               PROVE  FALSE
    OBVIOUS
  <2>1. GraceExpires
    BY ProcessStep DEF StartShutdown
  <2>2. Slow(p)
    BY <2>1 DEF GraceExpires, InFlight, Handlers
  <2>3. goroutine["hub"] = "ended"
    BY DEF LifeInv, GraceInv
  <2> QED BY <2>2, <2>3 DEF Slow, Released
<1> QED BY <1>1, LifeInvariance, PTL DEF Spec, GraceIsForWork
=============================================================================
