----------------------------- MODULE LinkProofs -----------------------------
(***************************************************************************)
(* Theorems about the link, for any Locations, Calls, polls and any size   *)
(* of the queues, with any number of failures and restarts: the types,     *)
(* which Calls are pending, who answered them, that each is worked on      *)
(* once, and that all of it implements EvidenceQuery.                      *)
(***************************************************************************)
EXTENDS Link, SequenceTheorems, FiniteSetTheorems, TLAPS

\* In Hub.Call a caller has a Location of the Hub's, and so has one that got an
\* answer there; until it leaves it has no outcome but an answer or its deadline,
\* and what goes into the log is an outcome.
CallerInv ==
  \A c \in Calls :
    /\ pc[c] \in {"queue", "wait", "leave"} => At[c] \in Locations
    /\ pc[c] \in {"idle", "queue", "wait"} => result[c] = "none"
    /\ pc[c] = "entry" => result[c] \in Outcomes /\ (result[c] = "ok" => At[c] \in Locations)
    /\ pc[c] = "leave" => result[c] \in {"ok", "deadline"}

\* A poll that is held, or about to be answered, is some Location's.
PollInv ==
  \A p \in Polls :
    /\ poll[p].step \in {"held", "write"} => poll[p].location \in Locations
    /\ poll[p].step = "write" => poll[p].call \in Calls

\* What is in a Call's channel came from its own Location.
ReplyInv == \A c \in Calls : reply[c] \in {None, At[c]}

LinkInv == TypeOK /\ CallerInv /\ PollInv /\ ReplyInv /\ PendingIsWaiting /\ AnsweredByItsOwn

PollTypes == [step: {"free", "held", "write"}, location: Locations \cup {None},
              call: Calls \cup {None}, live: BOOLEAN]
PCs == {"idle", "queue", "wait", "leave", "entry", "done"}

-----------------------------------------------------------------------------
(* Each part of the invariant, step by step.                               *)

LEMMA InitInv == Init => LinkInv
<1> SUFFICES ASSUME Init PROVE LinkInv
  OBVIOUS
<1>1. TypeOK
  <2>1. <<>> \in Seq(Calls) /\ Len(<<>>) = 0 /\ MaxQueued \in Nat
    BY EmptySeq, LinkAssumption
  <2>2. Free \in PollTypes
    BY DEF Free, PollTypes
  <2> QED BY <2>1, <2>2 DEF Init, TypeOK, PollTypes, Outcomes
<1>2. CallerInv /\ PollInv /\ ReplyInv /\ PendingIsWaiting /\ AnsweredByItsOwn
  BY DEF Init, CallerInv, PollInv, ReplyInv, PendingIsWaiting, AnsweredByItsOwn, Free
<1> QED BY <1>1, <1>2 DEF LinkInv

\* A caller that is where pc says, and has what result says.
LEMMA ReturnType ==
  ASSUME TypeOK, NEW c \in Calls, NEW step \in PCs,
         NEW outcome \in Outcomes \cup {"unaudited", "lost"}, Return(c, step, outcome)
  PROVE  /\ pc' = [pc EXCEPT ![c] = step] /\ result' = [result EXCEPT ![c] = outcome]
         /\ pc' \in [Calls -> PCs]
         /\ result' \in [Calls -> Outcomes \cup {"unaudited", "lost"}]
<1>1. pc \in [Calls -> PCs] /\ result \in [Calls -> Outcomes \cup {"unaudited", "lost"}]
  BY Zenon DEF TypeOK, PCs
<1>2. pc' = [pc EXCEPT ![c] = step] /\ result' = [result EXCEPT ![c] = outcome]
  BY Zenon DEF Return
<1> QED BY <1>1, <1>2

\* The steps of a caller.
LEMMA CallerSteps ==
  ASSUME LinkInv, NEW c \in Calls, Start(c) \/ CallerStep(c)
  PROVE  LinkInv'
<1>1. TypeOK /\ CallerInv /\ PollInv /\ ReplyInv /\ PendingIsWaiting /\ AnsweredByItsOwn
  BY DEF LinkInv
<1>2. CASE Start(c) /\ At[c] \in online
  <2>1. /\ pc[c] = "idle" /\ result[c] = "none"
        /\ pending' = [pending EXCEPT ![At[c]] = @ \cup {c}]
        /\ Return(c, "queue", "none")
        /\ UNCHANGED <<online, silent, queue, reply, poll, running, status, entry>>
    BY <1>1, <1>2 DEF Start, CallerInv, log
  <2>2. At[c] \in Locations
    BY <1>1, <1>2 DEF TypeOK
  <2>3. /\ pc' = [pc EXCEPT ![c] = "queue"] /\ result' = [result EXCEPT ![c] = "none"]
        /\ pc' \in [Calls -> PCs] /\ result' \in [Calls -> Outcomes \cup {"unaudited", "lost"}]
    BY <1>1, <2>1, ReturnType DEF PCs, Outcomes
  <2>4. TypeOK'
    BY <1>1, <2>1, <2>2, <2>3 DEF TypeOK, PCs
  <2>5. CallerInv' /\ PollInv' /\ ReplyInv' /\ AnsweredByItsOwn'
    BY <1>1, <2>1, <2>2, <2>3 DEF CallerInv, PollInv, ReplyInv, AnsweredByItsOwn, TypeOK
  <2>6. PendingIsWaiting'
    BY <1>1, <2>1, <2>2, <2>3 DEF PendingIsWaiting, TypeOK
  <2> QED BY <2>4, <2>5, <2>6 DEF LinkInv
<1>3. CASE Start(c) /\ At[c] \notin online
  <2>1. PICK outcome \in {"offline", "unknown"} :
          /\ pc[c] = "idle"
          /\ Return(c, "entry", outcome)
          /\ UNCHANGED <<online, silent, queue, pending, reply, poll, running, status, entry>>
    BY <1>3 DEF Start, log
  <2>3. /\ pc' = [pc EXCEPT ![c] = "entry"] /\ result' = [result EXCEPT ![c] = outcome]
        /\ pc' \in [Calls -> PCs] /\ result' \in [Calls -> Outcomes \cup {"unaudited", "lost"}]
    BY <1>1, <2>1, ReturnType DEF PCs, Outcomes
  <2>4. TypeOK'
    BY <1>1, <2>1, <2>3 DEF TypeOK, PCs
  <2>5. CallerInv' /\ PollInv' /\ ReplyInv' /\ AnsweredByItsOwn'
    BY <1>1, <2>1, <2>3 DEF CallerInv, PollInv, ReplyInv, AnsweredByItsOwn, TypeOK, Outcomes
  <2>6. PendingIsWaiting'
    BY <1>1, <2>1, <2>3 DEF PendingIsWaiting, TypeOK
  <2> QED BY <2>4, <2>5, <2>6 DEF LinkInv
<1>4. CASE Enqueue(c)
  <2>1. /\ pc[c] = "queue" /\ Len(queue[At[c]]) < MaxQueued
        /\ queue' = [queue EXCEPT ![At[c]] = Append(@, c)]
        /\ pc' = [pc EXCEPT ![c] = "wait"]
        /\ UNCHANGED <<online, silent, pending, reply, poll, result, running, status, entry>>
    BY <1>4 DEF Enqueue, log
  <2>2. At[c] \in Locations
    BY <1>1, <2>1 DEF CallerInv
  <2>3. queue \in [Locations -> Seq(Calls)] /\ \A l \in Locations : Len(queue[l]) <= MaxQueued
    BY <1>1, Zenon DEF TypeOK
  <2>4. queue' \in [Locations -> Seq(Calls)] /\ \A l \in Locations : Len(queue'[l]) <= MaxQueued
    BY <2>1, <2>2, <2>3, AppendProperties, LinkAssumption
  <2>5. TypeOK'
    BY <1>1, <2>1, <2>4 DEF TypeOK
  <2>6. CallerInv' /\ PollInv' /\ ReplyInv' /\ AnsweredByItsOwn'
    BY <1>1, <2>1, <2>2 DEF CallerInv, PollInv, ReplyInv, AnsweredByItsOwn, TypeOK
  <2>7. PendingIsWaiting'
    BY <1>1, <2>1 DEF PendingIsWaiting, TypeOK
  <2> QED BY <2>5, <2>6, <2>7 DEF LinkInv
<1>5. CASE Deadline(c) \/ Receive(c)
  <2>1. PICK outcome \in {"ok", "deadline"} :
          /\ pc[c] \in {"queue", "wait"} /\ (outcome = "ok" => reply[c] # None)
          /\ Return(c, "leave", outcome)
          /\ UNCHANGED <<online, silent, queue, pending, reply, poll, running, status, entry>>
    BY <1>5 DEF Deadline, Receive, hub, log
  <2>3. /\ pc' = [pc EXCEPT ![c] = "leave"] /\ result' = [result EXCEPT ![c] = outcome]
        /\ pc' \in [Calls -> PCs] /\ result' \in [Calls -> Outcomes \cup {"unaudited", "lost"}]
    BY <1>1, <2>1, ReturnType DEF PCs, Outcomes
  <2>4. TypeOK'
    BY <1>1, <2>1, <2>3 DEF TypeOK, PCs
  <2>5. CallerInv' /\ PollInv' /\ ReplyInv' /\ AnsweredByItsOwn'
    BY <1>1, <2>1, <2>3 DEF CallerInv, PollInv, ReplyInv, AnsweredByItsOwn, TypeOK
  <2>6. PendingIsWaiting'
    BY <1>1, <2>1, <2>3 DEF PendingIsWaiting, TypeOK
  <2> QED BY <2>4, <2>5, <2>6 DEF LinkInv
<1>6. CASE Leave(c)
  <2>1. /\ pc[c] = "leave"
        /\ pending' = [pending EXCEPT ![At[c]] = @ \ {c}]
        /\ pc' = [pc EXCEPT ![c] = "entry"]
        /\ UNCHANGED <<online, silent, queue, reply, poll, result, running, status, entry>>
    BY <1>6 DEF Leave, log
  <2>2. At[c] \in Locations
    BY <1>1, <2>1 DEF CallerInv
  <2>4. TypeOK'
    BY <1>1, <2>1, <2>2 DEF TypeOK
  <2>5. CallerInv' /\ PollInv' /\ ReplyInv' /\ AnsweredByItsOwn'
    BY <1>1, <2>1 DEF CallerInv, PollInv, ReplyInv, AnsweredByItsOwn, TypeOK, Outcomes
  <2>6. PendingIsWaiting'
    BY <1>1, <2>1, <2>2 DEF PendingIsWaiting, TypeOK
  <2> QED BY <2>4, <2>5, <2>6 DEF LinkInv
<1>7. CASE QueryEntry(c)
  <2>1. PICK outcome \in Outcomes \cup {"unaudited", "lost"} :
          /\ pc[c] = "entry" /\ Return(c, "done", outcome)
          /\ \/ entry' = [entry EXCEPT ![c] = result[c]]
             \/ entry' = entry
          /\ UNCHANGED <<online, silent, queue, pending, reply, poll, running, status>>
    BY <1>1, <1>7 DEF QueryEntry, hub, TypeOK
  <2>2. result[c] \in Outcomes
    BY <1>1, <2>1 DEF CallerInv
  <2>3. /\ pc' = [pc EXCEPT ![c] = "done"] /\ result' = [result EXCEPT ![c] = outcome]
        /\ pc' \in [Calls -> PCs] /\ result' \in [Calls -> Outcomes \cup {"unaudited", "lost"}]
    BY <1>1, <2>1, ReturnType DEF PCs
  <2>4. TypeOK'
    BY <1>1, <2>1, <2>2, <2>3 DEF TypeOK, PCs
  <2>5. CallerInv' /\ PollInv' /\ ReplyInv' /\ AnsweredByItsOwn'
    BY <1>1, <2>1, <2>3 DEF CallerInv, PollInv, ReplyInv, AnsweredByItsOwn, TypeOK
  <2>6. PendingIsWaiting'
    BY <1>1, <2>1, <2>3 DEF PendingIsWaiting, TypeOK
  <2> QED BY <2>4, <2>5, <2>6 DEF LinkInv
<1> QED BY <1>2, <1>3, <1>4, <1>5, <1>6, <1>7 DEF CallerStep

\* The steps of a poll.
LEMMA PollSteps ==
  ASSUME LinkInv, NEW p \in Polls,
         \/ Take(p) \/ Write(p) \/ HoldEnds(p) \/ Disconnect(p)
         \/ \E l \in Locations : PollStarts(l, p)
  PROVE  LinkInv'
<1>1. TypeOK /\ CallerInv /\ PollInv /\ ReplyInv /\ PendingIsWaiting /\ AnsweredByItsOwn
  BY DEF LinkInv
<1>2. poll \in [Polls -> PollTypes] /\ queue \in [Locations -> Seq(Calls)]
  BY <1>1, Zenon DEF TypeOK, PollTypes
<1>3. Free \in PollTypes /\ Free.step = "free"
  BY DEF Free, PollTypes
<1>4. UNCHANGED <<pending, reply, pc, result, entry>>
  BY DEF Take, Write, HoldEnds, Disconnect, PollStarts, caller, log
<1>5. CallerInv' /\ ReplyInv' /\ PendingIsWaiting' /\ AnsweredByItsOwn'
  BY <1>1, <1>4 DEF CallerInv, ReplyInv, PendingIsWaiting, AnsweredByItsOwn
<1>6. SUFFICES TypeOK' /\ PollInv'
  BY <1>5 DEF LinkInv
<1>7. CASE \E l \in Locations : PollStarts(l, p)
  <2>1. PICK l \in Locations : PollStarts(l, p)
    BY <1>7
  <2> DEFINE held == [step |-> "held", location |-> l, call |-> None, live |-> TRUE]
  <2>2. held \in PollTypes /\ held.step = "held" /\ held.location = l
    BY DEF PollTypes
  <2>3. /\ online' = online \cup {l} /\ silent' = silent \ {l}
        /\ status' = status \/ status' = [status EXCEPT ![l] = "location.online"]
        /\ poll' = [poll EXCEPT ![p] = held]
        /\ UNCHANGED <<queue, running>>
    BY <2>1 DEF PollStarts
  <2> HIDE DEF held
  <2>4. poll' \in [Polls -> PollTypes] /\ PollInv'
    BY <1>1, <1>2, <2>2, <2>3 DEF PollInv
  <2>5. TypeOK'
    BY <1>1, <1>4, <2>3, <2>4 DEF TypeOK, PollTypes
  <2> QED BY <2>4, <2>5
<1>8. CASE Take(p)
  <2> DEFINE l == poll[p].location
             c == Head(queue[l])
  <2>1. /\ poll[p].step = "held" /\ queue[l] # <<>>
        /\ queue' = [queue EXCEPT ![l] = Tail(@)]
        /\ \/ poll' = [poll EXCEPT ![p].step = "write", ![p].call = c]
           \/ poll' = poll
        /\ UNCHANGED <<online, silent, running, status>>
    BY <1>8 DEF Take, log
  <2>2. l \in Locations /\ queue[l] \in Seq(Calls)
    BY <1>1, <1>2, <2>1 DEF PollInv
  <2>3. /\ c \in Calls /\ Tail(queue[l]) \in Seq(Calls)
        /\ Len(Tail(queue[l])) = Len(queue[l]) - 1 /\ Len(queue[l]) \in Nat
    BY <2>1, <2>2, HeadTailProperties
  <2>4. /\ queue' \in [Locations -> Seq(Calls)]
        /\ \A k \in Locations : Len(queue'[k]) <= MaxQueued
    <3>1. \A k \in Locations : Len(queue[k]) <= MaxQueued
      BY <1>1, Zenon DEF TypeOK
    <3> HIDE DEF l
    <3>2. Len(queue[l]) <= MaxQueued /\ MaxQueued \in Nat
      BY <2>2, <3>1, LinkAssumption
    <3>3. Len(Tail(queue[l])) <= MaxQueued
      BY <2>3, <3>2
    <3> QED BY <1>2, <2>1, <2>2, <2>3, <3>1, <3>3
  <2>5. poll' \in [Polls -> PollTypes] /\ PollInv'
    <3>1. CASE poll' = poll
      BY <1>1, <1>2, <3>1 DEF PollInv
    <3>2. CASE poll' = [poll EXCEPT ![p].step = "write", ![p].call = c]
      <4> HIDE DEF c
      <4>1. poll' \in [Polls -> PollTypes]
        BY <1>2, <2>3, <3>2 DEF PollTypes
      <4>2. PollInv'
        BY <1>1, <1>2, <2>2, <2>3, <3>2 DEF PollInv, PollTypes
      <4> QED BY <4>1, <4>2
    <3> QED BY <2>1, <3>1, <3>2
  <2> HIDE DEF l, c
  <2>6. TypeOK'
    BY <1>1, <1>4, <2>1, <2>4, <2>5 DEF TypeOK, PollTypes
  <2> QED BY <2>5, <2>6
<1>9. CASE Write(p)
  <2> DEFINE l == poll[p].location
  <2>1. /\ poll[p].step = "write"
        /\ running' = running \/ running' = [running EXCEPT ![l] = @ \cup {poll[p].call}]
        /\ poll' = [poll EXCEPT ![p] = Free]
        /\ UNCHANGED <<online, silent, queue, status>>
    BY <1>9 DEF Write, log
  <2>2. l \in Locations /\ poll[p].call \in Calls
    BY <1>1, <2>1 DEF PollInv
  <2>3. poll' \in [Polls -> PollTypes] /\ PollInv'
    BY <1>1, <1>2, <1>3, <2>1 DEF PollInv
  <2> HIDE DEF l
  <2>4. running' \in [Locations -> SUBSET Calls]
    <3>1. running \in [Locations -> SUBSET Calls]
      BY <1>1, Zenon DEF TypeOK
    <3> QED BY <2>1, <2>2, <3>1
  <2>5. TypeOK'
    BY <1>1, <1>4, <2>1, <2>3, <2>4 DEF TypeOK, PollTypes
  <2> QED BY <2>3, <2>5
<1>10. CASE HoldEnds(p)
  <2>1. /\ poll' = [poll EXCEPT ![p] = Free]
        /\ UNCHANGED <<online, silent, queue, running, status>>
    BY <1>10 DEF HoldEnds, log
  <2>2. poll' \in [Polls -> PollTypes] /\ PollInv'
    BY <1>1, <1>2, <1>3, <2>1 DEF PollInv
  <2>3. TypeOK'
    BY <1>1, <1>4, <2>1, <2>2 DEF TypeOK, PollTypes
  <2> QED BY <2>2, <2>3
<1>11. CASE Disconnect(p)
  <2>1. /\ poll' = [poll EXCEPT ![p].live = FALSE]
        /\ UNCHANGED <<online, silent, queue, running, status>>
    BY <1>11 DEF Disconnect, log
  <2>2. poll' \in [Polls -> PollTypes] /\ PollInv'
    BY <1>1, <1>2, <2>1 DEF PollInv, PollTypes
  <2>3. TypeOK'
    BY <1>1, <1>4, <2>1, <2>2 DEF TypeOK, PollTypes
  <2> QED BY <2>2, <2>3
<1> QED BY <1>7, <1>8, <1>9, <1>10, <1>11

\* What a Sensor sends, its own Calls answered or another Location's.
LEMMA ReplySteps ==
  ASSUME LinkInv, NEW l \in Locations, NEW c \in Calls,
         Reply(l, c) \/ ReplyLost(l, c) \/ Meddle(l, c)
  PROVE  LinkInv'
<1>1. TypeOK /\ CallerInv /\ PollInv /\ ReplyInv /\ PendingIsWaiting /\ AnsweredByItsOwn
  BY DEF LinkInv
<1>2. UNCHANGED <<online, silent, queue, pending, poll, pc, result, status, entry>>
  BY DEF Reply, ReplyLost, Meddle, hub, caller, log
<1>3. \/ reply' = reply
      \/ /\ c \in pending[l] /\ reply[c] = None
         /\ reply' = [reply EXCEPT ![c] = l]
  BY DEF Reply, ReplyLost, Meddle, Deliver, hub
<1>4. c \in pending[l] => l = At[c]
  BY <1>1 DEF PendingIsWaiting
<1>5. reply' \in [Calls -> Locations \cup {None}] /\ ReplyInv' /\ AnsweredByItsOwn'
  <2>1. reply \in [Calls -> Locations \cup {None}]
    BY <1>1, Zenon DEF TypeOK
  <2> QED BY <1>1, <1>2, <1>3, <1>4, <2>1 DEF ReplyInv, AnsweredByItsOwn
<1>6. running' \in [Locations -> SUBSET Calls]
  BY <1>1 DEF TypeOK, Reply, ReplyLost, Meddle
<1>7. TypeOK'
  BY <1>1, <1>2, <1>5, <1>6 DEF TypeOK
<1>8. CallerInv' /\ PollInv' /\ PendingIsWaiting'
  BY <1>1, <1>2 DEF CallerInv, PollInv, PendingIsWaiting
<1> QED BY <1>5, <1>7, <1>8 DEF LinkInv

\* Silence, the sweep, and a Sensor that starts again.
LEMMA LocationSteps ==
  ASSUME LinkInv, NEW l \in Locations, FallSilent(l) \/ Sweep(l) \/ SensorRestarts(l)
  PROVE  LinkInv'
<1>1. TypeOK /\ CallerInv /\ PollInv /\ ReplyInv /\ PendingIsWaiting /\ AnsweredByItsOwn
  BY DEF LinkInv
<1>2. UNCHANGED <<queue, pending, reply, pc, result, entry>>
  BY DEF FallSilent, Sweep, SensorRestarts, caller, log
<1>3. CallerInv' /\ ReplyInv' /\ PendingIsWaiting' /\ AnsweredByItsOwn'
  BY <1>1, <1>2 DEF CallerInv, ReplyInv, PendingIsWaiting, AnsweredByItsOwn
<1>4. poll \in [Polls -> PollTypes]
  BY <1>1, Zenon DEF TypeOK, PollTypes
<1>5. poll' \in [Polls -> PollTypes] /\ PollInv'
  <2>1. CASE SensorRestarts(l)
    <3>1. poll' = [p \in Polls |-> IF poll[p].location = l THEN [poll[p] EXCEPT !.live = FALSE]
                                   ELSE poll[p]]
      BY <2>1 DEF SensorRestarts
    <3>2. \A p \in Polls :
            /\ poll'[p] \in PollTypes /\ poll'[p].step = poll[p].step
            /\ poll'[p].location = poll[p].location /\ poll'[p].call = poll[p].call
      BY <1>4, <3>1 DEF PollTypes
    <3>3. poll' \in [Polls -> PollTypes]
      BY <3>1, <3>2
    <3> QED BY <1>1, <3>2, <3>3 DEF PollInv
  <2>2. CASE FallSilent(l) \/ Sweep(l)
    <3>1. poll' = poll
      BY <2>2 DEF FallSilent, Sweep
    <3> QED BY <1>1, <1>4, <3>1 DEF PollInv
  <2> QED BY <2>1, <2>2
<1>6. /\ online' \subseteq Locations /\ silent' \subseteq Locations
      /\ running' \in [Locations -> SUBSET Calls]
      /\ status' \in [Locations -> {"location.online", "location.offline"}]
  BY <1>1 DEF TypeOK, FallSilent, Sweep, SensorRestarts, log
<1>7. TypeOK'
  BY <1>1, <1>2, <1>5, <1>6 DEF TypeOK, PollTypes
<1> QED BY <1>3, <1>5, <1>7 DEF LinkInv

LEMMA RestartStep ==
  ASSUME LinkInv, Restart
  PROVE  LinkInv'
<1>1. TypeOK /\ CallerInv
  BY DEF LinkInv
<1>2. /\ online' = {} /\ silent' = {} /\ queue' = [l \in Locations |-> <<>>]
      /\ pending' = [l \in Locations |-> {}] /\ reply' = [c \in Calls |-> None]
      /\ poll' = [p \in Polls |-> Free]
      /\ UNCHANGED <<running, status, entry>>
  BY DEF Restart, log
<1>3. \A c \in Calls :
        /\ (pc'[c] = "idle" /\ result'[c] = "none") \/ pc'[c] = "done"
        /\ result'[c] \in Outcomes \cup {"unaudited", "lost"}
  BY <1>1 DEF Restart, CallerInv, TypeOK
<1>4. pc' \in [Calls -> PCs] /\ result' \in [Calls -> Outcomes \cup {"unaudited", "lost"}]
  <2>1. /\ pc' = [c \in Calls |-> IF pc[c] = "idle" THEN "idle" ELSE "done"]
        /\ result' = [c \in Calls |-> IF pc[c] \in {"idle", "done"} THEN result[c] ELSE "lost"]
    BY DEF Restart
  <2> QED BY <1>3, <2>1 DEF PCs
<1>5. TypeOK'
  <2>1. <<>> \in Seq(Calls) /\ Len(<<>>) <= MaxQueued
    BY EmptySeq, LinkAssumption
  <2>2. Free \in PollTypes
    BY DEF Free, PollTypes
  <2> QED BY <1>1, <1>2, <1>4, <2>1, <2>2 DEF TypeOK, PollTypes, PCs
<1>6. CallerInv' /\ PollInv' /\ ReplyInv' /\ PendingIsWaiting' /\ AnsweredByItsOwn'
  BY <1>2, <1>3 DEF CallerInv, PollInv, ReplyInv, PendingIsWaiting, AnsweredByItsOwn, Free
<1> QED BY <1>5, <1>6 DEF LinkInv

-----------------------------------------------------------------------------
(* The theorems.                                                           *)

LEMMA NextInv == LinkInv /\ [Next]_vars => LinkInv'
<1> SUFFICES ASSUME LinkInv, [Next]_vars PROVE LinkInv'
  OBVIOUS
<1>1. CASE UNCHANGED vars
  BY <1>1 DEF vars, LinkInv, TypeOK, CallerInv, PollInv, ReplyInv, PendingIsWaiting,
              AnsweredByItsOwn
<1>2. CASE \E c \in Calls : Start(c) \/ CallerStep(c)
  BY <1>2, CallerSteps
<1>3. CASE \/ \E p \in Polls : Take(p) \/ Write(p) \/ HoldEnds(p) \/ Disconnect(p)
           \/ \E l \in Locations, p \in Polls : PollStarts(l, p)
  BY <1>3, PollSteps
<1>4. CASE \E l \in Locations, c \in Calls : Reply(l, c) \/ ReplyLost(l, c) \/ Meddle(l, c)
  BY <1>4, ReplySteps
<1>5. CASE \E l \in Locations : FallSilent(l) \/ Sweep(l) \/ SensorRestarts(l)
  BY <1>5, LocationSteps
<1>6. CASE Restart
  BY <1>6, RestartStep
<1> QED BY <1>1, <1>2, <1>3, <1>4, <1>5, <1>6 DEF Next

\* Every variable of the link keeps its type; no queue exceeds its capacity.
THEOREM LinkTypes == Spec => []TypeOK
<1>1. LinkInv => TypeOK
  BY DEF LinkInv
<1> QED BY <1>1, InitInv, NextInv, PTL DEF Spec

\* The pending Calls are exactly those whose caller is in Hub.Call, however
\* many callers, deadlines, lost answers and restarts there are (Hub.Call).
THEOREM PendingExactly == Spec => []PendingIsWaiting
<1>1. LinkInv => PendingIsWaiting
  BY DEF LinkInv
<1> QED BY <1>1, InitInv, NextInv, PTL DEF Spec

\* No Sensor answers for another: an answer a Query gets comes from its own
\* Location (Hub.reply).
THEOREM OwnAnswers == Spec => []AnsweredByItsOwn
<1>1. LinkInv => AnsweredByItsOwn
  BY DEF LinkInv
<1> QED BY <1>1, InitInv, NextInv, PTL DEF Spec
-----------------------------------------------------------------------------
(* A Call is worked on once.                                               *)

\* Its caller has handed the Call over.
Handed(c) == pc[c] \notin {"idle", "queue"}

\* Every place a Call can be is at its own Location, and excludes the others: a
\* queue of Calls that differ, none of them with a poll or a Sensor; a poll
\* about to be answered with a Call no other poll and no Sensor has.
QueueOnce ==
  \A l \in Locations : \A n \in 1..Len(queue[l]) :
    /\ At[queue[l][n]] = l /\ Handed(queue[l][n])
    /\ \A m \in 1..Len(queue[l]) : queue[l][m] = queue[l][n] => m = n
    /\ \A p \in Polls : poll[p].call # queue[l][n]
    /\ queue[l][n] \notin running[l]

PollOnce ==
  \A p \in Polls :
    /\ poll[p].call # None => poll[p].step = "write"
    /\ poll[p].step = "write" =>
         /\ At[poll[p].call] = poll[p].location /\ Handed(poll[p].call)
         /\ poll[p].call \notin running[poll[p].location]
         /\ \A q \in Polls : poll[q].call = poll[p].call => q = p

RunningOnce == \A l \in Locations : \A c \in running[l] : At[c] = l /\ Handed(c)

OnceInv == QueueOnce /\ PollOnce /\ RunningOnce

LEMMA OnceStarts == Init => OnceInv
BY DEF Init, OnceInv, QueueOnce, PollOnce, RunningOnce, Free

\* A step that adds no place to any Call, and takes back no Call handed over.
LEMMA OnceStays ==
  ASSUME LinkInv, OnceInv, queue' = queue,
         \A c \in Calls : Handed(c) => Handed(c)',
         \A l \in Locations : running'[l] \subseteq running[l],
         \A p \in Polls :
           \/ /\ poll'[p].step = poll[p].step /\ poll'[p].location = poll[p].location
              /\ poll'[p].call = poll[p].call
           \/ poll'[p].call = None /\ poll'[p].step # "write"
  PROVE  OnceInv'
<1>1. \A l \in Locations : queue[l] \in Seq(Calls) /\ running[l] \subseteq Calls
  BY Zenon DEF LinkInv, TypeOK
<1>2. \A p \in Polls : poll[p].step = "write" =>
        poll[p].call \in Calls /\ poll[p].location \in Locations
  BY DEF LinkInv, PollInv
<1>3. None \notin Calls
  BY LinkAssumption
<1>4. QueueOnce'
  <2> SUFFICES ASSUME NEW l \in Locations, NEW n \in 1..Len(queue[l])
               PROVE  /\ At[queue[l][n]] = l /\ Handed(queue[l][n])'
                      /\ \A m \in 1..Len(queue[l]) : queue[l][m] = queue[l][n] => m = n
                      /\ \A p \in Polls : poll'[p].call # queue[l][n]
                      /\ queue[l][n] \notin running'[l]
    BY DEF QueueOnce
  <2>1. queue[l][n] \in Calls
    BY <1>1, ElementOfSeq
  <2> QED BY <2>1, <1>3 DEF OnceInv, QueueOnce
<1>5. PollOnce'
  BY <1>2, <1>3 DEF OnceInv, PollOnce
<1>6. RunningOnce'
  BY <1>1 DEF OnceInv, RunningOnce
<1> QED BY <1>4, <1>5, <1>6 DEF OnceInv

LEMMA EnqueueOnce ==
  ASSUME LinkInv, OnceInv, NEW c \in Calls, Enqueue(c)
  PROVE  OnceInv'
<1> DEFINE l == At[c]
<1>1. /\ pc[c] = "queue" /\ Len(queue[l]) < MaxQueued
      /\ queue' = [queue EXCEPT ![l] = Append(@, c)]
      /\ pc' = [pc EXCEPT ![c] = "wait"]
      /\ UNCHANGED <<poll, running>>
  BY DEF Enqueue
<1>2. /\ l \in Locations /\ queue \in [Locations -> Seq(Calls)]
      /\ running \in [Locations -> SUBSET Calls] /\ pc \in [Calls -> PCs]
  <2>1. l \in Locations
    BY <1>1 DEF LinkInv, CallerInv
  <2> QED BY <2>1, Zenon DEF LinkInv, TypeOK, PCs
<1>3. /\ \A d \in Calls : Handed(d) => pc'[d] \notin {"idle", "queue"}
      /\ pc'[c] \notin {"idle", "queue"} /\ ~Handed(c)
  BY <1>1, <1>2 DEF Handed
<1>4. \A k \in Locations : \A n \in 1..Len(queue'[k]) :
        \/ n \in 1..Len(queue[k]) /\ queue'[k][n] = queue[k][n] /\ queue[k][n] \in Calls
        \/ k = l /\ n = Len(queue[l]) + 1 /\ queue'[k][n] = c
  <2> SUFFICES ASSUME NEW k \in Locations, NEW n \in 1..Len(queue'[k])
               PROVE  \/ n \in 1..Len(queue[k]) /\ queue'[k][n] = queue[k][n] /\ queue[k][n] \in Calls
                      \/ k = l /\ n = Len(queue[l]) + 1 /\ queue'[k][n] = c
    OBVIOUS
  <2> HIDE DEF l
  <2>1. CASE k = l
    <3>1. queue'[l] = Append(queue[l], c) /\ queue[l] \in Seq(Calls)
      BY <1>1, <1>2
    <3>2. /\ Len(queue'[l]) = Len(queue[l]) + 1 /\ queue'[l][Len(queue[l]) + 1] = c
          /\ \A m \in 1..Len(queue[l]) : queue'[l][m] = queue[l][m] /\ queue[l][m] \in Calls
      BY <3>1, AppendProperties, ElementOfSeq
    <3>3. n \in 1..Len(queue[l]) \/ n = Len(queue[l]) + 1
      BY <3>1, <3>2, <2>1, LenProperties
    <3> QED BY <3>2, <3>3, <2>1
  <2>2. CASE k # l
    <3>1. queue'[k] = queue[k] /\ queue[k] \in Seq(Calls)
      BY <1>1, <1>2, <2>2
    <3> QED BY <3>1, ElementOfSeq
  <2> QED BY <2>1, <2>2
<1>5. \* c is nowhere yet
      /\ \A k \in Locations : \A n \in 1..Len(queue[k]) : queue[k][n] # c
      /\ \A p \in Polls : poll[p].call # c
      /\ \A k \in Locations : c \notin running[k]
  <2>1. c # None
    BY LinkAssumption
  <2> QED BY <1>3, <2>1 DEF OnceInv, QueueOnce, PollOnce, RunningOnce
<1>6. QueueOnce'
  <2> SUFFICES ASSUME NEW k \in Locations, NEW n \in 1..Len(queue'[k])
               PROVE  /\ At[queue'[k][n]] = k /\ pc'[queue'[k][n]] \notin {"idle", "queue"}
                      /\ \A m \in 1..Len(queue'[k]) : queue'[k][m] = queue'[k][n] => m = n
                      /\ \A p \in Polls : poll[p].call # queue'[k][n]
                      /\ queue'[k][n] \notin running[k]
    BY <1>1 DEF QueueOnce, Handed
  <2> HIDE DEF l
  <2>1. CASE n \in 1..Len(queue[k]) /\ queue'[k][n] = queue[k][n] /\ queue[k][n] \in Calls
    <3>1. /\ At[queue[k][n]] = k /\ Handed(queue[k][n])
          /\ \A m \in 1..Len(queue[k]) : queue[k][m] = queue[k][n] => m = n
          /\ \A p \in Polls : poll[p].call # queue[k][n]
          /\ queue[k][n] \notin running[k]
      BY <2>1 DEF OnceInv, QueueOnce
    <3>2. ASSUME NEW m \in 1..Len(queue'[k]), queue'[k][m] = queue'[k][n] PROVE m = n
      BY <1>4, <1>5, <2>1, <3>1, <3>2
    <3> QED BY <1>3, <2>1, <3>1, <3>2
  <2>2. CASE k = l /\ n = Len(queue[l]) + 1 /\ queue'[k][n] = c
    <3>1. ASSUME NEW m \in 1..Len(queue'[k]), queue'[k][m] = queue'[k][n] PROVE m = n
      BY <1>4, <1>5, <2>2, <3>1
    <3>2. At[c] = k
      BY <2>2 DEF l
    <3> QED BY <1>3, <1>5, <2>2, <3>1, <3>2
  <2> QED BY <1>4, <2>1, <2>2
<1>7. PollOnce'
  <2>1. \A p \in Polls : poll[p].step = "write" => poll[p].call \in Calls
    BY DEF LinkInv, PollInv
  <2> QED BY <1>1, <1>3, <2>1 DEF OnceInv, PollOnce, Handed
<1>8. RunningOnce'
  BY <1>1, <1>2, <1>3 DEF OnceInv, RunningOnce, Handed
<1> QED BY <1>6, <1>7, <1>8 DEF OnceInv

LEMMA TakeOnce ==
  ASSUME LinkInv, OnceInv, NEW p \in Polls, Take(p)
  PROVE  OnceInv'
<1> DEFINE l == poll[p].location
           c == Head(queue[l])
<1>1. /\ poll[p].step = "held" /\ queue[l] # <<>>
      /\ queue' = [queue EXCEPT ![l] = Tail(@)]
      /\ \/ poll' = [poll EXCEPT ![p].step = "write", ![p].call = c]
         \/ poll' = poll
      /\ UNCHANGED <<pc, running>>
  BY DEF Take, caller
<1>2. /\ l \in Locations /\ queue \in [Locations -> Seq(Calls)]
      /\ running \in [Locations -> SUBSET Calls] /\ poll \in [Polls -> PollTypes]
  <2>1. l \in Locations
    BY <1>1 DEF LinkInv, PollInv
  <2> QED BY <2>1, Zenon DEF LinkInv, TypeOK, PollTypes
<1>3. \A d : Handed(d)' <=> Handed(d)
  BY <1>1 DEF Handed
<1>4. /\ c = queue[l][1] /\ c \in Calls /\ 1 \in 1..Len(queue[l])
      /\ \A n \in 1..Len(queue'[l]) : n + 1 \in 1..Len(queue[l]) /\ queue'[l][n] = queue[l][n + 1]
      /\ \A k \in Locations \ {l} : queue'[k] = queue[k]
  <2>1. queue[l] \in Seq(Calls) /\ queue'[l] = Tail(queue[l])
    BY <1>1, <1>2
  <2> HIDE DEF l
  <2>2. /\ Len(queue[l]) \in Nat /\ Len(queue[l]) > 0 /\ Head(queue[l]) = queue[l][1]
        /\ Len(Tail(queue[l])) = Len(queue[l]) - 1
        /\ \A n \in 1..Len(Tail(queue[l])) : Tail(queue[l])[n] = queue[l][n + 1]
    BY <1>1, <2>1, HeadTailProperties, EmptySeq, LenProperties
  <2>3. Head(queue[l]) \in Calls
    BY <1>1, <2>1, HeadTailProperties
  <2> QED BY <1>1, <1>2, <2>1, <2>2, <2>3
<1>5. /\ At[c] = l /\ Handed(c) /\ c \notin running[l]
      /\ \A n \in 1..Len(queue[l]) : queue[l][n] = c => n = 1
      /\ \A q \in Polls : poll[q].call # c
  BY <1>2, <1>4 DEF OnceInv, QueueOnce
<1>6. /\ \A q \in Polls \ {p} : poll'[q] = poll[q]
      /\ poll'[p].location = l
      /\ (poll'[p].step = "write" /\ poll'[p].call = c) \/ poll'[p] = poll[p]
  <2> HIDE DEF l, c
  <2>1. CASE poll' = poll
    BY <2>1 DEF l
  <2>2. CASE poll' = [poll EXCEPT ![p].step = "write", ![p].call = c]
    <3>1. poll'[p] = [poll[p] EXCEPT !.step = "write", !.call = c]
      BY <1>2, <2>2
    <3>2. poll[p] \in PollTypes
      BY <1>2
    <3> QED BY <1>2, <2>2, <3>1, <3>2 DEF PollTypes, l
  <2> QED BY <1>1, <2>1, <2>2
<1> HIDE DEF l, c
<1>7. QueueOnce'
  <2> SUFFICES ASSUME NEW k \in Locations, NEW n \in 1..Len(queue'[k])
               PROVE  /\ At[queue'[k][n]] = k /\ Handed(queue'[k][n])
                      /\ \A m \in 1..Len(queue'[k]) : queue'[k][m] = queue'[k][n] => m = n
                      /\ \A q \in Polls : poll'[q].call # queue'[k][n]
                      /\ queue'[k][n] \notin running[k]
    BY <1>1, <1>3 DEF QueueOnce
  <2>1. CASE k = l
    <3>1. /\ At[queue[l][n + 1]] = l /\ Handed(queue[l][n + 1])
          /\ \A m \in 1..Len(queue[l]) : queue[l][m] = queue[l][n + 1] => m = n + 1
          /\ \A q \in Polls : poll[q].call # queue[l][n + 1]
          /\ queue[l][n + 1] \notin running[l]
      BY <1>2, <1>4, <2>1 DEF OnceInv, QueueOnce
    <3>2. queue[l][n + 1] # c
      BY <1>4, <1>5, <2>1
    <3>3. queue'[k][n] = queue[l][n + 1]
      BY <1>4, <2>1
    <3>4. ASSUME NEW m \in 1..Len(queue'[k]), queue'[k][m] = queue'[k][n] PROVE m = n
      BY <1>4, <2>1, <3>1, <3>4
    <3> QED BY <1>6, <2>1, <3>1, <3>2, <3>3, <3>4
  <2>2. CASE k # l
    <3>1. queue'[k] = queue[k]
      BY <1>4, <2>2
    <3>2. /\ At[queue[k][n]] = k /\ Handed(queue[k][n])
          /\ \A m \in 1..Len(queue[k]) : queue[k][m] = queue[k][n] => m = n
          /\ \A q \in Polls : poll[q].call # queue[k][n]
          /\ queue[k][n] \notin running[k]
      BY <3>1 DEF OnceInv, QueueOnce
    <3>3. queue[k][n] # c
      BY <1>5, <2>2, <3>2
    <3> QED BY <1>6, <3>1, <3>2, <3>3
  <2> QED BY <2>1, <2>2
<1>8. PollOnce'
  BY <1>1, <1>3, <1>5, <1>6 DEF OnceInv, PollOnce
<1>9. RunningOnce'
  BY <1>1, <1>3 DEF OnceInv, RunningOnce
<1> QED BY <1>7, <1>8, <1>9 DEF OnceInv

LEMMA WriteOnce ==
  ASSUME LinkInv, OnceInv, NEW p \in Polls, Write(p)
  PROVE  OnceInv'
<1> DEFINE l == poll[p].location
           c == poll[p].call
<1>1. /\ poll[p].step = "write"
      /\ running' = running \/ running' = [running EXCEPT ![l] = @ \cup {c}]
      /\ poll' = [poll EXCEPT ![p] = Free]
      /\ UNCHANGED <<queue, pc>>
  BY DEF Write, caller
<1>2. /\ l \in Locations /\ c \in Calls /\ queue \in [Locations -> Seq(Calls)]
      /\ running \in [Locations -> SUBSET Calls] /\ poll \in [Polls -> PollTypes]
  <2>1. l \in Locations /\ c \in Calls
    BY <1>1 DEF LinkInv, PollInv
  <2> QED BY <2>1, Zenon DEF LinkInv, TypeOK, PollTypes
<1>3. \A d : Handed(d)' <=> Handed(d)
  BY <1>1 DEF Handed
<1>4. /\ At[c] = l /\ Handed(c)
      /\ \A q \in Polls : poll[q].call = c => q = p
      /\ \A k \in Locations : \A n \in 1..Len(queue[k]) : queue[k][n] # c
  BY <1>1 DEF OnceInv, PollOnce, QueueOnce
<1>5. /\ \A q \in Polls \ {p} : poll'[q] = poll[q]
      /\ poll'[p].step = "free" /\ poll'[p].call = None
  BY <1>1, <1>2 DEF Free
<1>6. \A k \in Locations : \A d \in running'[k] : d \in running[k] \/ (d = c /\ k = l)
  BY <1>1, <1>2
<1>7. None \notin Calls /\ \A q \in Polls : poll[q].step = "write" =>
        poll[q].call \in Calls /\ poll[q].location \in Locations
  BY LinkAssumption DEF LinkInv, PollInv
<1> HIDE DEF l, c
<1>8. QueueOnce'
  <2> SUFFICES ASSUME NEW k \in Locations, NEW n \in 1..Len(queue[k])
               PROVE  /\ At[queue[k][n]] = k /\ Handed(queue[k][n])
                      /\ \A m \in 1..Len(queue[k]) : queue[k][m] = queue[k][n] => m = n
                      /\ \A q \in Polls : poll'[q].call # queue[k][n]
                      /\ queue[k][n] \notin running'[k]
    BY <1>1, <1>3 DEF QueueOnce
  <2>1. queue[k][n] \in Calls /\ None \notin Calls
    BY <1>2, ElementOfSeq, LinkAssumption
  <2> QED BY <1>4, <1>5, <1>6, <2>1 DEF OnceInv, QueueOnce
<1>9. PollOnce'
  BY <1>3, <1>4, <1>5, <1>6, <1>7 DEF OnceInv, PollOnce
<1>10. RunningOnce'
  BY <1>3, <1>4, <1>6 DEF OnceInv, RunningOnce
<1> QED BY <1>8, <1>9, <1>10 DEF OnceInv

LEMMA NextOnce == LinkInv /\ OnceInv /\ [Next]_vars => OnceInv'
<1> SUFFICES ASSUME LinkInv, OnceInv, [Next]_vars PROVE OnceInv'
  OBVIOUS
<1>1. /\ pc \in [Calls -> PCs] /\ poll \in [Polls -> PollTypes]
      /\ running \in [Locations -> SUBSET Calls]
  BY Zenon DEF LinkInv, TypeOK, PCs, PollTypes
<1>2. CASE UNCHANGED vars
  BY <1>2, OnceStays DEF vars, Handed
<1>3. CASE \E c \in Calls : Enqueue(c)
  BY <1>3, EnqueueOnce
<1>4. CASE \E c \in Calls : Start(c) \/ Deadline(c) \/ Receive(c) \/ Leave(c) \/ QueryEntry(c)
  <2>1. PICK c \in Calls : Start(c) \/ Deadline(c) \/ Receive(c) \/ Leave(c) \/ QueryEntry(c)
    BY <1>4
  <2>2. /\ UNCHANGED <<queue, poll, running>>
        /\ \/ pc[c] = "idle" /\ pc' = [pc EXCEPT ![c] = "queue"]
           \/ \E step \in {"entry", "leave", "done"} : pc' = [pc EXCEPT ![c] = step]
    BY <2>1 DEF Start, Deadline, Receive, Leave, QueryEntry, Return, hub
  <2>3. \A d \in Calls : Handed(d) => Handed(d)'
    BY <1>1, <2>2 DEF Handed
  <2> QED BY <2>2, <2>3, OnceStays
<1>5. CASE \E p \in Polls : Take(p)
  BY <1>5, TakeOnce
<1>6. CASE \E p \in Polls : Write(p)
  BY <1>6, WriteOnce
<1>7. CASE \E p \in Polls : HoldEnds(p) \/ Disconnect(p) \/ \E l \in Locations : PollStarts(l, p)
  <2>1. PICK p \in Polls : HoldEnds(p) \/ Disconnect(p) \/ \E l \in Locations : PollStarts(l, p)
    BY <1>7
  <2>2. UNCHANGED <<queue, pc, running>>
    BY <2>1 DEF HoldEnds, Disconnect, PollStarts, caller
  <2>3. \A q \in Polls :
          \/ /\ poll'[q].step = poll[q].step /\ poll'[q].location = poll[q].location
             /\ poll'[q].call = poll[q].call
          \/ poll'[q].call = None /\ poll'[q].step # "write"
    BY <1>1, <2>1 DEF HoldEnds, Disconnect, PollStarts, Free, PollTypes
  <2> QED BY <2>2, <2>3, OnceStays DEF Handed
<1>8. CASE \E l \in Locations, c \in Calls : Reply(l, c) \/ ReplyLost(l, c) \/ Meddle(l, c)
  <2>1. UNCHANGED <<queue, pc, poll>>
    BY <1>8 DEF Reply, ReplyLost, Meddle, caller, hub
  <2>2. \A k \in Locations : running'[k] \subseteq running[k]
    BY <1>1, <1>8 DEF Reply, ReplyLost, Meddle
  <2> QED BY <2>1, <2>2, OnceStays DEF Handed
<1>9. CASE \E l \in Locations : FallSilent(l) \/ Sweep(l) \/ SensorRestarts(l)
  <2>1. PICK l \in Locations : FallSilent(l) \/ Sweep(l) \/ SensorRestarts(l)
    BY <1>9
  <2>2. UNCHANGED <<queue, pc>> /\ \A k \in Locations : running'[k] \subseteq running[k]
    BY <1>1, <2>1 DEF FallSilent, Sweep, SensorRestarts, caller
  <2>3. \A q \in Polls :
          /\ poll'[q].step = poll[q].step /\ poll'[q].location = poll[q].location
          /\ poll'[q].call = poll[q].call
    BY <1>1, <2>1 DEF FallSilent, Sweep, SensorRestarts, PollTypes
  <2> QED BY <2>2, <2>3, OnceStays DEF Handed
<1>10. CASE Restart
  <2>1. /\ queue' = [l \in Locations |-> <<>>] /\ poll' = [p \in Polls |-> Free]
        /\ running' = running
        /\ \A c \in Calls : Handed(c) => Handed(c)'
    BY <1>1, <1>10 DEF Restart, Handed
  <2> QED BY <1>1, <2>1 DEF OnceInv, QueueOnce, PollOnce, RunningOnce, Free
<1> QED BY <1>2, <1>3, <1>4, <1>5, <1>6, <1>7, <1>8, <1>9, <1>10 DEF Next, CallerStep

\* Two places of a Call are one place.
LEMMA OnePlace ==
  ASSUME LinkInv, OnceInv, NEW c \in Calls, NEW x \in Copies(c), NEW y \in Copies(c)
  PROVE  x = y
<1>1. None # c
  BY LinkAssumption
<1>2. ASSUME NEW z \in Copies(c)
      PROVE  \/ \E n \in 1..Len(queue[At[c]]) :
                  At[c] \in Locations /\ queue[At[c]][n] = c /\ z = <<At[c], n>>
             \/ \E p \in Polls : poll[p].call = c /\ poll[p].step = "write" /\ z = <<p, 0>>
             \/ At[c] \in Locations /\ c \in running[At[c]] /\ z = <<At[c], -1>>
  <2>1. CASE z \in {u \in Locations \X (1..MaxQueued) :
                      u[2] \in DOMAIN queue[u[1]] /\ queue[u[1]][u[2]] = c}
    <3>1. PICK l \in Locations, n \in 1..MaxQueued :
             z = <<l, n>> /\ n \in DOMAIN queue[l] /\ queue[l][n] = c
      BY <2>1
    <3>2. n \in 1..Len(queue[l])
      <4>1. queue[l] \in Seq(Calls)
        BY DEF LinkInv, TypeOK
      <4> QED BY <3>1, <4>1, LenProperties
    <3>3. At[c] = l
      BY <3>1, <3>2 DEF OnceInv, QueueOnce
    <3> QED BY <3>1, <3>2, <3>3
  <2>2. CASE z \in {<<p, 0>> : p \in {q \in Polls : poll[q].call = c}}
    BY <1>1, <2>2 DEF OnceInv, PollOnce
  <2>3. CASE z \in {<<l, -1>> : l \in {k \in Locations : c \in running[k]}}
    BY <2>3 DEF OnceInv, RunningOnce
  <2> QED BY <2>1, <2>2, <2>3 DEF Copies
<1>3. ASSUME At[c] \in Locations, NEW n \in 1..Len(queue[At[c]]), queue[At[c]][n] = c
      PROVE  /\ \A m \in 1..Len(queue[At[c]]) : queue[At[c]][m] = c => m = n
             /\ \A p \in Polls : poll[p].call # c
             /\ c \notin running[At[c]]
  BY <1>3 DEF OnceInv, QueueOnce
<1>4. ASSUME NEW p \in Polls, poll[p].call = c, poll[p].step = "write"
      PROVE  (\A q \in Polls : poll[q].call = c => q = p) /\ c \notin running[At[c]]
  BY <1>4 DEF OnceInv, PollOnce
<1> QED BY <1>2, <1>3, <1>4

\* A Call is never in two places, whatever is lost, given up or restarted, and
\* only the Sensor of its own Location ever works on it (Hub.next, Sensor.answer).
THEOREM OnceOnly == Spec => []WorkedOnOnce
<1>1. LinkInv /\ OnceInv => WorkedOnOnce
  <2> SUFFICES ASSUME LinkInv, OnceInv, NEW c \in Calls
               PROVE  /\ Cardinality(Copies(c)) <= 1
                      /\ \A l \in Locations \ {At[c]} : c \notin running[l]
    BY DEF WorkedOnOnce
  <2>1. Cardinality(Copies(c)) <= 1
    <3>1. CASE Copies(c) = {}
      BY <3>1, FS_EmptySet
    <3>2. CASE Copies(c) # {}
      <4>1. PICK x : x \in Copies(c)
        BY <3>2
      <4>2. Copies(c) = {x}
        BY <4>1, OnePlace
      <4>3. Cardinality(Copies(c)) = 1
        BY <4>2, FS_Singleton, Zenon
      <4> QED BY <4>3
    <3> QED BY <3>1, <3>2
  <2>2. \A l \in Locations \ {At[c]} : c \notin running[l]
    BY DEF OnceInv, RunningOnce
  <2> QED BY <2>1, <2>2
<1> QED BY <1>1, InitInv, NextInv, OnceStarts, NextOnce, PTL DEF Spec

-----------------------------------------------------------------------------
(* The link implements a query.                                            *)

\* A Call that was not handed over is nowhere; one on its way is with no Sensor.
LEMMA Whereabouts ==
  ASSUME LinkInv, OnceInv, NEW c \in Calls
  PROVE  /\ ~Handed(c) => ~Working(c) /\ ~InTransit(c)
         /\ InTransit(c) => ~Working(c)
<1>1. c # None
  BY LinkAssumption
<1>2. \A l \in Locations : DOMAIN queue[l] = 1..Len(queue[l])
  <2>1. \A l \in Locations : queue[l] \in Seq(Calls)
    BY Zenon DEF LinkInv, TypeOK
  <2> QED BY <2>1, LenProperties
<1>3. Working(c) => Handed(c) /\ c \in running[At[c]]
  BY DEF Working, OnceInv, RunningOnce
<1>4. ASSUME NEW l \in Locations, NEW n \in DOMAIN queue[l], queue[l][n] = c
      PROVE  Handed(c) /\ c \notin running[At[c]]
  BY <1>2, <1>4 DEF OnceInv, QueueOnce
<1>5. ASSUME NEW p \in Polls, poll[p].call = c
      PROVE  Handed(c) /\ c \notin running[At[c]]
  BY <1>1, <1>5 DEF OnceInv, PollOnce
<1> QED BY <1>3, <1>4, <1>5 DEF InTransit

\* What the mapping makes of a Call.
LEMMA WorkIs ==
  ASSUME NEW c \in Calls
  PROVE  /\ Working(c) => Work[c] = "working"
         /\ ~Working(c) /\ InTransit(c) => Work[c] = "underway"
         /\ ~Working(c) /\ ~InTransit(c) /\ ~Handed(c) => Work[c] = "unasked"
         /\ ~Working(c) /\ ~InTransit(c) /\ Handed(c) => Work[c] = "over"
BY DEF Work, Handed

LEMMA WorkIsThen ==
  ASSUME NEW c \in Calls
  PROVE  /\ Working(c)' => Work'[c] = "working"
         /\ ~Working(c)' /\ InTransit(c)' => Work'[c] = "underway"
         /\ ~Working(c)' /\ ~InTransit(c)' /\ ~Handed(c)' => Work'[c] = "unasked"
         /\ ~Working(c)' /\ ~InTransit(c)' /\ Handed(c)' => Work'[c] = "over"
BY DEF Work, Handed

\* A step that adds no place to a Call, and takes back none handed over, leaves
\* the Call where it is or loses it.
LEMMA StaysOrLost ==
  ASSUME LinkInv, OnceInv, NEW c \in Calls,
         Working(c)' => Working(c), InTransit(c)' => InTransit(c), Handed(c) => Handed(c)'
  PROVE  Work'[c] \in {Work[c], "over"}
BY Whereabouts, WorkIs, WorkIsThen

Answered == {c \in Calls : reply[c] # None}

\* A step that at most loses Calls, and tells no caller anything.
LEMMA LosesSome ==
  ASSUME Answered' = Answered, Outcome' = Outcome,
         \A c \in Calls : Work'[c] \in {Work[c], "over"}
  PROVE  Query!QueryNext
<1> DEFINE some == {c \in Calls : Work'[c] # Work[c]}
<1>1. Work' = [c \in Calls |-> Work'[c]]
  BY DEF Work
<1>2. Work' = [c \in Calls |-> IF c \in some THEN "over" ELSE Work[c]]
  BY <1>1
<1>3. Query!Lose(some)
  BY <1>2 DEF Query!Lose, Answered
<1>4. some \in SUBSET Calls
  OBVIOUS
<1> QED BY <1>3, <1>4 DEF Query!QueryNext

\* A Call that moves alone.
LEMMA MovesAlone ==
  ASSUME NEW c \in Calls, NEW from, NEW to, Work[c] = from, Work'[c] = to,
         \A d \in Calls \ {c} : Work'[d] = Work[d]
  PROVE  Query!Moves(c, from, to)
<1>1. Work' = [d \in Calls |-> Work'[d]] /\ Work = [d \in Calls |-> Work[d]]
  BY DEF Work
<1>2. Work' = [Work EXCEPT ![c] = to]
  BY <1>1
<1> QED BY <1>2 DEF Query!Moves

\* Where the other Calls are, when queues, polls and Sensors keep theirs.
LEMMA OthersStay ==
  ASSUME NEW c \in Calls, NEW d \in Calls \ {c},
         Working(d)' <=> Working(d), InTransit(d)' <=> InTransit(d), Handed(d)' <=> Handed(d)
  PROVE  Work'[d] = Work[d]
BY WorkIs, WorkIsThen

\* Hub.Call hands its Call to the queue.
LEMMA EnqueueSends ==
  ASSUME LinkInv, OnceInv, NEW c \in Calls, Enqueue(c)
  PROVE  Query!QueryNext
<1> DEFINE l == At[c]
<1>1. /\ pc[c] = "queue" /\ queue' = [queue EXCEPT ![l] = Append(@, c)]
      /\ pc' = [pc EXCEPT ![c] = "wait"] /\ UNCHANGED <<reply, poll, running, result>>
  BY DEF Enqueue
<1>2. l \in Locations /\ queue \in [Locations -> Seq(Calls)] /\ pc \in [Calls -> PCs]
  <2>1. l \in Locations
    BY <1>1 DEF LinkInv, CallerInv
  <2> QED BY <2>1, Zenon DEF LinkInv, TypeOK, PCs
<1>3. /\ \A k \in Locations \ {l} : queue'[k] = queue[k]
      /\ DOMAIN queue[l] = 1..Len(queue[l]) /\ Len(queue[l]) \in Nat
      /\ DOMAIN queue'[l] = 1..(Len(queue[l]) + 1)
      /\ queue'[l][Len(queue[l]) + 1] = c
      /\ \A n \in DOMAIN queue[l] : queue'[l][n] = queue[l][n]
  <2>1. queue'[l] = Append(queue[l], c) /\ queue[l] \in Seq(Calls) /\ \A k \in Locations \ {l} : queue'[k] = queue[k]
    BY <1>1, <1>2
  <2> HIDE DEF l
  <2>2. /\ queue'[l] \in Seq(Calls) /\ Len(queue'[l]) = Len(queue[l]) + 1
        /\ queue'[l][Len(queue[l]) + 1] = c
        /\ \A m \in 1..Len(queue[l]) : queue'[l][m] = queue[l][m]
    BY <2>1, AppendProperties
  <2>3. DOMAIN queue[l] = 1..Len(queue[l]) /\ Len(queue[l]) \in Nat /\ DOMAIN queue'[l] = 1..Len(queue'[l])
    BY <2>1, <2>2, LenProperties
  <2> QED BY <2>1, <2>2, <2>3
<1> HIDE DEF l
<1>4. ~Handed(c) /\ Handed(c)' /\ ~Working(c)' /\ Work[c] = "unasked"
  <2>1. ~Handed(c) /\ Handed(c)'
    BY <1>1, <1>2 DEF Handed
  <2> QED BY <1>1, <2>1, Whereabouts, WorkIs DEF Working
<1>5. InTransit(c)'
  <2>1. Len(queue[l]) + 1 \in DOMAIN queue'[l]
    BY <1>3
  <2> QED BY <1>2, <1>3, <2>1 DEF InTransit
<1>6. ASSUME NEW d \in Calls \ {c} PROVE Work'[d] = Work[d]
  <2>1. (Working(d)' <=> Working(d)) /\ (Handed(d)' <=> Handed(d))
    BY <1>1, <1>2 DEF Working, Handed
  <2>2. InTransit(d)' => InTransit(d)
    BY <1>1, <1>2, <1>3 DEF InTransit
  <2>3. InTransit(d) => InTransit(d)'
    <3>1. \A n \in DOMAIN queue[l] : n \in DOMAIN queue'[l]
      BY <1>3
    <3>2. ASSUME NEW k \in Locations, NEW n \in DOMAIN queue[k], queue[k][n] = d
          PROVE  n \in DOMAIN queue'[k] /\ queue'[k][n] = d
      BY <1>3, <3>1, <3>2
    <3> QED BY <1>1, <3>2 DEF InTransit
  <2> QED BY <2>1, <2>2, <2>3, OthersStay
<1>7. Query!Moves(c, "unasked", "underway")
  BY <1>4, <1>5, <1>6, WorkIsThen, MovesAlone
<1>8. Outcome' = Outcome
  <2>1. \A d \in Calls : pc'[d] = "done" <=> pc[d] = "done"
    BY <1>1, <1>2
  <2> QED BY <1>1, <2>1 DEF Outcome
<1> QED BY <1>1, <1>7, <1>8 DEF Query!QueryNext, Query!Send

\* A poll is answered: the Sensor has the Call, or nobody has.
LEMMA WriteBegins ==
  ASSUME LinkInv, OnceInv, NEW p \in Polls, Write(p)
  PROVE  Query!QueryNext
<1>0. PICK l, c : l = poll[p].location /\ c = poll[p].call
  OBVIOUS
<1>1. /\ poll[p].step = "write"
      /\ running' = running \/ running' = [running EXCEPT ![l] = @ \cup {c}]
      /\ poll' = [poll EXCEPT ![p] = Free]
      /\ UNCHANGED <<queue, pc, reply, result>>
  BY <1>0 DEF Write, caller
<1>2. /\ l \in Locations /\ c \in Calls /\ c # None
      /\ running \in [Locations -> SUBSET Calls] /\ poll \in [Polls -> PollTypes]
  <2>1. l \in Locations /\ c \in Calls
    BY <1>0, <1>1 DEF LinkInv, PollInv
  <2> QED BY <2>1, LinkAssumption, Zenon DEF LinkInv, TypeOK, PollTypes
<1>3. poll'[p].call = None /\ \A q \in Polls \ {p} : poll'[q] = poll[q]
  BY <1>1, <1>2 DEF Free
<1>4. Answered' = Answered /\ Outcome' = Outcome
  BY <1>1 DEF Answered, Outcome
<1>5. \A d \in Calls : (Handed(d)' <=> Handed(d)) /\ (InTransit(d)' => InTransit(d))
  <2>1. \A d \in Calls : d # None
    BY LinkAssumption
  <2> QED BY <1>1, <1>3, <2>1 DEF Handed, InTransit
<1>6. CASE running' = running
  <2>1. \A d \in Calls : Work'[d] \in {Work[d], "over"}
    BY <1>5, <1>6, StaysOrLost DEF Working
  <2> QED BY <1>4, <2>1, LosesSome
<1>7. CASE running' = [running EXCEPT ![l] = @ \cup {c}]
  <2>1. InTransit(c) /\ ~Working(c) /\ Work[c] = "underway"
    <3>1. InTransit(c)
      BY <1>0 DEF InTransit
    <3> QED BY <1>2, <3>1, Whereabouts, WorkIs
  <2>2. Working(c)'
    BY <1>2, <1>7 DEF Working
  <2>3. Work'[c] = "working"
    BY <1>2, <2>2, WorkIsThen
  <2>4. ASSUME NEW d \in Calls \ {c} PROVE Work'[d] = Work[d]
    <3>1. Working(d)' <=> Working(d)
      BY <1>2, <1>7 DEF Working
    <3>2. InTransit(d) => InTransit(d)'
      BY <1>0, <1>1, <1>3 DEF InTransit
    <3> QED BY <1>5, <3>1, <3>2, <1>2, OthersStay
  <2>5. Query!Moves(c, "underway", "working")
    BY <1>2, <2>1, <2>3, <2>4, MovesAlone
  <2>6. Query!Begin(c)
    BY <1>4, <2>5 DEF Query!Begin, Answered
  <2> QED BY <1>2, <2>6 DEF Query!QueryNext
<1> QED BY <1>1, <1>6, <1>7

\* A poll takes a Call out of the queue: it is with the poll, or dropped.
LEMMA TakeLoses ==
  ASSUME LinkInv, OnceInv, NEW p \in Polls, Take(p)
  PROVE  Query!QueryNext
<1>0. PICK l, c : l = poll[p].location /\ c = Head(queue[l])
  OBVIOUS
<1>1. /\ poll[p].step = "held" /\ queue[l] # <<>>
      /\ queue' = [queue EXCEPT ![l] = Tail(@)]
      /\ \/ poll' = [poll EXCEPT ![p].step = "write", ![p].call = c]
         \/ poll' = poll
      /\ UNCHANGED <<pc, running, reply, result>>
  BY <1>0 DEF Take, caller
<1>2. /\ l \in Locations /\ queue \in [Locations -> Seq(Calls)] /\ poll \in [Polls -> PollTypes]
  <2>1. l \in Locations
    BY <1>0, <1>1 DEF LinkInv, PollInv
  <2> QED BY <2>1, Zenon DEF LinkInv, TypeOK, PollTypes
<1>3. /\ c = queue[l][1] /\ 1 \in DOMAIN queue[l]
      /\ \A n \in DOMAIN queue'[l] : n + 1 \in DOMAIN queue[l] /\ queue'[l][n] = queue[l][n + 1]
      /\ \A k \in Locations \ {l} : queue'[k] = queue[k]
  <2>1. queue[l] \in Seq(Calls) /\ queue'[l] = Tail(queue[l])
    BY <1>1, <1>2
  <2>2. /\ Len(queue[l]) \in Nat /\ Len(queue[l]) > 0 /\ Head(queue[l]) = queue[l][1]
        /\ Len(Tail(queue[l])) = Len(queue[l]) - 1 /\ Tail(queue[l]) \in Seq(Calls)
        /\ \A n \in 1..Len(Tail(queue[l])) : Tail(queue[l])[n] = queue[l][n + 1]
    BY <1>1, <2>1, HeadTailProperties, EmptySeq, LenProperties
  <2>3. DOMAIN queue[l] = 1..Len(queue[l]) /\ DOMAIN queue'[l] = 1..(Len(queue[l]) - 1)
    BY <2>1, <2>2, LenProperties
  <2> QED BY <1>0, <1>1, <1>2, <2>1, <2>2, <2>3
<1>4. \A q \in Polls : poll'[q].call \in {poll[q].call, c}
  BY <1>1, <1>2 DEF PollTypes
<1>5. ASSUME NEW d \in Calls, InTransit(d)' PROVE InTransit(d)
  <2>1. ASSUME NEW k \in Locations, NEW n \in DOMAIN queue'[k], queue'[k][n] = d
        PROVE  \E m \in DOMAIN queue[k] : queue[k][m] = d
    <3>1. CASE k = l
      <4>1. n + 1 \in DOMAIN queue[k] /\ queue[k][n + 1] = d
        BY <1>3, <2>1, <3>1
      <4> QED BY <4>1
    <3>2. CASE k # l
      BY <1>3, <2>1, <3>2
    <3> QED BY <3>1, <3>2
  <2>2. c = d => InTransit(d)
    BY <1>2, <1>3 DEF InTransit
  <2>3. ASSUME NEW q \in Polls, poll'[q].call = d PROVE InTransit(d)
    BY <1>4, <2>2, <2>3 DEF InTransit
  <2> QED BY <1>5, <2>1, <2>3 DEF InTransit
<1>6. \A d \in Calls : Work'[d] \in {Work[d], "over"}
  BY <1>1, <1>5, StaysOrLost DEF Working, Handed
<1> QED BY <1>1, <1>6, LosesSome DEF Answered, Outcome

\* An answer comes of the work, while its caller waits; any other is dropped.
LEMMA ReplyAnswers ==
  ASSUME LinkInv, OnceInv, NEW l \in Locations, NEW c \in Calls, Reply(l, c) \/ ReplyLost(l, c)
  PROVE  Query!QueryNext
<1>1. /\ c \in running[l] /\ running' = [running EXCEPT ![l] = @ \ {c}]
      /\ UNCHANGED <<queue, poll, pc, result>>
      /\ reply' = reply \/ Deliver(l, c)
  BY DEF Reply, ReplyLost, caller, hub
<1>2. running \in [Locations -> SUBSET Calls] /\ reply \in [Calls -> Locations \cup {None}]
  BY Zenon DEF LinkInv, TypeOK
<1>3. \A d \in Calls : /\ Handed(d)' <=> Handed(d)
                       /\ InTransit(d)' <=> InTransit(d)
                       /\ Working(d)' => Working(d)
  BY <1>1, <1>2 DEF Handed, InTransit, Working
<1>4. Outcome' = Outcome
  BY <1>1 DEF Outcome
<1>5. CASE reply' = reply
  <2>1. \A d \in Calls : Work'[d] \in {Work[d], "over"}
    BY <1>3, StaysOrLost
  <2> QED BY <1>4, <1>5, <2>1, LosesSome DEF Answered
<1>6. CASE c \in pending[l] /\ reply' = [reply EXCEPT ![c] = l]
  <2>1. Working(c) /\ Work[c] = "working"
    BY <1>1, WorkIs DEF Working
  <2>2. ~Working(c)' /\ ~InTransit(c)' /\ Handed(c)'
    <3>1. At[c] = l /\ Handed(c) /\ \A k \in Locations \ {l} : c \notin running[k]
      BY <1>1 DEF OnceInv, RunningOnce
    <3>2. ~Working(c)'
      BY <1>1, <1>2, <3>1 DEF Working
    <3> QED BY <1>3, <2>1, <3>1, <3>2, Whereabouts
  <2>3. Work'[c] = "over"
    BY <2>2, WorkIsThen
  <2>4. ASSUME NEW d \in Calls \ {c} PROVE Work'[d] = Work[d]
    <3>1. Working(d) => Working(d)'
      BY <1>1, <1>2 DEF Working
    <3> QED BY <1>3, <3>1, OthersStay
  <2>5. Query!Moves(c, "working", "over")
    BY <2>1, <2>3, <2>4, MovesAlone
  <2>6. Outcome[c] = "none"
    BY <1>6 DEF LinkInv, PendingIsWaiting, Outcome
  <2>7. Answered' = Answered \cup {c}
    BY <1>2, <1>6, LinkAssumption DEF Answered
  <2>8. Query!Answer(c)
    BY <1>4, <2>5, <2>6, <2>7 DEF Query!Answer, Answered
  <2> QED BY <2>8 DEF Query!QueryNext
<1> QED BY <1>1, <1>5, <1>6 DEF Deliver

\* The entry settles the query's outcome.
LEMMA EntrySettles ==
  ASSUME LinkInv, OnceInv, NEW c \in Calls, QueryEntry(c)
  PROVE  Query!QueryNext
<1>1. PICK o : /\ pc[c] = "entry" /\ o \in {result[c], "unaudited"}
               /\ pc' = [pc EXCEPT ![c] = "done"] /\ result' = [result EXCEPT ![c] = o]
               /\ UNCHANGED <<queue, poll, running, reply>>
  BY DEF QueryEntry, Return, hub
<1>2. pc \in [Calls -> PCs] /\ result \in [Calls -> Outcomes \cup {"unaudited", "lost"}]
  BY Zenon DEF LinkInv, TypeOK, PCs
<1>3. Handed(c) /\ Handed(c)' /\ \A d \in Calls : (Handed(d)' <=> Handed(d))
  BY <1>1, <1>2 DEF Handed
<1>4. Work[c] # "unasked"
  BY <1>3, WorkIs
<1>5. Work' = Work
  <2>1. \A d \in Calls : Work'[d] = Work[d]
    BY <1>1, <1>3, WorkIs, WorkIsThen DEF Working, InTransit
  <2>2. Work' = [d \in Calls |-> Work'[d]] /\ Work = [d \in Calls |-> Work[d]]
    BY DEF Work
  <2> QED BY <2>1, <2>2
<1>6. PICK out : out = IF o = "ok" THEN "ok" ELSE "error"
  OBVIOUS
<1>7. Outcome[c] = "none" /\ Outcome' = [Outcome EXCEPT ![c] = out]
  BY <1>1, <1>2, <1>6 DEF Outcome
<1>8. out = "ok" => c \in Answered
  <2>1. out = "ok" => result[c] = "ok"
    BY <1>1, <1>6
  <2>2. result[c] = "ok" => reply[c] = At[c] /\ At[c] # None
    <3>1. result[c] = "ok" => reply[c] = At[c]
      BY <1>1 DEF LinkInv, AnsweredByItsOwn
    <3>2. result[c] = "ok" => At[c] \in Locations
      BY <1>1 DEF LinkInv, CallerInv
    <3> QED BY <3>1, <3>2, LinkAssumption
  <2> QED BY <2>1, <2>2 DEF Answered
<1>9. Query!Settle(c)
  BY <1>1, <1>4, <1>5, <1>6, <1>7, <1>8 DEF Query!Settle, Answered
<1> QED BY <1>9 DEF Query!QueryNext

\* A restart of the Control plane: nothing is left of it but what Sensors do.
LEMMA RestartRestarts ==
  ASSUME LinkInv, OnceInv, Restart
  PROVE  Query!QueryNext
<1>0. PICK asked : asked = {c \in Calls : pc[c] # "idle"}
  OBVIOUS
<1>1. /\ queue' = [l \in Locations |-> <<>>] /\ poll' = [p \in Polls |-> Free]
      /\ reply' = [c \in Calls |-> None]
      /\ pc' = [c \in Calls |-> IF pc[c] = "idle" THEN "idle" ELSE "done"]
      /\ result' = [c \in Calls |-> IF pc[c] \in {"idle", "done"} THEN result[c] ELSE "lost"]
      /\ UNCHANGED running
  BY DEF Restart
<1>2. \A c \in Calls : (Working(c)' <=> Working(c)) /\ ~InTransit(c)' /\ (Handed(c)' <=> c \in asked)
  <2>1. \A c \in Calls : Working(c)' <=> Working(c)
    BY <1>1 DEF Working
  <2>2. ASSUME NEW c \in Calls PROVE ~InTransit(c)'
    BY <1>1, LinkAssumption DEF InTransit, Free
  <2>3. \A c \in Calls : Handed(c)' <=> c \in asked
    BY <1>0, <1>1 DEF Handed
  <2> QED BY <2>1, <2>2, <2>3
<1>3. \A c \in Calls : Work[c] # "unasked" => c \in asked
  BY <1>0, Whereabouts, WorkIs DEF Handed
<1>4. ASSUME NEW c \in Calls
      PROVE  Work'[c] = IF c \in asked /\ Work[c] # "working" THEN "over" ELSE Work[c]
  <2>1. CASE Working(c)
    BY <1>2, <2>1, WorkIs, WorkIsThen
  <2>2. CASE ~Working(c) /\ c \in asked
    <3>1. Work[c] # "working" /\ Work'[c] = "over"
      BY <1>2, <2>2, WorkIs, WorkIsThen
    <3> QED BY <2>2, <3>1
  <2>3. CASE ~Working(c) /\ c \notin asked
    <3>1. Work[c] = "unasked" /\ Work'[c] = "unasked"
      BY <1>2, <1>3, <2>3, WorkIs, WorkIsThen, Whereabouts, <1>0 DEF Handed
    <3> QED BY <2>3, <3>1
  <2> QED BY <2>1, <2>2, <2>3
<1>5. Work' = [c \in Calls |-> IF c \in asked /\ Work[c] # "working" THEN "over" ELSE Work[c]]
  <2>1. Work' = [c \in Calls |-> Work'[c]]
    BY DEF Work
  <2> QED BY <1>4, <2>1
<1>6. Answered' = {}
  BY <1>1 DEF Answered
<1>7. ASSUME NEW c \in Calls
      PROVE  Outcome'[c] = IF c \in asked /\ Outcome[c] = "none" THEN "error" ELSE Outcome[c]
  BY <1>0, <1>1 DEF Outcome
<1>8. Outcome' = [c \in Calls |-> IF c \in asked /\ Outcome[c] = "none" THEN "error" ELSE Outcome[c]]
  <2>1. Outcome' = [c \in Calls |-> Outcome'[c]]
    BY DEF Outcome
  <2> QED BY <1>7, <2>1
<1>9. Query!Restart(asked)
  BY <1>3, <1>5, <1>6, <1>8 DEF Query!Restart, Answered
<1>10. asked \in SUBSET Calls
  BY <1>0
<1> QED BY <1>9, <1>10 DEF Query!QueryNext

\* Every step of the link is a step of the query, or none.
LEMMA QueryStep ==
  LinkInv /\ OnceInv /\ [Next]_vars => [Query!QueryNext]_<<Work, Answered, Outcome>>
<1> SUFFICES ASSUME LinkInv, OnceInv, [Next]_vars
             PROVE  Query!QueryNext \/ UNCHANGED <<Work, Answered, Outcome>>
  OBVIOUS
<1>1. /\ pc \in [Calls -> PCs] /\ poll \in [Polls -> PollTypes]
      /\ running \in [Locations -> SUBSET Calls]
  BY Zenon DEF LinkInv, TypeOK, PCs, PollTypes
<1>2. CASE UNCHANGED vars
  BY <1>2 DEF vars, Work, Working, InTransit, Answered, Outcome
<1>3. CASE \E c \in Calls : Enqueue(c)
  BY <1>3, EnqueueSends
<1>4. CASE \E c \in Calls : Start(c) \/ Deadline(c) \/ Receive(c) \/ Leave(c)
  <2>1. PICK c \in Calls : Start(c) \/ Deadline(c) \/ Receive(c) \/ Leave(c)
    BY <1>4
  <2>2. /\ UNCHANGED <<queue, poll, running, reply>> /\ pc[c] # "done"
        /\ \/ pc[c] = "idle" /\ pc' = [pc EXCEPT ![c] = "queue"]
           \/ \E step \in {"entry", "leave"} : pc' = [pc EXCEPT ![c] = step]
        /\ \A d \in Calls \ {c} : result'[d] = result[d]
    BY <2>1 DEF Start, Deadline, Receive, Leave, Return, hub, LinkInv, TypeOK
  <2>3. \A d \in Calls : (Handed(d) => Handed(d)') /\ (pc'[d] = "done" <=> pc[d] = "done")
    BY <1>1, <2>2 DEF Handed
  <2>4. Outcome' = Outcome
    BY <1>1, <2>2, <2>3 DEF Outcome
  <2>5. \A d \in Calls : Work'[d] \in {Work[d], "over"}
    BY <2>2, <2>3, StaysOrLost DEF Working, InTransit
  <2> QED BY <2>2, <2>4, <2>5, LosesSome DEF Answered
<1>5. CASE \E c \in Calls : QueryEntry(c)
  BY <1>5, EntrySettles
<1>6. CASE \E p \in Polls : Take(p)
  BY <1>6, TakeLoses
<1>7. CASE \E p \in Polls : Write(p)
  BY <1>7, WriteBegins
<1>8. CASE \E p \in Polls : HoldEnds(p) \/ Disconnect(p) \/ \E l \in Locations : PollStarts(l, p)
  <2>1. PICK p \in Polls : HoldEnds(p) \/ Disconnect(p) \/ \E l \in Locations : PollStarts(l, p)
    BY <1>8
  <2>2. UNCHANGED <<queue, pc, result, running, reply>>
    BY <2>1 DEF HoldEnds, Disconnect, PollStarts, caller
  <2>3. \A q \in Polls : poll'[q].call \in {poll[q].call, None}
    BY <1>1, <2>1 DEF HoldEnds, Disconnect, PollStarts, Free, PollTypes
  <2>4. \A d \in Calls : InTransit(d)' => InTransit(d)
    BY <2>2, <2>3, LinkAssumption DEF InTransit
  <2>5. \A d \in Calls : Work'[d] \in {Work[d], "over"}
    BY <2>2, <2>4, StaysOrLost DEF Working, Handed
  <2> QED BY <2>2, <2>5, LosesSome DEF Answered, Outcome
<1>9. CASE \E l \in Locations, c \in Calls : Reply(l, c) \/ ReplyLost(l, c)
  BY <1>9, ReplyAnswers
<1>10. CASE \E l \in Locations, c \in Calls : Meddle(l, c)
  <2>1. PICK l \in Locations, c \in Calls : Meddle(l, c)
    BY <1>10
  <2>2. c \notin pending[l]
    BY <2>1 DEF Meddle, LinkInv, PendingIsWaiting
  <2>3. UNCHANGED <<queue, poll, pc, result, running, reply>>
    BY <2>1, <2>2 DEF Meddle, Deliver, caller
  <2> QED BY <2>3 DEF Work, Working, InTransit, Answered, Outcome
<1>11. CASE \E l \in Locations : FallSilent(l) \/ Sweep(l) \/ SensorRestarts(l)
  <2>1. PICK l \in Locations : FallSilent(l) \/ Sweep(l) \/ SensorRestarts(l)
    BY <1>11
  <2>2. UNCHANGED <<queue, pc, result, reply>> /\ \A k \in Locations : running'[k] \subseteq running[k]
    BY <1>1, <2>1 DEF FallSilent, Sweep, SensorRestarts, caller
  <2>3. \A q \in Polls : poll'[q].call = poll[q].call
    BY <1>1, <2>1 DEF FallSilent, Sweep, SensorRestarts, PollTypes
  <2>4. \A d \in Calls : (InTransit(d)' => InTransit(d)) /\ (Working(d)' => Working(d))
    BY <2>2, <2>3 DEF InTransit, Working
  <2>5. \A d \in Calls : Work'[d] \in {Work[d], "over"}
    BY <2>2, <2>4, StaysOrLost DEF Handed
  <2> QED BY <2>2, <2>5, LosesSome DEF Answered, Outcome
<1>12. CASE Restart
  BY <1>12, RestartRestarts
<1> QED BY <1>2, <1>3, <1>4, <1>5, <1>6, <1>7, <1>8, <1>9, <1>10, <1>11, <1>12 DEF Next, CallerStep

\* At first nothing is asked.
LEMMA QueryStarts == Init => Query!QueryInit
<1> SUFFICES ASSUME Init PROVE Query!QueryInit
  OBVIOUS
<1>1. \A c \in Calls : ~Working(c) /\ ~InTransit(c) /\ ~Handed(c)
  <2>1. \A c \in Calls : c # None
    BY LinkAssumption
  <2> QED BY <2>1 DEF Init, Working, InTransit, Handed, Free
<1>2. Work = [c \in Calls |-> "unasked"]
  <2>1. Work = [c \in Calls |-> Work[c]]
    BY DEF Work
  <2> QED BY <1>1, <2>1, WorkIs
<1>3. Answered = {} /\ Outcome = [c \in Calls |-> "none"]
  BY DEF Init, Answered, Outcome
<1> QED BY <1>2, <1>3 DEF Query!QueryInit, Answered

\* Queues, polls that outlive their clients, deadlines, lost and forged answers
\* and restarts of both ends come down to a query: a Call is worked on at most
\* once, ever, and its query is answered only with what came of that work.
THEOREM QueryImplemented == Spec => ImplementsQuery
<1>1. LinkInv /\ OnceInv /\ [Next]_vars => [Query!QueryNext]_Query!queryVars
  BY QueryStep DEF Query!queryVars, Answered
<1> QED BY <1>1, InitInv, NextInv, OnceStarts, NextOnce, QueryStarts, PTL DEF Spec, ImplementsQuery, Query!QuerySpec
=============================================================================
