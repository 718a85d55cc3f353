---------------------------- MODULE EvidenceQuery ----------------------------
(***************************************************************************)
(* What the link promises of an Evidence query, with no queue, poll,       *)
(* channel, deadline or Sensor that restarts: its Call is handed over and  *)
(* worked on at most once, ever; it has an answer only from that work, and *)
(* only while the query goes on; and the query's outcome is settled once,  *)
(* "ok" only with that answer.                                             *)
(***************************************************************************)
CONSTANT Calls

VARIABLES
  work,     \* per Call: "unasked", "underway", "working" or "over"
  answered, \* Calls an answer has come to
  outcome   \* per Call, of its query: "none", "ok" or "error"

queryVars == <<work, answered, outcome>>

QueryInit ==
  /\ work = [c \in Calls |-> "unasked"]
  /\ answered = {}
  /\ outcome = [c \in Calls |-> "none"]

Moves(c, from, to) == work[c] = from /\ work' = [work EXCEPT ![c] = to]

Send(c) == Moves(c, "unasked", "underway") /\ UNCHANGED <<answered, outcome>>

Begin(c) == Moves(c, "underway", "working") /\ UNCHANGED <<answered, outcome>>

Answer(c) ==
  /\ Moves(c, "working", "over")
  /\ outcome[c] = "none"
  /\ answered' = answered \cup {c}
  /\ UNCHANGED outcome

\* Some Calls, wherever they are, will not be worked on, or not any further.
Lose(lost) ==
  /\ work' = [c \in Calls |-> IF c \in lost THEN "over" ELSE work[c]]
  /\ UNCHANGED <<answered, outcome>>

Settle(c) ==
  /\ work[c] # "unasked" /\ outcome[c] = "none"
  /\ \E o \in {"ok", "error"} :
       /\ o = "ok" => c \in answered
       /\ outcome' = [outcome EXCEPT ![c] = o]
  /\ UNCHANGED <<work, answered>>

\* The Control plane starts anew: the queries that went on have failed, what was
\* underway is gone, and only Sensors go on.
Restart(asked) ==
  /\ \A c \in Calls : work[c] # "unasked" => c \in asked
  /\ work' = [c \in Calls |-> IF c \in asked /\ work[c] # "working" THEN "over" ELSE work[c]]
  /\ answered' = {}
  /\ outcome' = [c \in Calls |-> IF c \in asked /\ outcome[c] = "none" THEN "error" ELSE outcome[c]]

QueryNext ==
  \/ \E c \in Calls : Send(c) \/ Begin(c) \/ Answer(c) \/ Settle(c)
  \/ \E some \in SUBSET Calls : Lose(some) \/ Restart(some)

QuerySpec == QueryInit /\ [][QueryNext]_queryVars
=============================================================================
