------------------------------- MODULE Triage -------------------------------
(***************************************************************************)
(* internal/triage: the deterministic decision of what one Signal does to  *)
(* the open Incidents.  Pure: no state, no time.  A member's first-seen    *)
(* and last-seen times, its name, severity and link are abstracted away;   *)
(* an episode is what identifies a member, its key and startsAt.           *)
(***************************************************************************)
EXTENDS Integers

CONSTANTS Keys,      \* Signal keys (signal.Signal.Key)
          Starts,    \* startsAt instants of a Signal
          Targets,   \* workloads a Signal can name (signal.Target)
          NoTarget,  \* a nil *signal.Target
          NoKey      \* the empty key of an Incident that has a Target

ASSUME TriageAssumption == /\ NoTarget \notin Targets
                           /\ NoKey \notin Keys

Signals == [status: {"firing", "resolved"}, key: Keys, startsAt: Starts,
            target: Targets \cup {NoTarget}]

Episodes == [key: Keys, startsAt: Starts]

\* An Incident with its members.  id 0: not stored yet; ticket 0: no ticket yet.
Incidents == [id: Nat, target: Targets \cup {NoTarget}, key: Keys \cup {NoKey},
              ticket: Nat, members: SUBSET Episodes]

Decisions == [kind: {"open", "join", "repeat", "drop"}, incident: Incidents]

Episode(s) == [key |-> s.key, startsAt |-> s.startsAt]

SameIncident(inc, s) ==
  IF s.target = NoTarget THEN inc.target = NoTarget /\ inc.key = s.key
                         ELSE inc.target = s.target

NoIncident == [id |-> 0, target |-> NoTarget, key |-> NoKey, ticket |-> 0, members |-> {}]

NewIncident(s) ==
  [id |-> 0, target |-> s.target, key |-> IF s.target = NoTarget THEN s.key ELSE NoKey,
   ticket |-> 0, members |-> {Episode(s)}]

\* slices.IndexFunc over Incidents listed in the order of their ids.
FirstMatch(open, s) ==
  CHOOSE inc \in open :
    /\ SameIncident(inc, s)
    /\ \A other \in open : SameIncident(other, s) => inc.id <= other.id

Matched(open, s) == \E inc \in open : SameIncident(inc, s)

\* The kind of a decision.  A resolved Signal, of a known key or not, is dropped.
Kind(open, s) ==
  CASE s.status = "resolved"                       -> "drop"
    [] s.status = "firing" /\ ~Matched(open, s)    -> "open"
    [] s.status = "firing" /\ Matched(open, s)     ->
         IF Episode(s) \in FirstMatch(open, s).members THEN "repeat" ELSE "join"

\* The Incident after a decision of that kind.
After(open, s, kind) ==
  CASE kind = "drop" -> NoIncident
    [] kind = "open" -> NewIncident(s)
    [] OTHER         -> LET inc == FirstMatch(open, s)
                        IN [inc EXCEPT !.members = @ \cup {Episode(s)}]

Triage(open, s) ==
  LET kind == Kind(open, s)
  IN [kind |-> kind, incident |-> After(open, s, kind)]
=============================================================================
