------------------------- MODULE ControlPlaneProofs -------------------------
(***************************************************************************)
(* Theorems about Triage and the Signal path, for any number of handlers,  *)
(* any set of request bodies and any number of failures, hang-ups and      *)
(* crashes: what Triage returns; then IndInv, by which who is past Lock is *)
(* alone there; and on top of it PathInv, what a Signal leaves behind:     *)
(* members, tickets, audit entries, answers and investigations.  Last,     *)
(* that the Signal path implements the registry of Incidents.              *)
(***************************************************************************)
EXTENDS ControlPlaneInv, SequenceTheorems, FiniteSetTheorems, WellFoundedInduction, TLAPS

-----------------------------------------------------------------------------
(* Triage.                                                                 *)

\* Every non-empty set of naturals has a least element.
LEMMA LeastNat == ASSUME NEW T \in SUBSET Nat, T # {}
                  PROVE  \E n \in T : \A m \in T : n <= m
<1> DEFINE R == OpToRel(<, Nat)
<1>1. IsWellFoundedOn(R, Nat)
  BY NatLessThanWellFounded
<1>2. \E x \in T : \A y \in T : ~ (<<y, x>> \in R)
  <2> HIDE DEF R
  <2> QED BY <1>1, WFMin
<1>3. \A x, y \in Nat : <<y, x>> \in R <=> y < x
  BY DEF OpToRel
<1> HIDE DEF R
<1>4. \A x, y \in Nat : ~ (y < x) => x <= y
  OBVIOUS
<1> QED BY <1>2, <1>3, <1>4

\* slices.IndexFunc finds an Incident when there is one, and it is one the
\* Signal belongs to.
LEMMA FirstMatchIsAMatch ==
  ASSUME NEW open \in SUBSET Incidents, NEW s \in Signals, Matched(open, s)
  PROVE  FirstMatch(open, s) \in open /\ SameIncident(FirstMatch(open, s), s)
<1> DEFINE same == {inc \in open : SameIncident(inc, s)}
           ids == {inc.id : inc \in same}
<1>1. ids \in SUBSET Nat /\ ids # {}
  BY DEF Incidents, Matched
<1>2. PICK n \in ids : \A m \in ids : n <= m
  <2> HIDE DEF ids
  <2> QED BY <1>1, LeastNat
<1>3. PICK inc \in same : inc.id = n
  OBVIOUS
<1>4. \A other \in open : SameIncident(other, s) => inc.id <= other.id
  BY <1>2, <1>3
<1> QED BY <1>3, <1>4 DEF FirstMatch

\* The Incident of a decision is a well-formed Incident.
LEMMA TriageType ==
  ASSUME NEW open \in SUBSET Incidents, NEW s \in Signals
  PROVE  Triage(open, s) \in Decisions
<1>1. Episode(s) \in Episodes /\ NewIncident(s) \in Incidents /\ NoIncident \in Incidents
  BY DEF Episode, Episodes, NewIncident, NoIncident, Incidents, Signals
<1>2. Kind(open, s) \in {"open", "join", "repeat", "drop"}
  BY DEF Kind, Signals
<1>3. After(open, s, Kind(open, s)) \in Incidents
  <2>1. CASE Kind(open, s) \in {"drop", "open"}
    BY <2>1, <1>1 DEF After
  <2>2. CASE Kind(open, s) \in {"join", "repeat"}
    <3>1. Matched(open, s)
      BY <2>2 DEF Kind, Signals
    <3>2. FirstMatch(open, s) \in Incidents
      BY <3>1, FirstMatchIsAMatch
    <3> QED BY <3>2, <2>2, <1>1 DEF After, Incidents
  <2> QED BY <2>1, <2>2, <1>2
<1> QED BY <1>2, <1>3 DEF Triage, Decisions

\* A new Incident is opened only when no open Incident is about the Signal's
\* problem, and it is stored without an id and without a ticket.
LEMMA TriageOpens ==
  ASSUME NEW open \in SUBSET Incidents, NEW s \in Signals, Triage(open, s).kind = "open"
  PROVE  /\ ~Matched(open, s)
         /\ Triage(open, s).incident = NewIncident(s)
<1>1. Kind(open, s) = "open"
  BY DEF Triage
<1>2. ~Matched(open, s)
  BY <1>1 DEF Kind, Signals
<1> QED BY <1>1, <1>2 DEF Triage, After

\* Only a Signal that does not fire is dropped.
LEMMA TriageDrops ==
  ASSUME NEW open, NEW s \in Signals, Triage(open, s).kind = "drop"
  PROVE  s.status # "firing"
<1>1. Kind(open, s) = "drop"
  BY DEF Triage
<1> QED BY <1>1 DEF Kind, Signals

\* A join or a repeat notice is about an Incident that is open: only its
\* members may differ, and those of a repeat do not.
LEMMA TriageJoins ==
  ASSUME NEW open \in SUBSET Incidents, NEW s \in Signals,
         Triage(open, s).kind \in {"join", "repeat"}
  PROVE  \E inc \in open :
           /\ SameIncident(inc, s)
           /\ Triage(open, s).incident = [inc EXCEPT !.members = @ \cup {Episode(s)}]
           /\ Triage(open, s).kind = "repeat" => Episode(s) \in inc.members
<1>1. Kind(open, s) \in {"join", "repeat"}
  BY DEF Triage
<1>2. Matched(open, s)
  BY <1>1 DEF Kind, Signals
<1>3. FirstMatch(open, s) \in open /\ SameIncident(FirstMatch(open, s), s)
  BY <1>2, FirstMatchIsAMatch
<1>4. Triage(open, s).incident =
        [FirstMatch(open, s) EXCEPT !.members = @ \cup {Episode(s)}]
  BY <1>1 DEF Triage, After
<1>5. Triage(open, s).kind = "repeat" => Episode(s) \in FirstMatch(open, s).members
  BY <1>1 DEF Triage, Kind, Signals
<1> QED BY <1>3, <1>4, <1>5

-----------------------------------------------------------------------------
(* Types.                                                                  *)

\* What OpenIncidents returns is well-formed, cut short or not.
LEMMA LoadedType ==
  ASSUME TypeOK, NEW last
  PROVE  Loaded(last) \in SUBSET Incidents
BY DEF Loaded, TypeOK, IncidentRows, MemberRows, Incidents, Episodes

\* The rows and records the handlers build are well-formed.
LEMMA RowType ==
  ASSUME NEW inc \in Incidents, NEW id \in Nat \ {0}
  PROVE  /\ [Row(inc) EXCEPT !.id = id] \in IncidentRows
         /\ \A e \in inc.members : Member(id, e) \in MemberRows
BY DEF Row, Member, Incidents, IncidentRows, MemberRows, Episodes

\* An audit entry made by Log keeps the log a sequence of entries.
LEMMA LogType ==
  ASSUME TypeOK, NEW type \in EntryTypes, NEW i \in Nat, NEW s \in Signals \cup {NoSignal},
         NEW ref \in Nat, Log(type, i, s, ref)
  PROVE  audit' \in Seq(Entries)
BY AppendProperties DEF Log, TypeOK, Entries

\* Answering and aborting keep the types of what they change.
LEMMA AnswerType ==
  ASSUME TypeOK, NEW r \in Requests, NEW outcome \in {"due", "accepted", "refused"},
         Answer(r, outcome)
  PROVE  /\ pc' \in [Requests -> Steps]
         /\ body' \in [Requests -> Bodies \cup {NoBody}]
         /\ todo' \in [Requests -> Seq(Signals \cup {Unmappable})]
         /\ sig' \in [Requests -> Signals \cup {NoSignal}]
         /\ decision' \in [Requests -> Decisions]
         /\ hungup' \in [Requests -> BOOLEAN]
         /\ source' \in [Bodies -> {"due", "waiting", "accepted", "refused"}]
<1>1. NoDecision \in Decisions
  BY DEF NoDecision, Decisions, NoIncident, Incidents
<1>2. <<>> \in Seq(Signals \cup {Unmappable})
  OBVIOUS
<1> QED BY <1>1, <1>2 DEF Answer, Goto, TypeOK, Steps

LEMMA AbortType ==
  ASSUME TypeOK, NEW r \in Requests, Abort(r)
  PROVE  /\ tx' \in Transactions \cup {NoTx}
         /\ mu' \in Requests \cup {None}
         /\ pc' \in [Requests -> Steps]
         /\ body' \in [Requests -> Bodies \cup {NoBody}]
         /\ todo' \in [Requests -> Seq(Signals \cup {Unmappable})]
         /\ sig' \in [Requests -> Signals \cup {NoSignal}]
         /\ decision' \in [Requests -> Decisions]
         /\ hungup' \in [Requests -> BOOLEAN]
         /\ source' \in [Bodies -> {"due", "waiting", "accepted", "refused"}]
<1>1. Answer(r, "due")
  BY DEF Abort
<1>2. /\ tx' \in Transactions \cup {NoTx}
      /\ mu' \in Requests \cup {None}
  BY DEF Abort, TypeOK
<1> QED BY <1>1, <1>2, AnswerType

\* What the ticketing service holds stays well-formed.
LEMMA TicketsType ==
  ASSUME TypeOK, NEW r \in Requests
  PROVE  /\ Created(r) \in Seq([incident: Nat, shown: SUBSET Episodes])
         /\ sig[r] \in Signals => Commented(r) \in Seq([incident: Nat, shown: SUBSET Episodes])
<1> DEFINE T == [incident: Nat, shown: SUBSET Episodes]
<1>1. Inc(r) \in Incidents
  BY DEF TypeOK, Decisions, Inc
<1>2. Created(r) \in Seq(T)
  BY <1>1, AppendProperties DEF Created, TypeOK, Incidents
<1>3. ASSUME sig[r] \in Signals PROVE Commented(r) \in Seq(T)
  <2>1. Episode(sig[r]) \in Episodes
    BY <1>3 DEF Episode, Episodes, Signals
  <2>2. CASE Inc(r).ticket \in 1..Len(tickets)
    <3>1. tickets \in Seq(T)
      BY DEF TypeOK
    <3>2. tickets[Inc(r).ticket] \in T
      BY <2>2, <3>1, ElementOfSeq
    <3>3. [tickets[Inc(r).ticket] EXCEPT !.shown = @ \cup {Episode(sig[r])}] \in T
      BY <3>2, <2>1
    <3> QED BY <3>1, <3>3, <2>2, ExceptSeq DEF Commented
  <2>3. CASE Inc(r).ticket \notin 1..Len(tickets)
    <3>1. tickets \in Seq(T) /\ DOMAIN tickets = 1..Len(tickets)
      BY LenProperties DEF TypeOK
    <3>2. Commented(r) = tickets
      BY <3>1, <2>3, SeqEqual, IsASeq DEF Commented
    <3> QED BY <3>1, <3>2
  <2> QED BY <2>2, <2>3
<1> QED BY <1>2, <1>3

\* Using up a bound keeps the counters naturals, and never takes one back.
LEMMA SpendType ==
  ASSUME TypeOK, NEW f \in Faults, NEW max, Spend(f, max)
  PROVE  /\ spent' \in [Faults -> Nat]
         /\ \A g \in Faults : spent[g] <= spent'[g]
BY DEF TypeOK, Spend

\* The types of everything a step can set, under what StepInv says of the
\* Signal at hand.
LEMMA TypeStep ==
  ASSUME TypeOK, StepInv, [Next]_vars
  PROVE  TypeOK'
<1> USE DEF Steps, Goto
<1>1. ASSUME NEW r \in Requests, Refuse(r) PROVE TypeOK'
  <2>1. audit' \in Seq(Entries)
    <3>1. {"auth.rejected", "request.rejected"} \subseteq EntryTypes /\ 0 \in Nat
      BY DEF EntryTypes
    <3> QED BY <1>1, <3>1, LogType DEF Refuse
  <2> QED BY <1>1, <2>1, AnswerType DEF Refuse, TypeOK, store
<1>2. ASSUME NEW r \in Requests, RefuseUnaudited(r) PROVE TypeOK'
  <2>1. spent' \in [Faults -> Nat]
    BY <1>2, SpendType DEF RefuseUnaudited, Faults
  <2> QED BY <1>2, <2>1, AnswerType DEF RefuseUnaudited, TypeOK, store
<1>3. ASSUME NEW r \in Requests, Unreadable(r) PROVE TypeOK'
  BY <1>3, AnswerType DEF Unreadable, TypeOK, store
<1>4. ASSUME NEW r \in Requests, Accept(r) PROVE TypeOK'
  <2>1. audit' \in Seq(Entries)
    BY <1>4, LogType DEF Accept, TypeOK, EntryTypes
  <2>2. body[r].alerts \in Seq(Signals \cup {Unmappable})
    <3>1. <<>> \in Seq(Signals \cup {Unmappable})
      OBVIOUS
    <3>2. body[r] \in [form: Forms, alerts: Seq(Signals \cup {Unmappable})] \/ body[r] = NoBody
      BY ControlPlaneAssumption DEF TypeOK
    <3>3. NoBody.alerts = <<>>
      BY DEF NoBody
    <3> QED BY <3>1, <3>2, <3>3
  <2> QED BY <1>4, <2>1, <2>2 DEF Accept, TypeOK, store
<1>5. ASSUME NEW r \in Requests, DropAlert(r) PROVE TypeOK'
  <2>1. audit' \in Seq(Entries)
    BY <1>5, LogType DEF DropAlert, EntryTypes
  <2>2. Tail(todo[r]) \in Seq(Signals \cup {Unmappable})
    BY <1>5, HeadTailProperties DEF DropAlert, TypeOK
  <2> QED BY <1>5, <2>1, <2>2 DEF DropAlert, TypeOK, store
<1>6. ASSUME NEW r \in Requests, TakeAlert(r) PROVE TypeOK'
  <2>1. /\ Tail(todo[r]) \in Seq(Signals \cup {Unmappable})
        /\ Head(todo[r]) \in Signals
    BY <1>6, HeadTailProperties DEF TakeAlert, TypeOK
  <2> QED BY <1>6, <2>1 DEF TakeAlert, TypeOK, store
<1>7. ASSUME NEW r \in Requests, AnswerOK(r) PROVE TypeOK'
  BY <1>7, AnswerType DEF AnswerOK, TypeOK, store
<1>8. ASSUME NEW r \in Requests, Lock(r) PROVE TypeOK'
  BY <1>8 DEF Lock, TypeOK, store
<1>9. ASSUME NEW r \in Requests, NEW last, pc[r] = "read", Decide(r, last), spent' \in [Faults -> Nat]
      PROVE TypeOK'
  <2>1. sig[r] \in Signals
    BY <1>9 DEF StepInv, Locked
  <2>2. Triage(Loaded(last), sig[r]) \in Decisions
    BY <2>1, LoadedType, TriageType
  <2> HIDE DEF Triage, Loaded
  <2> QED BY <1>9, <2>2 DEF Decide, TypeOK, store
<1>10. ASSUME NEW r \in Requests, ReadOpen(r) PROVE TypeOK'
  BY <1>9, <1>10 DEF ReadOpen, TypeOK
<1>11. ASSUME NEW r \in Requests, ReadOpenCut(r) PROVE TypeOK'
  <2>1. spent' \in [Faults -> Nat]
    BY <1>11, SpendType DEF ReadOpenCut, Faults
  <2> QED BY <1>9, <1>11, <2>1 DEF ReadOpenCut
<1>12. ASSUME NEW r \in Requests, Save(r) PROVE TypeOK'
  <2> DEFINE id == IF Inc(r).id = 0 THEN lastId + 1 ELSE Inc(r).id
  <2>1. Inc(r) \in Incidents
    BY DEF TypeOK, Decisions, Inc
  <2>2. id \in Nat \ {0}
    BY <2>1 DEF TypeOK, Incidents
  <2>3. tx' \in Transactions
    <3>1. [Row(Inc(r)) EXCEPT !.id = id] \in IncidentRows
      BY <2>1, <2>2, RowType
    <3>2. {Member(id, e) : e \in Inc(r).members} \subseteq MemberRows
      BY <2>1, <2>2, RowType
    <3>3. incidents \subseteq IncidentRows /\ members \subseteq MemberRows /\ lastId \in Nat
      BY DEF TypeOK
    <3> QED BY <1>12, <2>2, <3>1, <3>2, <3>3 DEF Save, SavedId, Transactions
  <2>4. decision' \in [Requests -> Decisions]
    <3>1. decision[r] \in Decisions
      BY DEF TypeOK
    <3>2. [decision[r] EXCEPT !.incident.id = id] \in Decisions
      BY <3>1, <2>2 DEF Decisions, Incidents
    <3>3. decision' = [decision EXCEPT ![r] = [decision[r] EXCEPT !.incident.id = id]]
      BY <1>12 DEF Save, SavedId
    <3> QED BY <3>2, <3>3 DEF TypeOK
  <2> QED BY <1>12, <2>3, <2>4 DEF Save, TypeOK, store
<1>13. ASSUME NEW r \in Requests, AuditReceived(r) PROVE TypeOK'
  <2>1. audit' \in Seq(Entries)
    BY <1>13, LogType DEF AuditReceived, EntryTypes, TypeOK, Inc, Decisions, Incidents
  <2> QED BY <1>13, <2>1 DEF AuditReceived, TypeOK, store
<1>14. ASSUME NEW r \in Requests, AuditDecision(r) PROVE TypeOK'
  <2>1. audit' \in Seq(Entries)
    BY <1>14, LogType DEF AuditDecision, EntryTypes, TypeOK, Inc, Decisions, Incidents
  <2>2. pc' \in [Requests -> Steps]
    BY <1>14 DEF AuditDecision, AfterDecision, TypeOK, Decisions
  <2> QED BY <1>14, <2>1, <2>2 DEF AuditDecision, TypeOK, store
<1>15. ASSUME NEW r \in Requests, CreateTicket(r) PROVE TypeOK'
  <2>1. Len(tickets) + 1 \in Nat
    BY LenProperties DEF TypeOK
  <2>2. decision' \in [Requests -> Decisions]
    <3>1. decision[r] \in Decisions
      BY DEF TypeOK
    <3>2. [decision[r] EXCEPT !.incident.ticket = Len(tickets) + 1] \in Decisions
      BY <3>1, <2>1 DEF Decisions, Incidents
    <3>3. decision' = [decision EXCEPT ![r] =
                         [decision[r] EXCEPT !.incident.ticket = Len(tickets) + 1]]
      BY <1>15 DEF CreateTicket
    <3> QED BY <3>2, <3>3 DEF TypeOK
  <2> QED BY <1>15, <2>2, TicketsType DEF CreateTicket, TypeOK, store
<1>16. ASSUME NEW r \in Requests, SetTicket(r) PROVE TypeOK'
  <2>1. Inc(r).ticket \in Nat
    BY DEF TypeOK, Decisions, Inc, Incidents
  <2>2. tx' \in Transactions \cup {NoTx}
    <3>1. CASE tx = NoTx
      <4>1. tx' = NoTx
        BY <1>16, <3>1 DEF SetTicket, NoTx
      <4> QED BY <4>1
    <3>2. CASE tx \in Transactions
      <4> DEFINE new(i) == IF i.id = Inc(r).id THEN [i EXCEPT !.ticket = Inc(r).ticket] ELSE i
      <4>1. \A i \in IncidentRows : new(i) \in IncidentRows
        BY <2>1 DEF IncidentRows
      <4>2. {new(i) : i \in tx.incidents} \in SUBSET IncidentRows
        BY <4>1, <3>2 DEF Transactions
      <4>3. tx' = [tx EXCEPT !.incidents = {new(i) : i \in tx.incidents}]
        BY <1>16 DEF SetTicket
      <4> QED BY <4>2, <4>3, <3>2 DEF Transactions
    <3> QED BY <3>1, <3>2 DEF TypeOK
  <2> QED BY <1>16, <2>2 DEF SetTicket, TypeOK, store
<1>17. ASSUME NEW r \in Requests, AuditCreated(r) PROVE TypeOK'
  <2>1. audit' \in Seq(Entries)
    BY <1>17, LogType DEF AuditCreated, EntryTypes, TypeOK, Inc, Decisions, Incidents
  <2> QED BY <1>17, <2>1 DEF AuditCreated, TypeOK, store
<1>18. ASSUME NEW r \in Requests, Comment(r) PROVE TypeOK'
  <2>1. sig[r] \in Signals
    BY <1>18 DEF Comment, StepInv, Locked, InTx
  <2> QED BY <1>18, <2>1, TicketsType DEF Comment, TypeOK, store
<1>19. ASSUME NEW r \in Requests, AuditCommented(r) PROVE TypeOK'
  <2>1. audit' \in Seq(Entries)
    BY <1>19, LogType DEF AuditCommented, EntryTypes, TypeOK, Inc, Decisions, Incidents
  <2> QED BY <1>19, <2>1 DEF AuditCommented, TypeOK, store
<1>20. ASSUME NEW r \in Requests, Commit(r) PROVE TypeOK'
  <2>1. /\ tx.incidents \in SUBSET IncidentRows /\ tx.members \in SUBSET MemberRows
        /\ tx.lastId \in Nat
    BY DEF TypeOK, Transactions, NoTx
  <2> QED BY <1>20, <2>1 DEF Commit, TypeOK
<1>21. ASSUME NEW r \in Requests, Launch(r) PROVE TypeOK'
  <2>1. Inc(r).id \in Nat
    BY DEF TypeOK, Decisions, Inc, Incidents
  <2> QED BY <1>21, <2>1 DEF Launch, TypeOK, store
<1>22. ASSUME NEW r \in Requests, Cancelled(r) PROVE TypeOK'
  BY <1>22, AbortType DEF Cancelled, TypeOK, store
<1>23. ASSUME NEW r \in Requests, Fail(r) PROVE TypeOK'
  <2>1. spent' \in [Faults -> Nat]
    BY <1>23, SpendType DEF Fail, Faults
  <2> QED BY <1>23, <2>1, AbortType DEF Fail, TypeOK, store
<1>24. ASSUME NEW r \in Requests, LostReply(r) PROVE TypeOK'
  <2>1. spent' \in [Faults -> Nat]
    BY <1>24, SpendType DEF LostReply, Faults, TypeOK
  <2>2. sig[r] \in Signals
    BY <1>24 DEF LostReply, StepInv, Locked, InTx
  <2>3. tickets' \in Seq([incident: Nat, shown: SUBSET Episodes])
    BY <1>24, <2>2, TicketsType DEF LostReply
  <2> QED BY <1>24, <2>1, <2>3, AbortType DEF LostReply, TypeOK, store
<1>25. ASSUME NEW r \in Requests, HangUp(r) PROVE TypeOK'
  <2>1. spent' \in [Faults -> Nat]
    BY <1>25, SpendType DEF HangUp, Faults
  <2> QED BY <1>25, <2>1 DEF HangUp, TypeOK, store
<1>26. ASSUME NEW r \in Requests, NEW b \in Bodies, Post(r, b) PROVE TypeOK'
  BY <1>26 DEF Post, TypeOK, store
<1>27. ASSUME NEW b \in Bodies, Renotify(b) PROVE TypeOK'
  <2>1. spent' \in [Faults -> Nat]
    BY <1>27, SpendType DEF Renotify, Faults
  <2> QED BY <1>27, <2>1 DEF Renotify, TypeOK, store, handler
<1>28. ASSUME NEW i \in running, InvestigationEnds(i) PROVE TypeOK'
  <2>1. audit' \in Seq(Entries)
    BY <1>28, LogType DEF InvestigationEnds, EntryTypes, TypeOK
  <2>2. spent' \in [Faults -> Nat]
    BY <1>28, SpendType DEF InvestigationEnds, Faults, TypeOK
  <2> QED BY <1>28, <2>1, <2>2 DEF InvestigationEnds, TypeOK, store, handler
<1>29. ASSUME Crash PROVE TypeOK'
  <2>1. NoDecision \in Decisions
    BY DEF NoDecision, Decisions, NoIncident, Incidents
  <2>2. spent' \in [Faults -> Nat]
    BY <1>29, SpendType DEF Crash, Faults
  <2>3. <<>> \in Seq(Signals \cup {Unmappable})
    OBVIOUS
  <2> QED BY <1>29, <2>1, <2>2, <2>3 DEF Crash, TypeOK, store
<1>30. ASSUME UNCHANGED vars PROVE TypeOK'
  BY <1>30 DEF vars, TypeOK
<1> QED
  BY <1>1, <1>2, <1>3, <1>4, <1>5, <1>6, <1>7, <1>8, <1>10, <1>11, <1>12, <1>13, <1>14,
     <1>15, <1>16, <1>17, <1>18, <1>19, <1>20, <1>21, <1>22, <1>23, <1>24, <1>25, <1>26,
     <1>27, <1>28, <1>29, <1>30 DEF Next, HandlerStep, FaultStep

-----------------------------------------------------------------------------
(* The steps, by what they do to the work on a Signal.                     *)

\* A handler is where it was, with the same Signal and decision.
Stays(q) == pc'[q] = pc[q] /\ sig'[q] = sig[q] /\ decision'[q] = decision[q]

\* A step that changes no table, cuts no read and ends at most the open
\* transaction.
Leaves ==
  /\ UNCHANGED <<incidents, members, lastId>>
  /\ tx' = tx \/ tx' = NoTx
  /\ spent'["cuts"] = spent["cuts"]
  /\ \A q \in Requests : Stays(q) \/ pc'[q] \notin {"save", "launch"} \cup InTx

\* A step of a handler from the reading of the open Incidents to the commit.
Advances(r) ==
  \/ ReadOpen(r) \/ ReadOpenCut(r) \/ Save(r) \/ AuditReceived(r)
  \/ AuditDecision(r) /\ decision[r].kind # "drop"
  \/ CreateTicket(r) \/ SetTicket(r) \/ AuditCreated(r)
  \/ Comment(r) \/ AuditCommented(r) \/ Commit(r)

\* There are no others.
LEMMA StepKinds ==
  ASSUME TypeOK, [Next]_vars
  PROVE  Leaves \/ \E r \in Requests : Advances(r)
<1> USE DEF Goto, store
<1>a. spent' = spent => spent'["cuts"] = spent["cuts"]
  OBVIOUS
<1>b. ASSUME NEW f \in Faults \ {"cuts"}, NEW max, Spend(f, max)
      PROVE  spent'["cuts"] = spent["cuts"]
  BY <1>b DEF Spend, TypeOK
<1>1. ASSUME NEW r \in Requests, Refuse(r) PROVE Leaves
  BY <1>1, <1>a DEF Leaves, Stays, Refuse, Answer, TypeOK, InTx
<1>2. ASSUME NEW r \in Requests, RefuseUnaudited(r) PROVE Leaves
  BY <1>2, <1>b DEF Leaves, Stays, RefuseUnaudited, Answer, TypeOK, InTx, Faults
<1>3. ASSUME NEW r \in Requests, Unreadable(r) PROVE Leaves
  BY <1>3, <1>a DEF Leaves, Stays, Unreadable, Answer, TypeOK, InTx
<1>4. ASSUME NEW r \in Requests, Accept(r) PROVE Leaves
  BY <1>4, <1>a DEF Leaves, Stays, Accept, TypeOK, InTx
<1>5. ASSUME NEW r \in Requests, DropAlert(r) PROVE Leaves
  BY <1>5, <1>a DEF Leaves, Stays, DropAlert, TypeOK, InTx
<1>6. ASSUME NEW r \in Requests, TakeAlert(r) PROVE Leaves
  BY <1>6, <1>a DEF Leaves, Stays, TakeAlert, TypeOK, InTx
<1>7. ASSUME NEW r \in Requests, AnswerOK(r) PROVE Leaves
  BY <1>7, <1>a DEF Leaves, Stays, AnswerOK, Answer, TypeOK, InTx
<1>8. ASSUME NEW r \in Requests, Lock(r) PROVE Leaves
  BY <1>8, <1>a DEF Leaves, Stays, Lock, TypeOK, InTx
<1>9. ASSUME NEW r \in Requests, Launch(r) PROVE Leaves
  BY <1>9, <1>a DEF Leaves, Stays, Launch, TypeOK, InTx
<1>10. ASSUME NEW r \in Requests, Cancelled(r) PROVE Leaves
  BY <1>10, <1>a DEF Leaves, Stays, Cancelled, Abort, Answer, TypeOK, InTx
<1>11. ASSUME NEW r \in Requests, Fail(r) PROVE Leaves
  BY <1>11, <1>b DEF Leaves, Stays, Fail, Abort, Answer, TypeOK, InTx, Faults
<1>12. ASSUME NEW r \in Requests, HangUp(r) PROVE Leaves
  BY <1>12, <1>b DEF Leaves, Stays, HangUp, TypeOK, InTx, Faults
<1>13. ASSUME NEW r \in Requests, LostReply(r) PROVE Leaves
  <2>1. spent'["cuts"] = spent["cuts"]
    BY <1>13, <1>a, <1>b DEF LostReply, Faults
  <2> QED BY <1>13, <2>1 DEF Leaves, Stays, LostReply, Abort, Answer, TypeOK, InTx
<1>14. ASSUME NEW r \in Requests, NEW b \in Bodies, Post(r, b) PROVE Leaves
  BY <1>14, <1>a DEF Leaves, Stays, Post, TypeOK, InTx
<1>15. ASSUME NEW b \in Bodies, Renotify(b) PROVE Leaves
  BY <1>15, <1>b DEF Leaves, Stays, Renotify, handler, TypeOK, InTx, Faults
<1>16. ASSUME NEW i \in running, InvestigationEnds(i) PROVE Leaves
  <2>1. spent'["cuts"] = spent["cuts"]
    BY <1>16, <1>a, <1>b DEF InvestigationEnds, Faults
  <2> QED BY <1>16, <2>1 DEF Leaves, Stays, InvestigationEnds, handler
<1>17. ASSUME Crash PROVE Leaves
  BY <1>17, <1>b DEF Leaves, Stays, Crash, TypeOK, InTx, Faults
<1>18. ASSUME UNCHANGED vars PROVE Leaves
  BY <1>18, <1>a DEF Leaves, Stays, vars
<1>19. ASSUME NEW r \in Requests, AuditDecision(r), decision[r].kind = "drop" PROVE Leaves
  BY <1>19, <1>a DEF Leaves, Stays, AuditDecision, AfterDecision, TypeOK, InTx
<1> QED
  BY <1>1, <1>2, <1>3, <1>4, <1>5, <1>6, <1>7, <1>8, <1>9, <1>10, <1>11, <1>12, <1>13,
     <1>14, <1>15, <1>16, <1>17, <1>18, <1>19 DEF Next, HandlerStep, FaultStep, Advances

-----------------------------------------------------------------------------
(* Control: who holds the mutex and the transaction, and at which step.    *)

\* Mutual exclusion and the single transaction, step by step.
LEMMA ControlStep ==
  ASSUME TypeOK, TypeOK', MutexInv, TxInv, StepInv, [Next]_vars
  PROVE  MutexInv' /\ TxInv' /\ StepInv'
<1> DEFINE C == MutexInv /\ TxInv /\ StepInv
<1> USE ControlPlaneAssumption DEF Locked, InTx, Goto, NoTx
<1>1. ASSUME NEW r \in Requests, Refuse(r) PROVE C'
  BY <1>1 DEF Refuse, Answer, MutexInv, TxInv, StepInv, TypeOK
<1>2. ASSUME NEW r \in Requests, RefuseUnaudited(r) PROVE C'
  BY <1>2 DEF RefuseUnaudited, Answer, MutexInv, TxInv, StepInv, TypeOK
<1>3. ASSUME NEW r \in Requests, Unreadable(r) PROVE C'
  BY <1>3 DEF Unreadable, Answer, MutexInv, TxInv, StepInv, TypeOK
<1>4. ASSUME NEW r \in Requests, Accept(r) PROVE C'
  BY <1>4 DEF Accept, MutexInv, TxInv, StepInv, TypeOK
<1>5. ASSUME NEW r \in Requests, DropAlert(r) PROVE C'
  BY <1>5 DEF DropAlert, MutexInv, TxInv, StepInv, TypeOK
<1>6. ASSUME NEW r \in Requests, TakeAlert(r) PROVE C'
  BY <1>6 DEF TakeAlert, MutexInv, TxInv, StepInv, TypeOK
<1>7. ASSUME NEW r \in Requests, AnswerOK(r) PROVE C'
  <2>1. /\ pc[r] = "alert" /\ pc' = [pc EXCEPT ![r] = "idle"]
        /\ sig' = [sig EXCEPT ![r] = NoSignal]
        /\ decision' = [decision EXCEPT ![r] = NoDecision]
        /\ UNCHANGED <<tx, mu>>
    BY <1>7 DEF AnswerOK, Answer
  <2> QED BY <2>1 DEF MutexInv, TxInv, StepInv, TypeOK
<1>8. ASSUME NEW r \in Requests, Lock(r) PROVE C'
  BY <1>8 DEF Lock, MutexInv, TxInv, StepInv, TypeOK
<1>9. ASSUME NEW r \in Requests, ReadOpen(r) PROVE C'
  BY <1>9 DEF ReadOpen, Decide, Triage, MutexInv, TxInv, StepInv, TypeOK
<1>10. ASSUME NEW r \in Requests, ReadOpenCut(r) PROVE C'
  BY <1>10 DEF ReadOpenCut, Decide, Triage, MutexInv, TxInv, StepInv, TypeOK
<1>11. ASSUME NEW r \in Requests, Save(r) PROVE C'
  BY <1>11 DEF Save, Inc, MutexInv, TxInv, StepInv, TypeOK
<1>12. ASSUME NEW r \in Requests, AuditReceived(r) PROVE C'
  BY <1>12 DEF AuditReceived, MutexInv, TxInv, StepInv, TypeOK
<1>13. ASSUME NEW r \in Requests, AuditDecision(r) PROVE C'
  <2>1. /\ pc[r] = "decisionEntry" /\ mu = r
        /\ UNCHANGED <<sig, decision, tx>>
    BY <1>13 DEF AuditDecision, MutexInv
  <2>2. CASE decision[r].kind = "drop"
    <3>1. pc' = [pc EXCEPT ![r] = "alert"] /\ mu' = None
      BY <1>13, <2>2 DEF AuditDecision, AfterDecision
    <3> QED BY <2>1, <2>2, <3>1 DEF MutexInv, TxInv, StepInv, TypeOK
  <2>3. CASE decision[r].kind # "drop"
    <3>1. \/ pc' = [pc EXCEPT ![r] = "create"] /\ decision[r].kind = "open"
          \/ pc' = [pc EXCEPT ![r] = "comment"] /\ decision[r].kind = "join"
          \/ pc' = [pc EXCEPT ![r] = "commit"]
      BY <1>13, <2>3 DEF AuditDecision, AfterDecision, TypeOK, Decisions
    <3>2. mu' = mu
      BY <1>13, <2>3 DEF AuditDecision
    <3> QED BY <2>1, <2>3, <3>1, <3>2 DEF MutexInv, TxInv, StepInv, TypeOK
  <2> QED BY <2>2, <2>3
<1>14. ASSUME NEW r \in Requests, CreateTicket(r) PROVE C'
  BY <1>14 DEF CreateTicket, Inc, MutexInv, TxInv, StepInv, TypeOK
<1>15. ASSUME NEW r \in Requests, SetTicket(r) PROVE C'
  BY <1>15 DEF SetTicket, MutexInv, TxInv, StepInv, TypeOK
<1>16. ASSUME NEW r \in Requests, AuditCreated(r) PROVE C'
  BY <1>16 DEF AuditCreated, MutexInv, TxInv, StepInv, TypeOK
<1>17. ASSUME NEW r \in Requests, Comment(r) PROVE C'
  BY <1>17 DEF Comment, MutexInv, TxInv, StepInv, TypeOK
<1>18. ASSUME NEW r \in Requests, AuditCommented(r) PROVE C'
  BY <1>18 DEF AuditCommented, MutexInv, TxInv, StepInv, TypeOK
<1>19. ASSUME NEW r \in Requests, Commit(r) PROVE C'
  BY <1>19 DEF Commit, MutexInv, TxInv, StepInv, TypeOK
<1>20. ASSUME NEW r \in Requests, Launch(r) PROVE C'
  BY <1>20 DEF Launch, MutexInv, TxInv, StepInv, TypeOK
<1>21. ASSUME NEW r \in Requests, Cancelled(r) PROVE C'
  BY <1>21 DEF Cancelled, Abort, Answer, MutexInv, TxInv, StepInv, TypeOK
<1>22. ASSUME NEW r \in Requests, Fail(r) PROVE C'
  BY <1>22 DEF Fail, Abort, Answer, MutexInv, TxInv, StepInv, TypeOK
<1>23. ASSUME NEW r \in Requests, LostReply(r) PROVE C'
  BY <1>23 DEF LostReply, Abort, Answer, MutexInv, TxInv, StepInv, TypeOK
<1>24. ASSUME NEW r \in Requests, HangUp(r) PROVE C'
  BY <1>24 DEF HangUp, MutexInv, TxInv, StepInv, TypeOK
<1>25. ASSUME NEW r \in Requests, NEW b \in Bodies, Post(r, b) PROVE C'
  BY <1>25 DEF Post, MutexInv, TxInv, StepInv, TypeOK
<1>26. ASSUME NEW b \in Bodies, Renotify(b) PROVE C'
  BY <1>26 DEF Renotify, handler, MutexInv, TxInv, StepInv
<1>27. ASSUME NEW i \in running, InvestigationEnds(i) PROVE C'
  BY <1>27 DEF InvestigationEnds, handler, MutexInv, TxInv, StepInv
<1>28. ASSUME Crash PROVE C'
  BY <1>28 DEF Crash, MutexInv, TxInv, StepInv
<1>29. ASSUME UNCHANGED vars PROVE C'
  BY <1>29 DEF vars, MutexInv, TxInv, StepInv
<1> QED
  BY <1>1, <1>2, <1>3, <1>4, <1>5, <1>6, <1>7, <1>8, <1>9, <1>10, <1>11, <1>12, <1>13,
     <1>14, <1>15, <1>16, <1>17, <1>18, <1>19, <1>20, <1>21, <1>22, <1>23, <1>24, <1>25,
     <1>26, <1>27, <1>28, <1>29 DEF Next, HandlerStep, FaultStep

-----------------------------------------------------------------------------
(* Data: a decision made under the mutex still fits the tables it goes to. *)

\* OpenIncidents returns stored rows, and all of them when it is not cut short.
LEMMA LoadedRows ==
  ASSUME TypeOK, NEW last
  PROVE  /\ \A inc \in Loaded(last) : Row(inc) \in incidents
         /\ \A i \in incidents : i.id <= last => \E inc \in Loaded(last) : Row(inc) = i
<1>1. \A i \in incidents : i = [id |-> i.id, target |-> i.target, key |-> i.key, ticket |-> i.ticket]
  BY DEF TypeOK, IncidentRows
<1>2. ASSUME NEW inc \in Loaded(last) PROVE Row(inc) \in incidents
  BY <1>1, <1>2 DEF Loaded, Row
<1>3. ASSUME NEW i \in incidents, i.id <= last PROVE \E inc \in Loaded(last) : Row(inc) = i
  <2> DEFINE rows == {x \in incidents : x.id <= last}
             its(x) == {m \in members : m.incident = x.id
                                        \/ (x = (CHOOSE y \in rows : \A z \in rows : y.id <= z.id)
                                            /\ m.incident > last)}
             load(x) == [id |-> x.id, target |-> x.target, key |-> x.key, ticket |-> x.ticket,
                         members |-> {[key |-> m.key, startsAt |-> m.startsAt] : m \in its(x)}]
  <2>1. load(i) \in Loaded(last)
    BY <1>3 DEF Loaded
  <2>2. Row(load(i)) = i
    <3> HIDE DEF its
    <3> QED BY <1>1 DEF Row
  <2> QED BY <2>1, <2>2
<1> QED BY <1>2, <1>3

\* What Triage decides fits the tables it was read from.
LEMMA DecisionFits ==
  ASSUME TypeOK, RowInv, NEW s \in Signals, NEW last,
         NEW d, d = Triage(Loaded(last), s)
  PROVE  /\ d \in Decisions
         /\ d.kind = "open" =>
              /\ d.incident.id = 0 /\ d.incident.ticket = 0
              /\ d.incident.target = NoTarget <=> d.incident.key # NoKey
              /\ last = lastId => \A i \in incidents : ~SameProblem(i, d.incident)
         /\ d.kind \in {"join", "repeat"} => Row(d.incident) \in incidents
<1>1. Loaded(last) \in SUBSET Incidents
  BY LoadedType
<1>2. ASSUME d.kind = "open"
      PROVE  /\ d.incident.id = 0 /\ d.incident.ticket = 0
             /\ d.incident.target = NoTarget <=> d.incident.key # NoKey
             /\ last = lastId => \A i \in incidents : ~SameProblem(i, d.incident)
  <2>1. ~Matched(Loaded(last), s) /\ d.incident = NewIncident(s)
    BY <1>1, <1>2, TriageOpens
  <2>2. d.incident.id = 0 /\ d.incident.ticket = 0
        /\ (d.incident.target = NoTarget <=> d.incident.key # NoKey)
    BY <2>1, TriageAssumption DEF NewIncident, Signals
  <2>3. ASSUME last = lastId, NEW i \in incidents, SameProblem(i, d.incident)
        PROVE FALSE
    <3>1. PICK inc \in Loaded(last) : Row(inc) = i
      BY <2>3, LoadedRows DEF RowInv
    <3>2. inc.target = i.target /\ inc.key = i.key
      BY <3>1 DEF Row
    <3>3. i.target = s.target /\ (s.target = NoTarget => i.key = s.key)
      BY <2>1, <2>3 DEF SameProblem, NewIncident
    <3>4. SameIncident(inc, s)
      BY <3>2, <3>3 DEF SameIncident
    <3> QED BY <3>4, <2>1 DEF Matched
  <2> QED BY <2>2, <2>3
<1>3. ASSUME d.kind \in {"join", "repeat"} PROVE Row(d.incident) \in incidents
  <2>1. PICK inc \in Loaded(last) :
          d.incident = [inc EXCEPT !.members = @ \cup {Episode(s)}]
    BY <1>1, <1>3, TriageJoins
  <2>2. Row(d.incident) = Row(inc)
    BY <2>1, <1>1 DEF Row, Incidents
  <2> QED BY <2>2, LoadedRows
<1> QED BY <1>1, <1>2, <1>3, TriageType

\* A step that leaves the tables alone, and each handler either alone or
\* without a decision that could be stored.
LEMMA LeavingStep ==
  ASSUME DataInv, TxInv', TypeOK, TypeOK', Leaves
  PROVE  DataInv'
<1> USE DEF Inc
<1>1. RowInv' /\ OneIncidentPerTarget'
  BY DEF DataInv, RowInv, OneIncidentPerTarget, SameProblem, TypeOK, Faults, Leaves
<1>2. DecisionInv'
  <2> SUFFICES ASSUME NEW q \in Requests, pc'[q] \in {"save"} \cup InTx, decision'[q].kind # "drop"
               PROVE IF decision'[q].kind = "open"
                     THEN /\ Inc(q)'.id = IF pc'[q] = "save" THEN 0 ELSE lastId' + 1
                          /\ pc'[q] = "save" => Inc(q)'.ticket = 0
                          /\ Inc(q)'.target = NoTarget <=> Inc(q)'.key # NoKey
                          /\ spent'["cuts"] = 0 => \A i \in incidents' : ~SameProblem(i, Inc(q)')
                     ELSE Row(Inc(q)') \in incidents'
    BY DEF DecisionInv, SameProblem, Row
  <2>1. pc'[q] = pc[q] /\ decision'[q] = decision[q]
    BY DEF Leaves, Stays
  <2>2. spent'["cuts"] = 0 => spent["cuts"] = 0
    BY DEF TypeOK, Faults, Leaves
  <2> QED BY <2>1, <2>2 DEF DataInv, DecisionInv, Leaves
<1>3. PendingInv'
  <2> SUFFICES ASSUME NEW q \in Requests, tx'.by = q
               PROVE IF decision'[q].kind = "open"
                     THEN /\ tx'.lastId = lastId' + 1
                          /\ tx'.incidents = incidents' \cup
                               {[Row(Inc(q))' EXCEPT !.ticket =
                                   IF pc'[q] \in {"createdEntry", "commit"} THEN @ ELSE 0]}
                     ELSE tx'.lastId = lastId' /\ tx'.incidents = incidents'
    BY DEF PendingInv
  <2>1. pc'[q] = pc[q] /\ decision'[q] = decision[q]
    BY DEF TxInv, Leaves, Stays
  <2>2. tx' = tx
    BY ControlPlaneAssumption DEF NoTx, Leaves
  <2> QED BY <2>1, <2>2 DEF DataInv, PendingInv, Row, Leaves
<1> QED BY <1>1, <1>2, <1>3 DEF DataInv

\* A step of the handler in the transaction that changes neither the decision
\* nor what it would commit.
LEMMA MovingStep ==
  ASSUME DataInv, TypeOK, TypeOK', NEW r \in Requests, NEW step \in InTx,
         UNCHANGED <<incidents, members, lastId, tx, decision, spent>>,
         pc[r] \in InTx, pc' = [pc EXCEPT ![r] = step],
         decision[r].kind = "open" =>
           (pc[r] \in {"createdEntry", "commit"} <=> step \in {"createdEntry", "commit"})
  PROVE  DataInv'
<1> USE DEF Inc, Row
<1>1. RowInv' /\ OneIncidentPerTarget'
  BY DEF DataInv, RowInv, OneIncidentPerTarget, SameProblem
<1>2. DecisionInv'
  BY DEF DataInv, DecisionInv, SameProblem, TypeOK, InTx
<1>3. PendingInv'
  BY DEF DataInv, PendingInv, TypeOK
<1> QED BY <1>1, <1>2, <1>3 DEF DataInv

\* The tables keep fitting the decisions, step by step.
LEMMA DataStep ==
  ASSUME TypeOK, TypeOK', MutexInv, TxInv, TxInv', StepInv, DataInv, [Next]_vars
  PROVE  DataInv'
<1> USE DEF Goto, store
<1>a. spent' = spent => spent["cuts"] <= spent'["cuts"]
  BY DEF TypeOK, Faults
<1>0. ASSUME Leaves PROVE DataInv'
  BY <1>0, LeavingStep
<1>1. ASSUME NEW r \in Requests, AuditReceived(r) PROVE DataInv'
  BY <1>1, MovingStep DEF AuditReceived, InTx
<1>2. ASSUME NEW r \in Requests, AuditCreated(r) PROVE DataInv'
  BY <1>2, MovingStep DEF AuditCreated, InTx, StepInv
<1>3. ASSUME NEW r \in Requests, Comment(r) PROVE DataInv'
  BY <1>3, MovingStep DEF Comment, InTx, StepInv
<1>4. ASSUME NEW r \in Requests, AuditCommented(r) PROVE DataInv'
  BY <1>4, MovingStep DEF AuditCommented, InTx, StepInv
<1>5. ASSUME NEW r \in Requests, AuditDecision(r), decision[r].kind # "drop" PROVE DataInv'
  <2>1. CASE decision[r].kind = "open"
    <3>1. pc' = [pc EXCEPT ![r] = "create"]
      BY <1>5, <2>1 DEF AuditDecision, AfterDecision
    <3> QED BY <1>5, <3>1, MovingStep DEF AuditDecision, InTx
  <2>2. CASE decision[r].kind \in {"join", "repeat"}
    <3>1. PICK step \in {"comment", "commit"} : pc' = [pc EXCEPT ![r] = step]
      BY <1>5, <2>2 DEF AuditDecision, AfterDecision
    <3> QED BY <1>5, <2>2, <3>1, MovingStep DEF AuditDecision, InTx
  <2> QED BY <1>5, <2>1, <2>2 DEF TypeOK, Decisions
<1>6. ASSUME NEW r \in Requests, NEW last, pc[r] = "read", tx = NoTx, Decide(r, last),
              spent["cuts"] <= spent'["cuts"], last = lastId \/ spent'["cuts"] # 0
       PROVE  DataInv'
  <2> DEFINE d == Triage(Loaded(last), sig[r])
  <2>1. sig[r] \in Signals
    BY <1>6 DEF StepInv, Locked
  <2>2. /\ d \in Decisions
        /\ d.kind = "open" =>
             /\ d.incident.id = 0 /\ d.incident.ticket = 0
             /\ d.incident.target = NoTarget <=> d.incident.key # NoKey
             /\ last = lastId => \A i \in incidents : ~SameProblem(i, d.incident)
        /\ d.kind \in {"join", "repeat"} => Row(d.incident) \in incidents
    BY <2>1, DecisionFits DEF DataInv
  <2>3. /\ decision' = [decision EXCEPT ![r] = d]
        /\ pc' = [pc EXCEPT ![r] = IF d.kind = "drop" THEN "receivedEntry" ELSE "save"]
        /\ UNCHANGED <<incidents, members, lastId, tx>>
    BY <1>6 DEF Decide
  <2> HIDE DEF d
  <2>4. RowInv' /\ OneIncidentPerTarget'
    BY <1>6, <2>3 DEF DataInv, RowInv, OneIncidentPerTarget, SameProblem, TypeOK, Faults
  <2>5. PendingInv'
    BY <1>6, <2>3, ControlPlaneAssumption DEF PendingInv, NoTx
  <2>6. DecisionInv'
    <3> SUFFICES ASSUME NEW q \in Requests, pc'[q] \in {"save"} \cup InTx, decision'[q].kind # "drop"
                 PROVE IF decision'[q].kind = "open"
                       THEN /\ Inc(q)'.id = IF pc'[q] = "save" THEN 0 ELSE lastId' + 1
                            /\ pc'[q] = "save" => Inc(q)'.ticket = 0
                            /\ Inc(q)'.target = NoTarget <=> Inc(q)'.key # NoKey
                            /\ spent'["cuts"] = 0 => \A i \in incidents' : ~SameProblem(i, Inc(q)')
                       ELSE Row(Inc(q)') \in incidents'
      BY DEF DecisionInv, SameProblem, Row, Inc
    <3>1. CASE q = r
      <4>1. decision'[q] = d /\ d.kind # "drop" /\ pc'[q] = "save"
        BY <3>1, <2>3 DEF TypeOK
      <4> QED BY <4>1, <1>6, <2>2, <2>3 DEF Inc, Decisions
    <3>2. CASE q # r
      <4>1. decision'[q] = decision[q] /\ pc'[q] = pc[q]
        BY <3>2, <2>3 DEF TypeOK
      <4>2. spent'["cuts"] = 0 => spent["cuts"] = 0
        BY <1>6 DEF TypeOK, Faults
      <4> QED BY <4>1, <4>2, <2>3 DEF DataInv, DecisionInv, Inc
    <3> QED BY <3>1, <3>2
  <2> QED BY <2>4, <2>5, <2>6 DEF DataInv
<1>7. ASSUME NEW r \in Requests, ReadOpen(r) PROVE DataInv'
  BY <1>6, <1>7, <1>a DEF ReadOpen
<1>8. ASSUME NEW r \in Requests, ReadOpenCut(r) PROVE DataInv'
  <2>1. PICK i \in incidents : Decide(r, i.id)
    BY <1>8 DEF ReadOpenCut
  <2>2. spent["cuts"] <= spent'["cuts"] /\ spent'["cuts"] # 0
    BY <1>8 DEF ReadOpenCut, Spend, TypeOK, Faults
  <2> QED BY <1>6, <1>8, <2>1, <2>2 DEF ReadOpenCut
<1>9. ASSUME NEW r \in Requests, Save(r) PROVE DataInv'
  <2> DEFINE id == IF Inc(r).id = 0 THEN lastId + 1 ELSE Inc(r).id
  <2>1. /\ pc[r] = "save" /\ pc' = [pc EXCEPT ![r] = "receivedEntry"]
        /\ decision' = [decision EXCEPT ![r].incident.id = id]
        /\ UNCHANGED <<incidents, members, lastId, spent>>
        /\ tx'.by = r /\ tx = NoTx
    BY <1>9 DEF Save, SavedId
  <2>2. decision[r].kind # "drop" /\ Inc(r) \in Incidents /\ lastId \in Nat
    BY <2>1 DEF StepInv, TypeOK, Decisions, Inc
  <2>3. RowInv' /\ OneIncidentPerTarget'
    BY <2>1 DEF DataInv, RowInv, OneIncidentPerTarget, SameProblem
  <2>4. /\ decision'[r].kind = decision[r].kind
        /\ Inc(r)' = [Inc(r) EXCEPT !.id = id]
        /\ \A q \in Requests \ {r} : decision'[q] = decision[q] /\ pc'[q] = pc[q]
        /\ pc'[r] = "receivedEntry"
    BY <2>1 DEF TypeOK, Decisions, Inc
  <2>5. CASE decision[r].kind = "open"
    <3>1. /\ Inc(r).id = 0 /\ Inc(r).ticket = 0
          /\ Inc(r).target = NoTarget <=> Inc(r).key # NoKey
          /\ spent["cuts"] = 0 => \A i \in incidents : ~SameProblem(i, Inc(r))
      BY <2>1, <2>5 DEF DataInv, DecisionInv
    <3>2. DecisionInv'
      <4>1. \A q \in Requests \ {r} : pc[q] \notin {"save"} \cup InTx
        BY <2>1 DEF MutexInv, Locked
      <4> QED BY <4>1, <3>1, <2>1, <2>2, <2>4, <2>5 DEF DecisionInv, SameProblem, Incidents, InTx
    <3>3. /\ tx'.lastId = lastId + 1
          /\ tx'.incidents = incidents \cup {[Row(Inc(r)) EXCEPT !.id = lastId + 1]}
      BY <1>9, <3>1 DEF Save, SavedId
    <3>4. [Row(Inc(r)) EXCEPT !.id = lastId + 1] = [Row(Inc(r)') EXCEPT !.ticket = 0]
      BY <2>2, <2>4, <3>1 DEF Row, Incidents
    <3>5. PendingInv'
      BY <2>1, <2>4, <2>5, <3>3, <3>4 DEF PendingInv, Row, Inc
    <3> QED BY <2>3, <3>2, <3>5 DEF DataInv
  <2>6. CASE decision[r].kind # "open"
    <3>1. Row(Inc(r)) \in incidents
      BY <2>1, <2>2, <2>6 DEF DataInv, DecisionInv
    <3>2. Inc(r).id # 0
      BY <3>1 DEF Row, TypeOK, IncidentRows
    <3>3. Inc(r)' = Inc(r)
      BY <3>2, <2>2, <2>4 DEF Incidents
    <3>4. DecisionInv'
      <4>1. \A q \in Requests \ {r} : pc[q] \notin {"save"} \cup InTx
        BY <2>1 DEF MutexInv, Locked
      <4> QED BY <4>1, <3>1, <3>3, <2>1, <2>4, <2>6 DEF DecisionInv, Inc
    <3>5. tx'.lastId = lastId /\ tx'.incidents = incidents
      BY <1>9, <3>2 DEF Save
    <3>6. PendingInv'
      BY <2>1, <2>4, <2>6, <3>5 DEF PendingInv
    <3> QED BY <2>3, <3>4, <3>6 DEF DataInv
  <2> QED BY <2>5, <2>6
<1>10. ASSUME NEW r \in Requests, CreateTicket(r) PROVE DataInv'
  <2>1. /\ pc[r] = "create" /\ pc' = [pc EXCEPT ![r] = "setTicket"]
        /\ decision' = [decision EXCEPT ![r].incident.ticket = Len(tickets) + 1]
        /\ UNCHANGED <<incidents, members, lastId, spent, tx>>
        /\ decision[r].kind = "open" /\ Inc(r) \in Incidents
    BY <1>10 DEF CreateTicket, StepInv, TypeOK, Decisions, Inc
  <2>2. /\ decision'[r].kind = "open"
        /\ Inc(r)' = [Inc(r) EXCEPT !.ticket = Len(tickets) + 1]
        /\ \A q \in Requests \ {r} : decision'[q] = decision[q] /\ pc'[q] = pc[q]
        /\ pc'[r] = "setTicket"
    BY <2>1 DEF TypeOK, Decisions, Inc
  <2>3. RowInv' /\ OneIncidentPerTarget'
    BY <2>1 DEF DataInv, RowInv, OneIncidentPerTarget, SameProblem
  <2>4. \A q \in Requests \ {r} : pc[q] \notin {"save"} \cup InTx /\ tx.by # q
    BY <2>1 DEF MutexInv, Locked, InTx, TxInv
  <2>5. DecisionInv'
    BY <2>1, <2>2, <2>4 DEF DataInv, DecisionInv, SameProblem, Incidents, InTx
  <2>6. [Row(Inc(r)) EXCEPT !.ticket = 0] = [Row(Inc(r)') EXCEPT !.ticket = 0]
    BY <2>1, <2>2 DEF Row, Incidents
  <2>7. PendingInv'
    BY <2>1, <2>2, <2>4, <2>6 DEF DataInv, PendingInv, Row, Inc
  <2> QED BY <2>3, <2>5, <2>7 DEF DataInv
<1>11. ASSUME NEW r \in Requests, SetTicket(r) PROVE DataInv'
  <2> DEFINE new(i) == IF i.id = Inc(r).id THEN [i EXCEPT !.ticket = Inc(r).ticket] ELSE i
             row(n) == [Row(Inc(r)) EXCEPT !.ticket = n]
  <2>1. /\ pc[r] = "setTicket" /\ pc' = [pc EXCEPT ![r] = "createdEntry"]
        /\ UNCHANGED <<incidents, members, lastId, spent, decision>>
        /\ decision[r].kind = "open" /\ Inc(r) \in Incidents
        /\ tx.by = r
    BY <1>11 DEF SetTicket, StepInv, TypeOK, Decisions, Inc, TxInv, InTx
  <2>2. tx.incidents = incidents \cup {row(0)} /\ tx.lastId = lastId + 1
    BY <2>1 DEF DataInv, PendingInv
  <2>3. /\ Inc(r).id = lastId + 1 /\ lastId \in Nat
        /\ \A i \in incidents : i.id <= lastId /\ i.id \in Nat
    BY <2>1 DEF DataInv, DecisionInv, RowInv, InTx, TypeOK, IncidentRows
  <2>4. (\A i \in incidents : new(i) = i) /\ new(row(0)) = row(Inc(r).ticket)
    <3>1. \A i \in incidents : i.id # Inc(r).id
      BY <2>3
    <3>2. row(0).id = Inc(r).id
      BY DEF Row
    <3>3. [row(0) EXCEPT !.ticket = Inc(r).ticket] = row(Inc(r).ticket)
      BY DEF Row
    <3> QED BY <3>1, <3>2, <3>3
  <2>5. {new(i) : i \in tx.incidents} = incidents \cup {row(Inc(r).ticket)}
    <3> HIDE DEF new, row
    <3> QED BY <2>2, <2>4
  <2>6. /\ tx'.incidents = incidents \cup {row(Inc(r).ticket)}
        /\ tx'.lastId = tx.lastId /\ tx'.by = r
    <3>1. tx' = [tx EXCEPT !.incidents = {new(i) : i \in tx.incidents}]
      BY <1>11 DEF SetTicket
    <3>2. tx \in Transactions
      BY <2>1, ControlPlaneAssumption DEF TypeOK, NoTx
    <3> HIDE DEF new, row
    <3> QED BY <3>1, <3>2, <2>1, <2>5 DEF Transactions
  <2>7. RowInv' /\ OneIncidentPerTarget'
    BY <2>1 DEF DataInv, RowInv, OneIncidentPerTarget, SameProblem
  <2>8. DecisionInv'
    BY <2>1 DEF DataInv, DecisionInv, SameProblem, TypeOK, InTx, Inc, Row
  <2>9. PendingInv'
    BY <2>1, <2>2, <2>6 DEF PendingInv, TypeOK, Row, Inc
  <2> QED BY <2>7, <2>8, <2>9 DEF DataInv
<1>12. ASSUME NEW r \in Requests, Commit(r) PROVE DataInv'
  <2>1. /\ pc[r] = "commit" /\ pc' = [pc EXCEPT ![r] = "launch"]
        /\ UNCHANGED <<spent, decision>>
        /\ decision[r].kind # "drop" /\ Inc(r) \in Incidents
        /\ tx.by = r /\ tx' = NoTx
        /\ incidents' = tx.incidents /\ lastId' = tx.lastId
    BY <1>12 DEF Commit, StepInv, TypeOK, Decisions, Inc, TxInv, InTx
  <2>2. PendingInv'
    BY <2>1, ControlPlaneAssumption DEF PendingInv, NoTx
  <2>3. DecisionInv'
    <3>1. \A q \in Requests : pc'[q] \notin {"save"} \cup InTx
      BY <2>1 DEF MutexInv, Locked, InTx, TypeOK
    <3> QED BY <3>1 DEF DecisionInv
  <2>4. CASE decision[r].kind = "open"
    <3>1. incidents' = incidents \cup {Row(Inc(r))} /\ lastId' = lastId + 1
      <4>1. Row(Inc(r)) = [Row(Inc(r)) EXCEPT !.ticket = Inc(r).ticket]
        BY DEF Row
      <4> QED BY <4>1, <2>1, <2>4 DEF DataInv, PendingInv, Row
    <3>2. /\ Inc(r).id = lastId + 1
          /\ Inc(r).target = NoTarget <=> Inc(r).key # NoKey
          /\ spent["cuts"] = 0 => \A i \in incidents : ~SameProblem(i, Inc(r))
      BY <2>1, <2>4 DEF DataInv, DecisionInv, InTx
    <3>3. RowInv'
      <4>1. PICK row : row = Row(Inc(r))
        OBVIOUS
      <4>2. row.id = lastId + 1 /\ (row.target = NoTarget <=> row.key # NoKey)
        BY <3>2, <4>1 DEF Row
      <4>3. lastId \in Nat /\ \A i \in incidents : i.id \in Nat
        BY DEF TypeOK, IncidentRows
      <4>4. /\ \A i \in incidents : i.id <= lastId /\ (i.target = NoTarget <=> i.key # NoKey)
            /\ \A i, j \in incidents : i.id = j.id => i = j
        BY DEF DataInv, RowInv
      <4>5. incidents' = incidents \cup {row}
        BY <3>1, <4>1
      <4> QED BY <3>1, <4>2, <4>3, <4>4, <4>5 DEF RowInv
    <3>4. OneIncidentPerTarget'
      BY <2>1, <3>1, <3>2 DEF DataInv, OneIncidentPerTarget, SameProblem, Row
    <3> QED BY <2>2, <2>3, <3>3, <3>4 DEF DataInv
  <2>5. CASE decision[r].kind # "open"
    <3>1. incidents' = incidents /\ lastId' = lastId
      BY <2>1, <2>5 DEF DataInv, PendingInv
    <3> QED BY <2>1, <2>2, <2>3, <3>1 DEF DataInv, RowInv, OneIncidentPerTarget, SameProblem
  <2> QED BY <2>4, <2>5
<1> QED
  BY <1>0, <1>1, <1>2, <1>3, <1>4, <1>5, <1>7, <1>8, <1>9, <1>10, <1>11, <1>12,
     StepKinds DEF Advances

-----------------------------------------------------------------------------
(* Theorems.                                                               *)

\* The inductive invariant holds at the start and is kept by every step.
LEMMA IndInvInit == Init => IndInv
<1> SUFFICES ASSUME Init PROVE IndInv
  OBVIOUS
<1>1. NoDecision \in Decisions
  BY DEF NoDecision, Decisions, NoIncident, Incidents
<1>2. /\ <<>> \in Seq(Signals \cup {Unmappable}) /\ <<>> \in Seq(Entries)
      /\ <<>> \in Seq([incident: Nat, shown: SUBSET Episodes])
  OBVIOUS
<1>3. TypeOK
  BY <1>1, <1>2 DEF Init, TypeOK, Steps, Faults
<1>4. MutexInv /\ TxInv /\ StepInv
  BY ControlPlaneAssumption DEF Init, MutexInv, TxInv, StepInv, NoTx, Locked, InTx
<1>5. DataInv
  BY ControlPlaneAssumption DEF Init, DataInv, RowInv, DecisionInv, PendingInv,
     OneIncidentPerTarget, NoTx, InTx
<1> QED BY <1>3, <1>4, <1>5 DEF IndInv

\* The inductive invariant: a handler past Lock is alone there, and what it
\* decided on what it read still fits what is stored.
THEOREM Invariance == Spec => []IndInv
<1>1. Init => IndInv
  BY IndInvInit
<1>2. IndInv /\ [Next]_vars => IndInv'
  <2> SUFFICES ASSUME IndInv, [Next]_vars PROVE IndInv'
    OBVIOUS
  <2> USE DEF IndInv
  <2>1. TypeOK'
    BY TypeStep
  <2>2. MutexInv' /\ TxInv' /\ StepInv'
    BY <2>1, ControlStep
  <2>3. DataInv'
    BY <2>1, <2>2, DataStep
  <2> QED BY <2>1, <2>2, <2>3
<1> QED BY <1>1, <1>2, PTL DEF Spec

\* The variables of the Signal path keep their types.
THEOREM TypeCorrect == Spec => []TypeOK
<1>1. IndInv => TypeOK
  BY DEF IndInv
<1> QED BY <1>1, Invariance, PTL

\* Handlers exclude each other between reading the open Incidents and the end
\* of the transaction: this is what Server.mu is for.
THEOREM MutualExclusion == Spec => []MutexInv
<1>1. IndInv => MutexInv
  BY DEF IndInv
<1> QED BY <1>1, Invariance, PTL

\* "at most one per Target (or per key when there is no Target)", as long as no
\* read of the Incidents was cut short, for any number of handlers, requests,
\* failed calls, hang-ups, crashes and retries.
THEOREM AtMostOneIncident == Spec => []OneIncidentPerTarget
<1>1. IndInv => OneIncidentPerTarget
  BY DEF IndInv, DataInv
<1> QED BY <1>1, Invariance, PTL

-----------------------------------------------------------------------------
(* What only grows.                                                        *)

\* A step writes at most one audit entry.
LEMMA LogStep ==
  ASSUME [Next]_vars
  PROVE  \/ audit' = audit
         \/ \E e : audit' = Append(audit, e)
<1> DEFINE G == audit' = audit \/ \E e : audit' = Append(audit, e)
<1>1. \A type, i, s, ref : Log(type, i, s, ref) => G
  BY DEF Log
<1> HIDE DEF G
<1>2. ASSUME NEW r \in Requests, HandlerStep(r) PROVE G
  <2>1. CASE Refuse(r) \/ Unreadable(r) \/ Accept(r) \/ DropAlert(r) \/ TakeAlert(r) \/ AnswerOK(r)
    BY <2>1, <1>1 DEF G, Refuse, Unreadable, Accept, DropAlert, TakeAlert, AnswerOK
  <2>2. CASE Lock(r) \/ ReadOpen(r) \/ Save(r) \/ AuditReceived(r) \/ AuditDecision(r)
    BY <2>2, <1>1 DEF G, Lock, ReadOpen, Decide, Save, AuditReceived, AuditDecision
  <2>3. CASE CreateTicket(r) \/ SetTicket(r) \/ AuditCreated(r) \/ Comment(r) \/ AuditCommented(r)
    BY <2>3, <1>1 DEF G, CreateTicket, SetTicket, AuditCreated, Comment, AuditCommented
  <2>4. CASE Commit(r) \/ Launch(r) \/ Cancelled(r)
    BY <2>4 DEF G, Commit, Launch, Cancelled
  <2> QED BY <1>2, <2>1, <2>2, <2>3, <2>4 DEF HandlerStep
<1>3. ASSUME NEW r \in Requests, FaultStep(r) PROVE G
  BY <1>3 DEF G, FaultStep, HangUp, RefuseUnaudited, ReadOpenCut, Decide, Fail, LostReply
<1>4. ASSUME NEW r \in Requests, NEW b \in Bodies, Post(r, b) \/ Renotify(b) PROVE G
  BY <1>4 DEF G, Post, Renotify
<1>5. ASSUME NEW b \in Bodies, Renotify(b) PROVE G
  BY <1>5 DEF G, Renotify
<1>6. ASSUME NEW i \in running, InvestigationEnds(i) PROVE G
  BY <1>6, <1>1 DEF InvestigationEnds
<1>7. ASSUME Crash \/ UNCHANGED vars PROVE G
  BY <1>7 DEF G, Crash, vars
<1> QED BY <1>2, <1>3, <1>4, <1>5, <1>6, <1>7 DEF Next, G

\* What is in the audit log stays there.
LEMMA LogGrows ==
  ASSUME TypeOK, TypeOK', [Next]_vars
  PROVE  /\ Len(audit) \in Nat /\ Len(audit') \in Nat /\ Len(audit) <= Len(audit')
         /\ DOMAIN audit = 1..Len(audit) /\ DOMAIN audit' = 1..Len(audit')
         /\ \A n \in DOMAIN audit : n \in DOMAIN audit' /\ audit'[n] = audit[n]
<1>1. audit \in Seq(Entries) /\ audit' \in Seq(Entries)
  BY DEF TypeOK
<1>2. CASE audit' = audit
  BY <1>1, <1>2
<1>3. ASSUME NEW e, audit' = Append(audit, e)
      PROVE  /\ Len(audit) \in Nat /\ Len(audit') \in Nat /\ Len(audit) <= Len(audit')
             /\ DOMAIN audit = 1..Len(audit) /\ DOMAIN audit' = 1..Len(audit')
             /\ \A n \in DOMAIN audit : n \in DOMAIN audit' /\ audit'[n] = audit[n]
  BY <1>1, <1>3
<1> QED BY <1>2, <1>3, LogStep

\* The steps that write to the ticketing service.
LEMMA TicketWriters ==
  ASSUME [Next]_vars
  PROVE  tickets' = tickets \/ \E r \in Requests : CreateTicket(r) \/ Comment(r) \/ LostReply(r)
<1> DEFINE G == tickets' = tickets \/ \E r \in Requests : CreateTicket(r) \/ Comment(r) \/ LostReply(r)
<1>2. ASSUME NEW r \in Requests, HandlerStep(r) PROVE G
  <2>1. CASE Refuse(r) \/ Unreadable(r) \/ Accept(r) \/ DropAlert(r) \/ TakeAlert(r) \/ AnswerOK(r)
    BY <2>1 DEF Refuse, Unreadable, Accept, DropAlert, TakeAlert, AnswerOK
  <2>2. CASE Lock(r) \/ ReadOpen(r) \/ Save(r) \/ AuditReceived(r) \/ AuditDecision(r)
    BY <2>2 DEF Lock, ReadOpen, Decide, Save, AuditReceived, AuditDecision
  <2>3. CASE CreateTicket(r) \/ SetTicket(r) \/ AuditCreated(r) \/ Comment(r) \/ AuditCommented(r)
    BY <2>3 DEF SetTicket, AuditCreated, AuditCommented
  <2>4. CASE Commit(r) \/ Launch(r) \/ Cancelled(r)
    BY <2>4 DEF Commit, Launch, Cancelled
  <2> QED BY <1>2, <2>1, <2>2, <2>3, <2>4 DEF HandlerStep
<1>3. ASSUME NEW r \in Requests, FaultStep(r) PROVE G
  BY <1>3 DEF FaultStep, HangUp, RefuseUnaudited, ReadOpenCut, Decide, Fail
<1>4. ASSUME NEW r \in Requests, NEW b \in Bodies, Post(r, b) PROVE G
  BY <1>4 DEF Post
<1>5. ASSUME NEW b \in Bodies, Renotify(b) PROVE G
  BY <1>5 DEF Renotify
<1>6. ASSUME NEW i \in running, InvestigationEnds(i) PROVE G
  BY <1>6 DEF InvestigationEnds
<1>7. ASSUME Crash \/ UNCHANGED vars PROVE G
  BY <1>7 DEF Crash, vars
<1> QED BY <1>2, <1>3, <1>4, <1>5, <1>6, <1>7 DEF Next

\* A step writes at most one ticket or one comment, and what for.
LEMMA TicketStep ==
  ASSUME [Next]_vars
  PROVE  \/ tickets' = tickets
         \/ \E r \in Requests : \/ pc[r] = "create" /\ tickets' = Created(r)
                                \/ pc[r] = "comment" /\ tickets' = Commented(r)
BY TicketWriters DEF CreateTicket, Comment, LostReply

\* A ticket stays, is always about the same Incident, and shows what it showed;
\* a new one is written by a handler for the Incident it opens.
LEMMA TicketsGrow ==
  ASSUME TypeOK, TypeOK', StepInv, [Next]_vars
  PROVE  /\ DOMAIN tickets = 1..Len(tickets) /\ Len(tickets) \in Nat
         /\ \A n \in DOMAIN tickets :
              /\ n \in DOMAIN tickets' /\ tickets'[n].incident = tickets[n].incident
              /\ tickets[n].shown \subseteq tickets'[n].shown
         /\ \A n \in DOMAIN tickets' \ DOMAIN tickets :
              /\ n = Len(tickets) + 1
              /\ \E r \in Requests : /\ pc[r] = "create" /\ tickets' = Created(r)
                                     /\ tickets'[n] = [incident |-> Inc(r).id, shown |-> Inc(r).members]
<1> DEFINE T == [incident: Nat, shown: SUBSET Episodes]
<1>1. tickets \in Seq(T) /\ tickets' \in Seq(T)
  BY DEF TypeOK
<1>2. DOMAIN tickets = 1..Len(tickets) /\ Len(tickets) \in Nat
  BY <1>1
<1>3. CASE tickets' = tickets
  BY <1>2, <1>3
<1>4. ASSUME NEW r \in Requests, pc[r] = "create", tickets' = Created(r)
      PROVE  /\ \A n \in DOMAIN tickets : n \in DOMAIN tickets' /\ tickets'[n] = tickets[n]
             /\ \A n \in DOMAIN tickets' \ DOMAIN tickets :
                  n = Len(tickets) + 1
                  /\ tickets'[n] = [incident |-> Inc(r).id, shown |-> Inc(r).members]
  <2>1. [incident |-> Inc(r).id, shown |-> Inc(r).members] \in T
    BY DEF TypeOK, Decisions, Inc, Incidents
  <2> HIDE DEF T
  <2>2. /\ Len(tickets') = Len(tickets) + 1
        /\ \A n \in 1..Len(tickets) : tickets'[n] = tickets[n]
        /\ tickets'[Len(tickets) + 1] = [incident |-> Inc(r).id, shown |-> Inc(r).members]
    BY <1>1, <1>4, <2>1, AppendProperties DEF Created
  <2>3. DOMAIN tickets' = 1..Len(tickets')
    BY <1>1
  <2> QED BY <1>2, <2>2, <2>3
<1>5. ASSUME NEW r \in Requests, tickets' = Commented(r)
      PROVE  /\ DOMAIN tickets' = DOMAIN tickets
             /\ \A n \in DOMAIN tickets :
                  /\ tickets'[n].incident = tickets[n].incident
                  /\ tickets[n].shown \subseteq tickets'[n].shown
  <2>1. \A n \in DOMAIN tickets : tickets[n] \in T
    <3> HIDE DEF T
    <3> QED BY <1>1, <1>2, ElementOfSeq
  <2> QED BY <1>5, <2>1 DEF Commented
<1> HIDE DEF T
<1> QED BY <1>2, <1>3, <1>4, <1>5, TicketStep

\* While a handler advances it is alone past Lock, and only its own step, its
\* decision and the transaction change.
LEMMA Alone ==
  ASSUME TypeOK, MutexInv, NEW r \in Requests, Advances(r)
  PROVE  /\ \A q \in Requests \ {r} : Stays(q) /\ pc[q] \notin Locked
         /\ UNCHANGED <<sig, body, todo, hungup, running, investigated, source>>
         /\ pc[r] \in Locked \ {"launch"} /\ pc'[r] \in {"save", "launch"} \cup InTx
<1> USE DEF Goto, Stays, Locked, InTx
<1>1. \A q \in Requests \ {r} : Stays(q)
  BY DEF Advances, ReadOpen, ReadOpenCut, Decide, Save, AuditReceived, AuditDecision, CreateTicket,
         SetTicket, AuditCreated, Comment, AuditCommented, Commit, TypeOK
<1>2. UNCHANGED <<sig, body, todo, hungup, running, investigated, source>>
  BY DEF Advances, ReadOpen, ReadOpenCut, Decide, Save, AuditReceived, AuditDecision, CreateTicket,
         SetTicket, AuditCreated, Comment, AuditCommented, Commit
<1>3. pc[r] \in Locked \ {"launch"}
  BY DEF Advances, ReadOpen, ReadOpenCut, Save, AuditReceived, AuditDecision, CreateTicket,
         SetTicket, AuditCreated, Comment, AuditCommented, Commit
<1>4. pc'[r] \in {"save", "launch"} \cup InTx
  BY DEF Advances, ReadOpen, ReadOpenCut, Decide, Save, AuditReceived, AuditDecision, AfterDecision,
         CreateTicket, SetTicket, AuditCreated, Comment, AuditCommented, Commit, TypeOK, Decisions
<1>5. \A q \in Requests \ {r} : pc[q] \notin Locked
  BY <1>3 DEF MutexInv
<1> QED BY <1>1, <1>2, <1>3, <1>4, <1>5

\* Rows and members are never taken back.
LEMMA RowsGrow ==
  ASSUME IndInv, TxMembersInv, [Next]_vars
  PROVE  /\ incidents \subseteq incidents' /\ members \subseteq members'
         /\ spent["cuts"] <= spent'["cuts"]
<1> USE DEF IndInv
<1>1. CASE Leaves
  BY <1>1 DEF Leaves, TypeOK, Faults
<1>2. ASSUME NEW r \in Requests, Advances(r)
      PROVE  /\ incidents \subseteq incidents' /\ members \subseteq members'
             /\ spent["cuts"] <= spent'["cuts"]
  <2>1. spent' = spent => spent["cuts"] <= spent'["cuts"]
    BY DEF TypeOK, Faults
  <2>2. CASE Commit(r)
    <3>1. tx.by = r /\ incidents' = tx.incidents /\ members' = tx.members
      BY <2>2 DEF Commit, TxInv, StepInv, InTx
    <3> QED BY <2>1, <2>2, <3>1 DEF Commit, DataInv, PendingInv, TxMembersInv
  <2>3. CASE ReadOpenCut(r)
    BY <2>3, SpendType DEF ReadOpenCut, Decide, store, Faults
  <2>4. CASE ~Commit(r) /\ ~ReadOpenCut(r)
    BY <1>2, <2>1, <2>4 DEF Advances, ReadOpen, Decide, Save, AuditReceived, AuditDecision,
       CreateTicket, SetTicket, AuditCreated, Comment, AuditCommented, store
  <2> QED BY <2>2, <2>3, <2>4
<1> QED BY <1>1, <1>2, StepKinds

-----------------------------------------------------------------------------
(* What a Signal leaves in the tables.                                     *)

\* The Signal a handler is busy with is one of a body that was let in.
LEMMA BusyKnown ==
  ASSUME TypeOK, BodyInv, NEW r \in Requests, pc[r] \in Busy, sig[r] \in Signals
  PROVE  sig[r] \in KnownSignals /\ Episode(sig[r]) \in KnownEpisodes
<1> DEFINE b == body[r]
<1>1. b \in Bodies /\ b.form \in {"alerts", "truncated"} /\ sig[r] = b.alerts[Taken(r)]
      /\ Taken(r) \in Nat /\ Taken(r) > 0
  BY DEF BodyInv, Busy, Locked, InTx
<1>2. Taken(r) \in DOMAIN b.alerts
  <2>1. b.alerts \in Seq(Signals \cup {Unmappable}) /\ todo[r] \in Seq(Signals \cup {Unmappable})
    BY <1>1, ControlPlaneAssumption DEF TypeOK
  <2>2. /\ Len(todo[r]) \in Nat /\ Len(b.alerts) \in Nat
        /\ DOMAIN b.alerts = 1..Len(b.alerts)
    BY <2>1, LenProperties
  <2>3. Taken(r) <= Len(body[r].alerts)
    <3>1. \A x, y \in Nat : x - y <= x
      OBVIOUS
    <3> HIDE DEF b
    <3>2. Len(todo[r]) \in Nat /\ Len(body[r].alerts) \in Nat
      BY <2>2 DEF b
    <3> QED BY <3>1, <3>2 DEF Taken
  <2> QED BY <1>1, <2>2, <2>3
<1>3. sig[r] # Unmappable
  BY ControlPlaneAssumption
<1>4. sig[r] \in KnownSignals
  BY <1>1, <1>2, <1>3 DEF KnownSignals
<1> QED BY <1>4 DEF KnownEpisodes

\* The members of what OpenIncidents returns are stored members, and when it is
\* not cut short each is a member of the Incident it is returned with.
LEMMA LoadedMembers ==
  ASSUME TypeOK, RowInv, MemberInv, NEW last, NEW inc \in Loaded(last), NEW e \in inc.members
  PROVE  /\ \E m \in members : Episode(m) = e
         /\ last = lastId => Member(inc.id, e) \in members
<1>1. PICK m \in members : e = Episode(m) /\ (m.incident = inc.id \/ m.incident > last)
  BY DEF Loaded, Episode
<1>2. m = Member(m.incident, e)
  BY <1>1 DEF Member, Episode, TypeOK, MemberRows
<1>3. m.incident <= lastId
  BY DEF MemberInv, RowInv
<1>4. m.incident \in Nat /\ lastId \in Nat
  BY DEF TypeOK, MemberRows
<1> QED BY <1>1, <1>2, <1>3, <1>4

\* A decision is about the Signal, and brings no other episode to an Incident.
LEMMA DecisionAbout ==
  ASSUME TypeOK, RowInv, MemberInv, NEW s \in Signals, Episode(s) \in KnownEpisodes, NEW last,
         NEW d, d = Triage(Loaded(last), s)
  PROVE  /\ d.kind = "drop" => s.status # "firing"
         /\ d.kind # "drop" =>
              /\ SameIncident(d.incident, s) /\ Episode(s) \in d.incident.members
              /\ d.incident.members \subseteq KnownEpisodes
         /\ d.kind = "open" => d.incident.members = {Episode(s)}
         /\ d.kind \in {"join", "repeat"} /\ last = lastId =>
              \A e \in d.incident.members :
                Member(d.incident.id, e) \in members \/ (d.kind = "join" /\ e = Episode(s))
<1>1. Loaded(last) \in SUBSET Incidents /\ d \in Decisions
  BY LoadedType, TriageType
<1>2. CASE d.kind = "drop"
  BY <1>2, TriageDrops
<1>3. CASE d.kind = "open"
  <2>1. d.incident = NewIncident(s)
    BY <1>1, <1>3, TriageOpens
  <2> QED BY <1>3, <2>1 DEF NewIncident, SameIncident
<1>4. CASE d.kind \in {"join", "repeat"}
  <2>1. PICK inc \in Loaded(last) :
          /\ SameIncident(inc, s)
          /\ d.incident = [inc EXCEPT !.members = @ \cup {Episode(s)}]
          /\ d.kind = "repeat" => Episode(s) \in inc.members
    BY <1>1, <1>4, TriageJoins
  <2>2. /\ d.incident.id = inc.id /\ d.incident.target = inc.target /\ d.incident.key = inc.key
        /\ d.incident.members = inc.members \cup {Episode(s)}
    BY <1>1, <2>1 DEF Incidents
  <2>3. \A e \in inc.members : e \in KnownEpisodes /\ (last = lastId => Member(inc.id, e) \in members)
    BY LoadedMembers DEF MemberInv
  <2> QED BY <1>4, <2>1, <2>2, <2>3 DEF SameIncident
<1> QED BY <1>1, <1>2, <1>3, <1>4 DEF Decisions

\* The tables, the decision and the transaction go on fitting each other.
LEMMA TableStep ==
  ASSUME IndInv, IndInv', TableInv, BodyInv, [Next]_vars
  PROVE  TableInv'
<1> USE DEF IndInv
<1>0. /\ incidents \subseteq incidents' /\ members \subseteq members'
      /\ spent["cuts"] <= spent'["cuts"] /\ (spent'["cuts"] = 0 => spent["cuts"] = 0)
  <2>1. spent["cuts"] \in Nat /\ spent'["cuts"] \in Nat
    BY DEF TypeOK, Faults
  <2> QED BY <2>1, RowsGrow DEF TableInv
<1>1. CASE Leaves
  <2>1. /\ UNCHANGED <<incidents, members>>
        /\ \A q \in Requests : Stays(q) \/ pc'[q] \notin {"save", "launch"} \cup InTx
    BY <1>1 DEF Leaves
  <2>2. MemberInv' /\ AboutInv' /\ StoredInv'
    BY <1>0, <2>1 DEF TableInv, MemberInv, AboutInv, StoredInv, Stays, Inc, InTx
  <2>3. \A q \in Requests : tx'.by = q => tx' = tx /\ Stays(q)
    BY <1>1, ControlPlaneAssumption DEF Leaves, NoTx, TxInv
  <2>4. TxMembersInv'
    BY <2>1, <2>3 DEF TableInv, TxMembersInv, Stays, Inc
  <2> QED BY <2>2, <2>4 DEF TableInv
<1>2. ASSUME NEW r \in Requests, Advances(r), UNCHANGED <<incidents, members>>,
             \* what the step must see to of its own handler
             pc'[r] \in {"save"} \cup InTx,
             pc'[r] \in InTx /\ decision'[r].kind = "drop" => sig[r].status # "firing",
             decision'[r].kind # "drop" =>
               /\ SameIncident(Inc(r)', sig[r]) /\ Episode(sig[r]) \in Inc(r)'.members
               /\ Inc(r)'.members \subseteq KnownEpisodes
               /\ decision'[r].kind = "open" => Inc(r)'.members = {Episode(sig[r])}
               /\ spent'["cuts"] = 0 /\ decision'[r].kind # "open" =>
                    \A e \in Inc(r)'.members :
                      \/ Member(Inc(r)'.id, e) \in members
                      \/ decision'[r].kind = "join" /\ e = Episode(sig[r]),
             tx'.by = r => tx'.members = members \cup {Member(Inc(r)'.id, e) : e \in Inc(r)'.members}
      PROVE  TableInv'
  <2>1. \A q \in Requests \ {r} : Stays(q) /\ pc[q] \notin Locked
    BY <1>2, Alone
  <2>2. UNCHANGED sig
    BY <1>2, Alone
  <2>3. MemberInv'
    BY <1>2 DEF TableInv, MemberInv
  <2>4. AboutInv'
    BY <1>2, <2>1, <2>2 DEF AboutInv, Stays, Locked
  <2>5. StoredInv'
    BY <1>2, <2>1 DEF StoredInv, Stays, Locked, InTx
  <2>6. TxMembersInv'
    BY <1>2, <2>1 DEF TxMembersInv, TxInv, Stays, Locked
  <2> QED BY <2>3, <2>4, <2>5, <2>6 DEF TableInv
<1>3. ASSUME NEW r \in Requests, NEW last, pc[r] = "read", tx = NoTx, Decide(r, last),
             Advances(r), last = lastId \/ spent'["cuts"] # 0
      PROVE  TableInv'
  <2> DEFINE d == Triage(Loaded(last), sig[r])
  <2>1. sig[r] \in Signals /\ pc[r] \in Busy
    BY <1>3 DEF StepInv, Locked, Busy
  <2>2. /\ d.kind = "drop" => sig[r].status # "firing"
        /\ d.kind # "drop" =>
             /\ SameIncident(d.incident, sig[r]) /\ Episode(sig[r]) \in d.incident.members
             /\ d.incident.members \subseteq KnownEpisodes
        /\ d.kind = "open" => d.incident.members = {Episode(sig[r])}
        /\ d.kind \in {"join", "repeat"} /\ last = lastId =>
             \A e \in d.incident.members :
               Member(d.incident.id, e) \in members \/ (d.kind = "join" /\ e = Episode(sig[r]))
    BY <2>1, BusyKnown, DecisionAbout DEF DataInv, TableInv
  <2>3. d \in Decisions
    BY <2>1, LoadedType, TriageType
  <2>4. /\ decision' = [decision EXCEPT ![r] = d] /\ UNCHANGED <<incidents, members, tx>>
        /\ pc' = [pc EXCEPT ![r] = IF d.kind = "drop" THEN "receivedEntry" ELSE "save"]
    BY <1>3 DEF Decide, store, Goto
  <2> HIDE DEF d
  <2>5. decision'[r] = d /\ Inc(r)' = d.incident
    BY <2>4 DEF TypeOK, Inc
  <2>6. pc'[r] = (IF d.kind = "drop" THEN "receivedEntry" ELSE "save") /\ tx'.by # r
    BY <1>3, <2>4, ControlPlaneAssumption DEF TypeOK, NoTx
  <2>7. d.kind \in {"open", "join", "repeat", "drop"}
    BY <2>3 DEF Decisions
  <2> QED BY <1>2, <1>3, <2>2, <2>4, <2>5, <2>6, <2>7 DEF InTx
<1>4. ASSUME NEW r \in Requests, ReadOpen(r) PROVE TableInv'
  BY <1>3, <1>4 DEF ReadOpen, Advances
<1>5. ASSUME NEW r \in Requests, ReadOpenCut(r) PROVE TableInv'
  <2>1. PICK i \in incidents : Decide(r, i.id)
    BY <1>5 DEF ReadOpenCut
  <2>2. spent'["cuts"] # 0
    BY <1>5 DEF ReadOpenCut, Spend, TypeOK, Faults
  <2> QED BY <1>3, <1>5, <2>1, <2>2 DEF ReadOpenCut, Advances
<1>6. ASSUME NEW r \in Requests, Save(r) PROVE TableInv'
  <2>1. decision[r].kind # "drop" /\ Inc(r) \in Incidents
    BY <1>6 DEF Save, StepInv, TypeOK, Decisions, Inc
  <2>2. /\ decision'[r].kind = decision[r].kind
        /\ Inc(r)' = [Inc(r) EXCEPT !.id = SavedId(r)]
    BY <1>6 DEF Save, TypeOK, Decisions, Inc
  <2>3. decision[r].kind # "open" => SavedId(r) = Inc(r).id
    <3>1. ASSUME decision[r].kind # "open" PROVE Row(Inc(r)) \in incidents
      BY <1>6, <2>1, <3>1 DEF Save, DataInv, DecisionInv
    <3> QED BY <3>1 DEF Row, TypeOK, IncidentRows, SavedId
  <2>4. /\ Inc(r)'.members = Inc(r).members /\ Inc(r)'.id = SavedId(r)
        /\ Inc(r)'.target = Inc(r).target /\ Inc(r)'.key = Inc(r).key
    BY <2>1, <2>2 DEF Incidents
  <2>5. tx'.members = members \cup {Member(SavedId(r), e) : e \in Inc(r).members}
    BY <1>6 DEF Save
  <2>6. /\ SameIncident(Inc(r), sig[r]) /\ Episode(sig[r]) \in Inc(r).members
        /\ Inc(r).members \subseteq KnownEpisodes
        /\ decision[r].kind = "open" => Inc(r).members = {Episode(sig[r])}
        /\ spent["cuts"] = 0 /\ decision[r].kind # "open" =>
             \A e \in Inc(r).members :
               \/ Member(Inc(r).id, e) \in members
               \/ decision[r].kind = "join" /\ e = Episode(sig[r])
    BY <1>6, <2>1 DEF Save, TableInv, AboutInv
  <2>7. /\ UNCHANGED <<incidents, members>> /\ Advances(r) /\ pc'[r] = "receivedEntry"
        /\ spent' = spent
    BY <1>6 DEF Save, store, Goto, TypeOK, Advances
  <2>8. /\ decision'[r].kind # "drop" /\ pc'[r] \in {"save"} \cup InTx
        /\ SameIncident(Inc(r)', sig[r]) /\ Episode(sig[r]) \in Inc(r)'.members
        /\ Inc(r)'.members \subseteq KnownEpisodes
        /\ decision'[r].kind = "open" => Inc(r)'.members = {Episode(sig[r])}
    BY <2>1, <2>2, <2>4, <2>6, <2>7 DEF SameIncident, InTx
  <2>9. spent'["cuts"] = 0 /\ decision'[r].kind # "open" =>
          \A e \in Inc(r)'.members :
            \/ Member(Inc(r)'.id, e) \in members
            \/ decision'[r].kind = "join" /\ e = Episode(sig[r])
    BY <2>2, <2>3, <2>4, <2>6, <2>7
  <2>10. tx'.members = members \cup {Member(Inc(r)'.id, e) : e \in Inc(r)'.members}
    BY <2>4, <2>5
  <2> QED BY <1>2, <2>7, <2>8, <2>9, <2>10
\* A step inside the transaction keeps the decision but for the ticket.
<1>7. ASSUME NEW r \in Requests, Advances(r), UNCHANGED <<incidents, members>>, pc[r] \in InTx,
             pc'[r] \in InTx, decision'[r].kind = decision[r].kind,
             Inc(r)'.id = Inc(r).id, Inc(r)'.target = Inc(r).target, Inc(r)'.key = Inc(r).key,
             Inc(r)'.members = Inc(r).members, tx'.by = tx.by, tx'.members = tx.members
      PROVE  TableInv'
  <2>1. /\ decision[r].kind = "drop" => sig[r].status # "firing"
        /\ decision[r].kind # "drop" =>
             /\ SameIncident(Inc(r), sig[r]) /\ Episode(sig[r]) \in Inc(r).members
             /\ Inc(r).members \subseteq KnownEpisodes
             /\ decision[r].kind = "open" => Inc(r).members = {Episode(sig[r])}
             /\ spent["cuts"] = 0 /\ decision[r].kind # "open" =>
                  \A e \in Inc(r).members :
                    \/ Member(Inc(r).id, e) \in members
                    \/ decision[r].kind = "join" /\ e = Episode(sig[r])
    BY <1>7 DEF TableInv, AboutInv
  <2>2. tx.by = r => tx.members = members \cup {Member(Inc(r).id, e) : e \in Inc(r).members}
    BY DEF TableInv, TxMembersInv
  <2> QED BY <1>0, <1>2, <1>7, <2>1, <2>2 DEF SameIncident
<1>8. ASSUME NEW r \in Requests,
             \/ AuditDecision(r) /\ decision[r].kind # "drop"
             \/ AuditReceived(r) \/ AuditCreated(r) \/ Comment(r) \/ AuditCommented(r)
      PROVE TableInv'
  <2>1. /\ UNCHANGED <<incidents, members, decision, tx>> /\ Advances(r)
        /\ pc[r] \in InTx
    BY <1>8 DEF AuditReceived, AuditDecision, AuditCreated, Comment, AuditCommented, store, InTx,
       Advances
  <2>2. pc'[r] \in InTx
    BY <1>8 DEF AuditReceived, AuditDecision, AfterDecision, AuditCreated, Comment, AuditCommented,
       Goto, TypeOK, Decisions, InTx
  <2> QED BY <1>7, <2>1, <2>2 DEF Inc
<1>9. ASSUME NEW r \in Requests, CreateTicket(r) PROVE TableInv'
  <2>1. /\ UNCHANGED <<incidents, members, tx>> /\ Advances(r)
        /\ pc[r] \in InTx /\ pc'[r] \in InTx
    BY <1>9 DEF CreateTicket, store, Goto, TypeOK, InTx, Advances
  <2>2. /\ decision'[r].kind = decision[r].kind
        /\ Inc(r)' = [Inc(r) EXCEPT !.ticket = Len(tickets) + 1] /\ Inc(r) \in Incidents
    BY <1>9 DEF CreateTicket, TypeOK, Decisions, Inc
  <2> QED BY <1>7, <2>1, <2>2 DEF Incidents
<1>10. ASSUME NEW r \in Requests, SetTicket(r) PROVE TableInv'
  <2>1. /\ UNCHANGED <<incidents, members, decision>> /\ Advances(r)
        /\ pc[r] \in InTx /\ pc'[r] \in InTx
    BY <1>10 DEF SetTicket, store, Goto, TypeOK, InTx, Advances
  <2>2. tx'.by = tx.by /\ tx'.members = tx.members
    BY <1>10 DEF SetTicket, TypeOK, Transactions, NoTx
  <2> QED BY <1>7, <2>1, <2>2 DEF Inc
<1>11. ASSUME NEW r \in Requests, Commit(r) PROVE TableInv'
  <2>1. /\ pc[r] = "commit" /\ decision[r].kind # "drop" /\ tx.by = r
        /\ incidents' = tx.incidents /\ members' = tx.members /\ tx' = NoTx
        /\ pc'[r] = "launch" /\ decision' = decision /\ Inc(r)' = Inc(r) /\ spent' = spent
    BY <1>11 DEF Commit, StepInv, TxInv, InTx, Goto, TypeOK, Inc
  <2>2. \A q \in Requests \ {r} : Stays(q) /\ pc[q] \notin Locked
    BY <1>11, Alone DEF Advances
  <2>3. UNCHANGED sig
    BY <1>11 DEF Commit
  <2>4. /\ SameIncident(Inc(r), sig[r]) /\ Episode(sig[r]) \in Inc(r).members
        /\ Inc(r).members \subseteq KnownEpisodes
    BY <2>1 DEF TableInv, AboutInv, InTx
  <2>5. members' = members \cup {Member(Inc(r).id, e) : e \in Inc(r).members}
    BY <2>1 DEF TableInv, TxMembersInv
  <2>6. Row(Inc(r)) \in incidents'
    <3>1. CASE decision[r].kind = "open"
      <4>1. Row(Inc(r)) = [Row(Inc(r)) EXCEPT !.ticket = Inc(r).ticket]
        BY DEF Row
      <4> QED BY <4>1, <2>1, <3>1 DEF DataInv, PendingInv, Row
    <3>2. CASE decision[r].kind # "open"
      BY <1>0, <2>1, <3>2 DEF DataInv, DecisionInv, InTx
    <3> QED BY <3>1, <3>2
  <2>7. MemberInv'
    <3>1. ASSUME NEW e \in Inc(r).members
          PROVE  /\ \E i \in incidents' : i.id = Member(Inc(r).id, e).incident
                 /\ Episode(Member(Inc(r).id, e)) \in KnownEpisodes
      <4>1. e \in Episodes
        BY <2>1 DEF TypeOK, Decisions, Incidents, Inc
      <4>2. Episode(Member(Inc(r).id, e)) = e
        BY <4>1 DEF Episode, Member, Episodes
      <4> QED BY <4>2, <2>4, <2>6 DEF Row, Member
    <3> QED BY <3>1, <2>5, <1>0 DEF TableInv, MemberInv
  <2>8. AboutInv' /\ TxMembersInv'
    BY <2>1, <2>2, ControlPlaneAssumption DEF AboutInv, TxMembersInv, NoTx, Stays, Locked, InTx
  <2>9. StoredInv'
    BY <2>1, <2>2, <2>3, <2>4, <2>5, <2>6 DEF StoredInv, Stays, Locked
  <2> QED BY <2>7, <2>8, <2>9 DEF TableInv
<1>12. ASSUME NEW r \in Requests, Advances(r) PROVE TableInv'
  <2>1. CASE ReadOpen(r) \/ ReadOpenCut(r) \/ Save(r)
    BY <2>1, <1>4, <1>5, <1>6
  <2>2. CASE \/ AuditDecision(r) /\ decision[r].kind # "drop"
             \/ AuditReceived(r) \/ AuditCreated(r) \/ Comment(r) \/ AuditCommented(r)
    BY <2>2, <1>8
  <2>3. CASE CreateTicket(r) \/ SetTicket(r) \/ Commit(r)
    BY <2>3, <1>9, <1>10, <1>11
  <2> QED BY <1>12, <2>1, <2>2, <2>3 DEF Advances
<1> QED BY <1>1, <1>12, StepKinds

-----------------------------------------------------------------------------
(* What a step changes, seen from the tables and from one handler.         *)

\* Only Commit writes to the tables.
LEMMA TableChange ==
  ASSUME TypeOK, [Next]_vars
  PROVE  UNCHANGED <<incidents, members, lastId>> \/ \E r \in Requests : Commit(r)
<1>1. CASE Leaves
  BY <1>1 DEF Leaves
<1>2. ASSUME NEW r \in Requests, Advances(r), ~Commit(r)
      PROVE  UNCHANGED <<incidents, members, lastId>>
  BY <1>2 DEF Advances, ReadOpen, ReadOpenCut, Decide, Save, AuditReceived, AuditDecision,
     CreateTicket, SetTicket, AuditCreated, Comment, AuditCommented, store
<1> QED BY <1>1, <1>2, StepKinds

\* What Commit adds: a row under a new id, or nothing; and the members.
LEMMA CommitAdds ==
  ASSUME IndInv, TableInv, NEW r \in Requests, Commit(r)
  PROVE  /\ UNCHANGED <<tickets, audit, sig, decision, running, investigated, source, body, spent>>
         /\ pc[r] = "commit" /\ pc'[r] = "launch" /\ Inc(r) \in Incidents
         /\ decision[r].kind \in {"open", "join", "repeat"}
         /\ members' = members \cup {Member(Inc(r).id, e) : e \in Inc(r).members}
         /\ \A e \in Inc(r).members : Episode(Member(Inc(r).id, e)) = e
         /\ decision[r].kind = "open" =>
              /\ incidents' = incidents \cup {Row(Inc(r))}
              /\ \A i \in incidents : i.id # Inc(r).id
              /\ \A m \in members : m.incident # Inc(r).id
              /\ Inc(r).members = {Episode(sig[r])}
         /\ decision[r].kind # "open" => incidents' = incidents /\ Row(Inc(r)) \in incidents
<1> USE DEF IndInv
<1>1. /\ UNCHANGED <<tickets, audit, sig, decision, running, investigated, source, body, spent>>
      /\ pc[r] = "commit" /\ pc'[r] = "launch" /\ tx.by = r /\ decision[r].kind # "drop"
      /\ incidents' = tx.incidents /\ members' = tx.members
  BY DEF Commit, StepInv, TxInv, InTx, Goto, TypeOK
<1>2. decision[r].kind \in {"open", "join", "repeat"} /\ Inc(r) \in Incidents
  BY <1>1 DEF TypeOK, Decisions, Inc
<1>3. members' = members \cup {Member(Inc(r).id, e) : e \in Inc(r).members}
  BY <1>1 DEF TableInv, TxMembersInv
<1>4. \A e \in Inc(r).members : Episode(Member(Inc(r).id, e)) = e
  BY <1>2 DEF Episode, Member, Incidents, Episodes
<1>5. ASSUME decision[r].kind = "open"
      PROVE  /\ incidents' = incidents \cup {Row(Inc(r))}
             /\ \A i \in incidents : i.id # Inc(r).id
             /\ \A m \in members : m.incident # Inc(r).id
             /\ Inc(r).members = {Episode(sig[r])}
  <2>1. [Row(Inc(r)) EXCEPT !.ticket = @] = Row(Inc(r))
    BY DEF Row
  <2>2. incidents' = incidents \cup {Row(Inc(r))}
    BY <1>1, <1>5, <2>1 DEF DataInv, PendingInv, Row
  <2>3. Inc(r).id = lastId + 1
    BY <1>1, <1>5 DEF DataInv, DecisionInv, InTx
  <2>4. \A i \in incidents : i.id # Inc(r).id
    BY <2>3 DEF DataInv, RowInv, TypeOK, IncidentRows
  <2>5. \A m \in members : m.incident # Inc(r).id
    BY <2>4 DEF TableInv, MemberInv
  <2>6. Inc(r).members = {Episode(sig[r])}
    BY <1>1, <1>5 DEF TableInv, AboutInv, InTx
  <2> QED BY <2>2, <2>4, <2>5, <2>6
<1>6. ASSUME decision[r].kind # "open"
      PROVE  incidents' = incidents /\ Row(Inc(r)) \in incidents
  BY <1>1, <1>6 DEF DataInv, PendingInv, DecisionInv, InTx
<1> QED BY <1>1, <1>2, <1>3, <1>4, <1>5, <1>6

\* A handler in the transaction, or about to launch, has made the step itself
\* or nothing of its own has changed.
LEMMA HandlerMoves ==
  ASSUME IndInv, [Next]_vars, NEW r \in Requests, pc'[r] \in {"save", "launch"} \cup InTx
  PROVE  Stays(r) \/ Advances(r)
<1>1. CASE Leaves
  BY <1>1 DEF Leaves
<1>2. ASSUME NEW q \in Requests \ {r}, Advances(q) PROVE Stays(r)
  BY <1>2, Alone DEF IndInv
<1> QED BY <1>1, <1>2, StepKinds DEF IndInv

-----------------------------------------------------------------------------
(* Tickets.                                                                *)

\* The ticket of a new Incident is kept apart until it is stored.
LEMMA OwnTicketStep ==
  ASSUME IndInv, IndInv', TableInv, TicketInv, [Next]_vars
  PROVE  OwnTicketInv'
<1> USE DEF IndInv
<1> SUFFICES ASSUME NEW r \in Requests,
                    pc'[r] \in {"setTicket", "createdEntry", "commit"}, decision'[r].kind = "open"
             PROVE  /\ Inc(r)'.ticket \in DOMAIN tickets'
                    /\ tickets'[Inc(r)'.ticket].incident = Inc(r)'.id
                    /\ Inc(r)'.members \subseteq tickets'[Inc(r)'.ticket].shown
                    /\ \A i \in incidents' : i.ticket # Inc(r)'.ticket
  BY DEF OwnTicketInv
<1>1. Stays(r) \/ Advances(r)
  BY HandlerMoves DEF InTx
<1>2. UNCHANGED incidents
  <2>1. ASSUME NEW q \in Requests, Commit(q) PROVE FALSE
    <3>1. /\ pc'[q] = "launch" /\ \A p \in Requests \ {q} : Stays(p) /\ pc[p] \notin Locked
      BY <2>1, Alone, CommitAdds DEF Advances
    <3> QED BY <3>1 DEF Stays, Locked, InTx
  <2> QED BY <2>1, TableChange
<1>3. \A n \in DOMAIN tickets :
        /\ n \in DOMAIN tickets' /\ tickets'[n].incident = tickets[n].incident
        /\ tickets[n].shown \subseteq tickets'[n].shown
  BY TicketsGrow
<1>4. CASE CreateTicket(r)
  <2>1. /\ tickets' = Created(r) /\ Inc(r)' = [Inc(r) EXCEPT !.ticket = Len(tickets) + 1]
        /\ Inc(r) \in Incidents /\ tickets \in Seq([incident: Nat, shown: SUBSET Episodes])
    BY <1>4 DEF CreateTicket, TypeOK, Decisions, Inc
  <2>2. /\ Inc(r)'.ticket = Len(tickets) + 1 /\ Inc(r)'.id = Inc(r).id
        /\ Inc(r)'.members = Inc(r).members
    BY <2>1 DEF Incidents
  <2>3. [incident |-> Inc(r).id, shown |-> Inc(r).members] \in [incident: Nat, shown: SUBSET Episodes]
    BY <2>1 DEF Incidents
  <2>4. /\ Len(tickets) + 1 \in DOMAIN tickets'
        /\ tickets'[Len(tickets) + 1] = [incident |-> Inc(r).id, shown |-> Inc(r).members]
    <3> DEFINE T == [incident: Nat, shown: SUBSET Episodes]
    <3> HIDE DEF T
    <3>1. tickets \in Seq(T) /\ tickets' \in Seq(T)
      BY DEF T, TypeOK
    <3>2. [incident |-> Inc(r).id, shown |-> Inc(r).members] \in T
      BY <2>3 DEF T
    <3>3. Len(tickets') = Len(tickets) + 1 /\ Len(tickets) \in Nat /\ DOMAIN tickets' = 1..Len(tickets')
      BY <3>1, <3>2, <2>1, AppendProperties, LenProperties DEF Created
    <3> QED BY <3>1, <3>2, <3>3, <2>1, AppendProperties DEF Created
  <2>5. Len(tickets) + 1 \notin DOMAIN tickets
    BY TicketsGrow
  <2>6. \A i \in incidents : i.ticket # Len(tickets) + 1
    BY <2>5 DEF TicketInv, RowTicketInv
  <2> QED BY <1>2, <2>2, <2>4, <2>6
<1>5. CASE ~CreateTicket(r)
  <2>1. /\ pc[r] \in {"setTicket", "createdEntry", "commit"} /\ decision[r].kind = "open"
        /\ Inc(r)' = Inc(r)
    <3>1. CASE Stays(r)
      BY <3>1 DEF Stays, Inc
    <3>2. CASE Advances(r)
      BY <3>2, <1>5 DEF Advances, ReadOpen, ReadOpenCut, Decide, Save, AuditReceived, AuditDecision,
         AfterDecision, SetTicket, AuditCreated, Comment, AuditCommented, Commit, Goto, Inc,
         TypeOK, Decisions, StepInv
    <3> QED BY <1>1, <3>1, <3>2
  <2> QED BY <1>2, <1>3, <2>1 DEF TicketInv, OwnTicketInv
<1> QED BY <1>4, <1>5

\* Every stored Incident keeps a ticket of its own.
LEMMA RowTicketStep ==
  ASSUME IndInv, IndInv', TableInv, TicketInv, [Next]_vars
  PROVE  RowTicketInv'
<1>1. \A n \in DOMAIN tickets :
        n \in DOMAIN tickets' /\ tickets'[n].incident = tickets[n].incident
  BY TicketsGrow DEF IndInv
<1>2. CASE UNCHANGED incidents
  BY <1>1, <1>2 DEF TicketInv, RowTicketInv
<1>3. ASSUME NEW r \in Requests, Commit(r), incidents' # incidents PROVE RowTicketInv'
  <2>1. /\ UNCHANGED tickets /\ pc[r] = "commit" /\ decision[r].kind = "open"
        /\ incidents' = incidents \cup {Row(Inc(r))}
    BY <1>3, CommitAdds
  <2>2. Row(Inc(r)).ticket = Inc(r).ticket /\ Row(Inc(r)).id = Inc(r).id
    BY DEF Row
  <2> QED BY <2>1, <2>2 DEF TicketInv, RowTicketInv, OwnTicketInv
<1> QED BY <1>2, <1>3, TableChange DEF IndInv

\* A comment comes before the member.
LEMMA CommentStep ==
  ASSUME IndInv, IndInv', TableInv, TicketInv, [Next]_vars
  PROVE  CommentInv'
<1> USE DEF IndInv
<1> SUFFICES ASSUME NEW r \in Requests, pc'[r] \in {"commentedEntry", "commit"},
                    decision'[r].kind = "join"
             PROVE  Episode(sig'[r]) \in tickets'[Inc(r)'.ticket].shown
  BY DEF CommentInv, Episode
<1>1. Stays(r) \/ Advances(r)
  BY HandlerMoves DEF InTx
<1>2. CASE Comment(r)
  <2>1. /\ tickets' = Commented(r) /\ sig' = sig /\ Inc(r)' = Inc(r) /\ decision[r].kind = "join"
        /\ pc[r] = "comment"
    BY <1>2 DEF Comment, Inc
  <2>2. Row(Inc(r)) \in incidents
    BY <2>1 DEF DataInv, DecisionInv, InTx
  <2>3. Inc(r).ticket \in DOMAIN tickets
    BY <2>2 DEF TicketInv, RowTicketInv, Row
  <2>4. tickets[Inc(r).ticket] \in [incident: Nat, shown: SUBSET Episodes]
    <3> DEFINE T == [incident: Nat, shown: SUBSET Episodes]
    <3> HIDE DEF T
    <3>1. tickets \in Seq(T)
      BY DEF T, TypeOK
    <3>2. tickets[Inc(r).ticket] \in T
      BY <3>1, <2>3, ElementOfSeq, LenProperties
    <3> QED BY <3>2 DEF T
  <2>5. tickets'[Inc(r).ticket].shown = tickets[Inc(r).ticket].shown \cup {Episode(sig[r])}
    BY <2>1, <2>3, <2>4 DEF Commented
  <2> QED BY <2>1, <2>5
<1>3. CASE ~Comment(r)
  <2>1. /\ pc[r] \in {"commentedEntry", "commit"} /\ decision[r].kind = "join"
        /\ Inc(r)' = Inc(r) /\ sig'[r] = sig[r]
    <3>1. CASE Stays(r)
      BY <3>1 DEF Stays, Inc
    <3>2. CASE Advances(r)
      BY <3>2, <1>3 DEF Advances, ReadOpen, ReadOpenCut, Decide, Save, AuditReceived, AuditDecision,
         AfterDecision, CreateTicket, SetTicket, AuditCreated, AuditCommented, Commit, Goto, Inc,
         TypeOK, Decisions, StepInv
    <3> QED BY <1>1, <3>1, <3>2
  <2>2. Row(Inc(r)) \in incidents
    BY <2>1 DEF DataInv, DecisionInv, InTx
  <2>3. Inc(r).ticket \in DOMAIN tickets
    BY <2>2 DEF TicketInv, RowTicketInv, Row
  <2>4. tickets[Inc(r).ticket].shown \subseteq tickets'[Inc(r).ticket].shown
    BY <2>3, TicketsGrow
  <2>5. Episode(sig[r]) \in tickets[Inc(r).ticket].shown
    BY <2>1 DEF TicketInv, CommentInv
  <2>6. Episode(sig'[r]) = Episode(sig[r])
    BY <2>1
  <2> QED BY <2>1, <2>4, <2>5, <2>6
<1> QED BY <1>2, <1>3

\* The ticket shows the members.
LEMMA ShownStep ==
  ASSUME IndInv, IndInv', TableInv, TicketInv, RowTicketInv', [Next]_vars
  PROVE  TicketShowsMembers'
<1> USE DEF IndInv
<1> SUFFICES ASSUME spent'["cuts"] = 0, NEW i \in incidents', NEW m \in members', m.incident = i.id
             PROVE  Episode(m) \in tickets'[i.ticket].shown
  BY DEF TicketShowsMembers, RowTicketInv, Episode
<1>0. spent["cuts"] = 0
  <2>1. spent["cuts"] \in Nat /\ spent'["cuts"] \in Nat
    BY DEF TypeOK, Faults
  <2> QED BY <2>1, RowsGrow DEF TableInv
<1>1. ASSUME i \in incidents, m \in members
      PROVE  Episode(m) \in tickets'[i.ticket].shown
  <2>1. i.ticket \in DOMAIN tickets /\ Episode(m) \in tickets[i.ticket].shown
    BY <1>0, <1>1 DEF TicketInv, TicketShowsMembers
  <2> QED BY <2>1, TicketsGrow
<1>2. ASSUME NEW r \in Requests, Commit(r), i \notin incidents \/ m \notin members
      PROVE  Episode(m) \in tickets'[i.ticket].shown
  <2>1. tickets' = tickets /\ pc[r] = "commit"
    BY <1>2, CommitAdds
  <2>2. m \in members \/ \E e \in Inc(r).members : m = Member(Inc(r).id, e) /\ Episode(m) = e
    BY <1>2, CommitAdds
  <2>3. CASE decision[r].kind = "open"
    <3>1. i = Row(Inc(r))
      BY <1>2, <2>2, <2>3, CommitAdds DEF Member
    <3>2. m \notin members
      BY <3>1, <2>3, <1>2, CommitAdds DEF Row
    <3>3. Episode(m) \in Inc(r).members /\ i.ticket = Inc(r).ticket
      BY <2>2, <3>1, <3>2 DEF Row
    <3> QED BY <2>1, <2>3, <3>3 DEF TicketInv, OwnTicketInv
  <2>4. CASE decision[r].kind # "open"
    <3>1. i \in incidents /\ m \notin members /\ Row(Inc(r)) \in incidents
      BY <1>2, <2>4, CommitAdds
    <3>2. PICK e \in Inc(r).members : m = Member(Inc(r).id, e) /\ Episode(m) = e
      BY <2>2, <3>1
    <3>3. i = Row(Inc(r))
      BY <3>1, <3>2 DEF DataInv, RowInv, Row, Member
    <3>4. decision[r].kind = "join" /\ e = Episode(sig[r])
      BY <1>0, <1>2, <2>1, <2>4, <3>1, <3>2, CommitAdds DEF TableInv, AboutInv, InTx
    <3> QED BY <2>1, <3>2, <3>3, <3>4 DEF TicketInv, CommentInv, Row
  <2> QED BY <2>3, <2>4
<1> QED BY <1>1, <1>2, TableChange

\* Tickets, rows and what is about to be stored go on fitting.
LEMMA TicketInvStep ==
  ASSUME IndInv, IndInv', TableInv, TicketInv, [Next]_vars
  PROVE  TicketInv'
BY OwnTicketStep, RowTicketStep, CommentStep, ShownStep DEF TicketInv

-----------------------------------------------------------------------------
(* Investigations.                                                         *)

\* What a step does to the investigations.
LEMMA RunningStep ==
  ASSUME TypeOK, [Next]_vars
  PROVE  \/ UNCHANGED <<running, investigated>>
         \/ \E r \in Requests : Launch(r)
         \/ \E i \in running : /\ running' = running \ {i} /\ investigated' = investigated \cup {i}
                               /\ UNCHANGED incidents
         \/ running' = {} /\ UNCHANGED <<investigated, incidents>>
<1> DEFINE G == \/ UNCHANGED <<running, investigated>>
                \/ \E r \in Requests : Launch(r)
<1>2. ASSUME NEW r \in Requests, HandlerStep(r) PROVE G
  <2>1. CASE Refuse(r) \/ Unreadable(r) \/ Accept(r) \/ DropAlert(r) \/ TakeAlert(r) \/ AnswerOK(r)
    BY <2>1 DEF Refuse, Unreadable, Accept, DropAlert, TakeAlert, AnswerOK
  <2>2. CASE Lock(r) \/ ReadOpen(r) \/ Save(r) \/ AuditReceived(r) \/ AuditDecision(r)
    BY <2>2 DEF Lock, ReadOpen, Decide, Save, AuditReceived, AuditDecision
  <2>3. CASE CreateTicket(r) \/ SetTicket(r) \/ AuditCreated(r) \/ Comment(r) \/ AuditCommented(r)
    BY <2>3 DEF CreateTicket, SetTicket, AuditCreated, Comment, AuditCommented
  <2>4. CASE Commit(r) \/ Launch(r) \/ Cancelled(r)
    BY <2>4 DEF Commit, Cancelled
  <2> QED BY <1>2, <2>1, <2>2, <2>3, <2>4 DEF HandlerStep
<1>3. ASSUME NEW r \in Requests, FaultStep(r) PROVE G
  BY <1>3 DEF FaultStep, HangUp, RefuseUnaudited, ReadOpenCut, Decide, Fail, LostReply
<1>4. ASSUME NEW r \in Requests, NEW b \in Bodies, Post(r, b) PROVE G
  BY <1>4 DEF Post
<1>5. ASSUME NEW b \in Bodies, Renotify(b) PROVE G
  BY <1>5 DEF Renotify
<1>6. ASSUME NEW i \in running, InvestigationEnds(i)
      PROVE  /\ running' = running \ {i} /\ investigated' = investigated \cup {i}
             /\ UNCHANGED incidents
  BY <1>6 DEF InvestigationEnds, store
<1>7. ASSUME Crash
      PROVE  running' = {} /\ UNCHANGED <<investigated, incidents>>
  BY <1>7 DEF Crash, store
<1>8. ASSUME UNCHANGED vars PROVE G
  BY <1>8 DEF vars
<1> QED BY <1>2, <1>3, <1>4, <1>5, <1>6, <1>7, <1>8 DEF Next

\* Only a stored Incident with a ticket is investigated.
LEMMA InvestigatedStep ==
  ASSUME IndInv, IndInv', TableInv, TicketInv, InvestigatedIsStored, [Next]_vars
  PROVE  InvestigatedIsStored'
<1> USE DEF IndInv
<1>1. incidents \subseteq incidents'
  BY RowsGrow DEF TableInv
<1>2. CASE UNCHANGED <<running, investigated>>
  BY <1>1, <1>2 DEF InvestigatedIsStored
<1>3. ASSUME NEW r \in Requests, Launch(r) PROVE InvestigatedIsStored'
  <2>1. /\ pc[r] = "launch" /\ UNCHANGED <<incidents, investigated>>
        /\ running' = running \/ running' = running \cup {Inc(r).id}
    BY <1>3 DEF Launch, store
  <2>2. Row(Inc(r)) \in incidents
    BY <2>1 DEF TableInv, StoredInv
  <2>3. Inc(r).ticket \in DOMAIN tickets
    BY <2>2 DEF TicketInv, RowTicketInv, Row
  <2>4. Inc(r).ticket > 0
    BY <2>3, TicketsGrow
  <2>5. \E i \in incidents : i.id = Inc(r).id /\ i.ticket > 0
    BY <2>2, <2>4 DEF Row
  <2> QED BY <2>1, <2>5 DEF InvestigatedIsStored
<1>4. ASSUME NEW i \in running, running' = running \ {i}, investigated' = investigated \cup {i},
             UNCHANGED incidents
      PROVE  InvestigatedIsStored'
  BY <1>4 DEF InvestigatedIsStored
<1>5. CASE running' = {} /\ UNCHANGED <<investigated, incidents>>
  BY <1>5 DEF InvestigatedIsStored
<1> QED BY <1>2, <1>3, <1>4, <1>5, RunningStep

-----------------------------------------------------------------------------
(* Refused requests.                                                       *)

\* RefusedIsNotProcessed, in terms of the episodes that were let in.
LEMMA RefusedMeans ==
  RefusedIsNotProcessed <=>
    /\ \A m \in members : Episode(m) \in KnownEpisodes
    /\ \A n \in DOMAIN tickets : tickets[n].shown \subseteq KnownEpisodes
BY DEF RefusedIsNotProcessed, KnownEpisodes, KnownSignals

\* A refused body leaves nothing in the tables and on the tickets.
LEMMA RefusedStep ==
  ASSUME IndInv, IndInv', TableInv, TableInv', BodyInv, RefusedIsNotProcessed, [Next]_vars
  PROVE  RefusedIsNotProcessed'
<1> USE DEF IndInv
<1>1. \A m \in members' : Episode(m) \in KnownEpisodes
  BY DEF TableInv, MemberInv
<1>2. \A n \in DOMAIN tickets : tickets[n].shown \subseteq KnownEpisodes
  BY RefusedMeans
<1>3. ASSUME NEW n \in DOMAIN tickets' PROVE tickets'[n].shown \subseteq KnownEpisodes
  <2>1. CASE n \notin DOMAIN tickets
    <3>1. PICK r \in Requests :
            pc[r] = "create" /\ tickets'[n] = [incident |-> Inc(r).id, shown |-> Inc(r).members]
      BY <1>3, <2>1, TicketsGrow
    <3> QED BY <3>1 DEF TableInv, AboutInv, InTx, StepInv
  <2>2. CASE n \in DOMAIN tickets /\ tickets'[n] = tickets[n]
    BY <1>2, <2>2
  <2>3. ASSUME NEW r \in Requests, pc[r] = "comment", tickets' = Commented(r), n \in DOMAIN tickets,
               tickets'[n] # tickets[n]
        PROVE  tickets'[n].shown \subseteq KnownEpisodes
    <3>1. tickets'[n] = [tickets[n] EXCEPT !.shown = @ \cup {Episode(sig[r])}]
      BY <2>3 DEF Commented
    <3>2. Episode(sig[r]) \in KnownEpisodes
      BY <2>3, BusyKnown DEF Busy, Locked, InTx, StepInv
    <3>3. tickets[n] \in [incident: Nat, shown: SUBSET Episodes]
      <4> DEFINE T == [incident: Nat, shown: SUBSET Episodes]
      <4> HIDE DEF T
      <4>1. tickets \in Seq(T)
        BY DEF T, TypeOK
      <4>2. tickets[n] \in T
        BY <4>1, <2>3, ElementOfSeq, LenProperties
      <4> QED BY <4>2 DEF T
    <3> QED BY <1>2, <2>3, <3>1, <3>2, <3>3
  <2>4. ASSUME NEW r \in Requests, tickets' = Created(r), n \in DOMAIN tickets
        PROVE  tickets'[n] = tickets[n]
    <3> DEFINE T == [incident: Nat, shown: SUBSET Episodes]
    <3>1. [incident |-> Inc(r).id, shown |-> Inc(r).members] \in T
      BY DEF TypeOK, Decisions, Inc, Incidents
    <3>2. tickets \in Seq(T)
      BY DEF TypeOK
    <3> HIDE DEF T
    <3> QED BY <2>4, <3>1, <3>2, AppendProperties, LenProperties DEF Created
  <2> QED BY <2>1, <2>2, <2>3, <2>4, TicketStep
<1>4. \A n \in DOMAIN tickets' : tickets'[n].shown \subseteq KnownEpisodes
  BY <1>3
<1>5. RefusedIsNotProcessed' <=>
        /\ \A m \in members' : Episode(m) \in KnownEpisodes
        /\ \A n \in DOMAIN tickets' : tickets'[n].shown \subseteq KnownEpisodes
  BY DEF RefusedIsNotProcessed, KnownEpisodes, KnownSignals, Episode
<1> QED BY <1>1, <1>4, <1>5

-----------------------------------------------------------------------------
(* The audit log.                                                          *)

\* A new entry comes after all others.
LEMMA LogEntry ==
  ASSUME TypeOK, TypeOK', NEW e, audit' = Append(audit, e)
  PROVE  \E last \in DOMAIN audit' :
           /\ audit'[last] = e
           /\ \A n \in DOMAIN audit : n < last /\ n \in DOMAIN audit' /\ audit'[n] = audit[n]
<1>1. audit \in Seq(Entries) /\ audit' \in Seq(Entries)
  BY DEF TypeOK
<1>2. /\ Len(audit) \in Nat /\ DOMAIN audit = 1..Len(audit)
      /\ DOMAIN audit' = 1..Len(audit') /\ Len(audit') = Len(audit) + 1
  BY <1>1
<1>3. audit'[Len(audit) + 1] = e
  BY <1>1
<1>4. \A n \in 1..Len(audit) : audit'[n] = audit[n]
  BY <1>1
<1> QED BY <1>2, <1>3, <1>4

\* What is on record of the Signal at hand stays on record.
LEMMA StaysOnRecord ==
  ASSUME TypeOK, TypeOK', [Next]_vars, NEW r \in Requests,
         sig'[r] = sig[r], Inc(r)'.id = Inc(r).id
  PROVE  /\ \A a \in DOMAIN audit : Received(a, r) => a \in DOMAIN audit' /\ Received(a, r)'
         /\ \A a, b \in DOMAIN audit :
              Decided(a, b, r) => a \in DOMAIN audit' /\ b \in DOMAIN audit' /\ Decided(a, b, r)'
         /\ \A c \in DOMAIN audit : Ticketed(c, r) => c \in DOMAIN audit' /\ Ticketed(c, r)'
<1>1. \A n \in DOMAIN audit : n \in DOMAIN audit' /\ audit'[n] = audit[n]
  BY LogGrows
<1> QED BY <1>1 DEF Received, Decided, Ticketed, IsEntry

\* Each step finds on record what it should.
LEMMA RecordStep ==
  ASSUME IndInv, IndInv', TableInv, RecordInv, [Next]_vars
  PROVE  RecordInv'
<1> USE DEF IndInv
<1> SUFFICES ASSUME NEW r \in Requests, pc'[r] \in ({"launch"} \cup InTx) \ {"receivedEntry"}
             PROVE  /\ pc'[r] = "decisionEntry" => \E a \in DOMAIN audit' : Received(a, r)'
                    /\ pc'[r] # "decisionEntry" => \E a, b \in DOMAIN audit' : Decided(a, b, r)'
                    /\ pc'[r] = "commit" /\ decision'[r].kind \in {"open", "join"} =>
                         \E a, b, c \in DOMAIN audit' : Decided(a, b, r)' /\ b < c /\ Ticketed(c, r)'
  BY DEF RecordInv, InTx
<1>1. Stays(r) \/ Advances(r)
  BY HandlerMoves
\* A step that is not its audit entry, or not its first.
<1>2. ASSUME pc[r] \in ({"launch"} \cup InTx) \ {"receivedEntry"}, sig'[r] = sig[r], Inc(r)'.id = Inc(r).id
      PROVE  /\ pc[r] = "decisionEntry" => \E a \in DOMAIN audit' : Received(a, r)'
             /\ pc[r] # "decisionEntry" => \E a, b \in DOMAIN audit' : Decided(a, b, r)'
             /\ pc[r] = "commit" /\ decision[r].kind \in {"open", "join"} =>
                  \E a, b, c \in DOMAIN audit' : Decided(a, b, r)' /\ b < c /\ Ticketed(c, r)'
  <2>1. CASE pc[r] = "decisionEntry"
    BY <1>2, <2>1, StaysOnRecord DEF RecordInv
  <2>2. CASE pc[r] # "decisionEntry"
    <3>1. \E a, b \in DOMAIN audit' : Decided(a, b, r)'
      BY <1>2, <2>2, StaysOnRecord DEF RecordInv
    <3>2. ASSUME pc[r] = "commit", decision[r].kind \in {"open", "join"}
          PROVE  \E a, b, c \in DOMAIN audit' : Decided(a, b, r)' /\ b < c /\ Ticketed(c, r)'
      BY <1>2, <3>2, StaysOnRecord DEF RecordInv
    <3> QED BY <2>2, <3>1, <3>2
  <2> QED BY <2>1, <2>2
<1>3. CASE Stays(r)
  <2>1. pc'[r] = pc[r] /\ sig'[r] = sig[r] /\ Inc(r)' = Inc(r) /\ decision'[r] = decision[r]
    BY <1>3 DEF Stays, Inc
  <2> QED BY <1>2, <2>1
<1>4. CASE AuditReceived(r)
  <2>1. /\ pc'[r] = "decisionEntry" /\ sig' = sig /\ Inc(r)' = Inc(r)
        /\ Log("signal.received", Inc(r).id, sig[r], 0)
    BY <1>4 DEF AuditReceived, Goto, TypeOK, Inc
  <2>2. PICK n \in DOMAIN audit' :
          audit'[n] = [type |-> "signal.received", incident |-> Inc(r).id, signal |-> sig[r], ref |-> 0]
    BY <2>1, LogEntry DEF Log
  <2>3. Received(n, r)'
    BY <2>1, <2>2 DEF Received, IsEntry
  <2> QED BY <2>1, <2>2, <2>3
<1>5. CASE AuditDecision(r) /\ decision[r].kind # "drop"
  <2>1. /\ pc[r] = "decisionEntry" /\ sig' = sig /\ Inc(r)' = Inc(r)
        /\ Log("triage.decision", Inc(r).id, sig[r], 0)
        /\ decision'[r].kind = decision[r].kind
        /\ pc'[r] = AfterDecision(decision[r].kind)
    BY <1>5 DEF AuditDecision, Goto, TypeOK, Inc
  <2>2. /\ pc'[r] # "decisionEntry"
        /\ ~(pc'[r] = "commit" /\ decision'[r].kind \in {"open", "join"})
    BY <1>5, <2>1 DEF AfterDecision, TypeOK, Decisions
  <2>3. PICK a \in DOMAIN audit : Received(a, r)
    BY <2>1 DEF RecordInv
  <2>4. PICK b \in DOMAIN audit' :
          /\ a \in DOMAIN audit' /\ a < b
          /\ audit'[b] =
               [type |-> "triage.decision", incident |-> Inc(r).id, signal |-> sig[r], ref |-> 0]
    BY <2>1, <2>3, LogEntry DEF Log
  <2>5. Received(a, r)'
    BY <2>1, <2>3, StaysOnRecord
  <2>6. Decided(a, b, r)'
    BY <2>1, <2>4, <2>5 DEF Decided, IsEntry
  <2> QED BY <2>2, <2>4, <2>6
<1>6. CASE AuditCreated(r) \/ AuditCommented(r)
  <2>1. /\ pc[r] \in {"createdEntry", "commentedEntry"} /\ pc'[r] = "commit"
        /\ sig' = sig /\ Inc(r)' = Inc(r)
        /\ \E t \in {"ticket.created", "ticket.commented"} : Log(t, Inc(r).id, sig[r], Inc(r).ticket)
    BY <1>6 DEF AuditCreated, AuditCommented, Goto, TypeOK, Inc
  <2>2. PICK a, b \in DOMAIN audit : Decided(a, b, r)
    BY <2>1 DEF RecordInv, InTx
  <2>3. a \in DOMAIN audit' /\ b \in DOMAIN audit' /\ Decided(a, b, r)'
    BY <2>1, <2>2, StaysOnRecord
  <2>4. PICK t \in {"ticket.created", "ticket.commented"} : Log(t, Inc(r).id, sig[r], Inc(r).ticket)
    BY <2>1
  <2>5. PICK c \in DOMAIN audit' :
          /\ b < c
          /\ audit'[c] = [type |-> t, incident |-> Inc(r).id, signal |-> sig[r], ref |-> Inc(r).ticket]
    BY <2>2, <2>4, LogEntry DEF Log
  <2>6. Ticketed(c, r)'
    BY <2>1, <2>4, <2>5 DEF Ticketed, IsEntry
  <2> QED BY <2>1, <2>3, <2>5, <2>6
<1>7. CASE CreateTicket(r) \/ SetTicket(r) \/ Comment(r) \/ Commit(r)
  <2>1. /\ pc[r] \in {"create", "setTicket", "comment", "commit"}
        /\ pc'[r] \notin {"decisionEntry", "commit"}
        /\ sig' = sig /\ Inc(r)'.id = Inc(r).id
    <3>1. CASE CreateTicket(r)
      BY <3>1 DEF CreateTicket, Goto, TypeOK, Inc, Decisions, Incidents
    <3>2. CASE SetTicket(r) \/ Comment(r) \/ Commit(r)
      BY <3>2 DEF SetTicket, Comment, Commit, Goto, TypeOK, Inc
    <3> QED BY <1>7, <3>1, <3>2
  <2> QED BY <1>2, <2>1 DEF InTx
<1>8. CASE ReadOpen(r) \/ ReadOpenCut(r) \/ Save(r)
  <2>1. pc'[r] \in {"receivedEntry", "save"}
    BY <1>8 DEF ReadOpen, ReadOpenCut, Decide, Save, Goto, TypeOK
  <2> QED BY <2>1 DEF InTx
<1> QED BY <1>1, <1>3, <1>4, <1>5, <1>6, <1>7, <1>8 DEF Advances

\* What is stored was audited.
LEMMA MembersAuditedStep ==
  ASSUME IndInv, IndInv', TableInv, RecordInv, MembersAreAudited, [Next]_vars
  PROVE  MembersAreAudited'
<1> USE DEF IndInv
<1> DEFINE Audited(m) ==
      \E a, b, c \in DOMAIN audit :
        /\ a < b /\ b < c
        /\ \A n \in {a, b, c} : audit[n].incident = m.incident /\ Episode(audit[n].signal) = Episode(m)
        /\ audit[a].type = "signal.received" /\ audit[b].type = "triage.decision"
        /\ audit[c].type \in {"ticket.created", "ticket.commented"}
<1>1. \A n \in DOMAIN audit : n \in DOMAIN audit' /\ audit'[n] = audit[n]
  BY LogGrows
<1>2. ASSUME NEW m, Audited(m) PROVE Audited(m)'
  <2>1. PICK a, b, c \in DOMAIN audit :
          /\ a < b /\ b < c
          /\ \A n \in {a, b, c} : audit[n].incident = m.incident /\ Episode(audit[n].signal) = Episode(m)
          /\ audit[a].type = "signal.received" /\ audit[b].type = "triage.decision"
          /\ audit[c].type \in {"ticket.created", "ticket.commented"}
    BY <1>2
  <2>2. /\ {a, b, c} \subseteq DOMAIN audit'
        /\ audit'[a] = audit[a] /\ audit'[b] = audit[b] /\ audit'[c] = audit[c]
    BY <1>1
  <2>3. \A n \in {a, b, c} : audit'[n].incident = m.incident /\ Episode(audit'[n].signal) = Episode(m)
    BY <2>1, <2>2
  <2>4. /\ a < b /\ b < c
        /\ audit'[a].type = "signal.received" /\ audit'[b].type = "triage.decision"
        /\ audit'[c].type \in {"ticket.created", "ticket.commented"}
    BY <2>1, <2>2
  <2> QED BY <2>2, <2>3, <2>4 DEF Episode
<1> SUFFICES ASSUME spent'["cuts"] = 0, NEW m \in members'
             PROVE  Audited(m)'
  BY DEF MembersAreAudited, Episode
<1>3. spent["cuts"] = 0
  <2>1. spent["cuts"] \in Nat /\ spent'["cuts"] \in Nat
    BY DEF TypeOK, Faults
  <2> QED BY <2>1, RowsGrow DEF TableInv
<1>4. ASSUME m \in members PROVE Audited(m)
  BY <1>3, <1>4 DEF MembersAreAudited
<1>5. ASSUME NEW r \in Requests, Commit(r), m \notin members
      PROVE  Audited(m)
  <2>1. pc[r] = "commit" /\ decision[r].kind \in {"open", "join", "repeat"}
    BY <1>5, CommitAdds
  <2>2. PICK e \in Inc(r).members : m = Member(Inc(r).id, e) /\ Episode(m) = e
    BY <1>5, CommitAdds
  <2>3. decision[r].kind \in {"open", "join"} /\ e = Episode(sig[r])
    BY <1>3, <1>5, <2>1, <2>2, CommitAdds DEF TableInv, AboutInv, InTx
  <2>4. PICK a, b, c \in DOMAIN audit : Decided(a, b, r) /\ b < c /\ Ticketed(c, r)
    BY <2>1, <2>3 DEF RecordInv
  <2>5. m.incident = Inc(r).id
    BY <2>2 DEF Member
  <2> QED BY <2>2, <2>3, <2>4, <2>5 DEF Decided, Received, Ticketed, IsEntry
<1> HIDE DEF Audited
<1> QED BY <1>2, <1>4, <1>5, TableChange

\* The audit log is ahead of the ticketing service: what a step puts on a ticket
\* is the episode whose decision the handler has just recorded.
LEMMA TicketsFollowStep ==
  ASSUME IndInv, IndInv', TableInv, TicketInv, RecordInv, TicketsFollowDecisions, [Next]_vars
  PROVE  TicketsFollowDecisions'
<1> USE DEF IndInv
<1> DEFINE Has(log, id, e) == \E a \in DOMAIN log : /\ log[a].type = "triage.decision"
                                                   /\ log[a].incident = id /\ Episode(log[a].signal) = e
<1>1. \A n \in DOMAIN audit : n \in DOMAIN audit' /\ audit'[n] = audit[n]
  BY LogGrows
<1>2. ASSUME NEW id, NEW e, Has(audit, id, e) PROVE Has(audit', id, e)
  BY <1>1, <1>2
<1>3. ASSUME NEW r \in Requests, pc[r] \in {"create", "comment"}
      PROVE  Has(audit, Inc(r).id, Episode(sig[r]))
  <2>1. PICK a, b \in DOMAIN audit : Decided(a, b, r)
    BY <1>3 DEF RecordInv, InTx
  <2> QED BY <2>1 DEF Decided, IsEntry
<1>4. ASSUME NEW n \in DOMAIN tickets
      PROVE  tickets[n].shown # {} /\ \A e \in tickets[n].shown : Has(audit, tickets[n].incident, e)
  BY DEF TicketsFollowDecisions
<1> SUFFICES ASSUME NEW n \in DOMAIN tickets'
             PROVE  /\ tickets'[n].shown # {}
                    /\ \A e \in tickets'[n].shown : Has(audit', tickets'[n].incident, e)
  BY DEF TicketsFollowDecisions, Episode
<1>5. CASE n \in DOMAIN tickets
  <2>1. /\ tickets'[n].incident = tickets[n].incident /\ tickets[n].shown \subseteq tickets'[n].shown
        /\ tickets'[n].shown # {}
    BY <1>4, <1>5, TicketsGrow
  <2>2. ASSUME NEW e \in tickets'[n].shown, e \notin tickets[n].shown
        PROVE  Has(audit, tickets[n].incident, e)
    <3>1. PICK r \in Requests : pc[r] = "comment" /\ tickets' = Commented(r)
      <4>1. ASSUME NEW r \in Requests, pc[r] = "create", tickets' = Created(r) PROVE FALSE
        <5>1. PICK t \in [incident: Nat, shown: SUBSET Episodes] : tickets' = Append(tickets, t)
          BY <4>1 DEF Created, TypeOK, Decisions, Inc, Incidents
        <5>2. tickets'[n] = tickets[n]
          BY <1>5, <5>1, AppendProperties DEF TypeOK
        <5> QED BY <2>2, <5>2
      <4> QED BY <2>2, <4>1, TicketStep
    <3>2. decision[r].kind = "join" /\ Row(Inc(r)) \in incidents
      BY <3>1 DEF StepInv, DataInv, DecisionInv, InTx
    <3>3. tickets[Inc(r).ticket].incident = Inc(r).id
      BY <3>2 DEF TicketInv, RowTicketInv, Row
    <3>4. n = Inc(r).ticket /\ e = Episode(sig[r])
      BY <1>5, <2>2, <3>1 DEF Commented
    <3> HIDE DEF Has
    <3> QED BY <1>3, <3>1, <3>3, <3>4
  <2> HIDE DEF Has
  <2>3. \A e \in tickets'[n].shown : Has(audit, tickets[n].incident, e)
    BY <1>4, <1>5, <2>2
  <2> QED BY <1>2, <2>1, <2>3
<1>6. CASE n \notin DOMAIN tickets
  <2>1. PICK r \in Requests :
          pc[r] = "create" /\ tickets'[n] = [incident |-> Inc(r).id, shown |-> Inc(r).members]
    BY <1>6, TicketsGrow
  <2>2. Inc(r).members = {Episode(sig[r])}
    BY <2>1 DEF TableInv, AboutInv, InTx, StepInv
  <2> HIDE DEF Has
  <2> QED BY <1>2, <1>3, <2>1, <2>2
<1> QED BY <1>5, <1>6

\* What is on record stays ahead of the store and of the tickets.
LEMMA AuditInvStep ==
  ASSUME IndInv, IndInv', TableInv, TicketInv, AuditInv, [Next]_vars
  PROVE  AuditInv'
BY RecordStep, MembersAuditedStep, TicketsFollowStep DEF AuditInv

-----------------------------------------------------------------------------
(* The body and the answer.                                                *)

\* What a step does to one handler's body, Alerts left and Signal at hand.
HandlesOn(r) ==
  /\ body'[r] = body[r] /\ todo'[r] = todo[r] /\ sig'[r] = sig[r]
  /\ pc'[r] = pc[r] \/ (pc[r] \in Busy /\ pc'[r] \in Busy)

LEMMA BodyKinds ==
  ASSUME TypeOK, [Next]_vars, NEW r \in Requests
  PROVE  \/ pc'[r] = "idle" \/ HandlesOn(r)
         \/ \E b \in Bodies : Post(r, b)
         \/ Accept(r) \/ DropAlert(r) \/ TakeAlert(r) \/ Launch(r)
         \/ AuditDecision(r) /\ decision[r].kind = "drop"
<1> DEFINE G == \/ pc'[r] = "idle" \/ HandlesOn(r)
                \/ \E b \in Bodies : Post(r, b)
                \/ Accept(r) \/ DropAlert(r) \/ TakeAlert(r) \/ Launch(r)
                \/ AuditDecision(r) /\ decision[r].kind = "drop"
<1> USE DEF Goto, HandlesOn
\* A step of another handler.
<1>1. ASSUME NEW q \in Requests, HandlerStep(q), q # r PROVE HandlesOn(r)
  <2>1. CASE Refuse(q) \/ Unreadable(q) \/ Accept(q) \/ DropAlert(q) \/ TakeAlert(q) \/ AnswerOK(q)
    BY <1>1, <2>1 DEF Refuse, Unreadable, Accept, DropAlert, TakeAlert, AnswerOK, Answer, TypeOK
  <2>2. CASE Lock(q) \/ ReadOpen(q) \/ Save(q) \/ AuditReceived(q) \/ AuditDecision(q)
    BY <1>1, <2>2 DEF Lock, ReadOpen, Decide, Save, AuditReceived, AuditDecision, TypeOK
  <2>3. CASE CreateTicket(q) \/ SetTicket(q) \/ AuditCreated(q) \/ Comment(q) \/ AuditCommented(q)
    BY <1>1, <2>3 DEF CreateTicket, SetTicket, AuditCreated, Comment, AuditCommented, TypeOK
  <2>4. CASE Commit(q) \/ Launch(q) \/ Cancelled(q)
    BY <1>1, <2>4 DEF Commit, Launch, Cancelled, Abort, Answer, TypeOK
  <2> QED BY <1>1, <2>1, <2>2, <2>3, <2>4 DEF HandlerStep
\* Its own.
<1>2. ASSUME HandlerStep(r) PROVE G
  <2>1. CASE Refuse(r) \/ Unreadable(r) \/ AnswerOK(r) \/ Cancelled(r)
    BY <2>1 DEF Refuse, Unreadable, AnswerOK, Cancelled, Abort, Answer, TypeOK
  <2>2. CASE Lock(r) \/ ReadOpen(r) \/ Save(r) \/ AuditReceived(r)
    BY <2>2 DEF Lock, ReadOpen, Decide, Save, AuditReceived, TypeOK, Busy, Locked, InTx
  <2>3. CASE CreateTicket(r) \/ SetTicket(r) \/ AuditCreated(r) \/ Comment(r) \/ AuditCommented(r)
    BY <2>3 DEF CreateTicket, SetTicket, AuditCreated, Comment, AuditCommented, TypeOK,
       Busy, Locked, InTx
  <2>4. CASE Commit(r)
    BY <2>4 DEF Commit, TypeOK, Busy, Locked, InTx
  <2>5. CASE AuditDecision(r) /\ decision[r].kind # "drop"
    BY <2>5 DEF AuditDecision, AfterDecision, TypeOK, Decisions, Busy, Locked, InTx
  <2> QED BY <1>2, <2>1, <2>2, <2>3, <2>4, <2>5 DEF HandlerStep
<1>3. ASSUME NEW q \in Requests, FaultStep(q) PROVE pc'[r] = "idle" \/ HandlesOn(r)
  <2>1. CASE HangUp(q)
    BY <2>1 DEF HangUp
  <2>2. CASE RefuseUnaudited(q) \/ Fail(q) \/ LostReply(q)
    BY <2>2 DEF RefuseUnaudited, Fail, LostReply, Abort, Answer, TypeOK
  <2>3. CASE ReadOpenCut(q)
    BY <2>3 DEF ReadOpenCut, Decide, TypeOK, Busy, Locked, InTx
  <2> QED BY <1>3, <2>1, <2>2, <2>3 DEF FaultStep
<1>4. ASSUME NEW q \in Requests, NEW b \in Bodies, Post(q, b) PROVE Post(r, b) \/ HandlesOn(r)
  BY <1>4 DEF Post, TypeOK
<1>5. ASSUME NEW b \in Bodies, Renotify(b) PROVE HandlesOn(r)
  BY <1>5 DEF Renotify, handler
<1>6. ASSUME NEW i \in running, InvestigationEnds(i) PROVE HandlesOn(r)
  BY <1>6 DEF InvestigationEnds, handler
<1>7. ASSUME Crash PROVE pc'[r] = "idle"
  BY <1>7 DEF Crash
<1>8. ASSUME UNCHANGED vars PROVE HandlesOn(r)
  BY <1>8 DEF vars
<1> HIDE DEF HandlesOn
<1> QED BY <1>1, <1>2, <1>3, <1>4, <1>5, <1>6, <1>7, <1>8 DEF Next

\* Only AnswerOK answers 200.
LEMMA AcceptedBy ==
  ASSUME TypeOK, [Next]_vars, NEW b \in Bodies, source'[b] = "accepted"
  PROVE  source[b] = "accepted" \/ \E r \in Requests : AnswerOK(r) /\ b = body[r]
<1> DEFINE G == source[b] = "accepted" \/ \E r \in Requests : AnswerOK(r) /\ b = body[r]
<1>0. ASSUME NEW r \in Requests, NEW outcome, outcome # "accepted", Answer(r, outcome) PROVE G
  BY <1>0 DEF Answer, TypeOK
<1>1. ASSUME NEW r \in Requests, HandlerStep(r) PROVE G
  <2>1. CASE Refuse(r) \/ Unreadable(r) \/ Cancelled(r)
    BY <1>0, <2>1 DEF Refuse, Unreadable, Cancelled, Abort
  <2>2. CASE AnswerOK(r)
    BY <2>2 DEF AnswerOK, Answer, TypeOK
  <2>3. CASE Accept(r) \/ DropAlert(r) \/ TakeAlert(r) \/ Lock(r) \/ Launch(r) \/ AuditDecision(r)
    BY <2>3 DEF Accept, DropAlert, TakeAlert, Lock, Launch, AuditDecision
  <2>4. CASE Advances(r)
    BY <2>4 DEF Advances, ReadOpen, Decide, Save, AuditReceived, AuditDecision, CreateTicket,
       SetTicket, AuditCreated, Comment, AuditCommented, Commit, ReadOpenCut
  <2> QED BY <1>1, <2>1, <2>2, <2>3, <2>4 DEF HandlerStep, Advances
<1>2. ASSUME NEW r \in Requests, FaultStep(r) PROVE G
  <2>1. CASE HangUp(r)
    BY <2>1 DEF HangUp, TypeOK
  <2>2. CASE RefuseUnaudited(r) \/ Fail(r) \/ LostReply(r)
    BY <1>0, <2>2 DEF RefuseUnaudited, Fail, LostReply, Abort
  <2>3. CASE ReadOpenCut(r)
    BY <2>3 DEF ReadOpenCut, Decide
  <2> QED BY <1>2, <2>1, <2>2, <2>3 DEF FaultStep
<1>3. ASSUME NEW r \in Requests, NEW x \in Bodies, Post(r, x) PROVE G
  BY <1>3 DEF Post, TypeOK
<1>4. ASSUME NEW x \in Bodies, Renotify(x) PROVE G
  BY <1>4 DEF Renotify, TypeOK
<1>5. ASSUME NEW i \in running, InvestigationEnds(i) PROVE G
  BY <1>5 DEF InvestigationEnds
<1>6. ASSUME Crash PROVE G
  BY <1>6 DEF Crash, TypeOK
<1>7. ASSUME UNCHANGED vars PROVE G
  BY <1>7 DEF vars
<1> QED BY <1>1, <1>2, <1>3, <1>4, <1>5, <1>6, <1>7 DEF Next

\* Once stored, accounted for or marked, always so.
LEMMA PromisesKept ==
  ASSUME IndInv, IndInv', TableInv, [Next]_vars
  PROVE  /\ \A s : Stored(s) => Stored(s)'
         /\ \A s : Accounted(s) => Accounted(s)'
         /\ \A b : Marked(b) => Marked(b)'
<1> USE DEF IndInv
<1>1. incidents \subseteq incidents' /\ members \subseteq members'
  BY RowsGrow DEF TableInv
<1>2. \A n \in DOMAIN audit : n \in DOMAIN audit' /\ audit'[n] = audit[n]
  BY LogGrows
<1>3. ASSUME NEW s, Stored(s) PROVE Stored(s)'
  BY <1>1, <1>3 DEF Stored, SameIncident, Member, Episode
<1>4. ASSUME NEW s, Accounted(s) PROVE Accounted(s)'
  <2>1. CASE s = Unmappable
    BY <1>2, <1>4, <2>1 DEF Accounted
  <2>2. CASE s # Unmappable
    <3>1. PICK a, c \in DOMAIN audit :
            /\ a < c /\ audit[a].incident = audit[c].incident
            /\ audit[a].type = "signal.received" /\ audit[c].type = "triage.decision"
            /\ audit[a].signal = s /\ audit[c].signal = s
      BY <1>4, <2>2 DEF Accounted
    <3> QED BY <1>2, <2>2, <3>1 DEF Accounted
  <2> QED BY <2>1, <2>2
<1>5. ASSUME NEW b, Marked(b) PROVE Marked(b)'
  BY <1>2, <1>5 DEF Marked
<1> QED BY <1>3, <1>4, <1>5

\* The Alerts taken and those to do, when the next one is taken.
LEMMA NextAlert ==
  ASSUME TypeOK, BodyInv, NEW r \in Requests, pc[r] = "alert", todo[r] # <<>>,
         body'[r] = body[r], todo'[r] = Tail(todo[r])
  PROVE  /\ Taken(r) \in Nat /\ Taken(r)' = Taken(r) + 1
         /\ Head(todo[r]) = body[r].alerts[Taken(r) + 1]
         /\ \A n \in DOMAIN todo'[r] : todo'[r][n] = body[r].alerts[Taken(r)' + n]
<1>1. /\ body[r] \in Bodies /\ Taken(r) \in Nat
      /\ \A n \in DOMAIN todo[r] : todo[r][n] = body[r].alerts[Taken(r) + n]
  BY DEF BodyInv
<1>2. /\ todo[r] \in Seq(Signals \cup {Unmappable})
      /\ body[r].alerts \in Seq(Signals \cup {Unmappable})
  BY <1>1, ControlPlaneAssumption DEF TypeOK
<1>3. PICK k \in Nat : k = Taken(r)
  BY <1>1
<1>4. k = Len(body[r].alerts) - Len(todo[r])
  BY <1>3 DEF Taken
<1>5. \A n \in DOMAIN todo[r] : todo[r][n] = body[r].alerts[k + n]
  BY <1>1, <1>3
<1>6. /\ Len(body[r].alerts) - Len(Tail(todo[r])) = k + 1
      /\ Head(todo[r]) = body[r].alerts[k + 1]
      /\ \A n \in DOMAIN Tail(todo[r]) : Tail(todo[r])[n] = body[r].alerts[(k + 1) + n]
  <2>1. PICK all, rest, T : all = body[r].alerts /\ rest = todo[r] /\ T = Signals \cup {Unmappable}
    OBVIOUS
  <2>2. PICK h, t : h = Head(todo[r]) /\ t = Tail(todo[r])
    OBVIOUS
  <2>3. /\ all \in Seq(T) /\ rest \in Seq(T) /\ rest # <<>> /\ k = Len(all) - Len(rest)
        /\ \A n \in DOMAIN rest : rest[n] = all[k + n]
        /\ h = Head(rest) /\ t = Tail(rest)
    BY <1>2, <1>4, <1>5, <2>1, <2>2
  <2>4. PICK l \in Nat \ {0} : l = Len(rest)
    BY <2>3, EmptySeq
  <2>5. PICK m \in Nat : m = Len(all)
    BY <2>3, LenProperties
  <2>6. t \in Seq(T) /\ Len(t) = l - 1 /\ \A n \in 1..Len(t) : t[n] = rest[n + 1]
    BY <2>3, <2>4, HeadTailProperties
  <2>7. DOMAIN rest = 1..l /\ DOMAIN t = 1..(l - 1)
    BY <2>3, <2>4, <2>6, LenProperties
  <2>8. Len(all) - Len(t) = k + 1
    BY <1>3, <2>3, <2>4, <2>5, <2>6
  <2>9. h = rest[1] /\ 1 \in DOMAIN rest
    BY <2>3, <2>4, <2>7
  <2>10. ASSUME NEW n \in DOMAIN t PROVE t[n] = all[(k + 1) + n]
    <3>1. n \in 1..(l - 1)
      BY <2>7, <2>10
    <3>2. n \in 1..Len(t)
      BY <2>6, <3>1
    <3>3. n + 1 \in DOMAIN rest /\ k + (n + 1) = (k + 1) + n
      BY <1>3, <2>4, <2>7, <3>1
    <3>4. rest[n + 1] = all[k + (n + 1)]
      BY <2>3, <3>3
    <3> QED BY <2>6, <3>2, <3>3, <3>4
  <2> QED BY <2>1, <2>2, <2>3, <2>8, <2>9, <2>10
<1>7. Taken(r)' = k + 1
  BY <1>6 DEF Taken
<1> QED BY <1>3, <1>6, <1>7

\* What the handler has taken is stored and accounted for before it goes on.
LEMMA BodyStep ==
  ASSUME IndInv, IndInv', TableInv, RecordInv, BodyInv, [Next]_vars
  PROVE  BodyInv'
<1> USE DEF IndInv
<1> DEFINE Done(b, n) == Stored(b.alerts[n]) /\ Accounted(b.alerts[n])
           Held(r) ==
             /\ pc[r] # "idle" => body[r] \in Bodies
             /\ pc[r] \notin {"idle", "received"} =>
                  /\ body[r].form \in {"alerts", "truncated"} /\ Marked(body[r])
                  /\ Taken(r) \in Nat
                  /\ \A n \in DOMAIN todo[r] : todo[r][n] = body[r].alerts[Taken(r) + n]
                  /\ \A n \in 1..Taken(r) : (n = Taken(r) /\ pc[r] \in Busy) \/ Done(body[r], n)
                  /\ pc[r] \in Busy => Taken(r) > 0 /\ sig[r] = body[r].alerts[Taken(r)]
<1> SUFFICES ASSUME NEW r \in Requests PROVE Held(r)'
  BY DEF BodyInv
<1>0. Held(r)
  BY DEF BodyInv
<1>1. \A b, n : Done(b, n) => Done(b, n)'
  BY PromisesKept
<1>2. \A b : Marked(b) => Marked(b)'
  BY PromisesKept
<1> HIDE DEF Done
<1>3. CASE pc'[r] = "idle"
  BY <1>3
<1>4. CASE HandlesOn(r)
  <2>1. body'[r] = body[r] /\ todo'[r] = todo[r] /\ sig'[r] = sig[r] /\ Taken(r)' = Taken(r)
    BY <1>4 DEF HandlesOn, Taken
  <2>2. pc'[r] = pc[r] \/ (pc[r] \in Busy /\ pc'[r] \in Busy)
    BY <1>4 DEF HandlesOn
  <2>3. "idle" \notin Busy /\ "received" \notin Busy
    BY DEF Busy, Locked, InTx
  <2> QED BY <1>0, <1>1, <1>2, <2>1, <2>2, <2>3
<1>5. ASSUME NEW b \in Bodies, Post(r, b) PROVE Held(r)'
  BY <1>5 DEF Post, Goto, TypeOK
<1>6. CASE Accept(r)
  <2>1. /\ pc[r] = "received" /\ pc'[r] = "alert" /\ body'[r] = body[r] /\ body[r] \in Bodies
        /\ todo'[r] = body[r].alerts /\ body[r].form \in {"alerts", "truncated"}
    BY <1>0, <1>6 DEF Accept, Goto, TypeOK
  <2>2. Marked(body[r])'
    <3>1. CASE body[r].form = "truncated"
      <4>1. Log("request.truncated", 0, NoSignal, 0)
        BY <1>6, <3>1 DEF Accept
      <4>2. PICK a \in DOMAIN audit' :
              audit'[a] = [type |-> "request.truncated", incident |-> 0, signal |-> NoSignal, ref |-> 0]
        BY <4>1, LogEntry DEF Log
      <4> QED BY <4>2 DEF Marked
    <3>2. CASE body[r].form # "truncated"
      BY <2>1, <3>2 DEF Marked
    <3> QED BY <3>1, <3>2
  <2>3. Len(body[r].alerts) \in Nat
    BY <2>1, ControlPlaneAssumption, LenProperties
  <2>4. Taken(r)' = 0
    <3>1. \A n \in Nat : n - n = 0
      OBVIOUS
    <3> QED BY <2>1, <2>3, <3>1 DEF Taken
  <2>5. \A n \in DOMAIN todo'[r] : todo'[r][n] = body'[r].alerts[Taken(r)' + n]
    <3>1. DOMAIN body[r].alerts = 1..Len(body[r].alerts)
      BY <2>1, ControlPlaneAssumption, LenProperties
    <3>2. \A n \in 1..Len(body[r].alerts) : 0 + n = n
      BY <2>3
    <3> QED BY <2>1, <2>4, <3>1, <3>2
  <2> QED BY <2>1, <2>2, <2>4, <2>5 DEF Busy, Locked, InTx
\* The next Alert is taken: it remains to see to that one.
<1>7. ASSUME pc[r] = "alert", todo[r] # <<>>, body'[r] = body[r], todo'[r] = Tail(todo[r]),
             NEW alert, alert = Head(todo[r]),
             \/ pc'[r] = "alert" /\ Stored(alert)' /\ Accounted(alert)'
             \/ pc'[r] = "lock" /\ sig'[r] = alert
      PROVE  Held(r)'
  <2>1. PICK k \in Nat : k = Taken(r)
    BY <1>7, NextAlert
  <2>2. /\ Taken(r)' = k + 1 /\ alert = body[r].alerts[k + 1]
        /\ \A n \in DOMAIN todo'[r] : todo'[r][n] = body[r].alerts[Taken(r)' + n]
    BY <1>7, <2>1, NextAlert
  <2>3. /\ body[r] \in Bodies /\ body[r].form \in {"alerts", "truncated"} /\ Marked(body[r])
        /\ \A n \in 1..k : Done(body[r], n)
    BY <1>0, <1>7, <2>1 DEF Busy, Locked, InTx
  <2>4. \A b : b = body[r] => Marked(b)' /\ \A n \in 1..k : Done(b, n)'
    BY <1>1, <1>2, <2>3
  <2>5. Marked(body[r])' /\ \A n \in 1..k : Done(body[r], n)'
    BY <1>7, <2>4
  <2>6. "idle" \notin Busy /\ "received" \notin Busy /\ "alert" \notin Busy /\ "lock" \in Busy
    BY DEF Busy, Locked, InTx
  <2>7. \A n \in 1..(k + 1) : n \in 1..k \/ n = k + 1
    OBVIOUS
  <2>8. k + 1 \in Nat /\ k + 1 > 0
    OBVIOUS
  <2>9. pc'[r] = "alert" => Done(body[r], k + 1)'
    BY <1>7, <2>2 DEF Done
  <2>10. CASE pc'[r] = "alert"
    BY <1>7, <2>2, <2>3, <2>5, <2>6, <2>7, <2>8, <2>9, <2>10
  <2>11. CASE pc'[r] = "lock"
    BY <1>7, <2>2, <2>3, <2>5, <2>6, <2>7, <2>8, <2>11
  <2> QED BY <1>7, <2>10, <2>11
<1>8. CASE DropAlert(r)
  <2>1. /\ pc[r] = "alert" /\ pc'[r] = "alert" /\ todo[r] # <<>> /\ Head(todo[r]) = Unmappable
        /\ body'[r] = body[r] /\ todo'[r] = Tail(todo[r])
        /\ Log("signal.dropped", 0, NoSignal, 0)
    BY <1>8 DEF DropAlert, TypeOK
  <2>2. PICK a \in DOMAIN audit' :
          audit'[a] = [type |-> "signal.dropped", incident |-> 0, signal |-> NoSignal, ref |-> 0]
    BY <2>1, LogEntry DEF Log
  <2>3. Stored(Unmappable)' /\ Accounted(Unmappable)'
    BY <2>2 DEF Stored, Accounted
  <2> QED BY <1>7, <2>1, <2>3
<1>9. CASE TakeAlert(r)
  <2>1. /\ pc[r] = "alert" /\ pc'[r] = "lock" /\ todo[r] # <<>>
        /\ body'[r] = body[r] /\ todo'[r] = Tail(todo[r]) /\ sig'[r] = Head(todo[r])
    BY <1>9 DEF TakeAlert, Goto, TypeOK
  <2> QED BY <1>7, <2>1
\* The last Alert taken is done with.
<1>10. ASSUME pc[r] \in Busy, pc'[r] = "alert", body'[r] = body[r], todo'[r] = todo[r],
              NEW s, s = sig[r], Stored(s)', Accounted(s)'
       PROVE  Held(r)'
  <2>1. /\ body[r] \in Bodies /\ body[r].form \in {"alerts", "truncated"} /\ Marked(body[r])
        /\ Taken(r) \in Nat /\ s = body[r].alerts[Taken(r)]
        /\ \A n \in DOMAIN todo[r] : todo[r][n] = body[r].alerts[Taken(r) + n]
        /\ \A n \in 1..Taken(r) : n = Taken(r) \/ Done(body[r], n)
    BY <1>0, <1>10 DEF Busy, Locked, InTx
  <2>2. Taken(r)' = Taken(r)
    BY <1>10 DEF Taken
  <2>3. Marked(body[r])' /\ \A n \in 1..Taken(r) : n = Taken(r) \/ Done(body[r], n)'
    BY <1>1, <1>2, <1>10, <2>1
  <2>4. ASSUME NEW n, n = Taken(r) PROVE Done(body[r], n)'
    BY <1>10, <2>1, <2>4 DEF Done
  <2>5. "alert" \notin Busy
    BY DEF Busy, Locked, InTx
  <2> QED BY <1>10, <2>1, <2>2, <2>3, <2>4, <2>5
<1>11. CASE Launch(r)
  <2>1. /\ pc[r] = "launch" /\ pc'[r] = "alert" /\ body' = body /\ todo' = todo /\ sig' = sig
    BY <1>11 DEF Launch, Goto, TypeOK
  <2>2. PICK s : s = sig[r]
    OBVIOUS
  <2>3. Stored(s)
    <3>1. /\ Row(Inc(r)) \in incidents /\ SameIncident(Inc(r), s)
          /\ Member(Inc(r).id, Episode(s)) \in members
      BY <2>1, <2>2 DEF TableInv, StoredInv
    <3>2. SameIncident(Row(Inc(r)), s) /\ Row(Inc(r)).id = Inc(r).id
      BY <3>1 DEF SameIncident, Row
    <3> QED BY <3>1, <3>2 DEF Stored
  <2>4. Accounted(s)
    <3>1. PICK a, b \in DOMAIN audit : Decided(a, b, r)
      BY <2>1 DEF RecordInv
    <3>2. s # Unmappable
      BY <2>1, <2>2, ControlPlaneAssumption DEF StepInv, Locked
    <3> QED BY <2>2, <3>1, <3>2 DEF Accounted, Decided, Received, IsEntry
  <2>5. Stored(s)' /\ Accounted(s)'
    BY <2>3, <2>4, PromisesKept
  <2> QED BY <1>10, <2>1, <2>2, <2>5 DEF Busy, Locked
<1>12. CASE AuditDecision(r) /\ decision[r].kind = "drop"
  <2>1. /\ pc[r] = "decisionEntry" /\ pc'[r] = "alert" /\ body' = body /\ todo' = todo
        /\ Log("triage.decision", Inc(r).id, sig[r], 0)
    BY <1>12 DEF AuditDecision, AfterDecision, Goto, TypeOK
  <2>2. PICK s : s = sig[r]
    OBVIOUS
  <2>3. Stored(s)'
    BY <1>12, <2>1, <2>2 DEF Stored, TableInv, AboutInv, InTx
  <2>4. PICK a \in DOMAIN audit : Received(a, r)
    BY <2>1 DEF RecordInv
  <2>5. PICK b \in DOMAIN audit' :
          /\ a < b /\ a \in DOMAIN audit' /\ audit'[a] = audit[a]
          /\ audit'[b] = [type |-> "triage.decision", incident |-> Inc(r).id, signal |-> s, ref |-> 0]
    BY <2>1, <2>2, <2>4, LogEntry DEF Log
  <2>6. s # Unmappable
    BY <2>1, <2>2, ControlPlaneAssumption DEF StepInv, Locked, InTx
  <2>7. Accounted(s)'
    BY <2>2, <2>4, <2>5, <2>6 DEF Accounted, Received, IsEntry
  <2> QED BY <1>10, <2>1, <2>2, <2>3, <2>7 DEF Busy, Locked, InTx
<1> QED
  BY <1>3, <1>4, <1>5, <1>6, <1>8, <1>9, <1>11, <1>12, BodyKinds

\* A 200 answer is given when everything has been taken.
LEMMA PromiseInvStep ==
  ASSUME IndInv, IndInv', TableInv, RecordInv, PromiseInv, [Next]_vars
  PROVE  PromiseInv'
<1> USE DEF IndInv
<1>1. BodyInv'
  BY BodyStep DEF PromiseInv
<1>2. ASSUME NEW b \in Bodies, source'[b] = "accepted"
      PROVE  Marked(b)' /\ \A n \in DOMAIN b.alerts : Stored(b.alerts[n])' /\ Accounted(b.alerts[n])'
  <2>1. CASE source[b] = "accepted"
    <3>1. Marked(b) /\ \A n \in DOMAIN b.alerts : Stored(b.alerts[n]) /\ Accounted(b.alerts[n])
      BY <2>1 DEF PromiseInv, AcceptedIsStored, AcceptedIsAudited, Marked, Stored, Accounted
    <3> QED BY <3>1, PromisesKept
  <2>2. ASSUME NEW r \in Requests, AnswerOK(r), b = body[r]
        PROVE  Marked(b) /\ \A n \in DOMAIN b.alerts : Stored(b.alerts[n]) /\ Accounted(b.alerts[n])
    <3>1. pc[r] = "alert" /\ todo[r] = <<>>
      BY <2>2 DEF AnswerOK
    <3>2. /\ Marked(b)
          /\ \A n \in 1..Taken(r) : Stored(b.alerts[n]) /\ Accounted(b.alerts[n])
      BY <2>2, <3>1 DEF PromiseInv, BodyInv, Busy, Locked, InTx
    <3>3. DOMAIN b.alerts = 1..Len(b.alerts) /\ Len(b.alerts) \in Nat
      BY ControlPlaneAssumption, LenProperties
    <3>4. Len(todo[r]) = 0
      BY <3>1
    <3>5. Taken(r) = Len(b.alerts)
      <4>1. \A n \in Nat : n - 0 = n
        OBVIOUS
      <4> QED BY <2>2, <3>3, <3>4, <4>1 DEF Taken
    <3> QED BY <3>2, <3>3, <3>5
  <2> QED BY <1>2, <2>1, <2>2, AcceptedBy, PromisesKept
<1>3. AcceptedIsStored'
  BY <1>2 DEF AcceptedIsStored, Stored
<1>4. AcceptedIsAudited'
  BY <1>2 DEF AcceptedIsAudited, Marked, Accounted
<1> QED BY <1>1, <1>3, <1>4 DEF PromiseInv

-----------------------------------------------------------------------------
(* Orphans.                                                                *)

\* What the environment has spent on what can cost a ticket.
Paid == spent["faults"] + spent["hangups"] + spent["crashes"]

\* The handlers that have a ticket no stored Incident may refer to yet.
Holding == {"setTicket", "createdEntry", "commit"}

\* A handler that has a ticket keeps it, commits, or fails.
LEMMA HolderKinds ==
  ASSUME TypeOK, MutexInv, StepInv, [Next]_vars, NEW r \in Requests, pc[r] \in Holding
  PROVE  \/ pc'[r] \in Holding /\ Inc(r)'.ticket = Inc(r).ticket
         \/ Commit(r) \/ Fail(r) \/ Cancelled(r) \/ Crash
<1> DEFINE Keeps == pc'[r] \in Holding /\ Inc(r)'.ticket = Inc(r).ticket
<1>0. ASSUME pc'[r] = pc[r], decision'[r] = decision[r] PROVE Keeps
  BY <1>0 DEF Inc
<1> HIDE DEF Keeps
<1>1. ASSUME NEW q \in Requests, HandlerStep(q), q # r PROVE Keeps
  <2>1. CASE Refuse(q) \/ Unreadable(q) \/ Accept(q) \/ DropAlert(q) \/ TakeAlert(q) \/ AnswerOK(q)
    BY <1>0, <1>1, <2>1 DEF Refuse, Unreadable, Accept, DropAlert, TakeAlert, AnswerOK, Answer, TypeOK,
       Goto
  <2>2. CASE Lock(q) \/ ReadOpen(q) \/ Save(q) \/ AuditReceived(q) \/ AuditDecision(q)
    BY <1>0, <1>1, <2>2 DEF Lock, ReadOpen, Decide, Save, AuditReceived, AuditDecision, TypeOK, Goto
  <2>3. CASE CreateTicket(q) \/ SetTicket(q) \/ AuditCreated(q) \/ Comment(q) \/ AuditCommented(q)
    BY <1>0, <1>1, <2>3 DEF CreateTicket, SetTicket, AuditCreated, Comment, AuditCommented, TypeOK, Goto
  <2>4. CASE Commit(q) \/ Launch(q) \/ Cancelled(q)
    BY <1>0, <1>1, <2>4 DEF Commit, Launch, Cancelled, Abort, Answer, TypeOK, Goto
  <2> QED BY <1>1, <2>1, <2>2, <2>3, <2>4 DEF HandlerStep
<1>2. ASSUME HandlerStep(r) PROVE Keeps \/ Commit(r) \/ Cancelled(r)
  <2>1. CASE SetTicket(r) \/ AuditCreated(r)
    BY <2>1 DEF SetTicket, AuditCreated, Goto, TypeOK, Holding, Inc, Keeps
  <2>2. CASE Refuse(r) \/ Unreadable(r) \/ Accept(r) \/ DropAlert(r) \/ TakeAlert(r) \/ AnswerOK(r)
    BY <2>2 DEF Refuse, Unreadable, Accept, DropAlert, TakeAlert, AnswerOK, Holding
  <2>3. CASE \/ Lock(r) \/ ReadOpen(r) \/ Save(r) \/ AuditReceived(r) \/ AuditDecision(r)
             \/ CreateTicket(r) \/ Comment(r) \/ AuditCommented(r) \/ Launch(r)
    BY <2>3 DEF Lock, ReadOpen, Save, AuditReceived, AuditDecision, CreateTicket, Comment,
       AuditCommented, Launch, Holding
  <2> QED BY <1>2, <2>1, <2>2, <2>3 DEF HandlerStep
<1>3. ASSUME NEW q \in Requests, FaultStep(q) PROVE Keeps \/ Fail(r)
  <2>1. CASE HangUp(q)
    BY <1>0, <2>1 DEF HangUp
  <2>2. CASE RefuseUnaudited(q) \/ LostReply(q)
    <3>1. pc[q] \in {"received", "create", "comment"}
      BY <2>2 DEF RefuseUnaudited, LostReply
    <3>2. q # r
      BY <3>1 DEF Holding
    <3> QED BY <1>0, <2>2, <3>2 DEF RefuseUnaudited, LostReply, Abort, Answer, TypeOK, Goto
  <2>3. CASE Fail(q) /\ q # r
    BY <1>0, <2>3 DEF Fail, Abort, Answer, TypeOK, Goto
  <2>4. CASE ReadOpenCut(q)
    <3>1. q # r
      BY <2>4 DEF ReadOpenCut, Holding
    <3> QED BY <1>0, <2>4, <3>1 DEF ReadOpenCut, Decide, Goto, TypeOK
  <2> QED BY <1>3, <2>1, <2>2, <2>3, <2>4 DEF FaultStep
<1>4. ASSUME NEW q \in Requests, NEW b \in Bodies, Post(q, b) PROVE Keeps
  <2>1. q # r
    BY <1>4 DEF Post, Holding
  <2> QED BY <1>0, <1>4, <2>1 DEF Post, Goto, TypeOK
<1>5. ASSUME NEW b \in Bodies, Renotify(b) PROVE Keeps
  BY <1>0, <1>5 DEF Renotify, handler
<1>6. ASSUME NEW i \in running, InvestigationEnds(i) PROVE Keeps
  BY <1>0, <1>6 DEF InvestigationEnds, handler
<1>7. ASSUME UNCHANGED vars PROVE Keeps
  BY <1>0, <1>7 DEF vars
<1> QED BY <1>1, <1>2, <1>3, <1>4, <1>5, <1>6, <1>7 DEF Next, Keeps

\* Only a failed call, a cancelled one, a lost reply or a crash leaves a new
\* orphan, and at most one.
LEMMA NewOrphan ==
  ASSUME IndInv, IndInv', TableInv, TicketInv, [Next]_vars, NEW n \in OrphanTickets' \ OrphanTickets
  PROVE  /\ Crash \/ \E r \in Requests : Fail(r) \/ Cancelled(r) \/ LostReply(r)
         /\ n = IF tickets' = tickets THEN Inc(mu).ticket ELSE Len(tickets) + 1
<1> USE DEF IndInv
<1>1. /\ n \in DOMAIN tickets' /\ \A i \in incidents' : i.ticket # n
      /\ \A r \in Requests : pc'[r] \in Holding => Inc(r)'.ticket # n
  BY DEF OrphanTickets, Holding
<1>2. incidents \subseteq incidents'
  BY RowsGrow DEF TableInv
<1>3. CASE n \notin DOMAIN tickets
  <2>1. n = Len(tickets) + 1 /\ tickets' # tickets
    BY <1>1, <1>3, TicketsGrow
  <2>2. ASSUME NEW r \in Requests, CreateTicket(r) PROVE FALSE
    <3>1. pc'[r] = "setTicket" /\ decision' = [decision EXCEPT ![r].incident.ticket = Len(tickets) + 1]
      BY <2>2 DEF CreateTicket, Goto, TypeOK
    <3>2. Inc(r)'.ticket = n
      BY <3>1, <2>1 DEF TypeOK, Decisions, Incidents, Inc
    <3> QED BY <1>1, <3>1, <3>2 DEF Holding
  <2>3. ASSUME NEW r \in Requests, Comment(r) PROVE FALSE
    BY <1>1, <1>3, <2>3 DEF Comment, Commented
  <2> QED BY <2>1, <2>2, <2>3, TicketWriters
<1>4. CASE n \in DOMAIN tickets
  <2>1. PICK q \in Requests : pc[q] \in Holding /\ Inc(q).ticket = n
    BY <1>1, <1>2, <1>4 DEF OrphanTickets, Holding
  <2>2. mu = q
    BY <2>1 DEF MutexInv, Locked, InTx, Holding
  <2>3. ~Commit(q)
    <3>1. ASSUME Commit(q) PROVE FALSE
      <4>1. Row(Inc(q)) \in incidents'
        BY <3>1, CommitAdds
      <4> QED BY <1>1, <2>1, <4>1 DEF Row
    <3> QED BY <3>1
  <2>4. Fail(q) \/ Cancelled(q) \/ Crash
    BY <1>1, <2>1, <2>3, HolderKinds
  <2>5. tickets' = tickets
    BY <2>4 DEF Fail, Cancelled, Crash
  <2> QED BY <2>1, <2>2, <2>4, <2>5
<1> QED BY <1>3, <1>4

\* A bound that is used up is paid for.
LEMMA Pays ==
  ASSUME TypeOK
  PROVE  /\ Paid \in Nat
         /\ UNCHANGED spent => Paid' = Paid
         /\ \A f \in Faults : \A max : Spend(f, max) =>
              Paid' = IF f \in {"faults", "hangups", "crashes"} THEN Paid + 1 ELSE Paid
<1>1. /\ \A f \in Faults : spent[f] \in Nat
      /\ {"faults", "hangups", "crashes"} \subseteq Faults
  BY DEF TypeOK, Faults
<1>2. Paid \in Nat /\ (UNCHANGED spent => Paid' = Paid)
  BY <1>1 DEF Paid
<1>3. ASSUME NEW f \in Faults, NEW max, Spend(f, max)
      PROVE  Paid' = IF f \in {"faults", "hangups", "crashes"} THEN Paid + 1 ELSE Paid
  <2>1. \A g \in Faults : spent'[g] = IF g = f THEN spent[g] + 1 ELSE spent[g]
    BY <1>3 DEF Spend, TypeOK
  <2> QED BY <1>1, <2>1 DEF Paid
<1> QED BY <1>2, <1>3

\* Nobody hangs up for anyone else; what is spent is never paid back.
LEMMA HungStep ==
  ASSUME TypeOK, [Next]_vars, \A r \in Requests : ~HangUp(r)
  PROVE  Hung' \subseteq Hung /\ Paid <= Paid'
<1>1. /\ UNCHANGED spent => Paid <= Paid'
      /\ \A f \in Faults : \A max : Spend(f, max) => Paid <= Paid'
  BY Pays
<1>2. \A r \in Requests : \A outcome : Answer(r, outcome) => Hung' \subseteq Hung
  BY DEF Answer, Hung, TypeOK
<1>3. UNCHANGED hungup => Hung' \subseteq Hung
  BY DEF Hung
<1>4. {"faults", "cuts", "repeats", "crashes"} \subseteq Faults
  BY DEF Faults
<1> DEFINE G == Hung' \subseteq Hung /\ Paid <= Paid'
<1>5. ASSUME NEW r \in Requests, HandlerStep(r) PROVE G
  <2>1. CASE Refuse(r) \/ Unreadable(r) \/ Accept(r) \/ DropAlert(r) \/ TakeAlert(r) \/ AnswerOK(r)
    BY <1>1, <1>2, <1>3, <2>1 DEF Refuse, Unreadable, Accept, DropAlert, TakeAlert, AnswerOK
  <2>2. CASE Lock(r) \/ ReadOpen(r) \/ Save(r) \/ AuditReceived(r) \/ AuditDecision(r)
    BY <1>1, <1>3, <2>2 DEF Lock, ReadOpen, Decide, Save, AuditReceived, AuditDecision
  <2>3. CASE CreateTicket(r) \/ SetTicket(r) \/ AuditCreated(r) \/ Comment(r) \/ AuditCommented(r)
    BY <1>1, <1>3, <2>3 DEF CreateTicket, SetTicket, AuditCreated, Comment, AuditCommented
  <2>4. CASE Commit(r) \/ Launch(r) \/ Cancelled(r)
    BY <1>1, <1>2, <1>3, <2>4 DEF Commit, Launch, Cancelled, Abort
  <2> QED BY <1>5, <2>1, <2>2, <2>3, <2>4 DEF HandlerStep
<1>6. ASSUME NEW r \in Requests, FaultStep(r) PROVE G
  <2>1. CASE RefuseUnaudited(r) \/ Fail(r) \/ LostReply(r)
    BY <1>1, <1>2, <1>4, <2>1 DEF RefuseUnaudited, Fail, LostReply, Abort
  <2>2. CASE ReadOpenCut(r)
    BY <1>1, <1>3, <1>4, <2>2 DEF ReadOpenCut, Decide
  <2> QED BY <1>6, <2>1, <2>2 DEF FaultStep
<1>7. ASSUME NEW r \in Requests, NEW b \in Bodies, Post(r, b) PROVE G
  BY <1>1, <1>3, <1>7 DEF Post
<1>8. ASSUME NEW b \in Bodies, Renotify(b) PROVE G
  BY <1>1, <1>3, <1>4, <1>8 DEF Renotify, handler
<1>9. ASSUME NEW i \in running, InvestigationEnds(i) PROVE G
  BY <1>1, <1>3, <1>4, <1>9 DEF InvestigationEnds, handler
<1>10. ASSUME Crash PROVE G
  BY <1>1, <1>4, <1>10 DEF Crash, Hung
<1>11. ASSUME UNCHANGED vars PROVE G
  BY <1>1, <1>3, <1>11 DEF vars
<1> QED BY <1>5, <1>6, <1>7, <1>8, <1>9, <1>10, <1>11 DEF Next

\* Every new orphan is paid for, by a new fault or by a source that had hung up.
LEMMA OrphanStep ==
  ASSUME IndInv, IndInv', TableInv, TicketInv, OrphanInv, [Next]_vars
  PROVE  OrphanInv'
<1> USE DEF IndInv
<1> DEFINE o == Cardinality(OrphanTickets)
           h == Cardinality(Hung)
<1>0. /\ IsFiniteSet(Hung) /\ IsFiniteSet(OrphanTickets) /\ IsFiniteSet(OrphanTickets')
      /\ o \in Nat /\ h \in Nat /\ Paid \in Nat /\ o + h <= Paid
  <2>1. Len(tickets) \in Nat /\ DOMAIN tickets = 1..Len(tickets)
    BY LenProperties DEF TypeOK
  <2>2. Len(tickets') \in Nat /\ DOMAIN tickets' = 1..Len(tickets')
    BY LenProperties DEF TypeOK
  <2>3. \A n \in Nat : IsFiniteSet(1..n)
    BY FS_Interval
  <2>4. OrphanTickets \subseteq 1..Len(tickets) /\ OrphanTickets' \subseteq 1..Len(tickets')
    BY <2>1, <2>2 DEF OrphanTickets
  <2>5. IsFiniteSet(OrphanTickets) /\ IsFiniteSet(OrphanTickets')
    BY <2>1, <2>2, <2>3, <2>4, FS_Subset
  <2>6. IsFiniteSet(Hung)
    BY DEF OrphanInv
  <2> QED BY <2>5, <2>6, FS_CardinalityType, Pays DEF OrphanInv, Paid
<1>1. ASSUME NEW x, OrphanTickets' \subseteq OrphanTickets \cup {x}
      PROVE  o' \in Nat /\ o' <= o + 1
  <2>1. /\ IsFiniteSet(OrphanTickets \cup {x})
        /\ Cardinality(OrphanTickets \cup {x}) \in Nat
        /\ Cardinality(OrphanTickets \cup {x}) <= o + 1
    <3>1. /\ IsFiniteSet(OrphanTickets \cup {x})
          /\ Cardinality(OrphanTickets \cup {x}) = IF x \in OrphanTickets THEN o ELSE o + 1
      BY <1>0, FS_AddElement
    <3> HIDE DEF o
    <3> QED BY <1>0, <3>1
  <2>2. Cardinality(OrphanTickets') <= Cardinality(OrphanTickets \cup {x})
    BY <1>1, <2>1, FS_Subset
  <2>3. Cardinality(OrphanTickets') \in Nat
    BY <1>0, FS_CardinalityType
  <2> QED BY <1>0, <2>1, <2>2, <2>3
<1>2. ASSUME OrphanTickets' \subseteq OrphanTickets PROVE o' \in Nat /\ o' <= o
  BY <1>0, <1>2, FS_Subset, FS_CardinalityType
<1>3. ASSUME Hung' \subseteq Hung PROVE IsFiniteSet(Hung') /\ h' \in Nat /\ h' <= h
  BY <1>0, <1>3, FS_Subset, FS_CardinalityType
<1>4. OrphanInv' <=> IsFiniteSet(Hung') /\ o' + h' <= Paid'
  BY DEF OrphanInv, Paid
<1>5. ASSUME NEW r \in Requests, HangUp(r) PROVE OrphanInv'
  <2>1. OrphanTickets' \subseteq OrphanTickets
    <3>1. UNCHANGED <<incidents, tickets, pc, decision>>
      BY <1>5 DEF HangUp, store
    <3> QED BY <3>1 DEF OrphanTickets, Inc
  <2>2. Paid' = Paid + 1
    BY <1>5, Pays DEF HangUp, Faults
  <2>3. Hung' = Hung \cup {r}
    BY <1>5 DEF HangUp, Hung, TypeOK
  <2>4. IsFiniteSet(Hung') /\ h' \in Nat /\ h' <= h + 1
    <3>1. IsFiniteSet(Hung \cup {r}) /\ Cardinality(Hung \cup {r}) = IF r \in Hung THEN h ELSE h + 1
      BY <1>0, FS_AddElement
    <3>2. h' = IF r \in Hung THEN h ELSE h + 1
      BY <2>3, <3>1
    <3> HIDE DEF h
    <3> QED BY <1>0, <2>3, <3>1, <3>2
  <2> HIDE DEF o, h
  <2> QED BY <1>0, <1>2, <1>4, <2>1, <2>2, <2>4
<1>6. ASSUME \A r \in Requests : ~HangUp(r), OrphanTickets' \subseteq OrphanTickets PROVE OrphanInv'
  <2>1. Hung' \subseteq Hung /\ Paid <= Paid'
    BY <1>6, HungStep
  <2>2. Paid' \in Nat
    <3>1. spent'["faults"] \in Nat /\ spent'["hangups"] \in Nat /\ spent'["crashes"] \in Nat
      BY DEF TypeOK, Faults
    <3> QED BY <3>1 DEF Paid
  <2> HIDE DEF o, h
  <2> QED BY <1>0, <1>2, <1>3, <1>4, <1>6, <2>1, <2>2
\* One orphan more: a fault is spent, or the handler of a source that hung up ends.
<1>7. ASSUME NEW x, OrphanTickets' \subseteq OrphanTickets \cup {x}, Hung' \subseteq Hung,
             \/ Paid' = Paid + 1
             \/ Paid' = Paid /\ \E r \in Hung : r \notin Hung'
      PROVE  OrphanInv'
  <2>1. ASSUME NEW r \in Hung, r \notin Hung' PROVE h' <= h - 1
    <3>1. Hung' \subseteq Hung \ {r}
      BY <1>7, <2>1
    <3>2. IsFiniteSet(Hung \ {r}) /\ Cardinality(Hung \ {r}) = h - 1
      BY <1>0, FS_RemoveElement
    <3> QED BY <3>1, <3>2, FS_Subset
  <2> HIDE DEF o, h
  <2> QED BY <1>0, <1>1, <1>3, <1>4, <1>7, <2>1
<1>8. ASSUME NEW n \in OrphanTickets' \ OrphanTickets PROVE OrphanInv'
  <2>1. PICK x : x = IF tickets' = tickets THEN Inc(mu).ticket ELSE Len(tickets) + 1
    OBVIOUS
  <2>2. OrphanTickets' \subseteq OrphanTickets \cup {x}
    BY <2>1, NewOrphan
  <2>3. Crash \/ \E r \in Requests : Fail(r) \/ Cancelled(r) \/ LostReply(r)
    BY <1>8, NewOrphan
  <2>4. CASE Crash
    <3>1. Paid' = Paid + 1
      BY <2>4, Pays DEF Crash, Faults
    <3>2. Hung' \subseteq Hung
      BY <2>4 DEF Crash, Hung
    <3> QED BY <1>7, <2>2, <3>1, <3>2
  <2>5. ASSUME NEW r \in Requests, Fail(r) \/ Cancelled(r) \/ LostReply(r) PROVE OrphanInv'
    <3>1. Hung' = Hung \ {r}
      BY <2>5 DEF Fail, Cancelled, LostReply, Abort, Answer, Hung, TypeOK
    <3>2. \/ Paid' = Paid + 1
          \/ Paid' = Paid /\ r \in Hung
      BY <2>5, Pays DEF Fail, Cancelled, LostReply, Hung, Faults
    <3> QED BY <1>7, <2>2, <3>1, <3>2
  <2> QED BY <2>3, <2>4, <2>5
<1> QED BY <1>5, <1>6, <1>8

-----------------------------------------------------------------------------
(* Theorems.                                                               *)

\* At the start there is nothing of anybody's.
LEMMA PathInvInit == Init => PathInv
<1> SUFFICES ASSUME Init PROVE PathInv
  OBVIOUS
<1>1. IndInv
  BY IndInvInit
<1>2. DOMAIN audit = {} /\ DOMAIN tickets = {} /\ tx.by \notin Requests
  BY ControlPlaneAssumption DEF Init, NoTx
<1>3. TableInv
  BY <1>2 DEF Init, TableInv, MemberInv, AboutInv, TxMembersInv, StoredInv, InTx
<1>4. TicketInv
  BY <1>2 DEF Init, TicketInv, OwnTicketInv, RowTicketInv, CommentInv, TicketShowsMembers
<1>5. AuditInv
  BY <1>2 DEF Init, AuditInv, RecordInv, MembersAreAudited, TicketsFollowDecisions, InTx
<1>6. PromiseInv
  BY DEF Init, PromiseInv, BodyInv, AcceptedIsStored, AcceptedIsAudited
<1>7. OrphanInv
  <2>1. OrphanTickets = {} /\ Hung = {}
    BY <1>2 DEF Init, OrphanTickets, Hung
  <2>2. spent["faults"] = 0 /\ spent["hangups"] = 0 /\ spent["crashes"] = 0
    BY DEF Init, Faults
  <2> QED BY <2>1, <2>2, FS_EmptySet DEF OrphanInv
<1>8. InvestigatedIsStored
  BY DEF Init, InvestigatedIsStored
<1>9. RefusedIsNotProcessed
  BY <1>2, RefusedMeans DEF Init
<1> QED BY <1>1, <1>3, <1>4, <1>5, <1>6, <1>7, <1>8, <1>9 DEF PathInv

\* Every step keeps all of it.
LEMMA PathInvStep ==
  ASSUME PathInv, [Next]_vars
  PROVE  PathInv'
<1> USE DEF PathInv
<1>1. IndInv'
  <2> USE DEF IndInv
  <2>1. TypeOK'
    BY TypeStep
  <2>2. MutexInv' /\ TxInv' /\ StepInv'
    BY <2>1, ControlStep
  <2>3. DataInv'
    BY <2>1, <2>2, DataStep
  <2> QED BY <2>1, <2>2, <2>3
<1>2. TableInv'
  BY <1>1, TableStep DEF PromiseInv
<1>3. TicketInv'
  BY <1>1, TicketInvStep
<1>4. AuditInv'
  BY <1>1, AuditInvStep
<1>5. PromiseInv'
  BY <1>1, PromiseInvStep DEF AuditInv
<1>6. OrphanInv'
  BY <1>1, OrphanStep
<1>7. InvestigatedIsStored'
  BY <1>1, InvestigatedStep
<1>8. RefusedIsNotProcessed'
  BY <1>1, <1>2, RefusedStep DEF PromiseInv
<1> QED BY <1>1, <1>2, <1>3, <1>4, <1>5, <1>6, <1>7, <1>8

\* The inductive invariant of the whole Signal path: at each step of a handler,
\* what is decided, stored, shown on the ticket and recorded of its Signal fits.
THEOREM PathInvariance == Spec => []PathInv
BY PathInvInit, PathInvStep, PTL DEF Spec

\* A 200 answer is a promise: every firing Signal of the body is a member of a
\* stored Incident about its problem, whatever is cut, fails or dies after it.
THEOREM AnswersArePromises == Spec => []AcceptedIsStored
<1>1. PathInv => AcceptedIsStored
  BY DEF PathInv, PromiseInv
<1> QED BY <1>1, PathInvariance, PTL

\* The audit log accounts for every Alert of an accepted body.
THEOREM AnswersAreAudited == Spec => []AcceptedIsAudited
<1>1. PathInv => AcceptedIsAudited
  BY DEF PathInv, PromiseInv
<1> QED BY <1>1, PathInvariance, PTL

\* A stored Incident has a ticket of its own that shows each of its members.
THEOREM TicketsAreComplete == Spec => []TicketShowsMembers
<1>1. PathInv => TicketShowsMembers
  BY DEF PathInv, TicketInv
<1> QED BY <1>1, PathInvariance, PTL

\* A member was recorded, decided and put on the ticket, in this order, before
\* it was stored.
THEOREM AuditPrecedesStore == Spec => []MembersAreAudited
<1>1. PathInv => MembersAreAudited
  BY DEF PathInv, AuditInv
<1> QED BY <1>1, PathInvariance, PTL

\* Nothing is shown on a ticket before its own decision is on record, neither
\* what the ticket was created with nor any comment, orphans included.
THEOREM AuditPrecedesTickets == Spec => []TicketsFollowDecisions
<1>1. PathInv => TicketsFollowDecisions
  BY DEF PathInv, AuditInv
<1> QED BY <1>1, PathInvariance, PTL

\* Only a stored Incident that has its ticket is investigated, whatever is rolled
\* back or killed.
THEOREM StoredBeforeInvestigated == Spec => []InvestigatedIsStored
<1>1. PathInv => InvestigatedIsStored
  BY DEF PathInv
<1> QED BY <1>1, PathInvariance, PTL

\* A refused request leaves nothing in the store and on the tickets.
THEOREM RefusalsLeaveNothing == Spec => []RefusedIsNotProcessed
<1>1. PathInv => RefusedIsNotProcessed
  BY DEF PathInv
<1> QED BY <1>1, PathInvariance, PTL

\* There are never more orphan tickets than failures, hang-ups and crashes.
THEOREM OrphansAreBounded == Spec => []OrphansArePaidFor
<1>1. PathInv => OrphansArePaidFor
  <2> SUFFICES ASSUME PathInv PROVE OrphansArePaidFor
    OBVIOUS
  <2>1. Cardinality(Hung) \in Nat
    BY FS_CardinalityType DEF PathInv, OrphanInv
  <2>2. IsFiniteSet(OrphanTickets)
    <3>1. Len(tickets) \in Nat /\ DOMAIN tickets = 1..Len(tickets)
      BY LenProperties DEF PathInv, IndInv, TypeOK
    <3>2. IsFiniteSet(1..Len(tickets)) /\ OrphanTickets \subseteq 1..Len(tickets)
      BY <3>1, FS_Interval DEF OrphanTickets
    <3> QED BY <3>2, FS_Subset
  <2>3. Cardinality(OrphanTickets) \in Nat
    BY <2>2, FS_CardinalityType
  <2>4. /\ spent["faults"] \in Nat /\ spent["hangups"] \in Nat /\ spent["crashes"] \in Nat
        /\ Cardinality(OrphanTickets) + Cardinality(Hung) <=
             spent["faults"] + spent["hangups"] + spent["crashes"]
    BY DEF PathInv, IndInv, TypeOK, Faults, OrphanInv
  <2> QED BY <2>1, <2>3, <2>4 DEF OrphansArePaidFor
<1> QED BY <1>1, PathInvariance, PTL

-----------------------------------------------------------------------------
(* The registry of Incidents.                                              *)

\* A commit opens an Incident, adds an episode to the one there is, or changes
\* nothing, when no read was cut short before it.
LEMMA CommitIsAStep ==
  ASSUME PathInv, spent["cuts"] = 0, NEW r \in Requests, Commit(r)
  PROVE  Registry!RegistryNext \/ UNCHANGED <<incidents, members>>
<1> USE DEF PathInv
<1> DEFINE p == [target |-> Inc(r).target, key |-> Inc(r).key]
           k == sig[r].key
           t == sig[r].startsAt
<1>1. /\ pc[r] = "commit" /\ decision[r].kind \in {"open", "join", "repeat"} /\ Inc(r) \in Incidents
      /\ members' = members \cup {Member(Inc(r).id, e) : e \in Inc(r).members}
      /\ Episode(sig[r]) \in Inc(r).members
  <2>1. pc[r] = "commit" /\ decision[r].kind \in {"open", "join", "repeat"}
    BY CommitAdds
  <2> QED BY <2>1, CommitAdds DEF TableInv, AboutInv, InTx
<1>2. k \in Keys /\ t \in Starts
  BY <1>1 DEF IndInv, StepInv, Locked, InTx, Signals
<1>3. Member(Inc(r).id, Episode(sig[r])) = [incident |-> Inc(r).id, key |-> k, startsAt |-> t]
  BY DEF Member, Episode
<1>4. CASE decision[r].kind = "open"
  <2>1. /\ incidents' = incidents \cup {Row(Inc(r))} /\ Inc(r).members = {Episode(sig[r])}
        /\ \A i \in incidents : i.id # Inc(r).id
    BY <1>4, CommitAdds
  <2>2. /\ Inc(r).id = lastId + 1 /\ lastId \in Nat
        /\ Inc(r).target = NoTarget <=> Inc(r).key # NoKey
        /\ \A i \in incidents : ~SameProblem(i, Inc(r))
    BY <1>1, <1>4 DEF IndInv, DataInv, DecisionInv, InTx, TypeOK
  <2>3. Inc(r).ticket \in DOMAIN tickets /\ \A i \in incidents : i.ticket # Inc(r).ticket
    BY <1>1, <1>4 DEF TicketInv, OwnTicketInv
  <2>4. Inc(r).id > 0 /\ Inc(r).ticket > 0
    BY <2>2, <2>3, LenProperties DEF IndInv, TypeOK
  <2>5. p \in Registry!Problems
    BY <1>1, <2>2 DEF Registry!Problems, Incidents
  <2>6. Registry!About(p) = {}
    BY <2>2 DEF Registry!About, SameProblem
  <2>7. members' = members \cup {[incident |-> Inc(r).id, key |-> k, startsAt |-> t]}
    BY <1>1, <1>3, <2>1
  <2>8. Registry!OpenIncident(p, k, t)
    <3>1. /\ Row(Inc(r)) \in incidents'
          /\ Row(Inc(r)).target = p.target /\ Row(Inc(r)).key = p.key
          /\ Row(Inc(r)).id = Inc(r).id /\ Row(Inc(r)).ticket = Inc(r).ticket
      BY <2>1 DEF Row
    <3> QED BY <2>1, <2>3, <2>4, <2>6, <2>7, <3>1 DEF Registry!OpenIncident
  <2> QED BY <1>2, <2>5, <2>8 DEF Registry!RegistryNext
<1>5. CASE decision[r].kind # "open"
  <2>1. incidents' = incidents /\ Row(Inc(r)) \in incidents
    BY <1>5, CommitAdds
  <2>2. \A e \in Inc(r).members :
          \/ Member(Inc(r).id, e) \in members
          \/ decision[r].kind = "join" /\ e = Episode(sig[r])
    BY <1>1, <1>5 DEF TableInv, AboutInv, InTx
  <2>3. CASE decision[r].kind # "join"
    BY <1>1, <2>1, <2>2, <2>3
  <2>4. CASE decision[r].kind = "join"
    <3>1. members' = members \cup {[incident |-> Inc(r).id, key |-> k, startsAt |-> t]}
      BY <1>1, <1>3, <2>2
    <3>2. p \in Registry!Problems
      BY <1>1, <2>1 DEF IndInv, DataInv, RowInv, Row, Registry!Problems, Incidents
    <3>3. Row(Inc(r)) \in Registry!About(p) /\ Row(Inc(r)).id = Inc(r).id
      BY <2>1 DEF Registry!About, Row
    <3>4. Registry!JoinIncident(p, k, t)
      BY <2>1, <3>1, <3>3 DEF Registry!JoinIncident
    <3> QED BY <1>2, <3>2, <3>4 DEF Registry!RegistryNext
  <2> QED BY <2>3, <2>4
<1> QED BY <1>4, <1>5

\* Handlers, mutex, transaction, tickets, audit log, failures and crashes come
\* down to steps that open an Incident for a problem that has none or add an
\* episode to the one there is, as long as no read is cut short: what a cut read
\* does is shown by OneIncidentWhateverIsRead.
THEOREM RegistryRefinement ==
  Spec /\ [](spent["cuts"] = 0) => ImplementsRegistry
<1> DEFINE Whole == spent["cuts"] = 0
<1>1. Init => Registry!RegistryInit
  BY DEF Init, Registry!RegistryInit
<1>2. PathInv /\ Whole /\ [Next]_vars => [Registry!RegistryNext]_(Registry!registryVars)
  <2> SUFFICES ASSUME PathInv, spent["cuts"] = 0, [Next]_vars
               PROVE  Registry!RegistryNext \/ UNCHANGED <<incidents, members>>
    BY DEF Registry!registryVars
  <2> QED BY TableChange, CommitIsAStep DEF PathInv, IndInv
<1> HIDE DEF Whole
<1>3. Spec /\ []Whole => ImplementsRegistry
  BY <1>1, <1>2, PathInvariance, PTL DEF Spec, ImplementsRegistry, Registry!RegistrySpec
<1> QED BY <1>3 DEF Whole

\* With no read to be cut short, none ever is.
LEMMA NeverCut ==
  ASSUME MaxCuts = 0, TypeOK, spent["cuts"] = 0, [Next]_vars
  PROVE  spent'["cuts"] = 0
<1>1. CASE Leaves
  BY <1>1 DEF Leaves
<1>2. ASSUME NEW r \in Requests, Advances(r) PROVE spent' = spent
  BY <1>2 DEF Advances, ReadOpen, ReadOpenCut, Spend, Save, AuditReceived, AuditDecision, CreateTicket,
     SetTicket, AuditCreated, Comment, AuditCommented, Commit
<1> QED BY <1>1, <1>2, StepKinds

\* A driver that reports a read cut short: then every behaviour implements the
\* registry of Incidents.
THEOREM RegistryImplemented ==
  ASSUME MaxCuts = 0
  PROVE  Spec => ImplementsRegistry
<1> DEFINE Whole == spent["cuts"] = 0
<1>1. Init => Whole
  BY DEF Init, Faults
<1>2. TypeOK /\ Whole /\ [Next]_vars => Whole'
  BY NeverCut
<1>3. Spec /\ []Whole => ImplementsRegistry
  BY RegistryRefinement
<1> HIDE DEF Whole
<1> QED BY <1>1, <1>2, <1>3, TypeCorrect, PTL DEF Spec
=============================================================================
