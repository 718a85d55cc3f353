---------------------------- MODULE ControlPlane ----------------------------
(***************************************************************************)
(* The Signal path of the Control plane: internal/controlplane             *)
(* (Server.intake, ingest, auditDecision) over internal/store.  Webhook    *)
(* handlers run concurrently, one per request slot; a mutex serialises the *)
(* part from reading the open Incidents to the end of the transaction.     *)
(* Between any two steps the source may hang up (which cancels the         *)
(* request's context), a call may fail, or the process may be killed and   *)
(* started again on the same database, audit log and ticketing service.    *)
(*                                                                         *)
(* The source (Alertmanager) and the ticketing service are external: the   *)
(* source posts a body until it is answered 2xx or 4xx and may notify      *)
(* again later, the service keeps what it was asked to write.              *)
(***************************************************************************)
EXTENDS Triage, Sequences, FiniteSets

CONSTANTS Requests,      \* slots for webhook handlers
          None,          \* "no handler"
          Bodies,        \* request bodies a source sends: [form, alerts]
          Unmappable,    \* an Alert that Map refuses
          Investigates,  \* the Server has an Investigator
          \* Bounds on what the environment does in one behaviour:
          MaxFaults,     \* calls that fail (store, audit, ticketing)
          MaxCuts,       \* Incident reads ended early by an unreported error
          MaxHangups,    \* requests the source abandons
          MaxCrashes,    \* process restarts
          MaxRepeats     \* repeated notifications of an accepted body

Forms == {"unauthorized", "oversize", "unparseable", "alerts", "truncated"}

ASSUME ControlPlaneAssumption ==
  /\ None \notin Requests
  /\ Unmappable \notin Signals
  /\ Bodies \subseteq [form: Forms, alerts: Seq(Signals \cup {Unmappable})]
  /\ Investigates \in BOOLEAN
  /\ {MaxFaults, MaxCuts, MaxHangups, MaxCrashes, MaxRepeats} \subseteq Nat

VARIABLES
  \* the database (internal/store), what is committed
  incidents,      \* rows [id, target, key, ticket]
  members,        \* rows [incident, key, startsAt]
  lastId,         \* sqlite_sequence: the last AUTOINCREMENT id given out
  tx,             \* the one connection's open transaction, NoTx when none
  \* the process (Server)
  mu,             \* Server.mu: the handler holding it, or None
  pc, body, todo, sig, decision, hungup,  \* per handler
  running,        \* ids of the Incidents under investigation (goroutines)
  \* outside the process
  audit,          \* audit log entries [type, incident, signal, ref]
  tickets,        \* ticketing service: the n-th ticket, [incident, shown]
  investigated,   \* ids whose investigation ran to its end
  source,         \* what the source owes for each body
  spent           \* how much of each bound the environment has used

store == <<incidents, members, lastId>>
handler == <<pc, body, todo, sig, decision, hungup>>
vars == <<incidents, members, lastId, tx, mu, pc, body, todo, sig, decision, hungup,
          running, audit, tickets, investigated, source, spent>>

NoTx == [incidents |-> {}, members |-> {}, lastId |-> 0, by |-> None]
NoSignal == [status |-> "resolved", key |-> NoKey, startsAt |-> 0, target |-> NoTarget]
NoBody == [form |-> "alerts", alerts |-> <<>>]
NoDecision == [kind |-> "drop", incident |-> NoIncident]

\* What a step may be followed by: the handler's next call.
Steps == {"idle", "received", "alert", "lock", "read", "save", "receivedEntry",
          "decisionEntry", "create", "setTicket", "createdEntry", "comment",
          "commentedEntry", "commit", "launch"}

\* The steps taken with mu held, and those with a transaction open.
InTx == {"receivedEntry", "decisionEntry", "create", "setTicket", "createdEntry",
         "comment", "commentedEntry", "commit"}
Locked == {"read", "save", "launch"} \cup InTx

Faults == {"faults", "cuts", "hangups", "crashes", "repeats"}

Init ==
  /\ incidents = {} /\ members = {} /\ lastId = 0 /\ tx = NoTx
  /\ mu = None
  /\ pc = [r \in Requests |-> "idle"]
  /\ body = [r \in Requests |-> NoBody]
  /\ todo = [r \in Requests |-> <<>>]
  /\ sig = [r \in Requests |-> NoSignal]
  /\ decision = [r \in Requests |-> NoDecision]
  /\ hungup = [r \in Requests |-> FALSE]
  /\ running = {} /\ audit = <<>> /\ tickets = <<>> /\ investigated = {}
  /\ source = [b \in Bodies |-> "due"]
  /\ spent = [f \in Faults |-> 0]
-----------------------------------------------------------------------------
(* What the steps are built from.                                          *)

Spend(f, max) == spent[f] < max /\ spent' = [spent EXCEPT ![f] = @ + 1]

Log(type, incident, s, ref) ==
  audit' = Append(audit, [type |-> type, incident |-> incident, signal |-> s, ref |-> ref])

Goto(r, step) == pc' = [pc EXCEPT ![r] = step]

\* The handler returns.  A source that hung up does not see the answer.
Answer(r, outcome) ==
  /\ Goto(r, "idle")
  /\ source' = IF hungup[r] THEN source ELSE [source EXCEPT ![body[r]] = outcome]
  /\ body' = [body EXCEPT ![r] = NoBody]
  /\ todo' = [todo EXCEPT ![r] = <<>>]
  /\ sig' = [sig EXCEPT ![r] = NoSignal]
  /\ decision' = [decision EXCEPT ![r] = NoDecision]
  /\ hungup' = [hungup EXCEPT ![r] = FALSE]

\* Mutants of Abort: 200 after an error, no Unlock.
AbortAnswersOK(r) ==
  /\ tx' = IF tx.by = r THEN NoTx ELSE tx
  /\ mu' = IF mu = r THEN None ELSE mu
  /\ Answer(r, "accepted")
AbortKeepsMutex(r) == tx' = (IF tx.by = r THEN NoTx ELSE tx) /\ mu' = mu /\ Answer(r, "due")

\* ingest returns an error: the deferred Rollback and Unlock run, the answer is
\* 500 and the source will send the body again.
Abort(r) ==
  /\ tx' = IF tx.by = r THEN NoTx ELSE tx
  /\ mu' = IF mu = r THEN None ELSE mu
  /\ Answer(r, "due")

\* The Incident the handler is working on, and the Signal's share of it.
Inc(r) == decision[r].incident
Row(inc) == [id |-> inc.id, target |-> inc.target, key |-> inc.key, ticket |-> inc.ticket]
Member(id, e) == [incident |-> id, key |-> e.key, startsAt |-> e.startsAt]

-----------------------------------------------------------------------------
(* The source and the network.                                             *)

Post(r, b) ==
  /\ pc[r] = "idle" /\ source[b] = "due"
  /\ Goto(r, "received")
  /\ body' = [body EXCEPT ![r] = b]
  /\ source' = [source EXCEPT ![b] = "waiting"]
  /\ UNCHANGED <<store, tx, mu, todo, sig, decision, hungup, running, audit, tickets,
                 investigated, spent>>

\* The source gives up waiting (a timeout, a dropped connection): the request's
\* context is cancelled, and the source will send the body again.
HangUp(r) ==
  /\ pc[r] # "idle" /\ ~hungup[r]
  /\ Spend("hangups", MaxHangups)
  /\ hungup' = [hungup EXCEPT ![r] = TRUE]
  /\ source' = [source EXCEPT ![body[r]] = "due"]
  /\ UNCHANGED <<store, tx, mu, pc, body, todo, sig, decision, running, audit, tickets,
                 investigated>>

\* Alertmanager notifies of a group that still fires.
Renotify(b) ==
  /\ source[b] = "accepted"
  /\ Spend("repeats", MaxRepeats)
  /\ source' = [source EXCEPT ![b] = "due"]
  /\ UNCHANGED <<store, tx, mu, handler, running, audit, tickets, investigated>>

-----------------------------------------------------------------------------
(* Server.intake.                                                          *)

\* The credential, the size or the form of the request is refused; the refusal
\* is audited first.
Refuse(r) ==
  /\ pc[r] = "received"
  /\ body[r].form \in {"unauthorized", "oversize", "unparseable"}
  /\ Log(IF body[r].form = "unauthorized" THEN "auth.rejected" ELSE "request.rejected",
         0, NoSignal, 0)
  /\ Answer(r, "refused")
  /\ UNCHANGED <<store, tx, mu, running, tickets, investigated, spent>>

\* Only a refused credential is answered 401 even when its audit entry fails.
RefuseUnaudited(r) ==
  /\ pc[r] = "received" /\ body[r].form = "unauthorized"
  /\ Spend("faults", MaxFaults)
  /\ Answer(r, "refused")
  /\ UNCHANGED <<store, tx, mu, running, audit, tickets, investigated>>

\* The body of an authenticated request that was hung up cannot be read.
Unreadable(r) ==
  /\ pc[r] = "received" /\ hungup[r] /\ body[r].form # "unauthorized"
  /\ Answer(r, "due")
  /\ UNCHANGED <<store, tx, mu, running, audit, tickets, investigated, spent>>

\* Mutant of Accept: the credential is not looked at.
AcceptAnyone(r) ==
  /\ pc[r] = "received" /\ body[r].form \in {"alerts", "unauthorized"} /\ UNCHANGED audit
  /\ todo' = [todo EXCEPT ![r] = body[r].alerts]
  /\ Goto(r, "alert")
  /\ UNCHANGED <<store, tx, mu, body, sig, decision, hungup, running, tickets,
                 investigated, source, spent>>

Accept(r) ==
  /\ pc[r] = "received"
  /\ \/ body[r].form = "alerts" /\ UNCHANGED audit
     \/ body[r].form = "truncated" /\ Log("request.truncated", 0, NoSignal, 0)
  /\ todo' = [todo EXCEPT ![r] = body[r].alerts]
  /\ Goto(r, "alert")
  /\ UNCHANGED <<store, tx, mu, body, sig, decision, hungup, running, tickets,
                 investigated, source, spent>>

\* Mutant of DropAlert: a refused Alert is skipped without a trace.
DropSilently(r) ==
  /\ pc[r] = "alert" /\ todo[r] # <<>> /\ Head(todo[r]) = Unmappable
  /\ todo' = [todo EXCEPT ![r] = Tail(@)]
  /\ UNCHANGED <<store, tx, mu, pc, body, sig, decision, hungup, running, audit, tickets,
                 investigated, source, spent>>

\* Map refuses the next Alert: audited, and the loop goes on.
DropAlert(r) ==
  /\ pc[r] = "alert" /\ todo[r] # <<>> /\ Head(todo[r]) = Unmappable
  /\ Log("signal.dropped", 0, NoSignal, 0)
  /\ todo' = [todo EXCEPT ![r] = Tail(@)]
  /\ UNCHANGED <<store, tx, mu, pc, body, sig, decision, hungup, running, tickets,
                 investigated, source, spent>>

\* The next Alert becomes a Signal (Map, Bound, Resolve), which goes to ingest.
TakeAlert(r) ==
  /\ pc[r] = "alert" /\ todo[r] # <<>> /\ Head(todo[r]) # Unmappable
  /\ sig' = [sig EXCEPT ![r] = Head(todo[r])]
  /\ todo' = [todo EXCEPT ![r] = Tail(@)]
  /\ Goto(r, "lock")
  /\ UNCHANGED <<store, tx, mu, body, decision, hungup, running, audit, tickets,
                 investigated, source, spent>>

AnswerOK(r) ==
  /\ pc[r] = "alert" /\ todo[r] = <<>>
  /\ Answer(r, "accepted")
  /\ UNCHANGED <<store, tx, mu, running, audit, tickets, investigated, spent>>

-----------------------------------------------------------------------------
(* Server.ingest.                                                          *)

\* Mutant of Lock: no mutex.
LockAnyway(r) ==
  /\ pc[r] = "lock"
  /\ mu' = r
  /\ Goto(r, "read")
  /\ UNCHANGED <<store, tx, body, todo, sig, decision, hungup, running, audit, tickets,
                 investigated, source, spent>>

Lock(r) ==
  /\ pc[r] = "lock" /\ mu = None
  /\ mu' = r
  /\ Goto(r, "read")
  /\ UNCHANGED <<store, tx, body, todo, sig, decision, hungup, running, audit, tickets,
                 investigated, source, spent>>

\* Store.OpenIncidents when its first query ends after the row of id last: rows
\* of members whose Incident was not read go to the first Incident of the
\* result (a missing id of byID is index 0).
Loaded(last) ==
  LET rows == {i \in incidents : i.id <= last}
      first == CHOOSE i \in rows : \A j \in rows : i.id <= j.id
      its(i) == {m \in members : m.incident = i.id \/ (i = first /\ m.incident > last)}
  IN {[id |-> i.id, target |-> i.target, key |-> i.key, ticket |-> i.ticket,
       members |-> {[key |-> m.key, startsAt |-> m.startsAt] : m \in its(i)}] : i \in rows}

\* OpenIncidents and Triage.  A dropped Signal is only audited.
Decide(r, last) ==
  LET d == Triage(Loaded(last), sig[r])
  IN /\ decision' = [decision EXCEPT ![r] = d]
     /\ Goto(r, IF d.kind = "drop" THEN "receivedEntry" ELSE "save")
     /\ UNCHANGED <<store, tx, mu, body, todo, sig, hungup, running, audit, tickets,
                    investigated, source>>

ReadOpen(r) ==
  /\ pc[r] = "read" /\ tx = NoTx /\ ~hungup[r]
  /\ Decide(r, lastId)
  /\ UNCHANGED spent

\* The first query fails after at least one row and the error is not looked at
\* (with no row at all, attaching the members panics: see Fail).
ReadOpenCut(r) ==
  /\ pc[r] = "read" /\ tx = NoTx /\ ~hungup[r]
  /\ Spend("cuts", MaxCuts)
  /\ \E i, j \in incidents : i.id < j.id /\ Decide(r, i.id)

\* Mutant of SavedId: the id of a new Incident is not taken from LastInsertId.
SavedIdUnset(r) == Inc(r).id

\* The id an Incident is saved under: a new one gets the next.
SavedId(r) == IF Inc(r).id = 0 THEN lastId + 1 ELSE Inc(r).id

\* Begin and Save: members are upserted.
Save(r) ==
  LET new == Inc(r).id = 0
      id == SavedId(r)
  IN /\ pc[r] = "save" /\ tx = NoTx /\ ~hungup[r]
     /\ tx' = [incidents |-> IF new THEN incidents \cup {[Row(Inc(r)) EXCEPT !.id = id]}
                                    ELSE incidents,
               members |-> members \cup {Member(id, e) : e \in Inc(r).members},
               lastId |-> IF new THEN id ELSE lastId,
               by |-> r]
     /\ decision' = [decision EXCEPT ![r].incident.id = id]
     /\ Goto(r, "receivedEntry")
     /\ UNCHANGED <<store, mu, body, todo, sig, hungup, running, audit, tickets,
                    investigated, source, spent>>

\* Mutant of AuditReceived: the Signal itself is not recorded.
AuditReceivedNot(r) ==
  /\ pc[r] = "receivedEntry"
  /\ Goto(r, "decisionEntry")
  /\ UNCHANGED <<store, tx, mu, body, todo, sig, decision, hungup, running, audit, tickets,
                 investigated, source, spent>>

\* auditDecision: the Signal, then the decision.
AuditReceived(r) ==
  /\ pc[r] = "receivedEntry"
  /\ Log("signal.received", Inc(r).id, sig[r], 0)
  /\ Goto(r, "decisionEntry")
  /\ UNCHANGED <<store, tx, mu, body, todo, sig, decision, hungup, running, tickets,
                 investigated, source, spent>>

\* Mutant of AfterDecision: a member joins without a comment on the ticket.
JoinSilently(kind) ==
  CASE kind = "open" -> "create" [] kind \in {"join", "repeat"} -> "commit" [] kind = "drop" -> "alert"

\* The switch on the kind of the decision.
AfterDecision(kind) ==
  CASE kind = "open"   -> "create"
    [] kind = "join"   -> "comment"
    [] kind = "repeat" -> "commit"
    [] kind = "drop"   -> "alert"

\* Mutant of AuditDecision: the ticket is written with no decision on record.
AuditDecisionNot(r) ==
  /\ pc[r] = "decisionEntry"
  /\ Goto(r, AfterDecision(decision[r].kind))
  /\ mu' = IF decision[r].kind = "drop" THEN None ELSE mu
  /\ UNCHANGED <<store, tx, body, todo, sig, decision, hungup, running, audit, tickets,
                 investigated, source, spent>>

\* After the decision of a dropped Signal ingest returns, and the mutex is free.
AuditDecision(r) ==
  /\ pc[r] = "decisionEntry"
  /\ Log("triage.decision", Inc(r).id, sig[r], 0)
  /\ Goto(r, AfterDecision(decision[r].kind))
  /\ mu' = IF decision[r].kind = "drop" THEN None ELSE mu
  /\ UNCHANGED <<store, tx, body, todo, sig, decision, hungup, running, tickets,
                 investigated, source, spent>>

\* What Create and Comment leave in the ticketing service.
Created(r) == Append(tickets, [incident |-> Inc(r).id, shown |-> Inc(r).members])
Commented(r) == [tickets EXCEPT ![Inc(r).ticket].shown = @ \cup {Episode(sig[r])}]

CreateTicket(r) ==
  /\ pc[r] = "create" /\ ~hungup[r]
  /\ tickets' = Created(r)
  /\ decision' = [decision EXCEPT ![r].incident.ticket = Len(tickets) + 1]
  /\ Goto(r, "setTicket")
  /\ UNCHANGED <<store, tx, mu, body, todo, sig, hungup, running, audit, investigated,
                 source, spent>>

\* Mutant of SetTicket: the investigation starts as soon as there is a ticket.
SetTicketInvestigates(r) ==
  /\ pc[r] = "setTicket" /\ ~hungup[r]
  /\ tx' = [tx EXCEPT !.incidents = {IF i.id = Inc(r).id THEN [i EXCEPT !.ticket = Inc(r).ticket]
                                                         ELSE i : i \in @}]
  /\ running' = IF Investigates THEN running \cup {Inc(r).id} ELSE running
  /\ Goto(r, "createdEntry")
  /\ UNCHANGED <<store, mu, body, todo, sig, decision, hungup, audit, tickets, investigated,
                 source, spent>>

\* Mutant of SetTicket: the reference is not written.
SetTicketNot(r) ==
  /\ pc[r] = "setTicket" /\ ~hungup[r]
  /\ Goto(r, "createdEntry")
  /\ UNCHANGED <<store, tx, mu, body, todo, sig, decision, hungup, running, audit, tickets,
                 investigated, source, spent>>

SetTicket(r) ==
  /\ pc[r] = "setTicket" /\ ~hungup[r]
  /\ tx' = [tx EXCEPT !.incidents = {IF i.id = Inc(r).id THEN [i EXCEPT !.ticket = Inc(r).ticket]
                                                         ELSE i : i \in @}]
  /\ Goto(r, "createdEntry")
  /\ UNCHANGED <<store, mu, body, todo, sig, decision, hungup, running, audit, tickets,
                 investigated, source, spent>>

AuditCreated(r) ==
  /\ pc[r] = "createdEntry"
  /\ Log("ticket.created", Inc(r).id, sig[r], Inc(r).ticket)
  /\ Goto(r, "commit")
  /\ UNCHANGED <<store, tx, mu, body, todo, sig, decision, hungup, running, tickets,
                 investigated, source, spent>>

Comment(r) ==
  /\ pc[r] = "comment" /\ ~hungup[r]
  /\ tickets' = Commented(r)
  /\ Goto(r, "commentedEntry")
  /\ UNCHANGED <<store, tx, mu, body, todo, sig, decision, hungup, running, audit,
                 investigated, source, spent>>

AuditCommented(r) ==
  /\ pc[r] = "commentedEntry"
  /\ Log("ticket.commented", Inc(r).id, sig[r], Inc(r).ticket)
  /\ Goto(r, "commit")
  /\ UNCHANGED <<store, tx, mu, body, todo, sig, decision, hungup, running, tickets,
                 investigated, source, spent>>

\* Mutant of Commit: the members are not part of the transaction.
CommitIncidentsOnly(r) ==
  /\ pc[r] = "commit" /\ ~hungup[r]
  /\ incidents' = tx.incidents /\ lastId' = tx.lastId
  /\ tx' = NoTx
  /\ Goto(r, "launch")
  /\ UNCHANGED <<members, mu, body, todo, sig, decision, hungup, running, audit, tickets,
                 investigated, source, spent>>

Commit(r) ==
  /\ pc[r] = "commit" /\ ~hungup[r]
  /\ incidents' = tx.incidents /\ members' = tx.members /\ lastId' = tx.lastId
  /\ tx' = NoTx
  /\ Goto(r, "launch")
  /\ UNCHANGED <<mu, body, todo, sig, decision, hungup, running, audit, tickets,
                 investigated, source, spent>>

\* Mutant of Investigate: only a repeat starts one.
InvestigateRepeats(kind) == kind = "repeat" /\ Investigates

Investigate(kind) == kind = "open" /\ Investigates

\* The investigation of an Incident just opened starts; ingest returns.
Launch(r) ==
  /\ pc[r] = "launch"
  /\ running' = IF Investigate(decision[r].kind) THEN running \cup {Inc(r).id} ELSE running
  /\ mu' = None
  /\ Goto(r, "alert")
  /\ UNCHANGED <<store, tx, body, todo, sig, decision, hungup, audit, tickets,
                 investigated, source, spent>>

-----------------------------------------------------------------------------
(* Steps that fail.                                                        *)

ContextCalls == {"read", "save", "create", "setTicket", "comment", "commit"}
AuditCalls == {"receivedEntry", "decisionEntry", "createdEntry", "commentedEntry"}

\* An audited refusal, truncation or dropped Alert of intake.
IntakeEntry(r) ==
  \/ pc[r] = "received" /\ body[r].form \in {"oversize", "unparseable", "truncated"}
  \/ pc[r] = "alert" /\ todo[r] # <<>> /\ Head(todo[r]) = Unmappable

\* A call fails, or OpenIncidents panics (the server recovers, the connection
\* closes, and the deferred calls run as after an error).
Fail(r) ==
  /\ pc[r] \in ContextCalls \cup AuditCalls \/ IntakeEntry(r)
  /\ Spend("faults", MaxFaults)
  /\ Abort(r)
  /\ UNCHANGED <<store, running, audit, tickets, investigated>>

\* A call that takes the request's context fails because the source hung up.
Cancelled(r) ==
  /\ pc[r] \in ContextCalls /\ hungup[r]
  /\ Abort(r)
  /\ UNCHANGED <<store, running, audit, tickets, investigated, spent>>

\* The ticketing service did what it was asked, but the call still fails: the
\* answer is lost, cannot be read, or comes after the source hung up.
LostReply(r) ==
  /\ \/ pc[r] = "create" /\ tickets' = Created(r)
     \/ pc[r] = "comment" /\ tickets' = Commented(r)
  /\ \/ hungup[r] /\ UNCHANGED spent
     \/ Spend("faults", MaxFaults)
  /\ Abort(r)
  /\ UNCHANGED <<store, running, audit, investigated>>

\* The process is killed at any point and started again.  What was not
\* committed is gone, and so are the handlers and the investigations.
Crash ==
  /\ Spend("crashes", MaxCrashes)
  /\ tx' = NoTx /\ mu' = None /\ running' = {}
  /\ pc' = [r \in Requests |-> "idle"]
  /\ body' = [r \in Requests |-> NoBody]
  /\ todo' = [r \in Requests |-> <<>>]
  /\ sig' = [r \in Requests |-> NoSignal]
  /\ decision' = [r \in Requests |-> NoDecision]
  /\ hungup' = [r \in Requests |-> FALSE]
  /\ source' = [b \in Bodies |-> IF source[b] = "waiting" THEN "due" ELSE source[b]]
  /\ UNCHANGED <<store, audit, tickets, investigated>>

-----------------------------------------------------------------------------
(* Investigator.Run, as the Signal path sees it: it ends, one way or the   *)
(* other.  Its own steps are in module Investigation.                      *)

InvestigationEnds(i) ==
  /\ i \in running
  /\ \/ Log("investigation.finished", i, NoSignal, 0) /\ UNCHANGED spent
     \/ Spend("faults", MaxFaults) /\ Log("investigation.failed", i, NoSignal, 0)
  /\ running' = running \ {i}
  /\ investigated' = investigated \cup {i}
  /\ UNCHANGED <<store, tx, mu, handler, tickets, source>>

-----------------------------------------------------------------------------
\* The steps a handler takes when nothing goes wrong that was not already wrong.
HandlerStep(r) ==
  \/ Refuse(r) \/ Unreadable(r) \/ Accept(r) \/ DropAlert(r) \/ TakeAlert(r) \/ AnswerOK(r)
  \/ Lock(r) \/ ReadOpen(r) \/ Save(r) \/ AuditReceived(r) \/ AuditDecision(r)
  \/ CreateTicket(r) \/ SetTicket(r) \/ AuditCreated(r)
  \/ Comment(r) \/ AuditCommented(r) \/ Commit(r) \/ Launch(r) \/ Cancelled(r)

FaultStep(r) ==
  \/ HangUp(r) \/ RefuseUnaudited(r) \/ ReadOpenCut(r) \/ Fail(r) \/ LostReply(r)

Next ==
  \/ \E r \in Requests : HandlerStep(r) \/ FaultStep(r)
  \/ \E r \in Requests, b \in Bodies : Post(r, b)
  \/ \E b \in Bodies : Renotify(b)
  \/ \E i \in running : InvestigationEnds(i)
  \/ Crash

Spec == Init /\ [][Next]_vars

\* Handlers and investigations are goroutines, which the scheduler never
\* starves; a source keeps sending what it was not answered for.  Nothing is
\* assumed of faults, hang-ups and crashes.
Fairness ==
  /\ \A r \in Requests : WF_vars(HandlerStep(r))
  /\ \A b \in Bodies : WF_vars(\E r \in Requests : Post(r, b))
  /\ WF_vars(\E i \in running : InvestigationEnds(i))

FairSpec == Spec /\ Fairness
-----------------------------------------------------------------------------
(* Correctness.                                                            *)

IncidentRows == [id: Nat \ {0}, target: Targets \cup {NoTarget}, key: Keys \cup {NoKey},
                 ticket: Nat]
MemberRows == [incident: Nat \ {0}, key: Keys, startsAt: Starts]
EntryTypes == {"auth.rejected", "request.rejected", "request.truncated", "signal.dropped",
               "signal.received", "triage.decision", "ticket.created", "ticket.commented",
               "investigation.finished", "investigation.failed"}
Entries == [type: EntryTypes, incident: Nat, signal: Signals \cup {NoSignal}, ref: Nat]
Transactions == [incidents: SUBSET IncidentRows, members: SUBSET MemberRows, lastId: Nat,
                 by: Requests]

\* The type invariant.
TypeOK ==
  /\ incidents \in SUBSET IncidentRows /\ members \in SUBSET MemberRows /\ lastId \in Nat
  /\ tx \in Transactions \cup {NoTx}
  /\ mu \in Requests \cup {None}
  /\ pc \in [Requests -> Steps]
  /\ body \in [Requests -> Bodies \cup {NoBody}]
  /\ todo \in [Requests -> Seq(Signals \cup {Unmappable})]
  /\ sig \in [Requests -> Signals \cup {NoSignal}]
  /\ decision \in [Requests -> Decisions]
  /\ hungup \in [Requests -> BOOLEAN]
  /\ running \in SUBSET Nat /\ investigated \in SUBSET Nat
  /\ audit \in Seq(Entries)
  /\ tickets \in Seq([incident: Nat, shown: SUBSET Episodes])
  /\ source \in [Bodies -> {"due", "waiting", "accepted", "refused"}]
  /\ spent \in [Faults -> Nat]

\* Two Incidents about one problem: a Target, or a key when there is no Target.
SameProblem(i, j) == i.target = j.target /\ i.key = j.key

\* Triage never stores a second Incident about one Target (or key), however the
\* handlers interleave, fail, are retried or are killed: the decision is made
\* and committed under one hold of the mutex.  A read that was cut short is the
\* exception, see OneIncidentWhateverIsRead.
OneIncidentPerTarget ==
  spent["cuts"] = 0 => \A i, j \in incidents : SameProblem(i, j) => i = j

\* A stored Incident has a ticket of its own, which was written for it, and the
\* ticket shows every member that is stored: nothing is committed before the
\* ticketing service has it.
TicketShowsMembers ==
  spent["cuts"] = 0 =>
    \A i \in incidents :
      /\ i.ticket \in DOMAIN tickets /\ tickets[i.ticket].incident = i.id
      /\ \A m \in members : m.incident = i.id => Episode(m) \in tickets[i.ticket].shown
      /\ \A j \in incidents : j.ticket = i.ticket => i = j

\* "audits every step": a stored member was audited under its Incident before
\* it was stored, in order: the Signal, the decision, and the ticket write.
MembersAreAudited ==
  spent["cuts"] = 0 =>
    \A m \in members : \E a, b, c \in DOMAIN audit :
      /\ a < b /\ b < c
      /\ \A n \in {a, b, c} : audit[n].incident = m.incident /\ Episode(audit[n].signal) = Episode(m)
      /\ audit[a].type = "signal.received" /\ audit[b].type = "triage.decision"
      /\ audit[c].type \in {"ticket.created", "ticket.commented"}

\* A 200 answer is a promise: every firing Signal of the body is a member of a
\* stored Incident about its problem, even if the process then dies.
AcceptedIsStored ==
  \A b \in Bodies : source[b] = "accepted" =>
    \A n \in DOMAIN b.alerts :
      LET s == b.alerts[n]
      IN s # Unmappable /\ s.status = "firing" =>
           \E i \in incidents : SameIncident(i, s) /\ Member(i.id, Episode(s)) \in members

\* Tickets no stored Incident refers to, and no handler is about to store.
OrphanTickets ==
  {n \in DOMAIN tickets :
     /\ \A i \in incidents : i.ticket # n
     /\ \A r \in Requests : pc[r] \in {"setTicket", "createdEntry", "commit"} => Inc(r).ticket # n}

\* A ticket without an Incident is left behind only by a failed call, a source
\* that hung up or a crash, and each of them leaves at most one.
OrphansArePaidFor ==
  Cardinality(OrphanTickets) <= spent["faults"] + spent["hangups"] + spent["crashes"]

\* An investigation is never about an Incident that is not stored, or that has
\* no ticket: it starts after the commit, so that no failure, hang-up or kill
\* between the ticket and the commit leaves one behind for a rolled-back row,
\* whose id the next Incident gets.
InvestigatedIsStored ==
  \A n \in running \cup investigated : \E i \in incidents : i.id = n /\ i.ticket > 0

\* Whatever a ticket shows, an orphan's ticket too, was decided first: for each
\* episode on it, its first and every comment's, the audit log has a decision of
\* its own, under the Incident the ticket is about.
TicketsFollowDecisions ==
  \A n \in DOMAIN tickets :
    /\ tickets[n].shown # {}
    /\ \A e \in tickets[n].shown : \E a \in DOMAIN audit :
         /\ audit[a].type = "triage.decision" /\ audit[a].incident = tickets[n].incident
         /\ Episode(audit[a].signal) = e

\* The tail end of intake: an accepted body is accounted for in the audit log,
\* Alert by Alert, dropped and resolved ones included.
AcceptedIsAudited ==
  \A b \in Bodies : source[b] = "accepted" =>
    /\ b.form = "truncated" => \E a \in DOMAIN audit : audit[a].type = "request.truncated"
    /\ \A n \in DOMAIN b.alerts :
         IF b.alerts[n] = Unmappable
         THEN \E a \in DOMAIN audit : audit[a].type = "signal.dropped"
         ELSE \E a, c \in DOMAIN audit :
                /\ a < c /\ audit[a].incident = audit[c].incident
                /\ audit[a].type = "signal.received" /\ audit[c].type = "triage.decision"
                /\ audit[a].signal = b.alerts[n] /\ audit[c].signal = b.alerts[n]

\* ADR 0002 D3: "An auth failure is 401 and nothing is processed".  Neither the
\* store nor the ticketing service has anything of a refused body.
RefusedIsNotProcessed ==
  LET processed == {b \in Bodies : b.form \in {"alerts", "truncated"}}
      known == UNION {{b.alerts[n] : n \in DOMAIN b.alerts} \ {Unmappable} : b \in processed}
  IN /\ \A m \in members : \E s \in known : Episode(s) = Episode(m)
     /\ \A n \in DOMAIN tickets : tickets[n].shown \subseteq {Episode(s) : s \in known}

\* The Signal path implements the registry of Incidents: handlers, mutex,
\* transaction, tickets and audit log come down to single steps that open an
\* Incident or add an episode to the one there is.
Registry == INSTANCE IncidentRegistry WITH registry <- incidents, episodes <- members
ImplementsRegistry == Registry!RegistrySpec

\* A source that keeps sending is answered for good in the end: whatever
\* failed, the mutex and the connection are free again.
EveryBodyIsAnswered ==
  \A b \in Bodies : source[b] = "due" ~> source[b] \in {"accepted", "refused"}

\* Every stored Incident is investigated to the end.
EveryIncidentInvestigated ==
  <>[](\A i \in incidents : i.id \in investigated)

-----------------------------------------------------------------------------
(* What the repository says and the code does not do.                      *)

\* triage.go:52 "at most one per Target (or per key when there is no Target)".
OneIncidentWhateverIsRead ==
  \A i, j \in incidents : SameProblem(i, j) => i = j
=============================================================================
