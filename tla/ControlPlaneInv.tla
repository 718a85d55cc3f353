--------------------------- MODULE ControlPlaneInv ---------------------------
(***************************************************************************)
(* Why the Signal path is correct: the invariants that hold between any    *)
(* two steps of it, and are kept by each.  IndInv is about the mutex, the  *)
(* transaction and the decision; PathInv adds everything else a Signal     *)
(* leaves behind: members, tickets, audit entries.  ControlPlaneProofs     *)
(* proves both.                                                            *)
(***************************************************************************)
EXTENDS ControlPlane

-----------------------------------------------------------------------------
(* Mutex, transaction and decision.                                        *)

\* The handlers past Lock and before the return of ingest are the holder of mu.
MutexInv == \A r \in Requests : pc[r] \in Locked <=> mu = r

\* The open transaction is that of a handler between Save and Commit.
TxInv == \A r \in Requests : tx.by = r <=> pc[r] \in InTx /\ decision[r].kind # "drop"

\* Rows as the schema and Save leave them.
RowInv ==
  /\ \A i \in incidents : i.id <= lastId /\ (i.target = NoTarget <=> i.key # NoKey)
  /\ \A i, j \in incidents : i.id = j.id => i = j

\* Which handler steps go with which decision.
StepInv ==
  \A r \in Requests :
    /\ pc[r] \in Locked \cup {"lock"} => sig[r] \in Signals
    /\ pc[r] \in {"save", "commit", "launch"} => decision[r].kind # "drop"
    /\ pc[r] \in {"create", "setTicket", "createdEntry"} => decision[r].kind = "open"
    /\ pc[r] \in {"comment", "commentedEntry"} => decision[r].kind = "join"

\* A decision made under the mutex still fits what is stored: a new Incident has
\* no Incident about its problem beside it, any other Incident is a stored row.
DecisionInv ==
  \A r \in Requests : pc[r] \in {"save"} \cup InTx /\ decision[r].kind # "drop" =>
    IF decision[r].kind = "open"
    THEN /\ Inc(r).id = IF pc[r] = "save" THEN 0 ELSE lastId + 1
         /\ pc[r] = "save" => Inc(r).ticket = 0
         /\ Inc(r).target = NoTarget <=> Inc(r).key # NoKey
         /\ spent["cuts"] = 0 => \A i \in incidents : ~SameProblem(i, Inc(r))
    ELSE Row(Inc(r)) \in incidents

\* What the transaction would commit.
PendingInv ==
  \A r \in Requests : tx.by = r =>
    IF decision[r].kind = "open"
    THEN /\ tx.lastId = lastId + 1
         /\ tx.incidents = incidents \cup
              {[Row(Inc(r)) EXCEPT !.ticket = IF pc[r] \in {"createdEntry", "commit"} THEN @ ELSE 0]}
    ELSE tx.lastId = lastId /\ tx.incidents = incidents

\* The tables, the decision at hand and the open transaction.
DataInv == RowInv /\ DecisionInv /\ PendingInv /\ OneIncidentPerTarget

\* Everything that is needed for OneIncidentPerTarget to be inductive: a handler
\* past Lock is alone there, so what it read is still what is stored.
IndInv == TypeOK /\ MutexInv /\ TxInv /\ StepInv /\ DataInv

-----------------------------------------------------------------------------
(* What a Signal leaves in the tables.                                     *)

\* The steps a handler takes for one Signal.
Busy == {"lock"} \cup Locked

\* The Signals and the episodes a source was let in with.
KnownSignals ==
  UNION {{b.alerts[n] : n \in DOMAIN b.alerts} \ {Unmappable} :
           b \in {x \in Bodies : x.form \in {"alerts", "truncated"}}}
KnownEpisodes == {Episode(s) : s \in KnownSignals}

\* A member belongs to a stored Incident, and to a Signal that was let in.
MemberInv ==
  \A m \in members :
    /\ \E i \in incidents : i.id = m.incident
    /\ Episode(m) \in KnownEpisodes

\* A decision is about the Signal at hand, whose episode is among the members to
\* be stored; the others are the new Incident's none, or stored already.
AboutInv ==
  \A r \in Requests :
    /\ pc[r] \in InTx /\ decision[r].kind = "drop" => sig[r].status # "firing"
    /\ pc[r] \in {"save"} \cup InTx /\ decision[r].kind # "drop" =>
         /\ SameIncident(Inc(r), sig[r]) /\ Episode(sig[r]) \in Inc(r).members
         /\ Inc(r).members \subseteq KnownEpisodes
         /\ decision[r].kind = "open" => Inc(r).members = {Episode(sig[r])}
         /\ spent["cuts"] = 0 /\ decision[r].kind # "open" =>
              \A e \in Inc(r).members :
                \/ Member(Inc(r).id, e) \in members
                \/ decision[r].kind = "join" /\ e = Episode(sig[r])

\* The members the transaction would commit.
TxMembersInv ==
  \A r \in Requests : tx.by = r =>
    tx.members = members \cup {Member(Inc(r).id, e) : e \in Inc(r).members}

\* After the commit both are stored, and a new Incident has its ticket.
StoredInv ==
  \A r \in Requests : pc[r] = "launch" =>
    /\ Row(Inc(r)) \in incidents /\ SameIncident(Inc(r), sig[r])
    /\ Member(Inc(r).id, Episode(sig[r])) \in members

TableInv == MemberInv /\ AboutInv /\ TxMembersInv /\ StoredInv

-----------------------------------------------------------------------------
(* Tickets.                                                                *)

\* The ticket a handler was given for a new Incident is that Incident's, and not
\* the ticket of a stored one.
OwnTicketInv ==
  \A r \in Requests :
    pc[r] \in {"setTicket", "createdEntry", "commit"} /\ decision[r].kind = "open" =>
      /\ Inc(r).ticket \in DOMAIN tickets
      /\ tickets[Inc(r).ticket].incident = Inc(r).id
      /\ Inc(r).members \subseteq tickets[Inc(r).ticket].shown
      /\ \A i \in incidents : i.ticket # Inc(r).ticket

\* So is the ticket of every stored Incident, cut reads or not.
RowTicketInv ==
  \A i \in incidents :
    /\ i.ticket \in DOMAIN tickets /\ tickets[i.ticket].incident = i.id
    /\ \A j \in incidents : j.ticket = i.ticket => i = j

\* An episode is on the ticket before it is a member.
CommentInv ==
  \A r \in Requests : pc[r] \in {"commentedEntry", "commit"} /\ decision[r].kind = "join" =>
    Episode(sig[r]) \in tickets[Inc(r).ticket].shown

TicketInv == OwnTicketInv /\ RowTicketInv /\ CommentInv /\ TicketShowsMembers

-----------------------------------------------------------------------------
(* The audit log.                                                          *)

IsEntry(n, types, id, s) ==
  /\ n \in DOMAIN audit /\ audit[n].type \in types
  /\ audit[n].incident = id /\ audit[n].signal = s

Received(a, r) == IsEntry(a, {"signal.received"}, Inc(r).id, sig[r])
Decided(a, b, r) == Received(a, r) /\ a < b /\ IsEntry(b, {"triage.decision"}, Inc(r).id, sig[r])
Ticketed(c, r) == IsEntry(c, {"ticket.created", "ticket.commented"}, Inc(r).id, sig[r])

\* What of the Signal at hand is on record at each step.
RecordInv ==
  \A r \in Requests :
    /\ pc[r] = "decisionEntry" => \E a \in DOMAIN audit : Received(a, r)
    /\ pc[r] \in ({"launch"} \cup InTx) \ {"receivedEntry", "decisionEntry"} =>
         \E a, b \in DOMAIN audit : Decided(a, b, r)
    /\ pc[r] = "commit" /\ decision[r].kind \in {"open", "join"} =>
         \E a, b, c \in DOMAIN audit : Decided(a, b, r) /\ b < c /\ Ticketed(c, r)

AuditInv == RecordInv /\ MembersAreAudited /\ TicketsFollowDecisions

-----------------------------------------------------------------------------
(* The body.                                                               *)

\* A firing Signal is stored: a stored Incident about it has it as a member.
Stored(s) ==
  s # Unmappable /\ s.status = "firing" =>
    \E i \in incidents : SameIncident(i, s) /\ Member(i.id, Episode(s)) \in members

\* The audit log accounts for an Alert.
Accounted(s) ==
  IF s = Unmappable
  THEN \E a \in DOMAIN audit : audit[a].type = "signal.dropped"
  ELSE \E a, c \in DOMAIN audit :
         /\ a < c /\ audit[a].incident = audit[c].incident
         /\ audit[a].type = "signal.received" /\ audit[c].type = "triage.decision"
         /\ audit[a].signal = s /\ audit[c].signal = s

Marked(b) == b.form = "truncated" => \E a \in DOMAIN audit : audit[a].type = "request.truncated"

\* How many of the Alerts the handler has taken.
Taken(r) == Len(body[r].alerts) - Len(todo[r])

\* A handler past the form of its body: the Alerts it has taken are stored and
\* accounted for, but the last one while the handler is busy with it.
BodyInv ==
  \A r \in Requests :
    /\ pc[r] # "idle" => body[r] \in Bodies
    /\ pc[r] \notin {"idle", "received"} =>
         /\ body[r].form \in {"alerts", "truncated"} /\ Marked(body[r])
         /\ Taken(r) \in Nat
         /\ \A n \in DOMAIN todo[r] : todo[r][n] = body[r].alerts[Taken(r) + n]
         /\ \A n \in 1..Taken(r) :
              \/ n = Taken(r) /\ pc[r] \in Busy
              \/ Stored(body[r].alerts[n]) /\ Accounted(body[r].alerts[n])
         /\ pc[r] \in Busy => Taken(r) > 0 /\ sig[r] = body[r].alerts[Taken(r)]

PromiseInv == BodyInv /\ AcceptedIsStored /\ AcceptedIsAudited

-----------------------------------------------------------------------------
\* A source that hung up can cost a ticket later on, once.
Hung == {r \in Requests : hungup[r]}

OrphanInv ==
  /\ IsFiniteSet(Hung)
  /\ Cardinality(OrphanTickets) + Cardinality(Hung) <=
       spent["faults"] + spent["hangups"] + spent["crashes"]

\* Everything together: what was decided, stored, shown and recorded of each
\* Signal, at each step, fits.
PathInv ==
  IndInv /\ TableInv /\ TicketInv /\ AuditInv /\ PromiseInv /\ OrphanInv
    /\ InvestigatedIsStored /\ RefusedIsNotProcessed
=============================================================================
