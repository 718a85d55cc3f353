---------------------------- MODULE Investigation ----------------------------
(***************************************************************************)
(* internal/controlplane/investigate.go: Investigator.Run, one goroutine   *)
(* per Incident, all on one audit log.  The model is external and may      *)
(* answer anything: tool calls that exist or not, RCAs that cite what they *)
(* please, as many of them as it likes, or nothing.  Time is whether the   *)
(* budget's deadline has passed.  Evidence queries are one step here; how  *)
(* a call reaches a Sensor is module Link.                                 *)
(***************************************************************************)
EXTENDS Gate1, FiniteSets

CONSTANTS Incidents,   \* Incidents under investigation, with a Target or without
          Targeted,    \* those that may have a Target, and those that may have none
          Untargeted,
          Steps,       \* Budget.Steps
          Tokens,      \* Budget.Tokens
          Submissions, \* RCAs a model may submit
          Answers,     \* per Incident: what a model may answer, [calls, tokens]
          MaxFaults    \* bound: audit entries and ticket comments that fail

\* A tool call: an Evidence tool, a name that was not offered, a submission
\* that does not decode, or an RCA.
ToolCalls == [tool: {"evidence", "unknown", "malformed"}, rca: {NoRCA}]
             \cup [tool: {"submit_rca"}, rca: Submissions]

ASSUME InvestigationAssumption ==
  /\ Targeted \cup Untargeted = Incidents
  /\ {Steps, Tokens, MaxFaults} \subseteq Nat
  /\ Refs \subseteq Nat
  /\ Submissions \subseteq RCAs
  /\ \A i \in Incidents : Answers[i] \subseteq [calls: Seq(ToolCalls), tokens: Nat]

VARIABLES
  pc,       \* per Incident: the goroutine's next step
  rca, ledger, stopped, steps, tokens,  \* per Incident: the investigation
  calls,    \* per Incident: tool calls of the last answer still to be run
  expired,  \* per Incident: the loop's context is past its deadline
  audit,    \* per Incident: its entries in the audit log, in order
  comments, \* per Incident: what its ticket shows, in order
  asked,    \* how many Evidence queries there were: the last call id
  faults    \* how much of MaxFaults is used

investigation == <<rca, ledger, stopped, steps, tokens, calls>>
vars == <<pc, rca, ledger, stopped, steps, tokens, calls, expired, audit, comments,
          asked, faults>>

\* What an entry holds beside its type and Incident.
NoData == [ref |-> 0, ok |-> FALSE, rca |-> NoRCA, failures |-> {}, level |-> "none", tokens |-> 0]

Init ==
  /\ pc = [i \in Incidents |-> "start"]
  /\ rca = [i \in Incidents |-> NoRCA]
  /\ ledger = [i \in Incidents |-> {}]
  /\ stopped = [i \in Incidents |-> ""]
  /\ steps = [i \in Incidents |-> 0]
  /\ tokens = [i \in Incidents |-> 0]
  /\ calls = [i \in Incidents |-> <<>>]
  /\ expired = [i \in Incidents |-> FALSE]
  /\ audit = [i \in Incidents |-> <<>>]
  /\ comments = [i \in Incidents |-> <<>>]
  /\ asked = 0 /\ faults = 0

-----------------------------------------------------------------------------
Log(i, type, data) == audit' = [audit EXCEPT ![i] = Append(@, [type |-> type, data |-> data])]
Goto(i, step) == pc' = [pc EXCEPT ![i] = step]

\* The loop ends, and so does what its tool calls were for.
Stop(i, reason) == stopped' = [stopped EXCEPT ![i] = reason] /\ Goto(i, "gate")

-----------------------------------------------------------------------------
(* Run, up to the loop.                                                    *)

\* There is nothing to read without a Target.
Skip(i) ==
  /\ pc[i] = "start" /\ i \in Untargeted
  /\ Log(i, "investigation.skipped", NoData)
  /\ Goto(i, "done")
  /\ UNCHANGED <<investigation, expired, comments, asked, faults>>

Begin(i) ==
  /\ pc[i] = "start" /\ i \in Targeted
  /\ Log(i, "investigation.started", NoData)
  /\ Goto(i, "loop")
  /\ UNCHANGED <<investigation, expired, comments, asked, faults>>

-----------------------------------------------------------------------------
(* The loop.                                                               *)

InLoop == {"loop", "complete", "tool"}

\* The deadline of the time budget passes.
Expire(i) ==
  /\ pc[i] \in InLoop /\ ~expired[i]
  /\ expired' = [expired EXCEPT ![i] = TRUE]
  /\ UNCHANGED <<pc, investigation, audit, comments, asked, faults>>

\* Mutant of WithinBudget: one request too many.
WithinBudgetLate(i) == steps[i] < Steps /\ tokens[i] <= Tokens

WithinBudget(i) == steps[i] < Steps /\ tokens[i] < Tokens

\* The head of the loop when it ends there: an RCA was submitted, or a budget
\* ran out.  The deadline is not looked at here.
LeaveLoop(i) ==
  /\ pc[i] = "loop"
  /\ \/ rca[i] # NoRCA /\ Stop(i, "submitted")
     \/ rca[i] = NoRCA /\ ~WithinBudget(i) /\ Stop(i, IF steps[i] >= Steps THEN "steps" ELSE "tokens")
  /\ UNCHANGED <<rca, ledger, steps, tokens, calls, expired, audit, comments, asked, faults>>

Request(i) ==
  /\ pc[i] = "loop" /\ rca[i] = NoRCA /\ WithinBudget(i)
  /\ steps' = [steps EXCEPT ![i] = @ + 1]
  /\ Log(i, "llm.request", NoData)
  /\ Goto(i, "complete")
  /\ UNCHANGED <<rca, ledger, stopped, tokens, calls, expired, comments, asked, faults>>

\* The model answers in time.  An answer with no tool call only goes back to
\* the head of the loop.
Response(i, answer) ==
  /\ pc[i] = "complete" /\ ~expired[i]
  /\ Log(i, "llm.response", [NoData EXCEPT !.tokens = answer.tokens])
  /\ tokens' = [tokens EXCEPT ![i] = @ + answer.tokens]
  /\ calls' = [calls EXCEPT ![i] = answer.calls]
  /\ Goto(i, IF answer.calls = <<>> THEN "loop" ELSE "tool")
  /\ UNCHANGED <<rca, ledger, stopped, steps, expired, comments, asked, faults>>

\* Mutant of ResponseError: the error ends the investigation without an RCA.
ResponseErrorFails(i) ==
  /\ pc[i] = "complete"
  /\ Log(i, "llm.error", NoData)
  /\ Goto(i, "failed")
  /\ UNCHANGED <<investigation, expired, comments, asked, faults>>

\* The request fails, which past the deadline it always does.
ResponseError(i) ==
  /\ pc[i] = "complete"
  /\ Log(i, "llm.error", NoData)
  /\ Stop(i, IF expired[i] THEN "time" ELSE "llm")
  /\ UNCHANGED <<rca, ledger, steps, tokens, calls, expired, comments, asked, faults>>

\* The next tool call of the answer is done; past the last one the loop goes on.
NextCall(i) ==
  /\ calls' = [calls EXCEPT ![i] = Tail(@)]
  /\ Goto(i, IF Len(calls[i]) = 1 THEN "loop" ELSE "tool")

\* submit_rca: an RCA that decodes replaces one submitted earlier in the same
\* answer, and the calls after it are still run.
Submit(i) ==
  /\ pc[i] = "tool" /\ Head(calls[i]).tool = "submit_rca"
  /\ rca' = [rca EXCEPT ![i] = Head(calls[i]).rca]
  /\ NextCall(i)
  /\ UNCHANGED <<ledger, stopped, steps, tokens, expired, audit, comments, asked, faults>>

\* A tool that was not offered, or a submission that does not decode: the model
\* reads an error.
RejectCall(i) ==
  /\ pc[i] = "tool" /\ Head(calls[i]).tool \in {"unknown", "malformed"}
  /\ NextCall(i)
  /\ UNCHANGED <<rca, ledger, stopped, steps, tokens, expired, audit, comments, asked, faults>>

\* Mutant of Query: its entry is not written.
QueryUnaudited(i, ok) ==
  /\ pc[i] = "tool" /\ Head(calls[i]).tool = "evidence"
  /\ ok => ~expired[i]
  /\ asked' = asked + 1
  /\ ledger' = [ledger EXCEPT ![i] = @ \cup {[ref |-> asked', ok |-> ok]}]
  /\ NextCall(i)
  /\ UNCHANGED <<rca, stopped, steps, tokens, expired, audit, comments, faults>>

\* Evidence.Query for the Incident: audited under a new ref, then in the ledger.
Query(i, ok) ==
  /\ pc[i] = "tool" /\ Head(calls[i]).tool = "evidence"
  /\ ok => ~expired[i]
  /\ asked' = asked + 1
  /\ Log(i, "evidence.query", [NoData EXCEPT !.ref = asked', !.ok = ok])
  /\ ledger' = [ledger EXCEPT ![i] = @ \cup {[ref |-> asked', ok |-> ok]}]
  /\ NextCall(i)
  /\ UNCHANGED <<rca, stopped, steps, tokens, expired, comments, faults>>

-----------------------------------------------------------------------------
(* Run, after the loop.                                                    *)

\* Mutant of Verdict: a query of any Incident will do.
VerdictOfAll(i) ==
  LET failures == gate1(rca[i], UNION {ledger[j] : j \in Incidents})
  IN [NoData EXCEPT !.rca = rca[i], !.failures = failures, !.level = confidence(rca[i], failures)]

\* What gate1 and confidence make of the answer.
Verdict(i) ==
  LET failures == gate1(rca[i], ledger[i])
  IN [NoData EXCEPT !.rca = rca[i], !.failures = failures, !.level = confidence(rca[i], failures)]

GateEntry(i) ==
  /\ pc[i] = "gate"
  /\ Log(i, "gate1.rca", Verdict(i))
  /\ Goto(i, "finish")
  /\ UNCHANGED <<investigation, expired, comments, asked, faults>>

FinishedEntry(i) ==
  /\ pc[i] = "finish"
  /\ Log(i, "investigation.finished", [NoData EXCEPT !.tokens = tokens[i]])
  /\ Goto(i, "comment")
  /\ UNCHANGED <<investigation, expired, comments, asked, faults>>

\* render: the RCA, why Claims fail, the level, and every Evidence query.
Shown(i) ==
  [rca |-> rca[i], failures |-> Verdict(i).failures, level |-> Verdict(i).level,
   evidence |-> ledger[i], stopped |-> stopped[i]]

Comment(i) ==
  /\ pc[i] = "comment"
  /\ comments' = [comments EXCEPT ![i] = Append(@, Shown(i))]
  /\ Goto(i, "commentedEntry")
  /\ UNCHANGED <<investigation, expired, audit, asked, faults>>

CommentedEntry(i) ==
  /\ pc[i] = "commentedEntry"
  /\ Log(i, "ticket.commented", NoData)
  /\ Goto(i, "done")
  /\ UNCHANGED <<investigation, expired, comments, asked, faults>>

-----------------------------------------------------------------------------
(* Steps that fail.                                                        *)

Fault == faults < MaxFaults /\ faults' = faults + 1

\* Steps that write an audit entry, beside the Evidence query.
AuditSteps == {"start", "complete", "gate", "finish", "commentedEntry"}

\* The entry of this step cannot be written, or the comment is refused: Run
\* returns the error.
Fail(i) ==
  /\ \/ pc[i] \in AuditSteps \cup {"comment"}
     \/ pc[i] = "loop" /\ rca[i] = NoRCA /\ WithinBudget(i)
     \/ pc[i] = "tool" /\ Head(calls[i]).tool = "evidence"
  /\ Fault
  /\ Goto(i, "failed")
  /\ UNCHANGED <<investigation, expired, audit, comments, asked>>

\* The comment is on the ticket, but its answer is lost.
LostReply(i) ==
  /\ pc[i] = "comment"
  /\ comments' = [comments EXCEPT ![i] = Append(@, Shown(i))]
  /\ Fault
  /\ Goto(i, "failed")
  /\ UNCHANGED <<investigation, expired, audit, asked>>

\* The goroutine of Server.ingest records what Run returned, if it can.
FailedEntry(i) ==
  /\ pc[i] = "failed"
  /\ \/ Log(i, "investigation.failed", NoData) /\ UNCHANGED faults
     \/ Fault /\ UNCHANGED audit
  /\ Goto(i, "done")
  /\ UNCHANGED <<investigation, expired, comments, asked>>

-----------------------------------------------------------------------------
\* What the goroutine does, with whatever the model, the Sensor and the ticketing
\* service answer.
Step(i) ==
  \/ Skip(i) \/ Begin(i) \/ LeaveLoop(i) \/ Request(i)
  \/ \E answer \in Answers[i] : Response(i, answer)
  \/ ResponseError(i) \/ Submit(i) \/ RejectCall(i)
  \/ \E ok \in BOOLEAN : Query(i, ok)
  \/ GateEntry(i) \/ FinishedEntry(i) \/ Comment(i) \/ CommentedEntry(i)
  \/ FailedEntry(i)

Next == \E i \in Incidents : Step(i) \/ Expire(i) \/ Fail(i) \/ LostReply(i)

Spec == Init /\ [][Next]_vars

\* A goroutine runs on, and every call it makes returns: of the model's and the
\* Sensor's the time budget sees to it, of the ticketing service's the HTTP
\* client's timeout.
FairSpec == Spec /\ \A i \in Incidents : WF_vars(Step(i))
-----------------------------------------------------------------------------
(* Correctness.                                                            *)

PCs == {"start", "loop", "complete", "tool", "gate", "finish", "comment", "commentedEntry",
        "failed", "done"}
Ledgers == SUBSET [ref: Nat, ok: BOOLEAN]
Failures == [claim: ClaimIds \cup {""},
             reason: {"cites nothing", "cites what it may not", "kind", "two claims", "level"}]
Levels == {"low", "medium", "high"}
Reasons == {"", "submitted", "steps", "tokens", "time", "llm"}
Entries == {"investigation.skipped", "investigation.started", "llm.request", "llm.response",
            "llm.error", "evidence.query", "gate1.rca", "investigation.finished",
            "ticket.commented", "investigation.failed"}
Data == [ref: Nat, ok: BOOLEAN, rca: Submissions \cup {NoRCA}, failures: SUBSET Failures,
         level: Levels \cup {"none"}, tokens: Nat]

\* The type invariant.  A level that is none of the schema's is never shown.
TypeOK ==
  /\ pc \in [Incidents -> PCs]
  /\ rca \in [Incidents -> Submissions \cup {NoRCA}]
  /\ ledger \in [Incidents -> Ledgers]
  /\ stopped \in [Incidents -> Reasons]
  /\ steps \in [Incidents -> Nat] /\ tokens \in [Incidents -> Nat]
  /\ calls \in [Incidents -> Seq(ToolCalls)]
  /\ expired \in [Incidents -> BOOLEAN]
  /\ audit \in [Incidents -> Seq([type: Entries, data: Data])]
  /\ comments \in [Incidents -> Seq([rca: Submissions \cup {NoRCA}, failures: SUBSET Failures,
                                     level: Levels, evidence: Ledgers, stopped: Reasons])]
  /\ asked \in Nat /\ faults \in Nat

\* The entries of one type of an Incident.
Of(i, type) == {n \in DOMAIN audit[i] : audit[i][n].type = type}

\* The Incident's Evidence queries, as the audit log has them.
Audited(i) == {[ref |-> audit[i][n].data.ref, ok |-> audit[i][n].data.ok] : n \in Of(i, "evidence.query")}

\* ADR 0003 D4: "Every cited evidence ref exists in this Incident's audit log
\* and came back successfully, and every inferred claim cites existing claims".
\* An RCA shown with more than low confidence is backed by what the audit log
\* has of this Incident, whatever other investigations asked at the same time,
\* whatever failed, and however often the model submitted.
ConfidenceIsEarned ==
  \A i \in Incidents : \A n \in DOMAIN comments[i] :
    comments[i][n].level # "low" => Backed(comments[i][n].rca, Audited(i))

\* What a ticket shows of an investigation was on record before: every Evidence
\* query, with the outcome shown, then Gate 1's verdict on the very RCA shown,
\* then the end of the investigation.
ShownIsAudited ==
  \A i \in Incidents : \A n \in DOMAIN comments[i] :
    LET c == comments[i][n]
    IN \E g \in Of(i, "gate1.rca"), f \in Of(i, "investigation.finished") :
         /\ g < f /\ audit[i][g].data.rca = c.rca
         /\ audit[i][g].data.failures = c.failures /\ audit[i][g].data.level = c.level
         /\ \A e \in c.evidence : \E q \in Of(i, "evidence.query") :
              q < g /\ audit[i][q].data.ref = e.ref /\ audit[i][q].data.ok = e.ok

\* What the answers among the first n entries of a log cost.
Cost(entry) == IF entry.type = "llm.response" THEN entry.data.tokens ELSE 0
Spent(log, n) ==
  LET sum[k \in 0..Len(log)] == IF k = 0 THEN 0 ELSE sum[k - 1] + Cost(log[k])
  IN sum[n]

\* "Budget bounds one investigation": the model is asked at most Steps times, and
\* never after its answers have cost Tokens; only the last answer can overrun.
BudgetHolds ==
  \A i \in Incidents :
    /\ Cardinality(Of(i, "llm.request")) <= Steps
    /\ \A n \in Of(i, "llm.request") : Spent(audit[i], n - 1) < Tokens

\* "Running out still writes an RCA": every investigation ends, and unless the
\* audit log or the ticketing service failed it ends with a comment on the
\* ticket, whatever the model, the Sensor and the deadline did.
RunningOutStillWritesAnRCA ==
  <>(\A i \in Incidents :
       pc[i] = "done" /\ (Of(i, "investigation.started") # {} /\ faults = 0 => comments[i] # <<>>))
=============================================================================
