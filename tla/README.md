# Verification of incident-copilot

TLA+ specifications of incident-copilot's Control plane, of its link to the
Sensors and of the cluster they read, TLC configurations that check them on small instances, and proofs for
every value of the constants. Paths below are relative to the repository; the
exact lines each definition stands for are in `PROJECT.json` under `map`.

Contents: [the system](#the-system), [the modules](#the-modules),
[what the runs show](#what-the-runs-show), [disagreements](#where-code-and-documents-disagree),
[bounds](#bounds), [fairness](#fairness), [proofs](#proofs),
[what is left out](#what-is-left-out), [plan](#plan).

## The system

Alertmanager posts groups of Alerts to the **Control plane**. Each Alert becomes
a Signal; Triage decides whether the Signal opens an Incident, joins one, repeats
a member or is dropped; an Incident gets a ticket, and one investigation by an
LLM whose tool calls are read-only queries, answered by **Sensors** in the
clusters. Gate 1 checks what the model wrote against the audit log before it
goes on the ticket.

| component | code | state | operations | what is hard about it | what makes it correct |
|---|---|---|---|---|---|
| Signal path | `internal/controlplane/controlplane.go` | `Server.mu`; per request a body, the Alerts left of it, the Signal at hand and its decision | `intake`, `ingest`, `auditDecision`, `Wait` | handlers run concurrently; a ticket is written in the middle of a database transaction; every step can fail, the client can hang up, the process can die; the source sends the whole body again | one Incident per Target; an answer of 200 means every Signal is stored; the audit log leads, the ticket follows, the store comes last; nothing is left locked |
| Triage | `internal/triage/triage.go` | none | `Triage` | the order of its rules | opens only when nothing open matches |
| Store | `internal/store/store.go` | tables `incidents` and `members`, one connection | `OpenIncidents`, `Save`, `SetTicket`, `Commit` | ids of rolled-back rows are given again; the error of a cut read goes unseen | what is read is what is stored |
| Audit log | `internal/audit/audit.go` | the file; `seq`, `prev`, a mutex | `Open`, `Append`, `Verify` | partial writes, failing syncs, kills in mid-line, power loss | the chain verifies; what was acknowledged stays |
| Investigation | `internal/controlplane/investigate.go` | the RCA so far, the ledger of queries, budgets used, why it stopped | `Run`, `loop`, `toolResult`, `comment` | several run at once; the model may answer anything; three budgets; each write can fail | within budget; an RCA is written anyway; what is shown was audited |
| Gate 1 | `internal/controlplane/rca.go` | none | `gate1`, `confidence` | repeated ids, Claims citing Claims | more than low confidence is earned by successful queries of the same Incident |
| Evidence | `internal/controlplane/evidence.go`, `internal/evidence` | none of its own | `Query` | its deadline races the answer | audited before it is used |
| Link | `internal/link/hub.go`, `client.go`, `internal/sensor` | per Location a queue of 16, the pending calls, online or not; a Sensor's calls in progress | `Call`, `next`, `reply`, `Sweep`, `Run`; the Sensor's poll loop | answers race deadlines; polls outlive their clients; both ends restart | every query returns; an answer comes from the Location asked; a Call is worked on once |
| Signal normalisation | `internal/signal`, `internal/alertmanager` | none | `Map`, `Bound`, `Resolve` | cutting `raw` until its JSON string fits is a loop | labels, annotations, Name and `raw` are bounded and marked, and the loop ends |
| Process | `cmd/incident-copilot/main.go` | two servers, the hub, `errc`, deferred calls | start, `Shutdown`, `Wait`, close | 10 s of grace against calls of up to 30 s; five things wait for one another | a stop ends, and a clean one loses nothing |
| Ticketing | `internal/github` | external | `Create`, `Comment` | works, fails, or works and loses its answer | modelled as that choice |
| LLM client | `internal/openrouter`, `internal/llm` | external | `Complete` | answers anything, late or never | modelled as that choice |
| Kubernetes Evidence tools | `internal/kubernetes/tools.go` | none; a query's reads so far | `read`, `workload.pods`, `workloadState`, `events` | an answer is put together from several reads of a cluster that changes | the pods an answer shows are of one workload, and complete for what stood still |
| Fault injection | `internal/fault`, `cmd/faultctl` | the file `armed`, the scenarios on disk, the cluster | `inject`, `clear`; `list`, `status` and `leakcheck` only read | each command is a process that may end between any two steps; the cluster follows in its own time | `armed` tells what is in the Deployment and its pods; clear can always be run again |
| Configuration, demo service | `internal/*/config.go`, `internal/demo` | see [left out](#what-is-left-out) | | | |

How they interact. A webhook handler calls, in this order: Adapter (`Map`,
`Bound`, `Resolve`), store (read, save), audit log, ticketing service, audit
log, store (commit), and then starts the investigation's goroutine. That one
calls the model, and for each tool call `Query`, which calls `Hub.Call` and
appends to the audit log; at its end it appends the verdict and comments on the
ticket. `Hub.Call` and the two HTTP handlers a Sensor uses share the hub's maps
and channels under `Hub.mu`. The audit log is shared by all of them. A Sensor runs
an Evidence tool for each Call it gets, which reads the cluster's API server.
For the evaluation, an operator runs `faultctl` against the same cluster, whose
Deployment controller and kubelet do the rest.

## The modules

| module | models | state and actions |
|---|---|---|
| `Triage` | `triage.Triage` | operators only: `SameIncident`, `Kind`, `After`, `Triage` |
| `ControlPlane` (extends `Triage`) | the Signal path over the store, the audit log and the ticketing service | one action per call a handler makes, from `Post` to `Launch`; `Fail`, `LostReply`, `HangUp`, `ReadOpenCut` and `Crash` between any two of them. `incidents`, `members`, `lastId` are the committed database, `tx` the open transaction, `mu` the mutex, `pc`..`hungup` the handlers, `source` what Alertmanager still owes |
| `IncidentRegistry` | what the Signal path promises | two actions, open and join, over a set of Incidents and a set of episodes |
| `Gate1` | `gate1`, `confidence` | operators, and the definition `Backed` of what a passing RCA must have |
| `Investigation` (extends `Gate1`) | one goroutine per Incident from `Run` to its last entry | one action per request, answer, tool call, entry and comment; `Expire` is the deadline, `Fail` and `LostReply` the failures |
| `AuditLog` | `internal/audit` | the file as pieces of lines, and how much of it is on disk; `Lock`, `Write`, `Sync` and their failures, `Kill`, `PowerLoss`, `Open` |
| `Link` | hub, client, Sensor, and `Query` around them | callers, queues, polls, Sensors' calls in progress; every step of both ends, and restarts of both |
| `EvidenceQuery` | what the link promises of a query | a Call is unasked, underway, with a Sensor, or over; it moves on at most once, is answered only from the Sensor's work, and its query is settled once |
| `LinkClock` | the timing of one Location's link: hold, pause, client timeout, sweep | `Tick` moves the clock, and only when nothing that takes no time is left to do; the poll of the Sensor is at one place (`request`, `held`, `response`, `lost`, `pause`, `dead`) for at most so long |
| `SignalIntake` | `Map`, `Bound`, `Resolve` of one Alert | a value is its size, `raw` is where each of its runes ends in bytes and in JSON; each turn of the loop over `raw` is a step |
| `Lifecycle` | `runControlPlane` from its `select` to the exit | servers, hub, requests, investigations, `errc`, the grace period and the deferred calls |
| `DemoCluster` | external: one Deployment of the demo, its controller, kubelet and Alertmanager | what was applied, what the controller saw, ReplicaSets and pods with their owners; each follows in its own time |
| `EvidenceTools` (extends `DemoCluster`) | `workload_state` and `events` for a Deployment | one action per read, and a read that fails |
| `FaultCtl` (extends `DemoCluster`) | `faultctl inject` and `clear`, `ParseScenario`, `LoadScenarios` | one action per call that changes or waits for something; `TimesOut`, `CutShort`, `CutApplied` end a command early; the next finds only `armed` and the cluster |
| `Demo` (extends both) | faultctl and the tools over one cluster | their steps and the cluster's interleave |
| `ControlPlaneInv` (extends `ControlPlane`) | nothing of its own | the inductive invariants of the Signal path, in named parts |
| `MC*` | instances for TLC | values of the constants, symmetry sets |
| `ControlPlaneProofs`, `InvestigationProofs`, `AuditLogProofs`, `LinkProofs`, `LinkClockProofs`, `SignalIntakeProofs`, `LifecycleProofs`, `DemoProofs` | proofs | see [proofs](#proofs) |

How they compose. `ControlPlane` contains Triage and the store; the other
components appear in it as what they do to the Signal path (an audit entry is
appended or fails; an investigation runs to its end, is interrupted, or fails).
`IncidentRegistry` is its abstract specification: `ImplementsRegistry` checks
that the detailed module implements it under the mapping
`registry <- incidents, episodes <- members`. `Investigation` contains Gate 1 and
sees the link as queries that succeed or fail; `Link` shows that such a query
returns, and `LinkClock` has the same polls with time in place of Calls. What a
Sensor answers is arbitrary in `Link`, and `EvidenceQuery` is its abstract specification: where
a Call is (`Work`), whether an answer came, and what its caller is told (`Outcome`); `Demo` composes the tools that make the
answer with the cluster they read and with `FaultCtl`, which changes it.
`Lifecycle` sees handlers and investigations as things that take their
time. `AuditLog` justifies the other modules' appends: all of an entry, durably
and in order, or an error.

Data is abstracted to what the properties tell apart: a Signal is its status,
key, start and Target; a ticket is whose it is and the episodes it shows; an
audit entry is its type, Incident, Signal and ticket; an RCA is its Claims, what
they cite and its level; a string is its sizes. Prompts, markup, titles, times
and severities are left out. Definitions whose comment begins "Mutant of" are no
part of any specification: each is a plausible bug in the definition it names,
and swapping it in must make the run fail (`PROJECT.json`, `mutants`).

## What the runs show

Run one with `tlc -config <run>.cfg <module>`. Runs that pass:

| run | instance | properties |
|---|---|---|
| `ingest` | two handlers, two bodies about one Target, a failing call and a kill between any two steps | `OneIncidentPerTarget`; `AcceptedIsStored` (200 is kept); `OrphansArePaidFor` (each ticket without an Incident is the cost of one failure); `TicketShowsMembers`, `MembersAreAudited`, `TicketsFollowDecisions` (log, ticket and store in that order, comments too); `InvestigatedIsStored` (no investigation of a row that is rolled back); `ImplementsRegistry`; `PathInv`, the inductive invariant of the proofs; `TypeOK` |
| `ingest_liveness` | the same with a hang-up in place of the kill, under fairness | `EveryBodyIsAnswered` (nothing keeps the mutex or the connection), `EveryIncidentInvestigated` (as long as the process lives) |
| `intake` | one handler and no Investigator; bodies that are unauthorized, too long or truncated, Alerts that cannot be mapped, resolved ones, three Signals of two problems; a failing call, a cut read, a repeated notification | `AcceptedIsAudited`, `RefusedIsNotProcessed` |
| `audit_log` | two writers, five entries, two failing calls, two kills or power losses | `ChainHolds`, `AckedIsDurable`, `TypeOK` |
| `investigate` | two investigations at once: one whose model has eleven answers to give, some of which cite the other's queries, and one that keeps asking, with or without a Target; a deadline at any moment, a failing call | `ConfidenceIsEarned`, `ShownIsAudited`, `BudgetHolds`, `RunningOutStillWritesAnRCA`, `TypeOK` |
| `link` | two queries at one Location, a second Location that meddles, two polls, a queue of one, both ends restarting without limit; a Sensor need never come | `PendingIsWaiting`, `AnsweredByItsOwn`, `WorkedOnOnce`, `EveryQueryReturns`, `ImplementsQuery`, `TypeOK` |
| `link_clock` | the durations of the code in seconds, a message takes up to one; failed polls, lost messages and restarts of both ends without limit | `HealthyStaysOnline` (hub.go:27: it takes two failed polls in a row, a lost message or a kill to go offline), `SilenceIsNoticed` (within `OfflineAfter` and a sweep), `ComesBack` (36 s after the last trouble) |
| `demo` | a scenario whose pods never become Ready and one whose pods do; an injection, any number of clears; a command cut short or an edit of the scenarios; a pod that fails or a Deployment made anew; queries all the while | `ArmedTellsWhatIsThere` (of the Deployment and its own pods), `AnswerHasItsPods`, `SafeToRunAgain` (of every pod there is) |
| `signal_intake` | every way to be refused, each set of two workload labels, values around the bound, a severity that is one of them or missing, every `raw` of up to six runes of three kinds | `BoundedAndMarked` (what `Bound` covers: label and annotation values, Name, `raw`), `IntakeEnds` |
| `stop` | two webhooks, a poll, a query; errors, a signal and the end of the grace at any moment | `CleanStopLosesNothing`, `GraceIsForWork`, `StopsWhenTold`, `TypeOK` |

Deadlock is not checked: every one of these systems comes to rest, when its
bodies are answered, its calls returned, its investigations done or its process
gone. That it does not come to rest too early is what the liveness properties
say.

## Where code and documents disagree

Two runs check a sentence of the repository that the code does not keep. The
quotations are in `PROJECT.json`, `findings`.

| run | what TLC finds |
|---|---|
| `cut_read` | `OpenIncidents` does not look at `rows.Err()` after the Incidents. A read that ends early makes Triage open a second Incident for a Target. |
| `audit_broken` | After a failed write or sync the log keeps its file and its old `seq`: the next entry is appended to a chain that does not verify. |

What else the modules show the code to do, with no run of its own:

- The ticket is written before the Incident is stored
  (`controlplane.go:164`, `183`). A failure between the two and the source's
  retry write a second ticket for the episode; `OrphansArePaidFor` bounds how
  many there can be.
- A rolled-back Incident's id is in the audit log already, and AUTOINCREMENT
  gives it to the next Incident, which may be about another Target: the log then
  has the Signals of both under one id.
- An investigation is started only by the handler that opened the Incident
  (`controlplane.go:186`), so an Incident is investigated at most once. ADR 0002
  says otherwise three times: "A Signal that fires again re-investigates"
  (`docs/adr/0002-product-scope-and-platform-seams.md:31`); a distinct Signal that
  joins after the settle window re-investigates, at most three times (`:97`); and
  "An investigation interrupted by a restart runs again" (`:52`). In the code a
  join only comments, and after a restart nothing starts an investigation, a
  repeated notification included. No property says that it is at most one: that
  is not what is intended. `EveryIncidentInvestigated` is checked without kills;
  `InvestigatedIsStored` would go on holding if more were started.
- Two inferred Claims that cite each other pass Gate 1 with high confidence and
  no tool call behind either (`rca.go:89`). `Backed` says what Gate 1 assures.
- A poll looks whether a Call's caller waits, and writes the Call after it
  unlocks (`hub.go:171`, `175`): a caller that gives up in between has its Call
  worked on all the same, once.
- "An investigation in flight finishes" (`main.go:106-107`) holds of a stop that
  returns no error, which is how `CleanStopLosesNothing` puts it. A handler that
  outlives `Shutdown`'s ten seconds (`main.go:134`), or an error exit without
  `Shutdown` (`129`), may launch its investigation after `Wait` saw none, and the
  log closes under it.
- A Sensor whose poll vanished finds out when its client times out, 30 seconds
  after it was sent; by then its Location has been offline for up to a second
  (`client.go:25`, `hub.go:28`), and `ComesBack` says when it is not any more.
- `inject` writes `armed` after it applied the overlay (`faultctl.go:90-93`). Cut
  short in between, it leaves a fault that `status` does not know of;
  `SafeToRunAgain` says that `clear` undoes it.
- `clear` looks at the pods before it waits for the alerts (`faultctl.go:105`,
  `108`): a pod that stops being Ready in between goes unseen. What is left of a
  scenario is not affected.
- A pod of a Deployment that was deleted, not marked for deletion yet and Ready,
  passes all three waits of `clear`: `kubectl rollout status` (`faultctl.go:105`)
  goes by the new Deployment's own status, `unreadyPods` (`108`) by readiness, and
  a firing alert (`111`) need not be about it. `armed` is then removed while a pod
  of the scenario runs. `ArmedTellsWhatIsThere` is therefore about the
  Deployment's own pods; `SafeToRunAgain` is about all of them, in the end.
- `events` matches by kind and name (`tools.go:209-215`, `225`), so it shows the
  events of deleted objects that had the names of what was read: a Deployment
  that was made anew is shown with those of the deleted one and of its ReplicaSets
  whose template hash, and so name, is the same; a StatefulSet's pod with those of
  the pod before it. The comment at `196-198` says that events of a deleted pod
  are left out, which of a StatefulSet's they are not. `EventsAbout` is what the
  code matches, and `AnswerHasItsPods` promises only the pods.
- `SeverityRaw` is the label `severity` as it came (`alertmanager.go:95`): `Bound`
  (`signal.go:65-72`) cuts the labels, the annotations and `Name`, which is a label
  value too, but not this copy. ADR 0002 D3 (`:79`) bounds "each label or
  annotation value" to 4 KiB. `Key`, `Link` and the names of labels have no bound
  but the body's.
- "The log has it" does not mean that the ticket shows it: the verdict is audited
  before the comment, which may fail and is not tried again
  (`investigate.go:148`).
- Every faultctl command loads all scenarios first (`cmd/faultctl/main.go:54`);
  one that is not valid keeps `clear` from running. `SafeToRunAgain` is about
  scenarios that are valid from some time on.
- The loop over an oversized `raw` shrinks in proportion (`signal.go:81`), and
  where escapes are spread unevenly keeps less than would fit.

Passing properties that would be broken by one of these say so in their
condition: `OneIncidentPerTarget`, `TicketShowsMembers` and `MembersAreAudited`
hold as long as no read was cut; `ChainHolds` as long as no write or sync failed
and no kill left a line in the file without its newline, which `verify` accepts
and the next entry runs into; `ArmedTellsWhatIsThere` unless an `inject` was cut
short before it wrote `armed`; `SafeToRunAgain` if the scenarios are valid from
some time on.

## Bounds

- Handlers: two (one in `intake`, which is about what is on record). The mutex admits one to the part that matters, so a third can
  only wait like the second; the proof needs no such bound.
- Bodies and Signals: two to four bodies, up to three problems, two episodes of
  one key. This is enough for each of Triage's four outcomes and for each to be retried.
- `MaxFaults`, `MaxCuts`, `MaxHangups`, `MaxCrashes`, `MaxRepeats`: one of each
  in the runs that use it. A fault ends its request, so a second one meets the
  state a retry would; the audit log, where faults pile up, has two.
- `MaxAppends` = 5 and `MaxKills` = 2: enough to append to what a first kill
  left, and again after a second.
- Investigations: two steps and two tokens, so that either budget can run out
  first; two Claim ids and two refs, so that a Claim can cite its own query,
  another Incident's, or none that was made. Each Incident's model has its own
  set of answers, which keeps two of them at once within reach.
- Link clock: none. Time is counted only as far as it matters, so the state space
  is finite with the code's own numbers; the proof covers all that fit together.
- Demo: one injection, one mishap and one upset, which can meet each other at any
  step; clears and queries are not bounded. One replica: the properties are about
  owners, and a pod of the old and of the new template, leaving ones included, are
  there together. The proofs have no bounds.
- Link: a queue of one in place of sixteen, so that it is full with one Call and
  the second caller waits. Failures and restarts are unlimited.
- Raw: six runes of JSON length one, three and six against a bound of eight
  bytes, so that the loop turns several times and an escape fits exactly.
- Lifecycle: one or two requests of each kind; signals, errors and the grace at
  any moment.

## Fairness

- `ControlPlane`: weak fairness of each handler's steps and of investigations
  (goroutines the Go scheduler does not starve; every call they make has a
  timeout), and of the source's retries (Alertmanager sends again what was not
  answered 2xx). None of failures, hang-ups and kills.
- `Investigation`: weak fairness of `Step`. A request or query is ended by the
  time budget, a comment by the HTTP client's timeout.
- `Link`: weak fairness of the callers alone: their contexts have deadlines.
  Nothing is assumed of Sensors or the network.
- `LinkClock`: none; its properties are safety, with time.
- `Demo`: weak fairness of the cluster, whose controller, kubelet and Alertmanager
  go on as long as any of them has something to do; of a command that runs (every wait ends with faultctl's
  timeout); and of the operator, who runs `clear` again and again, which is what
  "safe to run again" is about. None of upsets, mishaps, injections and edits.
- `SignalIntake`: the loop runs on.
- `Lifecycle`: weak fairness of main, the hub's end, sends on `errc` and handlers
  in progress. A request, a signal, an error and the end of the grace may never
  come.

## Proofs

Checked with `tlapm <module>.tla`, for any values of the constants that satisfy
the module's named assumption. Every invariant and every action property of the
runs that pass is a theorem, and so are both refinements, that of the registry where
no read is cut. What
is left to TLC is at [the end](#only-model-checked).

### Signal path

`ControlPlaneProofs`; the invariants are in `ControlPlaneInv`. First what Triage
returns, for any open Incidents: `TriageOpens` and `TriageJoins`.

`Invariance` (`Spec => []IndInv`), and from it `TypeCorrect` (`TypeOK`),
`MutualExclusion` and `AtMostOneIncident` (`OneIncidentPerTarget`), for any
handlers, bodies and bounds, failures, hang-ups, cut reads and kills included.
`OneIncidentPerTarget` is not inductive: it is kept by `Commit`, which adds what
a handler decided several steps before. `IndInv` says why that decision is still
right then:

- `MutexInv`: a handler is at a step past `Lock` exactly when it holds the mutex;
- `TxInv`: the open transaction is the holder's, and only at steps inside it;
- `StepInv`: what the handler has at hand at each step (a Signal is a Signal
  once it is taken);
- `RowInv`: ids and members of the stored rows fit each other;
- `DecisionInv`: a decision to open was made on tables that had no Incident
  about the problem, and they are still those tables; one to join names a stored
  row;
- `PendingInv`: what the transaction would commit is what the decision says.

It goes by `ControlStep` (mutex, transaction) and `DataStep` (tables), each with
one case per action, over `TypeStep`.

`PathInvariance` (`Spec => []PathInv`) adds what a Signal leaves behind, and
gives the rest of the Signal path's invariants:

| part of `PathInv` | what it says | theorems that follow |
|---|---|---|
| `TableInv` | the decision is about the Signal at hand, the transaction's members are the stored ones and the decision's, after the commit both are stored | `RefusalsLeaveNothing` (`RefusedIsNotProcessed`) |
| `TicketInv` | the ticket at hand is the new Incident's and no stored one's; an episode is on the ticket before it is a member | `TicketsAreComplete` (`TicketShowsMembers`), `StoredBeforeInvestigated` (`InvestigatedIsStored`) |
| `AuditInv` | at each step past an entry, that entry is on record after those before it | `AuditPrecedesStore` (`MembersAreAudited`), `AuditPrecedesTickets` (`TicketsFollowDecisions`: what a step puts on a ticket, a comment too, is the episode whose decision the handler has just recorded) |
| `PromiseInv` | the Alerts a handler has taken are stored and accounted for, but the one it is busy with | `AnswersArePromises` (`AcceptedIsStored`), `AnswersAreAudited` (`AcceptedIsAudited`) |
| `OrphanInv` | a source that hung up and whose handler goes on has not cost its ticket yet, so it is counted beforehand | `OrphansAreBounded` (`OrphansArePaidFor`) |

The argument is by what a step does to the work on a Signal (`StepKinds`): it
advances it (`Advances`, one case per action) or leaves the tables and every
decision as they are (`Leaves`: answers, failures, hang-ups, kills). Tables,
tickets and log only grow, which keeps what is true of the other handlers.

`RegistryRefinement` shows that `ControlPlane` implements `IncidentRegistry`:
only `Commit` changes the registry, and it opens an Incident about a problem
that has none, adds one episode to the Incident there is, or changes nothing.
This is so in behaviours in which no read is cut, `[](spent["cuts"] = 0)`, and
that condition is needed: `cut_read` shows what a cut read does. `RegistryImplemented`
is the same for a driver that never cuts one (`MaxCuts = 0`).

### Gate 1 and investigations

`InvestigationProofs`. `Gate1Sound`: an RCA in which `gate1` finds nothing is `Backed`:
each Claim cites something, each observed Claim only successful queries of the
ledger, each inferred one only other Claims, and two Claims of one id are one
Claim. The last is the reason for the argument: `gate1` checks only the first
Claim of an id (`FirstOfId`, `FirstPasses`) and compares the rest with it
(`RepeatPasses`).

`InvestigationTypes` (`TypeOK`) and `EarnedConfidence`
(`ConfidenceIsEarned`), for any number of investigations, any answers and any
budgets. The inductive invariant adds to the two that a goroutine about to run a
tool call has one (`CallsInv`) and that the ledger is the Incident's share of the
audit log (`LedgerInv`); with `Gate1Sound` the comment's level is then earned from
the audit log, which only grows (`BackedGrows`). `AuditedFirst`
(`ShownIsAudited`) follows the same invariant from the verdict entry on: between
it and the comment, and ever after, what is shown is what that entry and the end
say (`ShownInv`), since entries are only appended (`LogExtends`, `RecordStays`).

`BudgetIsKept` (`BudgetHolds`): `steps` is the number of requests on record and
`tokens` the sum of what they cost (`BudgetOf`), so what the head of the loop
compares is what the log says. The sum is a function along the log; that it does
not change when entries are appended would be an induction, and is the absence
of a least entry at which it does (`LeastNat`).

### Audit log

`AuditLogProofs`: `LogInvariance`, and from it `LogTypes` (`TypeOK`),
`LogIsAChain` (`ChainHolds`, with its two exceptions) and `AppendIsDurable` (`AckedIsDurable`), for any
writers, entries, failures, kills and power losses. `LogInv` adds to the three
that a writer about to sync has its own whole line at the very end of the file,
not synced yet (`SyncInv`), and that one about to write continues where the file
ends (`WriteInv`). The rest is what each mishap leaves: a power loss keeps all
that was synced (`BeginningsKeepSynced`), a kill adds a piece or nothing
(`TornAdds`).

### Sensor link

`LinkProofs`: `LinkTypes` (`TypeOK`), `PendingExactly` (`PendingIsWaiting`) and
`OwnAnswers` (`AnsweredByItsOwn`), for any Locations, Calls, polls and queue
sizes. The invariant adds where a caller is and what it has there (`CallerInv`),
that a poll is some Location's (`PollInv`), and that a Call's channel holds only
its own Location's answer (`ReplyInv`): a reply is delivered only to a pending
Call, and a Call is pending only at its own Location. `OnceOnly` (`WorkedOnOnce`)
adds `OnceInv`: each place a Call can be (a queue, a poll's answer, a Sensor's
work) is at its own Location and excludes the others, and a Call not yet handed
over is in none of them. `QueryImplemented` shows with the same invariants that `Link`
implements `EvidenceQuery`: most steps leave a Call where it is or lose it
(`StaysOrLost`), and the others are `Send` (`Enqueue`), `Begin` (`Write`), `Answer`
(`Reply`), `Settle` (`QueryEntry`) and `Restart`. It says more than `WorkedOnOnce`,
which is about one moment: once its work is over, a Call is never taken up again.

`LinkClockProofs`: `ClockInductive`, and from it `HealthyStays`
(`HealthyStaysOnline`), `SilenceNoticed` (`SilenceIsNoticed`) and `Back`
(`ComesBack`), for any durations with `PollHold + Retry + 3 * Delay < OfflineAfter`
and `PollHold + 2 * Delay <= ClientTimeout`: what "it must exceed the poll hold"
(hub.go:27) comes to. `ClockInv` adds to the types that no timer runs past its
end (`TimersInv`), what is left until the next sweep (`SweepInv`), how old the
last poll can be given where the next one is (`HealthyInv`), and how long after
the last trouble that is (`BackInv`).

### Signal normalisation

`SignalIntakeProofs`: `SignalsAreBounded` (`BoundedAndMarked`) for any Alerts,
any sizes of runes and any bounds of which `MaxRaw` has room for two quotes. The
inductive invariant (`IntakeInvariance`) says that the copies `Map` made of label
values are still those values, but for `SeverityRaw`, which is the Alert's
(`ValuesInv`), and that the loop works on the whole
of a `raw` that is too long, so that whatever it keeps, something is missing
(`RawInv`). Two more say what the code takes for granted: `CutsInBounds`, that
`cut` is never called with an `n` past the end of its string ("n < len(s)",
signal.go:107), and `LoopEnds`, that each turn of the loop tries fewer bytes than
the last: the JSON of what was kept was longer than `MaxRaw`, so the quotient is
below `n`. With that `IntakeEnds` rests only on the loop running on.

### Process

`LifecycleProofs`: `LifeInvariance`, and from it `LifeTypes` (`TypeOK`),
`CleanStops` (`CleanStopLosesNothing`), `GraceIsSpentOnWork` (`GraceIsForWork`)
and `SendersGoOn`: no server and no hub blocks on `errc`, since it has room for
the one error each of them can send (`ErrcInv`). For `CleanStops` the invariant
says that as long as the result is nil every server shut down so far is empty and
takes nothing (`CleanInv`), so no handler is left to launch an investigation that
`Wait` did not see. `GraceIsSpentOnWork` needs that the grace starts only after
the hub ended (`GraceInv`), which released its polls.

### Demo

`DemoProofs`: `DemoInductive`, and from it `ArmedTells` (`ArmedTellsWhatIsThere`)
and `AnswersHaveTheirPods` (`AnswerHasItsPods`), for any templates and scenarios
and any number of commands, mishaps and upsets. `DemoInv` adds what a clear has
reached at each step (`ClearInv`): after `rollout status` the controller has the
baseline and no pod of the Deployment that stays is of another template, and after
the wait for pods none is at all, since one with a deletionTimestamp is not Ready;
pods of deleted Deployments stay out of it; ReplicaSets
and ids of pods (`PodsInv`); and what a query has read (`QueryInv`). Nearly all
steps only change pods that were there, with the owner they had, which `OldPods`
says once for all of them.

### Only model-checked

- Liveness, which needs fairness and ENABLED: `EveryBodyIsAnswered`,
  `EveryIncidentInvestigated`, `RunningOutStillWritesAnRCA`, `EveryQueryReturns`,
  `SafeToRunAgain`, `StopsWhenTold` and `IntakeEnds`. What could keep some of them
  from holding is proved away: nobody but the holder is past `Lock`
  (`MutualExclusion`), no send on `errc` blocks (`SendersGoOn`), the loop over `raw`
  shrinks (`LoopEnds`).
- The two runs that expect a violation.
- Induction over data: the installed provers cannot instantiate the library's
  induction theorems. Where a proof needs one (the first Claim of an id, the sum
  of an investigation's tokens, where `cut` ends) it takes the least
  counterexample (`LeastNat`).

No module declares a RECURSIVE operator: sums over sequences are recursive
functions or folds.

## What is left out

- Times: `now`, `first_seen`, `last_seen`. Durations are in `LinkClock` alone;
  elsewhere a deadline is a step that may come at any moment.
- Entry length: `verify` reads lines of at most 16 MiB, and longer ones are
  written. A file system that loses the middle of a file.
- Authentication by token: in the model a body is authorised or not, and a poll
  or answer comes in the name of one of the Locations.
- `logTickets`, the ticketing adapter used without GitHub, and what happens
  before `runControlPlane`'s `select`.
- HTTP and JSON of the ticketing adapter, the LLM client and the link: pure
  input and output, seen as calls that work, fail, or work and lose the answer.
- Configuration: parsed once at start, without concurrency; nothing is kept, and
  table tests cover it.
- The Kubernetes tools for other kinds than a Deployment, the window of events and
  what pods, events and ReplicaSets hold.
- Of a Signal: `Key`, `Link`, the rank of its severity and the names of labels. The
  Target `Resolve` gives is modelled, but no property is about it.
- A cut value is modelled as cut to the bound exactly; the bytes of a rune that
  would be split are not counted.
- `faultctl list`, `status` and `leakcheck`, which change nothing; that the baseline
  cannot be read (`checkBaseline`) is one of the ways a command is cut short; what `Leaks`
  looks for.
- The demo service: broken on purpose, for the evaluation; the product does not
  use it. The cluster's controllers are modelled only as far as faultctl and the
  tools can tell.
- The Remediation loop, Detectors, Approval and the Executor: designed in the
  ADRs, not written.

## Plan

In this order; all are done.

1. `Triage`, `ControlPlane`: the Signal path, its races, failures and restarts;
   `IncidentRegistry` as its abstract specification; proof of one Incident per
   Target.
2. `AuditLog`: chain and durability.
3. `Gate1`, `Investigation`: earned confidence, budgets; `Gate1Sound`,
   `EarnedConfidence`.
4. `Link`: queries against polls, deadlines and restarts.
5. `SignalIntake`: bounds and termination.
6. `Lifecycle`: the stop.
7. Proofs of the types and of the first safety invariants.
8. `LinkClock`: hold, pauses, `OfflineAfter` and the sweep as a clock; when a
   Location goes offline and when it is back; its proofs.
9. `DemoCluster`, `EvidenceTools`, `FaultCtl`, `Demo`: what an answer of the tools
   is about, and what inject and clear leave; their proofs.
10. `EvidenceQuery`, an abstract specification of a query that `Link` implements,
    and its proof. (A durable log would say no more than `ChainHolds` and
    `AckedIsDurable` do.)
11. Proofs of every invariant and action property the runs check, and of the
    refinements: `PathInv` and the registry, `LogInv`, `LifeInv`, `IntakeInv`, the
    budgets of an investigation.
