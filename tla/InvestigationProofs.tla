------------------------- MODULE InvestigationProofs -------------------------
(***************************************************************************)
(* Theorems about investigations, for any number of them, any model and    *)
(* any budget: Gate 1 is sound, so confidence is earned; what a ticket     *)
(* shows was audited before; and the budget holds.                         *)
(***************************************************************************)
EXTENDS Investigation, SequenceTheorems, FiniteSetTheorems, WellFoundedInduction, TLAPS

-----------------------------------------------------------------------------
(* Gate 1: for any RCA and any ledger.                                     *)

\* Every non-empty set of naturals has a least element.
LEMMA LeastNat == ASSUME NEW T \in SUBSET Nat, T # {}
                  PROVE  \E n \in T : \A m \in T : n <= m
<1> DEFINE R == OpToRel(<, Nat)
<1>1. IsWellFoundedOn(R, Nat)
  BY NatLessThanWellFounded
<1>2. \E x \in T : \A y \in T : ~ (<<y, x>> \in R)
  <2> HIDE DEF R
  <2> QED BY <1>1, WFMin
<1>3. \A x, y \in Nat : <<y, x>> \in R <=> y < x
  BY DEF OpToRel
<1> HIDE DEF R
<1>4. \A x, y \in Nat : ~ (y < x) => x <= y
  OBVIOUS
<1> QED BY <1>2, <1>3, <1>4

\* A Claim's id has a first Claim.
LEMMA FirstOfId ==
  ASSUME NEW all \in Seq(Claims), NEW n \in DOMAIN all
  PROVE  \E m \in DOMAIN all : m <= n /\ all[m].id = all[n].id /\ IsFirst(all, m)
<1> DEFINE same == {m \in 1..n : all[m].id = all[n].id}
<1>1. n \in 1..Len(all) /\ Len(all) \in Nat
  OBVIOUS
<1>2. same \in SUBSET Nat /\ n \in same
  BY <1>1
<1>3. PICK m \in same : \A k \in same : m <= k
  <2> HIDE DEF same
  <2> QED BY <1>2, LeastNat
<1>4. \A k \in 1..(m - 1) : all[k].id # all[m].id
  BY <1>1, <1>3
<1> QED BY <1>1, <1>3, <1>4 DEF IsFirst

\* What the first Claim of an id must be to pass.
LEMMA FirstPasses ==
  ASSUME NEW all \in Seq(Claims), NEW L, NEW n \in DOMAIN all, Check(all, n, L) = {}
  PROVE  /\ all[n].cites # <<>> /\ all[n].kind # "other"
         /\ \A k \in DOMAIN all[n].cites : all[n].cites[k] \in Cited(all, n, L)
  BY DEF Check, When

\* What a repeated Claim must be to pass: the first of its id.
LEMMA RepeatPasses ==
  ASSUME NEW all \in Seq(Claims), NEW n \in DOMAIN all, Repeats(all, n) = {},
         NEW m \in DOMAIN all, m < n, IsFirst(all, m), all[m].id = all[n].id
  PROVE  all[m] = all[n]
<1>1. m \in 1..(n - 1)
  OBVIOUS
<1> QED BY <1>1 DEF Repeats, When

\* No failure means backed: every Claim, repeated ones too, cites something and
\* only what exists and succeeded, and no id stands for two Claims.
THEOREM Gate1Sound ==
  ASSUME NEW r \in RCAs, NEW L, gate1(r, L) = {}
  PROVE  Backed(r, L)
<1> DEFINE all == AllClaims(r)
<1>1. all \in Seq(Claims)
  BY DEF AllClaims, RCAs
<1>2. \A n \in DOMAIN all : (IF IsFirst(all, n) THEN Check(all, n, L) ELSE Repeats(all, n)) = {}
  BY DEF gate1
<1> HIDE DEF all
<1>3. \A n \in DOMAIN all : \E m \in DOMAIN all :
        IsFirst(all, m) /\ all[m].id = all[n].id /\ all[m] = all[n]
  <2> TAKE n \in DOMAIN all
  <2>1. PICK m \in DOMAIN all : m <= n /\ all[m].id = all[n].id /\ IsFirst(all, m)
    BY <1>1, FirstOfId
  <2>2. CASE m = n
    BY <2>1, <2>2
  <2>3. CASE m # n
    <3>1. m < n /\ m \in Nat /\ n \in Nat
      BY <2>1, <2>3, <1>1
    <3>2. ~IsFirst(all, n)
      BY <3>1, <2>1, <1>1 DEF IsFirst
    <3>3. Repeats(all, n) = {}
      BY <3>2, <1>2
    <3> QED BY <3>1, <3>3, <2>1, <1>1, RepeatPasses
  <2> QED BY <2>2, <2>3
<1>4. \A n \in DOMAIN all :
        /\ all[n].cites # <<>> /\ all[n].kind # "other"
        /\ \A k \in DOMAIN all[n].cites : all[n].cites[k] \in Cited(all, n, L)
  <2> TAKE n \in DOMAIN all
  <2>1. PICK m \in DOMAIN all : IsFirst(all, m) /\ all[m] = all[n]
    BY <1>3
  <2>2. Check(all, m, L) = {}
    BY <2>1, <1>2
  <2>3. Cited(all, m, L) = Cited(all, n, L)
    BY <2>1 DEF Cited
  <2> QED BY <2>1, <2>2, <2>3, <1>1, FirstPasses
<1>5. \A n \in DOMAIN all : all[n].kind \in {"observed", "inferred"}
  <2> TAKE n \in DOMAIN all
  <2>1. all[n] \in Claims
    BY <1>1
  <2> QED BY <2>1, <1>4 DEF Claims
<1>6. \A n \in DOMAIN all : Cited(all, n, L) =
        IF all[n].kind = "observed" THEN Succeeded(L)
                                    ELSE {all[m].id : m \in DOMAIN all} \ {all[n].id}
  BY <1>5 DEF Cited
<1>7. \A m, n \in DOMAIN all : all[m].id = all[n].id => all[m] = all[n]
  <2> SUFFICES ASSUME NEW m \in DOMAIN all, NEW n \in DOMAIN all, all[m].id = all[n].id
               PROVE  all[m] = all[n]
    OBVIOUS
  <2>1. PICK p \in DOMAIN all : IsFirst(all, p) /\ all[p].id = all[m].id /\ all[p] = all[m]
    BY <1>3
  <2>2. PICK q \in DOMAIN all : IsFirst(all, q) /\ all[q].id = all[n].id /\ all[q] = all[n]
    BY <1>3
  <2>3. p \in Nat /\ q \in Nat /\ ~(p < q) /\ ~(q < p)
    BY <2>1, <2>2, <1>1 DEF IsFirst
  <2> QED BY <2>1, <2>2, <2>3
<1> QED BY <1>4, <1>6, <1>7 DEF Backed, all

-----------------------------------------------------------------------------
(* The inductive invariant.                                                *)

\* A goroutine about to run a tool call has one.
CallsInv == \A i \in Incidents : pc[i] = "tool" => calls[i] # <<>>

\* The ledger is the Incident's share of the audit log, and nobody else's.
LedgerInv == \A i \in Incidents : ledger[i] \subseteq Audited(i)

InvestigationInv == TypeOK /\ CallsInv /\ LedgerInv /\ ConfidenceIsEarned

-----------------------------------------------------------------------------
(* What Gate 1 makes of an answer.                                         *)

\* gate1 returns failures, and always one for a level out of the schema.
LEMMA Gate1Type ==
  ASSUME NEW r \in RCAs \cup {NoRCA}, NEW L
  PROVE  /\ gate1(r, L) \subseteq Failures
         /\ r.level = "other" => gate1(r, L) # {}
<1> DEFINE all == AllClaims(r)
           failed(n) == IF IsFirst(all, n) THEN Check(all, n, L) ELSE Repeats(all, n)
           level == When(r.level = "other", [claim |-> "", reason |-> "level"])
<1>1. all \in Seq(Claims)
  <2>1. r.summary \in Seq(Claims) /\ r.claims \in Seq(Claims)
    <3>1. CASE r \in RCAs
      BY <3>1 DEF RCAs
    <3>2. CASE r = NoRCA
      BY <3>2, EmptySeq DEF NoRCA
    <3> QED BY <3>1, <3>2
  <2> QED BY <2>1, ConcatProperties DEF AllClaims
<1>2. gate1(r, L) = (UNION {failed(n) : n \in DOMAIN all}) \cup level
  BY DEF gate1
<1>3. ASSUME NEW n \in DOMAIN all PROVE failed(n) \subseteq Failures
  <2>1. all[n].id \in ClaimIds
    <3>1. all[n] \in Claims
      BY <1>1, ElementOfSeq
    <3> QED BY <3>1 DEF Claims
  <2>2. \A reason \in {"cites nothing", "cites what it may not", "kind", "two claims"} :
          [claim |-> all[n].id, reason |-> reason] \in Failures
    <3> HIDE DEF all
    <3> QED BY <2>1 DEF Failures
  <2>3. Check(all, n, L) \subseteq Failures /\ Repeats(all, n) \subseteq Failures
    <3> HIDE DEF all
    <3> QED BY <2>2, Zenon DEF Check, Repeats, When
  <2> QED BY <2>3
<1>4. level \subseteq Failures
  <2>1. [claim |-> "", reason |-> "level"] \in Failures
    BY DEF Failures
  <2> QED BY <2>1, Zenon DEF When
<1>5. r.level = "other" => level # {}
  BY Zenon DEF When
<1> HIDE DEF failed, level
<1> QED BY <1>2, <1>3, <1>4, <1>5

\* The verdict is well-formed, and more than low confidence means an RCA backed
\* by the ledger.
LEMMA VerdictType ==
  ASSUME TypeOK, NEW i \in Incidents
  PROVE  /\ Verdict(i) \in Data
         /\ Verdict(i).level \in Levels
         /\ Verdict(i).failures \in SUBSET Failures
         /\ Verdict(i).level # "low" => rca[i] \in RCAs /\ Backed(rca[i], ledger[i])
<1> DEFINE failures == gate1(rca[i], ledger[i])
           level == confidence(rca[i], failures)
<1>1. rca[i] \in Submissions \cup {NoRCA} /\ rca[i] \in RCAs \cup {NoRCA}
  BY InvestigationAssumption DEF TypeOK
<1>2. failures \in SUBSET Failures /\ (rca[i].level = "other" => failures # {})
  BY <1>1, Gate1Type
<1>3. Verdict(i) = [NoData EXCEPT !.rca = rca[i], !.failures = failures, !.level = level]
  BY DEF Verdict
<1>4. rca[i] \in RCAs => rca[i].level \in Levels \cup {"other"}
  BY DEF RCAs, Levels
<1> HIDE DEF failures
<1>5. level \in Levels
  BY <1>1, <1>2, <1>4 DEF confidence, Levels
<1>6. level # "low" => rca[i] \in RCAs /\ failures = {}
  BY <1>1 DEF confidence
<1>7. level # "low" => rca[i] \in RCAs /\ Backed(rca[i], ledger[i])
  BY <1>6, Gate1Sound DEF failures
<1> HIDE DEF level
<1>8. Verdict(i) = [ref |-> 0, ok |-> FALSE, rca |-> rca[i], failures |-> failures,
                    level |-> level, tokens |-> 0]
  BY <1>3, Zenon DEF NoData
<1>9. Verdict(i) \in Data /\ Verdict(i).level = level /\ Verdict(i).failures = failures
  BY <1>1, <1>2, <1>5, <1>8 DEF Data
<1> QED BY <1>2, <1>5, <1>7, <1>9

\* More Evidence never takes back what backs an RCA.
LEMMA BackedGrows ==
  ASSUME NEW r, NEW L, NEW M, L \subseteq M, Backed(r, L)
  PROVE  Backed(r, M)
<1>1. Succeeded(L) \subseteq Succeeded(M)
  BY DEF Succeeded
<1> QED BY <1>1 DEF Backed

-----------------------------------------------------------------------------
(* What a step does to the audit log.                                      *)

\* An entry is added, and none is lost.
LEMMA LogKeeps ==
  ASSUME TypeOK, NEW i \in Incidents, NEW type \in Entries, NEW data \in Data, Log(i, type, data)
  PROVE  /\ audit' \in [Incidents -> Seq([type: Entries, data: Data])]
         /\ \A j \in Incidents : Audited(j) \subseteq Audited(j)'
         /\ type = "evidence.query" => [ref |-> data.ref, ok |-> data.ok] \in Audited(i)'
<1> DEFINE e == [type |-> type, data |-> data]
           E == [type: Entries, data: Data]
<1>1. audit \in [Incidents -> Seq(E)] /\ e \in E /\ audit[i] \in Seq(E)
  BY DEF TypeOK
<1>2. audit' = [audit EXCEPT ![i] = Append(@, e)]
  BY DEF Log
<1> HIDE DEF e, E
<1>3. audit' \in [Incidents -> Seq(E)]
  BY <1>1, <1>2, AppendProperties
<1>4. \A j \in Incidents : \A n \in DOMAIN audit[j] :
        n \in DOMAIN audit'[j] /\ audit'[j][n] = audit[j][n]
  <2> TAKE j \in Incidents
  <2>1. CASE j = i
    BY <2>1, <1>1, <1>2, AppendProperties
  <2>2. CASE j # i
    BY <2>2, <1>1, <1>2
  <2> QED BY <2>1, <2>2
<1>5. \A j \in Incidents : Audited(j) \subseteq Audited(j)'
  BY <1>4 DEF Audited, Of
<1>6. Len(audit[i]) + 1 \in DOMAIN audit'[i] /\ audit'[i][Len(audit[i]) + 1] = e
  BY <1>1, <1>2, AppendProperties
<1>7. type = "evidence.query" => [ref |-> data.ref, ok |-> data.ok] \in Audited(i)'
  BY <1>6 DEF Audited, Of, e
<1> QED BY <1>3, <1>5, <1>7 DEF E

\* Without a new comment confidence stays earned.
LEMMA EarnedStays ==
  ASSUME ConfidenceIsEarned, UNCHANGED comments,
         \A j \in Incidents : Audited(j) \subseteq Audited(j)'
  PROVE  ConfidenceIsEarned'
<1>1. \A j \in Incidents : \A n \in DOMAIN comments[j] :
        comments[j][n].level # "low" => Backed(comments[j][n].rca, Audited(j)')
  BY BackedGrows DEF ConfidenceIsEarned
<1> QED BY <1>1 DEF ConfidenceIsEarned

\* Nor does the ledger leave the audit log when only that grows.
LEMMA LedgerStays ==
  ASSUME LedgerInv, UNCHANGED ledger, \A j \in Incidents : Audited(j) \subseteq Audited(j)'
  PROVE  LedgerInv'
BY DEF LedgerInv

LEMMA SameAudit ==
  ASSUME UNCHANGED audit
  PROVE  \A j \in Incidents : Audited(j) \subseteq Audited(j)'
BY DEF Audited, Of

-----------------------------------------------------------------------------
(* Each step.                                                              *)

LEMMA NoDataType ==
  /\ NoData \in Data
  /\ \A n \in Nat : [NoData EXCEPT !.tokens = n] \in Data
  /\ \A n \in Nat, ok \in BOOLEAN :
       LET d == [NoData EXCEPT !.ref = n, !.ok = ok]
       IN d \in Data /\ d.ref = n /\ d.ok = ok
BY DEF NoData, Data

\* The next tool call keeps the calls well-formed.
LEMMA NextCallType ==
  ASSUME TypeOK, CallsInv, NEW i \in Incidents, pc[i] = "tool", NextCall(i)
  PROVE  /\ calls' \in [Incidents -> Seq(ToolCalls)]
         /\ pc' \in [Incidents -> PCs]
         /\ CallsInv'
<1>1. calls[i] \in Seq(ToolCalls) /\ calls[i] # <<>>
  BY DEF TypeOK, CallsInv
<1>2. Tail(calls[i]) \in Seq(ToolCalls) /\ (Len(calls[i]) # 1 => Tail(calls[i]) # <<>>)
  <2>1. Tail(calls[i]) \in Seq(ToolCalls) /\ Len(Tail(calls[i])) = Len(calls[i]) - 1
    BY <1>1, HeadTailProperties
  <2>2. Len(calls[i]) \in Nat /\ (Tail(calls[i]) = <<>> => Len(Tail(calls[i])) = 0)
    BY <1>1, EmptySeq
  <2> QED BY <2>1, <2>2
<1>3. /\ calls' = [calls EXCEPT ![i] = Tail(calls[i])]
      /\ pc' = [pc EXCEPT ![i] = IF Len(calls[i]) = 1 THEN "loop" ELSE "tool"]
  BY DEF NextCall, Goto
<1> QED BY <1>2, <1>3 DEF TypeOK, PCs, CallsInv

\* A step that leaves the comments alone and only adds to the audit log.
LEMMA KeepsConfidence ==
  ASSUME InvestigationInv, TypeOK', CallsInv', UNCHANGED <<ledger, comments>>,
         \A j \in Incidents : Audited(j) \subseteq Audited(j)'
  PROVE  InvestigationInv'
BY LedgerStays, EarnedStays DEF InvestigationInv

\* The steps that write one audit entry and move on.
LEMMA EntryStep ==
  ASSUME InvestigationInv, NEW i \in Incidents, NEW type \in Entries, NEW data \in Data,
         NEW step \in PCs \ {"tool"}, Log(i, type, data), Goto(i, step),
         UNCHANGED <<investigation, expired, comments, asked>>, faults' \in Nat
  PROVE  InvestigationInv'
<1>1. TypeOK /\ CallsInv
  BY DEF InvestigationInv
<1>2. TypeOK'
  BY <1>1, LogKeeps DEF TypeOK, investigation, Goto
<1>3. CallsInv'
  BY <1>1 DEF CallsInv, Goto, TypeOK, investigation
<1> QED BY <1>1, <1>2, <1>3, LogKeeps, KeepsConfidence DEF investigation

\* The steps that only move on.
LEMMA QuietStep ==
  ASSUME InvestigationInv, TypeOK', CallsInv', UNCHANGED <<ledger, comments, audit>>
  PROVE  InvestigationInv'
BY SameAudit, KeepsConfidence

\* A comment is what Gate 1 left of the answer.
LEMMA CommentStep ==
  ASSUME InvestigationInv, NEW i \in Incidents, NEW step \in PCs \ {"tool"},
         comments' = [comments EXCEPT ![i] = Append(@, Shown(i))], Goto(i, step),
         UNCHANGED <<investigation, expired, audit, asked>>, faults' \in Nat
  PROVE  InvestigationInv'
<1> DEFINE C == [rca: Submissions \cup {NoRCA}, failures: SUBSET Failures,
                 level: Levels, evidence: Ledgers, stopped: Reasons]
<1>1. TypeOK /\ CallsInv /\ LedgerInv /\ ConfidenceIsEarned
  BY DEF InvestigationInv
<1>2. Shown(i) \in C
  <2>1. Verdict(i).level \in Levels /\ Verdict(i).failures \in SUBSET Failures
    BY <1>1, VerdictType
  <2>2. /\ rca[i] \in Submissions \cup {NoRCA} /\ ledger[i] \in Ledgers
        /\ stopped[i] \in Reasons
    <3>1. /\ rca \in [Incidents -> Submissions \cup {NoRCA}] /\ ledger \in [Incidents -> Ledgers]
          /\ stopped \in [Incidents -> Reasons]
      BY <1>1, Zenon DEF TypeOK
    <3> QED BY <3>1
  <2> QED BY <2>1, <2>2 DEF Shown
<1>3. comments[i] \in Seq(C) /\ comments \in [Incidents -> Seq(C)]
  <2>1. comments \in [Incidents -> Seq(C)]
    BY <1>1, Zenon DEF TypeOK
  <2> HIDE DEF C
  <2> QED BY <2>1
<1>4. comments' \in [Incidents -> Seq(C)]
  <2> HIDE DEF C
  <2> QED BY <1>2, <1>3, AppendProperties
<1>5. TypeOK' /\ CallsInv' /\ LedgerInv'
  <2>1. TypeOK'
    BY <1>1, <1>4 DEF TypeOK, investigation, Goto
  <2>2. CallsInv'
    BY <1>1 DEF CallsInv, Goto, TypeOK, investigation
  <2> QED BY <1>1, <2>1, <2>2, SameAudit, LedgerStays DEF investigation
<1>6. ASSUME NEW j \in Incidents, NEW n \in DOMAIN comments'[j], comments'[j][n].level # "low"
      PROVE  Backed(comments'[j][n].rca, Audited(j)')
  <2>1. Audited(j)' = Audited(j)
    BY DEF Audited, Of
  <2>2. \/ n \in DOMAIN comments[j] /\ comments'[j][n] = comments[j][n]
        \/ j = i /\ comments'[j][n] = Shown(i)
    <3> HIDE DEF C
    <3>1. CASE j = i
      <4>1. comments'[i] = Append(comments[i], Shown(i))
        BY <1>3
      <4>2. n \in 1..(Len(comments[i]) + 1)
        BY <3>1, <4>1, <1>2, <1>3, AppendProperties
      <4> QED BY <3>1, <4>1, <4>2, <1>2, <1>3, AppendProperties
    <3>2. CASE j # i
      BY <3>2, <1>3
    <3> QED BY <3>1, <3>2
  <2>3. CASE n \in DOMAIN comments[j] /\ comments'[j][n] = comments[j][n]
    BY <2>1, <2>3, <1>1, <1>6 DEF ConfidenceIsEarned
  <2>4. CASE j = i /\ comments'[j][n] = Shown(i)
    <3>1. Verdict(i).level # "low" /\ comments'[j][n].rca = rca[i]
      BY <2>4, <1>6 DEF Shown
    <3>2. Backed(rca[i], ledger[i]) /\ ledger[i] \subseteq Audited(i)
      BY <3>1, <1>1, VerdictType DEF LedgerInv
    <3> QED BY <3>1, <3>2, <2>1, <2>4, BackedGrows
  <2> QED BY <2>2, <2>3, <2>4
<1> QED BY <1>5, <1>6 DEF InvestigationInv, ConfidenceIsEarned

\* An Evidence query is in the ledger only once it is in the audit log.
LEMMA QueryStep ==
  ASSUME InvestigationInv, NEW i \in Incidents, NEW ok \in BOOLEAN, Query(i, ok)
  PROVE  InvestigationInv'
<1> DEFINE q == [ref |-> asked', ok |-> ok]
           data == [NoData EXCEPT !.ref = asked', !.ok = ok]
<1>1. TypeOK /\ CallsInv /\ LedgerInv /\ ConfidenceIsEarned
  BY DEF InvestigationInv
<1>2. asked' \in Nat /\ data \in Data /\ data.ref = asked' /\ data.ok = ok
  <2>1. asked' \in Nat
    <3>1. asked \in Nat
      BY <1>1, Zenon DEF TypeOK
    <3>2. asked' = asked + 1
      BY Zenon DEF Query
    <3> QED BY <3>1, <3>2
  <2> QED BY <2>1, NoDataType
<1>3. Log(i, "evidence.query", data)
  BY DEF Query
<1> HIDE DEF data
<1>4. /\ audit' \in [Incidents -> Seq([type: Entries, data: Data])]
      /\ \A j \in Incidents : Audited(j) \subseteq Audited(j)'
      /\ q \in Audited(i)'
  <2>1. q = [ref |-> data.ref, ok |-> data.ok]
    BY <1>2
  <2>2. "evidence.query" \in Entries
    BY DEF Entries
  <2> QED BY <1>1, <1>2, <1>3, <2>1, <2>2, LogKeeps, Zenon
<1>5. /\ calls' \in [Incidents -> Seq(ToolCalls)] /\ pc' \in [Incidents -> PCs] /\ CallsInv'
  BY <1>1, NextCallType DEF Query
<1>6. ledger' = [ledger EXCEPT ![i] = @ \cup {q}]
  BY DEF Query
<1>7. ledger' \in [Incidents -> Ledgers]
  <2>1. q \in [ref: Nat, ok: BOOLEAN]
    BY <1>2
  <2>2. ledger \in [Incidents -> SUBSET [ref: Nat, ok: BOOLEAN]]
    BY <1>1 DEF TypeOK, Ledgers
  <2> HIDE DEF q
  <2> QED BY <1>6, <2>1, <2>2 DEF Ledgers
<1>8. TypeOK'
  BY <1>1, <1>2, <1>4, <1>5, <1>7 DEF Query, TypeOK
<1>9. LedgerInv'
  <2> HIDE DEF q
  <2>1. \A j \in Incidents : ledger'[j] \subseteq Audited(j)'
    BY <1>1, <1>4, <1>6 DEF LedgerInv, TypeOK
  <2> QED BY <2>1 DEF LedgerInv
<1>10. ConfidenceIsEarned'
  BY <1>1, <1>4, EarnedStays DEF Query
<1> QED BY <1>5, <1>8, <1>9, <1>10 DEF InvestigationInv

\* What a model answers is remembered with its price.
LEMMA ResponseStep ==
  ASSUME InvestigationInv, NEW i \in Incidents, NEW answer \in Answers[i], Response(i, answer)
  PROVE  InvestigationInv'
<1> DEFINE data == [NoData EXCEPT !.tokens = answer.tokens]
<1>1. TypeOK /\ CallsInv
  BY DEF InvestigationInv
<1>2. answer.calls \in Seq(ToolCalls) /\ answer.tokens \in Nat
  BY InvestigationAssumption
<1>3. data \in Data /\ "llm.response" \in Entries
  BY <1>2, NoDataType DEF Entries
<1>4. Log(i, "llm.response", data)
  BY DEF Response
<1> HIDE DEF data
<1>5. /\ audit' \in [Incidents -> Seq([type: Entries, data: Data])]
      /\ \A j \in Incidents : Audited(j) \subseteq Audited(j)'
  BY <1>1, <1>3, <1>4, LogKeeps
<1>6. /\ tokens' = [tokens EXCEPT ![i] = @ + answer.tokens]
      /\ calls' = [calls EXCEPT ![i] = answer.calls]
      /\ pc' = [pc EXCEPT ![i] = IF answer.calls = <<>> THEN "loop" ELSE "tool"]
      /\ UNCHANGED <<rca, ledger, stopped, steps, expired, comments, asked, faults>>
  BY DEF Response, Goto
<1>7. tokens' \in [Incidents -> Nat]
  <2>1. tokens \in [Incidents -> Nat]
    BY <1>1, Zenon DEF TypeOK
  <2> QED BY <1>2, <1>6, <2>1
<1>8. calls' \in [Incidents -> Seq(ToolCalls)] /\ pc' \in [Incidents -> PCs]
  <2>1. calls \in [Incidents -> Seq(ToolCalls)] /\ pc \in [Incidents -> PCs]
    BY <1>1, Zenon DEF TypeOK
  <2> QED BY <1>2, <1>6, <2>1 DEF PCs
<1>9. TypeOK'
  BY <1>1, <1>5, <1>6, <1>7, <1>8 DEF TypeOK
<1>10. CallsInv'
  <2>1. calls \in [Incidents -> Seq(ToolCalls)] /\ pc \in [Incidents -> PCs]
    BY <1>1, Zenon DEF TypeOK
  <2> QED BY <1>1, <1>6, <2>1 DEF CallsInv
<1> QED BY <1>5, <1>6, <1>9, <1>10, KeepsConfidence

\* A request is one more step of the budget.
LEMMA RequestStep ==
  ASSUME InvestigationInv, NEW i \in Incidents, Request(i)
  PROVE  InvestigationInv'
<1>1. TypeOK /\ CallsInv
  BY DEF InvestigationInv
<1>2. /\ audit' \in [Incidents -> Seq([type: Entries, data: Data])]
      /\ \A j \in Incidents : Audited(j) \subseteq Audited(j)'
  <2>1. "llm.request" \in Entries
    BY DEF Entries
  <2> QED BY <1>1, <2>1, NoDataType, LogKeeps DEF Request
<1>3. /\ steps' = [steps EXCEPT ![i] = @ + 1]
      /\ pc' = [pc EXCEPT ![i] = "complete"]
      /\ UNCHANGED <<rca, ledger, stopped, tokens, calls, expired, comments, asked, faults>>
  BY DEF Request, Goto
<1>4. steps' \in [Incidents -> Nat]
  <2>1. steps \in [Incidents -> Nat]
    BY <1>1, Zenon DEF TypeOK
  <2> QED BY <1>3, <2>1
<1>5. TypeOK'
  BY <1>1, <1>2, <1>3, <1>4 DEF TypeOK, PCs
<1>6. CallsInv'
  BY <1>1, <1>3 DEF CallsInv, TypeOK
<1> QED BY <1>2, <1>3, <1>5, <1>6, KeepsConfidence

\* A request that fails ends the loop.
LEMMA ResponseErrorStep ==
  ASSUME InvestigationInv, NEW i \in Incidents, ResponseError(i)
  PROVE  InvestigationInv'
<1>1. TypeOK /\ CallsInv
  BY DEF InvestigationInv
<1>2. /\ audit' \in [Incidents -> Seq([type: Entries, data: Data])]
      /\ \A j \in Incidents : Audited(j) \subseteq Audited(j)'
  <2>1. "llm.error" \in Entries
    BY DEF Entries
  <2> QED BY <1>1, <2>1, NoDataType, LogKeeps DEF ResponseError
<1>3. /\ stopped' = [stopped EXCEPT ![i] = IF expired[i] THEN "time" ELSE "llm"]
      /\ pc' = [pc EXCEPT ![i] = "gate"]
      /\ UNCHANGED <<rca, ledger, steps, tokens, calls, expired, comments, asked, faults>>
  BY DEF ResponseError, Stop, Goto
<1>4. TypeOK'
  BY <1>1, <1>2, <1>3 DEF TypeOK, PCs, Reasons
<1>5. CallsInv'
  BY <1>1, <1>3 DEF CallsInv, TypeOK
<1> QED BY <1>2, <1>3, <1>4, <1>5, KeepsConfidence

\* The tool calls that are no Evidence query.
LEMMA CallStep ==
  ASSUME InvestigationInv, NEW i \in Incidents, Submit(i) \/ RejectCall(i)
  PROVE  InvestigationInv'
<1>1. TypeOK /\ CallsInv /\ pc[i] = "tool" /\ NextCall(i)
  BY DEF InvestigationInv, Submit, RejectCall
<1>2. calls' \in [Incidents -> Seq(ToolCalls)] /\ pc' \in [Incidents -> PCs] /\ CallsInv'
  BY <1>1, NextCallType
<1>3. UNCHANGED <<ledger, stopped, steps, tokens, expired, audit, comments, asked, faults>>
  BY DEF Submit, RejectCall
<1>4. rca' \in [Incidents -> Submissions \cup {NoRCA}]
  <2>1. rca \in [Incidents -> Submissions \cup {NoRCA}] /\ calls[i] \in Seq(ToolCalls)
    BY <1>1, Zenon DEF TypeOK
  <2>2. Head(calls[i]) \in ToolCalls
    BY <1>1, <2>1, HeadTailProperties DEF CallsInv
  <2>3. Head(calls[i]).rca \in Submissions \cup {NoRCA}
    BY <2>2 DEF ToolCalls
  <2>4. rca' = rca \/ rca' = [rca EXCEPT ![i] = Head(calls[i]).rca]
    BY DEF Submit, RejectCall
  <2> QED BY <2>1, <2>3, <2>4
<1>5. TypeOK'
  BY <1>1, <1>2, <1>3, <1>4 DEF TypeOK
<1> QED BY <1>2, <1>3, <1>5, QuietStep

-----------------------------------------------------------------------------
(* The theorems.                                                           *)

LEMMA InitInv == Init => InvestigationInv
<1> SUFFICES ASSUME Init PROVE InvestigationInv
  OBVIOUS
<1>1. TypeOK
  BY EmptySeq DEF Init, TypeOK, PCs, Ledgers, Reasons
<1>2. CallsInv /\ LedgerInv
  BY DEF Init, CallsInv, LedgerInv
<1>3. ConfidenceIsEarned
  <2>1. \A i \in Incidents : comments[i] = <<>>
    BY DEF Init
  <2>2. \A i \in Incidents : DOMAIN comments[i] = {}
    BY <2>1
  <2> QED BY <2>2 DEF ConfidenceIsEarned
<1> QED BY <1>1, <1>2, <1>3 DEF InvestigationInv

\* The invariant is inductive.
LEMMA NextInv == InvestigationInv /\ [Next]_vars => InvestigationInv'
<1> SUFFICES ASSUME InvestigationInv, [Next]_vars PROVE InvestigationInv'
  OBVIOUS
<1>1. TypeOK /\ CallsInv
  BY DEF InvestigationInv
<1>2. NoData \in Data
  BY NoDataType
<1>3. CASE UNCHANGED vars
  <2>1. TypeOK' /\ CallsInv'
    BY <1>1, <1>3 DEF vars, TypeOK, CallsInv
  <2> QED BY <1>3, <2>1, QuietStep DEF vars
<1>4. ASSUME NEW i \in Incidents, Step(i) \/ Expire(i) \/ Fail(i) \/ LostReply(i)
      PROVE  InvestigationInv'
  <2>1. CASE Skip(i)
    BY <2>1, <1>1, <1>2, EntryStep DEF Skip, Entries, PCs, TypeOK
  <2>2. CASE Begin(i)
    BY <2>2, <1>1, <1>2, EntryStep DEF Begin, Entries, PCs, TypeOK
  <2>3. CASE LeaveLoop(i)
    <3>1. \E reason \in Reasons : stopped' = [stopped EXCEPT ![i] = reason]
      BY <2>3 DEF LeaveLoop, Stop, Reasons
    <3>2. /\ pc' = [pc EXCEPT ![i] = "gate"]
          /\ UNCHANGED <<rca, ledger, steps, tokens, calls, expired, audit, comments, asked, faults>>
      BY <2>3 DEF LeaveLoop, Stop, Goto
    <3>3. TypeOK' /\ CallsInv'
      BY <1>1, <3>1, <3>2 DEF TypeOK, CallsInv, PCs
    <3> QED BY <3>2, <3>3, QuietStep
  <2>4. CASE Request(i)
    BY <2>4, RequestStep
  <2>5. ASSUME NEW answer \in Answers[i], Response(i, answer) PROVE InvestigationInv'
    BY <2>5, ResponseStep
  <2>6. CASE ResponseError(i)
    BY <2>6, ResponseErrorStep
  <2>7. CASE Submit(i) \/ RejectCall(i)
    BY <2>7, CallStep
  <2>8. ASSUME NEW ok \in BOOLEAN, Query(i, ok) PROVE InvestigationInv'
    BY <2>8, QueryStep
  <2>9. CASE GateEntry(i)
    <3>1. Verdict(i) \in Data
      BY <1>1, VerdictType
    <3> QED BY <2>9, <3>1, <1>1, EntryStep DEF GateEntry, Entries, PCs, TypeOK
  <2>10. CASE FinishedEntry(i)
    <3>1. [NoData EXCEPT !.tokens = tokens[i]] \in Data
      BY <1>1, NoDataType DEF TypeOK
    <3> QED BY <2>10, <3>1, <1>1, EntryStep DEF FinishedEntry, Entries, PCs, TypeOK
  <2>11. CASE Comment(i)
    BY <2>11, <1>1, CommentStep DEF Comment, PCs, TypeOK
  <2>12. CASE CommentedEntry(i)
    BY <2>12, <1>1, <1>2, EntryStep DEF CommentedEntry, Entries, PCs, TypeOK
  <2>13. CASE FailedEntry(i) /\ Log(i, "investigation.failed", NoData)
    BY <2>13, <1>1, <1>2, EntryStep DEF FailedEntry, Entries, PCs, TypeOK, Fault
  <2>14. CASE FailedEntry(i) /\ UNCHANGED audit
    <3>0. faults \in Nat
      BY <1>1, Zenon DEF TypeOK
    <3>1. /\ pc' = [pc EXCEPT ![i] = "done"] /\ faults' \in Nat
          /\ UNCHANGED <<investigation, expired, audit, comments, asked>>
      <4>1. faults' = faults \/ faults' = faults + 1
        BY <2>14, Zenon DEF FailedEntry, Fault
      <4> QED BY <2>14, <3>0, <4>1 DEF FailedEntry, Goto
    <3>2. TypeOK'
      BY <1>1, <3>1 DEF TypeOK, PCs, investigation
    <3>3. CallsInv'
      BY <1>1, <3>1 DEF TypeOK, CallsInv, investigation
    <3> QED BY <3>1, <3>2, <3>3, QuietStep DEF investigation
  <2>15. CASE Expire(i)
    <3>1. TypeOK' /\ CallsInv'
      BY <1>1, <2>15 DEF Expire, TypeOK, CallsInv, investigation
    <3> QED BY <2>15, <3>1, QuietStep DEF Expire, investigation
  <2>16. CASE Fail(i)
    <3>1. /\ pc' = [pc EXCEPT ![i] = "failed"] /\ faults' \in Nat
          /\ UNCHANGED <<investigation, expired, audit, comments, asked>>
      <4>1. faults \in Nat
        BY <1>1, Zenon DEF TypeOK
      <4>2. faults' = faults + 1
        BY <2>16, Zenon DEF Fail, Fault
      <4> QED BY <2>16, <4>1, <4>2 DEF Fail, Goto
    <3>2. TypeOK'
      BY <1>1, <3>1 DEF TypeOK, PCs, investigation
    <3>3. CallsInv'
      BY <1>1, <3>1 DEF TypeOK, CallsInv, investigation
    <3> QED BY <3>1, <3>2, <3>3, QuietStep DEF investigation
  <2>17. CASE LostReply(i)
    <3>1. faults' \in Nat
      <4>1. faults \in Nat
        BY <1>1, Zenon DEF TypeOK
      <4>2. faults' = faults + 1
        BY <2>17, Zenon DEF LostReply, Fault
      <4> QED BY <4>1, <4>2
    <3> QED BY <2>17, <3>1, CommentStep DEF LostReply, PCs
  <2> QED BY <1>4, <2>1, <2>2, <2>3, <2>4, <2>5, <2>6, <2>7, <2>8, <2>9, <2>10, <2>11, <2>12,
             <2>13, <2>14, <2>15, <2>16, <2>17 DEF Step, FailedEntry
<1> QED BY <1>3, <1>4 DEF Next

\* Every reachable state is well-typed; above all no ticket ever shows a level
\* that is none of the schema's, whatever the model submitted (confidence).
THEOREM InvestigationTypes == Spec => []TypeOK
<1>1. InvestigationInv => TypeOK
  BY DEF InvestigationInv
<1> QED BY <1>1, InitInv, NextInv, PTL DEF Spec

\* An RCA on a ticket with more than low confidence is backed by the audit log
\* of its own Incident (Run, gate1, comment).
THEOREM EarnedConfidence == Spec => []ConfidenceIsEarned
<1>1. InvestigationInv => ConfidenceIsEarned
  BY DEF InvestigationInv
<1> QED BY <1>1, InitInv, NextInv, PTL DEF Spec
-----------------------------------------------------------------------------
(* What is shown was audited.                                              *)

\* In a log s, the entry g is Gate 1's verdict on what c shows, after every query
\* c shows; and the end of the investigation is on record after it.
VerdictAt(s, c, g) ==
  /\ s[g].type = "gate1.rca" /\ s[g].data.rca = c.rca
  /\ s[g].data.failures = c.failures /\ s[g].data.level = c.level
  /\ \A e \in c.evidence : \E q \in DOMAIN s :
       /\ s[q].type = "evidence.query" /\ q < g
       /\ s[q].data.ref = e.ref /\ s[q].data.ok = e.ok

OnRecord(s, c) ==
  \E g, f \in DOMAIN s : g < f /\ s[f].type = "investigation.finished" /\ VerdictAt(s, c, g)

\* From the verdict on, what will be shown is what it is about.
ShownInv ==
  \A i \in Incidents :
    /\ pc[i] = "finish" => \E g \in DOMAIN audit[i] : VerdictAt(audit[i], Shown(i), g)
    /\ pc[i] = "comment" => OnRecord(audit[i], Shown(i))
    /\ \A n \in DOMAIN comments[i] : OnRecord(audit[i], comments[i][n])

Extended(s, t) == \A n \in DOMAIN s : n \in DOMAIN t /\ t[n] = s[n]

\* A log that only grows keeps what is on record.
LEMMA RecordStays ==
  ASSUME NEW s, NEW t, Extended(s, t), NEW c
  PROVE  /\ \A g \in DOMAIN s : VerdictAt(s, c, g) => VerdictAt(t, c, g)
         /\ OnRecord(s, c) => OnRecord(t, c)
<1>1. \A g \in DOMAIN s : VerdictAt(s, c, g) => VerdictAt(t, c, g)
  BY DEF Extended, VerdictAt
<1> QED BY <1>1 DEF Extended, OnRecord

\* An entry comes after all that were there.
LEMMA LogExtends ==
  ASSUME TypeOK, NEW i \in Incidents, NEW type, NEW data, Log(i, type, data)
  PROVE  /\ \A j \in Incidents : Extended(audit[j], audit'[j])
         /\ \E last \in DOMAIN audit'[i] :
              /\ audit'[i][last] = [type |-> type, data |-> data]
              /\ \A n \in DOMAIN audit[i] : n \in Nat /\ last \in Nat /\ n < last
<1> DEFINE e == [type |-> type, data |-> data]
           E == [type: Entries, data: Data]
<1>1. audit \in [Incidents -> Seq(E)]
  BY Zenon DEF TypeOK
<1>2. audit' = [audit EXCEPT ![i] = Append(@, e)]
  BY DEF Log
<1> HIDE DEF e, E
<1>3. audit'[i] = Append(audit[i], e) /\ audit[i] \in Seq(E)
  BY <1>1, <1>2
<1>4. /\ Len(audit[i]) \in Nat /\ DOMAIN audit[i] = 1..Len(audit[i])
      /\ DOMAIN audit'[i] = 1..(Len(audit[i]) + 1)
      /\ audit'[i][Len(audit[i]) + 1] = e
      /\ \A n \in 1..Len(audit[i]) : audit'[i][n] = audit[i][n]
  BY <1>3
<1>5. \A j \in Incidents : Extended(audit[j], audit'[j])
  <2> TAKE j \in Incidents
  <2>1. CASE j = i
    BY <2>1, <1>4 DEF Extended
  <2>2. CASE j # i
    BY <2>2, <1>1, <1>2 DEF Extended
  <2> QED BY <2>1, <2>2
<1>6. \E last \in DOMAIN audit'[i] :
         audit'[i][last] = e /\ \A n \in DOMAIN audit[i] : n \in Nat /\ last \in Nat /\ n < last
  <2>1. Len(audit[i]) + 1 \in DOMAIN audit'[i]
    BY <1>4
  <2> QED BY <1>4, <2>1
<1> QED BY <1>5, <1>6 DEF e

\* Every step but those from the verdict to the comment.
LEMMA ShownStays ==
  ASSUME ShownInv, NEW i \in Incidents, UNCHANGED comments,
         pc'[i] \notin {"finish", "comment"},
         \A j \in Incidents \ {i} :
           pc'[j] = pc[j] /\ rca'[j] = rca[j] /\ ledger'[j] = ledger[j] /\ stopped'[j] = stopped[j],
         \A j \in Incidents : Extended(audit[j], audit'[j])
  PROVE  ShownInv'
<1>1. \A j \in Incidents \ {i} : Shown(j)' = Shown(j)
  BY DEF Shown, Verdict
<1>2. ASSUME NEW j \in Incidents, pc'[j] \in {"finish", "comment"}
      PROVE  /\ j # i /\ pc[j] = pc'[j] /\ Shown(j)' = Shown(j)
  BY <1>1, <1>2
<1>3. ASSUME NEW j \in Incidents, pc'[j] = "finish"
      PROVE  \E g \in DOMAIN audit'[j] : VerdictAt(audit'[j], Shown(j)', g)
  <2>1. PICK g \in DOMAIN audit[j] : VerdictAt(audit[j], Shown(j), g)
    BY <1>2, <1>3 DEF ShownInv
  <2>2. g \in DOMAIN audit'[j]
    BY DEF Extended
  <2>3. VerdictAt(audit'[j], Shown(j), g)
    BY <2>1, RecordStays
  <2> QED BY <1>2, <1>3, <2>2, <2>3
<1>4. ASSUME NEW j \in Incidents, pc'[j] = "comment" PROVE OnRecord(audit'[j], Shown(j)')
  <2>1. OnRecord(audit[j], Shown(j))
    BY <1>2, <1>4 DEF ShownInv
  <2> QED BY <1>2, <1>4, <2>1, RecordStays
<1>5. ASSUME NEW j \in Incidents, NEW n \in DOMAIN comments[j]
      PROVE  OnRecord(audit'[j], comments[j][n])
  BY RecordStays DEF ShownInv
<1> QED BY <1>3, <1>4, <1>5 DEF ShownInv

LEMMA VerdictRecorded ==
  ASSUME TypeOK, LedgerInv, ShownInv, NEW i \in Incidents, GateEntry(i)
  PROVE  ShownInv'
<1>1. /\ Log(i, "gate1.rca", Verdict(i))
      /\ pc' = [pc EXCEPT ![i] = "finish"]
      /\ UNCHANGED <<rca, ledger, stopped, comments>>
  BY DEF GateEntry, Goto, investigation
<1>2. \A j \in Incidents : Extended(audit[j], audit'[j])
  BY <1>1, LogExtends
<1>3. pc'[i] = "finish" /\ \A j \in Incidents \ {i} : pc'[j] = pc[j]
  BY <1>1 DEF TypeOK
<1>4. \A j \in Incidents : Shown(j)' = Shown(j)
  BY <1>1 DEF Shown, Verdict
<1>5. \E g \in DOMAIN audit'[i] : VerdictAt(audit'[i], Shown(i), g)
  <2>1. PICK g \in DOMAIN audit'[i] :
           /\ audit'[i][g] = [type |-> "gate1.rca", data |-> Verdict(i)]
           /\ \A n \in DOMAIN audit[i] : n \in Nat /\ g \in Nat /\ n < g
    BY <1>1, LogExtends
  <2>2. /\ audit'[i][g].type = "gate1.rca" /\ audit'[i][g].data = Verdict(i)
    BY <2>1
  <2>3. /\ Shown(i).rca = rca[i] /\ Shown(i).failures = Verdict(i).failures
        /\ Shown(i).level = Verdict(i).level /\ Shown(i).evidence = ledger[i]
    BY Zenon DEF Shown
  <2>4. Verdict(i).rca = rca[i]
    BY DEF Verdict, NoData
  <2>5. ASSUME NEW e \in ledger[i]
        PROVE  \E q \in DOMAIN audit'[i] :
                 /\ audit'[i][q].type = "evidence.query" /\ q < g
                 /\ audit'[i][q].data.ref = e.ref /\ audit'[i][q].data.ok = e.ok
    <3>1. e \in Audited(i)
      BY DEF LedgerInv
    <3>2. PICK q \in DOMAIN audit[i] :
             /\ audit[i][q].type = "evidence.query"
             /\ e = [ref |-> audit[i][q].data.ref, ok |-> audit[i][q].data.ok]
      BY <3>1 DEF Audited, Of
    <3>3. q \in DOMAIN audit'[i] /\ audit'[i][q] = audit[i][q] /\ q < g
      BY <1>2, <2>1 DEF Extended
    <3> QED BY <3>2, <3>3
  <2> QED BY <2>2, <2>3, <2>4, <2>5 DEF VerdictAt
<1>6. ASSUME NEW j \in Incidents, j # i
      PROVE  /\ pc[j] = "finish" => \E g \in DOMAIN audit'[j] : VerdictAt(audit'[j], Shown(j), g)
             /\ pc[j] = "comment" => OnRecord(audit'[j], Shown(j))
  <2>1. ASSUME NEW g \in DOMAIN audit[j], VerdictAt(audit[j], Shown(j), g)
        PROVE  g \in DOMAIN audit'[j] /\ VerdictAt(audit'[j], Shown(j), g)
    BY <1>2, <2>1, RecordStays DEF Extended
  <2>2. OnRecord(audit[j], Shown(j)) => OnRecord(audit'[j], Shown(j))
    BY <1>2, RecordStays
  <2> QED BY <2>1, <2>2 DEF ShownInv
<1>7. \A j \in Incidents : \A n \in DOMAIN comments[j] : OnRecord(audit'[j], comments[j][n])
  BY <1>2, RecordStays DEF ShownInv
<1>8. ASSUME NEW j \in Incidents
      PROVE  /\ pc'[j] = "finish" => \E g \in DOMAIN audit'[j] : VerdictAt(audit'[j], Shown(j)', g)
             /\ pc'[j] = "comment" => OnRecord(audit'[j], Shown(j)')
  <2>1. CASE j = i
    BY <2>1, <1>3, <1>4, <1>5
  <2>2. CASE j # i
    BY <2>2, <1>3, <1>4, <1>6
  <2> QED BY <2>1, <2>2
<1> QED BY <1>1, <1>7, <1>8 DEF ShownInv

LEMMA EndRecorded ==
  ASSUME TypeOK, ShownInv, NEW i \in Incidents, FinishedEntry(i)
  PROVE  ShownInv'
<1> DEFINE data == [NoData EXCEPT !.tokens = tokens[i]]
<1>1. /\ pc[i] = "finish" /\ Log(i, "investigation.finished", data)
      /\ pc' = [pc EXCEPT ![i] = "comment"]
      /\ UNCHANGED <<rca, ledger, stopped, comments>>
  BY DEF FinishedEntry, Goto, investigation
<1> HIDE DEF data
<1>2. \A j \in Incidents : Extended(audit[j], audit'[j])
  BY <1>1, LogExtends
<1>3. pc'[i] = "comment" /\ \A j \in Incidents \ {i} : pc'[j] = pc[j]
  BY <1>1 DEF TypeOK
<1>4. \A j \in Incidents : Shown(j)' = Shown(j)
  BY <1>1 DEF Shown, Verdict
<1>5. OnRecord(audit'[i], Shown(i))
  <2>1. PICK g \in DOMAIN audit[i] : VerdictAt(audit[i], Shown(i), g)
    BY <1>1 DEF ShownInv
  <2>2. PICK f \in DOMAIN audit'[i] :
           /\ audit'[i][f] = [type |-> "investigation.finished", data |-> data]
           /\ \A n \in DOMAIN audit[i] : n \in Nat /\ f \in Nat /\ n < f
    BY <1>1, LogExtends
  <2>3. g \in DOMAIN audit'[i] /\ VerdictAt(audit'[i], Shown(i), g) /\ g < f
    BY <1>2, <2>1, <2>2, RecordStays DEF Extended
  <2>4. audit'[i][f].type = "investigation.finished"
    BY <2>2
  <2> QED BY <2>3, <2>4 DEF OnRecord
<1>6. ASSUME NEW j \in Incidents, j # i
      PROVE  /\ pc[j] = "finish" => \E g \in DOMAIN audit'[j] : VerdictAt(audit'[j], Shown(j), g)
             /\ pc[j] = "comment" => OnRecord(audit'[j], Shown(j))
  <2>1. ASSUME NEW g \in DOMAIN audit[j], VerdictAt(audit[j], Shown(j), g)
        PROVE  g \in DOMAIN audit'[j] /\ VerdictAt(audit'[j], Shown(j), g)
    BY <1>2, <2>1, RecordStays DEF Extended
  <2>2. OnRecord(audit[j], Shown(j)) => OnRecord(audit'[j], Shown(j))
    BY <1>2, RecordStays
  <2> QED BY <2>1, <2>2 DEF ShownInv
<1>7. \A j \in Incidents : \A n \in DOMAIN comments[j] : OnRecord(audit'[j], comments[j][n])
  BY <1>2, RecordStays DEF ShownInv
<1>8. ASSUME NEW j \in Incidents
      PROVE  /\ pc'[j] = "finish" => \E g \in DOMAIN audit'[j] : VerdictAt(audit'[j], Shown(j)', g)
             /\ pc'[j] = "comment" => OnRecord(audit'[j], Shown(j)')
  <2>1. CASE j = i
    BY <2>1, <1>3, <1>4, <1>5
  <2>2. CASE j # i
    BY <2>2, <1>3, <1>4, <1>6
  <2> QED BY <2>1, <2>2
<1> QED BY <1>1, <1>7, <1>8 DEF ShownInv

\* What the comment shows is what is on record by then.
LEMMA CommentShown ==
  ASSUME TypeOK, ShownInv, NEW i \in Incidents, Comment(i) \/ LostReply(i)
  PROVE  ShownInv'
<1>1. /\ pc[i] = "comment"
      /\ comments' = [comments EXCEPT ![i] = Append(@, Shown(i))]
      /\ \E step \in {"commentedEntry", "failed"} : pc' = [pc EXCEPT ![i] = step]
      /\ UNCHANGED <<rca, ledger, stopped, audit>>
  BY DEF Comment, LostReply, Goto, investigation
<1>2. \A j \in Incidents : Shown(j)' = Shown(j)
  BY <1>1 DEF Shown, Verdict
<1>3. pc'[i] \notin {"finish", "comment"} /\ \A j \in Incidents \ {i} : pc'[j] = pc[j]
  BY <1>1 DEF TypeOK
<1>4. \A j \in Incidents : \A n \in DOMAIN comments'[j] :
        \/ n \in DOMAIN comments[j] /\ comments'[j][n] = comments[j][n]
        \/ j = i /\ comments'[j][n] = Shown(i)
  <2> DEFINE C == [rca: Submissions \cup {NoRCA}, failures: SUBSET Failures,
                   level: Levels, evidence: Ledgers, stopped: Reasons]
             c == Shown(i)
  <2>1. comments \in [Incidents -> Seq(C)]
    BY Zenon DEF TypeOK
  <2>2. comments' = [comments EXCEPT ![i] = Append(@, c)]
    BY <1>1
  <2> HIDE DEF C, c
  <2> TAKE j \in Incidents
  <2>3. CASE j = i
    <3>1. comments'[i] = Append(comments[i], c) /\ comments[i] \in Seq(C)
      BY <2>1, <2>2
    <3>2. /\ DOMAIN comments[i] = 1..Len(comments[i]) /\ Len(comments[i]) \in Nat
          /\ DOMAIN comments'[i] = 1..(Len(comments[i]) + 1)
          /\ comments'[i][Len(comments[i]) + 1] = c
          /\ \A n \in 1..Len(comments[i]) : comments'[i][n] = comments[i][n]
      BY <3>1
    <3> QED BY <2>3, <3>2 DEF c
  <2>4. CASE j # i
    BY <2>4, <2>1, <2>2
  <2> QED BY <2>3, <2>4
<1>5. OnRecord(audit[i], Shown(i))
  BY <1>1 DEF ShownInv
<1>6. ASSUME NEW j \in Incidents, NEW n \in DOMAIN comments'[j]
      PROVE  OnRecord(audit[j], comments'[j][n])
  BY <1>4, <1>5, <1>6 DEF ShownInv
<1>7. ASSUME NEW j \in Incidents, pc'[j] \in {"finish", "comment"}
      PROVE  pc[j] = pc'[j]
  BY <1>3, <1>7
<1> QED BY <1>1, <1>2, <1>6, <1>7 DEF ShownInv

LEMMA ShownStep == InvestigationInv /\ ShownInv /\ [Next]_vars => ShownInv'
<1> SUFFICES ASSUME InvestigationInv, ShownInv, [Next]_vars PROVE ShownInv'
  OBVIOUS
<1>1. TypeOK /\ LedgerInv
  BY DEF InvestigationInv
<1>2. CASE UNCHANGED vars
  BY <1>2 DEF vars, ShownInv, Shown, Verdict
<1>3. ASSUME NEW i \in Incidents, GateEntry(i) \/ FinishedEntry(i) \/ Comment(i) \/ LostReply(i)
      PROVE  ShownInv'
  BY <1>1, <1>3, VerdictRecorded, EndRecorded, CommentShown
<1>4. ASSUME NEW i \in Incidents,
             \/ Skip(i) \/ Begin(i) \/ LeaveLoop(i) \/ Request(i)
             \/ \E answer \in Answers[i] : Response(i, answer)
             \/ ResponseError(i) \/ Submit(i) \/ RejectCall(i)
             \/ \E ok \in BOOLEAN : Query(i, ok)
             \/ CommentedEntry(i) \/ FailedEntry(i) \/ Expire(i) \/ Fail(i)
      PROVE  ShownInv'
  <2>1. pc'[i] \notin {"finish", "comment"} /\ \A j \in Incidents \ {i} : pc'[j] = pc[j]
    <3>1. pc \in [Incidents -> PCs]
      BY <1>1, Zenon DEF TypeOK
    <3>2. \/ pc' = pc /\ pc[i] \in InLoop
          \/ \E step \in PCs \ {"finish", "comment"} : pc' = [pc EXCEPT ![i] = step]
      BY <1>4 DEF Skip, Begin, LeaveLoop, Request, Response, ResponseError, Submit, RejectCall,
                  Query, CommentedEntry, FailedEntry, Expire, Fail, Goto, Stop, NextCall, PCs
    <3> QED BY <3>1, <3>2 DEF InLoop
  <2>2. UNCHANGED comments
    BY <1>4 DEF Skip, Begin, LeaveLoop, Request, Response, ResponseError, Submit, RejectCall,
                Query, CommentedEntry, FailedEntry, Expire, Fail
  <2>3. \A j \in Incidents \ {i} :
          rca'[j] = rca[j] /\ ledger'[j] = ledger[j] /\ stopped'[j] = stopped[j]
    BY <1>1, <1>4 DEF Skip, Begin, LeaveLoop, Request, Response, ResponseError, Submit, RejectCall,
                Query, CommentedEntry, FailedEntry, Expire, Fail, Stop, investigation, TypeOK
  <2>4. \A j \in Incidents : Extended(audit[j], audit'[j])
    <3>1. audit' = audit \/ \E type, data : Log(i, type, data)
      BY <1>4, Zenon DEF Skip, Begin, LeaveLoop, Request, Response, ResponseError, Submit, RejectCall,
                Query, CommentedEntry, FailedEntry, Expire, Fail
    <3> QED BY <1>1, <3>1, LogExtends DEF Extended
  <2> QED BY <2>1, <2>2, <2>3, <2>4, ShownStays
<1> QED BY <1>2, <1>3, <1>4 DEF Next, Step

\* What a ticket shows of an investigation was on record before: the queries, then
\* the verdict on the very RCA shown, then the end (Run, comment).
THEOREM AuditedFirst == Spec => []ShownIsAudited
<1>1. Init => ShownInv
  <2> SUFFICES ASSUME Init PROVE ShownInv
    OBVIOUS
  <2>1. \A i \in Incidents : comments[i] = <<>> /\ pc[i] = "start"
    BY DEF Init
  <2>2. \A i \in Incidents : DOMAIN comments[i] = {}
    BY <2>1
  <2> QED BY <2>1, <2>2 DEF ShownInv
<1>2. ShownInv => ShownIsAudited
  <2> SUFFICES ASSUME ShownInv, NEW i \in Incidents, NEW n \in DOMAIN comments[i]
               PROVE  LET c == comments[i][n]
                      IN \E g \in Of(i, "gate1.rca"), f \in Of(i, "investigation.finished") :
                           /\ g < f /\ audit[i][g].data.rca = c.rca
                           /\ audit[i][g].data.failures = c.failures
                           /\ audit[i][g].data.level = c.level
                           /\ \A e \in c.evidence : \E q \in Of(i, "evidence.query") :
                                q < g /\ audit[i][q].data.ref = e.ref /\ audit[i][q].data.ok = e.ok
    BY DEF ShownIsAudited
  <2>1. OnRecord(audit[i], comments[i][n])
    BY DEF ShownInv
  <2> QED BY <2>1 DEF OnRecord, VerdictAt, Of
<1> QED BY <1>1, <1>2, InitInv, NextInv, ShownStep, PTL DEF Spec

-----------------------------------------------------------------------------
(* What a log's answers cost.                                              *)

\* A sum along a log: what its first k entries cost, for every k.
IsSum(log, f) ==
  f = [k \in 0..Len(log) |-> IF k = 0 THEN 0 ELSE f[k - 1] + Cost(log[k])]

\* Costs are numbers.
LEMMA CostType ==
  ASSUME NEW log \in Seq([type: Entries, data: Data])
  PROVE  /\ Len(log) \in Nat /\ DOMAIN log = 1..Len(log)
         /\ \A k \in 1..Len(log) : Cost(log[k]) \in Nat
<1>1. Len(log) \in Nat /\ DOMAIN log = 1..Len(log)
  BY LenProperties
<1>2. \A k \in 1..Len(log) : Cost(log[k]) \in Nat
  <2> TAKE k \in 1..Len(log)
  <2>1. log[k] \in [type: Entries, data: Data]
    BY ElementOfSeq
  <2>2. log[k].data.tokens \in Nat
    BY <2>1 DEF Data
  <2> QED BY <2>2 DEF Cost
<1> QED BY <1>1, <1>2

\* A log has such a sum: were there a first entry up to which it has none, the
\* sum up to the entry before would extend to it.
LEMMA SumExists ==
  ASSUME NEW log \in Seq([type: Entries, data: Data])
  PROVE  \E f \in [0..Len(log) -> Nat] : IsSum(log, f)
<1> DEFINE UpTo(m, f) == f[0] = 0 /\ \A k \in 1..m : f[k] = f[k - 1] + Cost(log[k])
           none == {m \in 0..Len(log) : ~ \E f \in [0..m -> Nat] : UpTo(m, f)}
<1>1. Len(log) \in Nat /\ \A k \in 1..Len(log) : Cost(log[k]) \in Nat
  BY CostType
<1>2. none = {}
  <2> SUFFICES ASSUME none # {} PROVE FALSE
    OBVIOUS
  <2>1. none \in SUBSET Nat
    BY <1>1
  <2>2. PICK m \in none : \A k \in none : m <= k
    <3> HIDE DEF none
    <3> QED BY <2>1, LeastNat
  <2>3. m # 0
    <3>1. UpTo(0, [k \in 0..0 |-> 0]) /\ [k \in 0..0 |-> 0] \in [0..0 -> Nat]
      OBVIOUS
    <3> QED BY <2>2, <3>1
  <2>4. m \in 1..Len(log) /\ m - 1 \in 0..Len(log) /\ m - 1 \notin none
    <3>1. m \in 0..Len(log)
      BY <2>2
    <3> HIDE DEF none
    <3>2. m \in 1..Len(log) /\ m - 1 \in 0..Len(log) /\ ~(m <= m - 1)
      BY <1>1, <2>3, <3>1
    <3> QED BY <2>2, <3>2
  <2>5. PICK f \in [0..(m - 1) -> Nat] : UpTo(m - 1, f)
    BY <2>4
  <2> DEFINE g == [k \in 0..m |-> IF k = m THEN f[m - 1] + Cost(log[m]) ELSE f[k]]
  <2>6. \A k \in 0..m : k # m => k \in 0..(m - 1)
    BY <1>1, <2>4
  <2>7. f[m - 1] + Cost(log[m]) \in Nat
    <3>1. m - 1 \in 0..(m - 1)
      BY <2>4
    <3>2. f[m - 1] \in Nat /\ Cost(log[m]) \in Nat
      BY <1>1, <2>4, <2>5, <3>1
    <3> QED BY <3>2
  <2>8. g \in [0..m -> Nat]
    BY <2>5, <2>6, <2>7
  <2>9. UpTo(m, g)
    <3>1. g[0] = 0
      BY <2>3, <2>4, <2>5
    <3>2. ASSUME NEW k \in 1..m PROVE g[k] = g[k - 1] + Cost(log[k])
      <4>1. k - 1 \in 0..m /\ k - 1 # m /\ k \in 0..m
        BY <2>4
      <4>2. g[k - 1] = f[k - 1]
        BY <4>1
      <4>3. CASE k = m
        BY <4>1, <4>2, <4>3
      <4>4. CASE k # m
        <5>1. k \in 1..(m - 1)
          BY <2>4, <4>4
        <5> QED BY <2>5, <4>1, <4>2, <4>4, <5>1
      <4> QED BY <4>3, <4>4
    <3> QED BY <3>1, <3>2
  <2> HIDE DEF g, UpTo
  <2> QED BY <2>2, <2>8, <2>9
<1>3. Len(log) \in 0..Len(log)
  BY <1>1
<1>4. PICK f \in [0..Len(log) -> Nat] : UpTo(Len(log), f)
  BY <1>2, <1>3
<1>5. f = [k \in 0..Len(log) |-> f[k]]
  OBVIOUS
<1>6. \A k \in 0..Len(log) : f[k] = IF k = 0 THEN 0 ELSE f[k - 1] + Cost(log[k])
  <2> TAKE k \in 0..Len(log)
  <2>1. k # 0 => k \in 1..Len(log)
    BY <1>1
  <2> QED BY <1>4, <2>1
<1>7. IsSum(log, f)
  BY <1>5, <1>6 DEF IsSum
<1> QED BY <1>7

\* Spent is that sum.
LEMMA SpentIs ==
  ASSUME NEW log \in Seq([type: Entries, data: Data])
  PROVE  /\ Spent(log, 0) = 0
         /\ \A k \in 0..Len(log) : Spent(log, k) \in Nat
         /\ \A k \in 1..Len(log) : Spent(log, k) = Spent(log, k - 1) + Cost(log[k])
<1>1. Len(log) \in Nat
  BY CostType
<1>2. PICK sum : sum = CHOOSE f : IsSum(log, f)
  OBVIOUS
<1>3. IsSum(log, sum)
  BY <1>2, SumExists
<1>4. \A k : Spent(log, k) = sum[k]
  BY <1>2, Zenon DEF Spent, IsSum
<1>5. sum[0] = 0 /\ \A k \in 1..Len(log) : sum[k] = sum[k - 1] + Cost(log[k])
  <2>1. 0 \in 0..Len(log) /\ \A k \in 1..Len(log) : k \in 0..Len(log) /\ k # 0
    BY <1>1
  <2> QED BY <1>3, <2>1 DEF IsSum
<1>6. \A k \in 0..Len(log) : sum[k] \in Nat
  <2> DEFINE bad == {k \in 0..Len(log) : sum[k] \notin Nat}
  <2> SUFFICES ASSUME bad # {} PROVE FALSE
    OBVIOUS
  <2>1. bad \in SUBSET Nat
    BY <1>1
  <2>2. PICK m \in bad : \A k \in bad : m <= k
    <3> HIDE DEF bad
    <3> QED BY <2>1, LeastNat
  <2>3. m \in 1..Len(log) /\ m - 1 \in 0..Len(log) /\ m - 1 \notin bad
    BY <1>1, <1>5, <2>2
  <2>4. sum[m - 1] \in Nat /\ Cost(log[m]) \in Nat /\ sum[m] = sum[m - 1] + Cost(log[m])
    BY <1>5, <2>3, CostType
  <2> QED BY <2>2, <2>4
<1> QED BY <1>4, <1>5, <1>6

\* A new entry adds its own cost, and the log up to it costs what it did.
LEMMA SpentGrows ==
  ASSUME NEW log \in Seq([type: Entries, data: Data]), NEW more \in Seq([type: Entries, data: Data]),
         Len(more) = Len(log) + 1, \A k \in 1..Len(log) : more[k] = log[k]
  PROVE  /\ \A k \in 0..Len(log) : Spent(more, k) = Spent(log, k)
         /\ Spent(more, Len(more)) = Spent(log, Len(log)) + Cost(more[Len(more)])
<1>1. Len(log) \in Nat
  BY CostType
<1>2. \A k \in 0..Len(log) : Spent(more, k) = Spent(log, k)
  <2> DEFINE bad == {k \in 0..Len(log) : Spent(more, k) # Spent(log, k)}
  <2> SUFFICES ASSUME bad # {} PROVE FALSE
    OBVIOUS
  <2>1. bad \in SUBSET Nat
    BY <1>1
  <2>2. PICK m \in bad : \A k \in bad : m <= k
    <3> HIDE DEF bad
    <3> QED BY <2>1, LeastNat
  <2>3. m \in 0..Len(log) /\ m # 0
    BY <2>2, SpentIs
  <2>4. m \in 1..Len(log) /\ m \in 1..Len(more) /\ m - 1 \in 0..Len(log) /\ ~(m <= m - 1)
    BY <1>1, <2>3
  <2>5. Spent(more, m - 1) = Spent(log, m - 1)
    <3>1. m - 1 \notin bad
      <4> HIDE DEF bad
      <4> QED BY <2>2, <2>4
    <3> QED BY <2>4, <3>1
  <2>6. Spent(more, m) = Spent(more, m - 1) + Cost(more[m]) /\ Spent(log, m) = Spent(log, m - 1) + Cost(log[m])
    BY <2>4, SpentIs
  <2> QED BY <2>2, <2>4, <2>5, <2>6
<1>3. Len(more) \in 1..Len(more) /\ Len(more) - 1 = Len(log) /\ Len(log) \in 0..Len(log)
  BY <1>1
<1> QED BY <1>2, <1>3, SpentIs

-----------------------------------------------------------------------------
(* The budget holds.                                                       *)

\* An entry is counted once: it adds itself to those of its type, and what it
\* costs to what was spent.
LEMMA EntryCounted ==
  ASSUME TypeOK, NEW i \in Incidents, NEW type \in Entries, NEW data \in Data, Log(i, type, data)
  PROVE  /\ \A j \in Incidents \ {i} : audit'[j] = audit[j]
         /\ Len(audit[i]) \in Nat /\ Len(audit'[i]) = Len(audit[i]) + 1
         /\ \A t \in Entries : Of(i, t) \subseteq 1..Len(audit[i])
         /\ \A t \in Entries : Of(i, t)' = IF t = type THEN Of(i, t) \cup {Len(audit[i]) + 1} ELSE Of(i, t)
         /\ \A k \in 0..Len(audit[i]) : Spent(audit'[i], k) = Spent(audit[i], k)
         /\ Spent(audit'[i], Len(audit'[i])) =
              Spent(audit[i], Len(audit[i])) + (IF type = "llm.response" THEN data.tokens ELSE 0)
<1> DEFINE E == [type: Entries, data: Data]
<1>1. PICK e : e = [type |-> type, data |-> data]
  OBVIOUS
<1>2. audit \in [Incidents -> Seq(E)] /\ e \in E
  BY <1>1, Zenon DEF TypeOK
<1>3. PICK log, more : log = audit[i] /\ more = audit'[i]
  OBVIOUS
<1>4. more = Append(log, e) /\ log \in Seq(E) /\ \A j \in Incidents \ {i} : audit'[j] = audit[j]
  BY <1>1, <1>2, <1>3 DEF Log
<1>5. /\ more \in Seq(E) /\ Len(log) \in Nat /\ Len(more) = Len(log) + 1
      /\ DOMAIN log = 1..Len(log) /\ DOMAIN more = 1..(Len(log) + 1)
      /\ more[Len(log) + 1] = e /\ \A k \in 1..Len(log) : more[k] = log[k]
  <2> HIDE DEF E
  <2> QED BY <1>2, <1>4, AppendProperties, LenProperties
<1>6. /\ \A k \in 0..Len(log) : Spent(more, k) = Spent(log, k)
      /\ Spent(more, Len(more)) = Spent(log, Len(log)) + Cost(e)
  BY <1>4, <1>5, SpentGrows
<1>7. Cost(e) = IF type = "llm.response" THEN data.tokens ELSE 0
  BY <1>1 DEF Cost
<1>8. ASSUME NEW t
      PROVE  /\ Of(i, t) \subseteq 1..Len(log)
             /\ Of(i, t)' = IF t = type THEN Of(i, t) \cup {Len(log) + 1} ELSE Of(i, t)
  <2>1. Of(i, t) = {k \in 1..Len(log) : log[k].type = t}
    BY <1>3, <1>5 DEF Of
  <2>2. Of(i, t)' = {k \in 1..(Len(log) + 1) : more[k].type = t}
    BY <1>3, <1>5 DEF Of
  <2>3. \A k \in 1..(Len(log) + 1) : k \in 1..Len(log) \/ k = Len(log) + 1
    BY <1>5
  <2>4. Len(log) + 1 \in 1..(Len(log) + 1) /\ \A k \in 1..Len(log) : k \in 1..(Len(log) + 1)
    BY <1>5
  <2>5. e.type = type
    BY <1>1
  <2> QED BY <1>5, <2>1, <2>2, <2>3, <2>4, <2>5
<1> QED BY <1>3, <1>4, <1>5, <1>6, <1>7, <1>8

\* What the budget says of one Incident.
BudgetOf(i) ==
  /\ IsFiniteSet(Of(i, "llm.request"))
  /\ steps[i] = Cardinality(Of(i, "llm.request")) /\ steps[i] <= Steps
  /\ tokens[i] = Spent(audit[i], Len(audit[i]))
  /\ \A n \in Of(i, "llm.request") : Spent(audit[i], n - 1) < Tokens

\* Nothing changes for an Incident whose log and counters do not.
LEMMA BudgetStays ==
  ASSUME NEW i \in Incidents, BudgetOf(i),
         audit'[i] = audit[i], steps'[i] = steps[i], tokens'[i] = tokens[i]
  PROVE  BudgetOf(i)'
BY DEF BudgetOf, Of

\* An entry that is neither a request nor an answer costs nothing.
LEMMA OtherEntry ==
  ASSUME TypeOK, NEW i \in Incidents, BudgetOf(i), NEW type \in Entries \ {"llm.request", "llm.response"},
         NEW data \in Data, Log(i, type, data), steps'[i] = steps[i], tokens'[i] = tokens[i]
  PROVE  BudgetOf(i)'
<1>0. Len(audit[i]) \in Nat
  BY EntryCounted
<1>1. Of(i, "llm.request")' = Of(i, "llm.request") /\ Of(i, "llm.request") \subseteq 1..Len(audit[i])
  BY EntryCounted DEF Entries
<1>2. /\ \A k \in 0..Len(audit[i]) : Spent(audit'[i], k) = Spent(audit[i], k)
      /\ Spent(audit'[i], Len(audit'[i])) = Spent(audit[i], Len(audit[i])) + 0
  BY EntryCounted
<1>3. Spent(audit[i], Len(audit[i])) \in Nat
  BY DEF BudgetOf, TypeOK
<1>4. \A n \in Of(i, "llm.request") : n - 1 \in 0..Len(audit[i])
  BY <1>0, <1>1
<1> QED BY <1>1, <1>2, <1>3, <1>4 DEF BudgetOf

\* A request is one more step, and is made while both budgets last.
LEMMA RequestCounted ==
  ASSUME TypeOK, NEW i \in Incidents, BudgetOf(i), Request(i)
  PROVE  BudgetOf(i)'
<1> DEFINE R == Of(i, "llm.request")
<1>1. Log(i, "llm.request", NoData) /\ NoData \in Data /\ "llm.request" \in Entries
  BY NoDataType DEF Request, Entries
<1>2. steps'[i] = steps[i] + 1 /\ tokens'[i] = tokens[i] /\ steps[i] < Steps /\ tokens[i] < Tokens
  BY DEF Request, TypeOK, WithinBudget
<1>3. /\ Len(audit[i]) \in Nat /\ R \subseteq 1..Len(audit[i]) /\ R' = R \cup {Len(audit[i]) + 1}
      /\ \A k \in 0..Len(audit[i]) : Spent(audit'[i], k) = Spent(audit[i], k)
      /\ Spent(audit'[i], Len(audit'[i])) = Spent(audit[i], Len(audit[i])) + 0
  BY <1>1, EntryCounted
<1>4. steps[i] \in Nat /\ tokens[i] \in Nat /\ Steps \in Nat
  BY InvestigationAssumption DEF TypeOK
<1>5. IsFiniteSet(R') /\ Cardinality(R') = Cardinality(R) + 1
  <2>1. Len(audit[i]) + 1 \notin R /\ IsFiniteSet(R)
    BY <1>3 DEF BudgetOf
  <2> HIDE DEF R
  <2> QED BY <1>3, <2>1, FS_AddElement
<1>6. \A n \in R' : Spent(audit'[i], n - 1) < Tokens
  <2> TAKE n \in R'
  <2>1. CASE n \in R
    <3>1. n - 1 \in 0..Len(audit[i])
      BY <1>3, <2>1
    <3> QED BY <1>3, <2>1, <3>1 DEF BudgetOf
  <2>2. CASE n = Len(audit[i]) + 1
    <3>1. n - 1 = Len(audit[i]) /\ Len(audit[i]) \in 0..Len(audit[i])
      BY <1>3, <2>2
    <3> QED BY <1>2, <1>3, <3>1 DEF BudgetOf
  <2> QED BY <1>3, <2>1, <2>2
<1>7. steps'[i] = Cardinality(R') /\ steps'[i] <= Steps
  BY <1>2, <1>4, <1>5 DEF BudgetOf
<1>8. tokens'[i] = Spent(audit'[i], Len(audit'[i]))
  BY <1>2, <1>3, <1>4 DEF BudgetOf
<1> QED BY <1>5, <1>6, <1>7, <1>8 DEF BudgetOf

\* An answer costs what its entry says.
LEMMA ResponseCounted ==
  ASSUME TypeOK, NEW i \in Incidents, BudgetOf(i), NEW answer \in Answers[i], Response(i, answer)
  PROVE  BudgetOf(i)'
<1> DEFINE data == [NoData EXCEPT !.tokens = answer.tokens]
<1>1. answer.tokens \in Nat
  BY InvestigationAssumption
<1>2. Log(i, "llm.response", data) /\ data \in Data /\ data.tokens = answer.tokens /\ "llm.response" \in Entries
  BY <1>1, NoDataType DEF Response, Entries, NoData
<1>3. steps'[i] = steps[i] /\ tokens'[i] = tokens[i] + answer.tokens
  BY DEF Response, TypeOK
<1> HIDE DEF data
<1>4. Of(i, "llm.request")' = Of(i, "llm.request") /\ Of(i, "llm.request") \subseteq 1..Len(audit[i])
  BY <1>2, EntryCounted DEF Entries
<1>5. /\ Len(audit[i]) \in Nat
      /\ \A k \in 0..Len(audit[i]) : Spent(audit'[i], k) = Spent(audit[i], k)
      /\ Spent(audit'[i], Len(audit'[i])) = Spent(audit[i], Len(audit[i])) + answer.tokens
  BY <1>2, EntryCounted
<1>6. \A n \in Of(i, "llm.request") : n - 1 \in 0..Len(audit[i])
  BY <1>4, <1>5
<1> QED BY <1>3, <1>4, <1>5, <1>6 DEF BudgetOf

\* Every step keeps every Incident within its budget.
LEMMA BudgetStep ==
  InvestigationInv /\ (\A i \in Incidents : BudgetOf(i)) /\ [Next]_vars => (\A i \in Incidents : BudgetOf(i))'
<1> SUFFICES ASSUME InvestigationInv, \A i \in Incidents : BudgetOf(i), [Next]_vars
             PROVE  \A j \in Incidents : BudgetOf(j)'
  OBVIOUS
<1>1. TypeOK
  BY DEF InvestigationInv
<1>2. CASE UNCHANGED vars
  BY <1>2, BudgetStays DEF vars
<1>3. ASSUME NEW i \in Incidents, Request(i) \/ \E answer \in Answers[i] : Response(i, answer)
      PROVE  \A j \in Incidents : BudgetOf(j)'
  <2>1. BudgetOf(i)'
    BY <1>1, <1>3, RequestCounted, ResponseCounted
  <2>2. \A j \in Incidents \ {i} : audit'[j] = audit[j] /\ steps'[j] = steps[j] /\ tokens'[j] = tokens[j]
    BY <1>1, <1>3 DEF Request, Response, Log, TypeOK
  <2> QED BY <2>1, <2>2, BudgetStays
<1>4. ASSUME NEW i \in Incidents,
             \/ Skip(i) \/ Begin(i) \/ LeaveLoop(i)
             \/ ResponseError(i) \/ Submit(i) \/ RejectCall(i)
             \/ \E ok \in BOOLEAN : Query(i, ok)
             \/ GateEntry(i) \/ FinishedEntry(i) \/ Comment(i) \/ CommentedEntry(i)
             \/ FailedEntry(i) \/ Expire(i) \/ Fail(i) \/ LostReply(i)
      PROVE  \A j \in Incidents : BudgetOf(j)'
  <2>1. steps' = steps /\ tokens' = tokens
    BY <1>4 DEF Skip, Begin, LeaveLoop, ResponseError, Submit, RejectCall, Query, GateEntry, FinishedEntry,
                Comment, CommentedEntry, FailedEntry, Expire, Fail, LostReply, investigation
  <2>2. \/ audit' = audit
        \/ \E type \in Entries \ {"llm.request", "llm.response"}, data \in Data : Log(i, type, data)
    <3>1. /\ NoData \in Data /\ Verdict(i) \in Data
          /\ [NoData EXCEPT !.tokens = tokens[i]] \in Data
      BY <1>1, NoDataType, VerdictType DEF TypeOK
    <3>2. ASSUME NEW ok \in BOOLEAN, Query(i, ok)
          PROVE  \E data \in Data : Log(i, "evidence.query", data)
      <4>1. asked' \in Nat
        BY <1>1, <3>2 DEF Query, TypeOK
      <4> QED BY <3>2, <4>1, NoDataType DEF Query
    <3> QED BY <1>4, <3>1, <3>2 DEF Skip, Begin, LeaveLoop, ResponseError, Submit, RejectCall, GateEntry,
                FinishedEntry, Comment, CommentedEntry, FailedEntry, Expire, Fail, LostReply, Entries
  <2>3. CASE audit' = audit
    BY <2>1, <2>3, BudgetStays
  <2>4. ASSUME NEW type \in Entries \ {"llm.request", "llm.response"}, NEW data \in Data, Log(i, type, data)
        PROVE  \A j \in Incidents : BudgetOf(j)'
    <3>1. BudgetOf(i)'
      BY <1>1, <2>1, <2>4, OtherEntry
    <3>2. \A j \in Incidents \ {i} : audit'[j] = audit[j]
      BY <1>1, <2>4, EntryCounted
    <3> QED BY <2>1, <3>1, <3>2, BudgetStays
  <2> QED BY <2>2, <2>3, <2>4
<1> QED BY <1>2, <1>3, <1>4 DEF Next, Step

\* At first nothing was asked and nothing spent.
LEMMA BudgetInit == Init => \A i \in Incidents : BudgetOf(i)
<1> SUFFICES ASSUME Init, NEW i \in Incidents PROVE BudgetOf(i)
  OBVIOUS
<1>1. audit[i] = <<>> /\ steps[i] = 0 /\ tokens[i] = 0
  BY DEF Init
<1>2. Of(i, "llm.request") = {}
  BY <1>1 DEF Of
<1>3. Spent(audit[i], Len(audit[i])) = 0
  <2>1. <<>> \in Seq([type: Entries, data: Data]) /\ Len(<<>>) = 0
    BY EmptySeq
  <2> QED BY <1>1, <2>1, SpentIs
<1>4. Steps \in Nat
  BY InvestigationAssumption
<1>5. IsFiniteSet({}) /\ Cardinality({}) = 0
  BY FS_EmptySet
<1>6. steps[i] = Cardinality(Of(i, "llm.request")) /\ steps[i] <= Steps /\ IsFiniteSet(Of(i, "llm.request"))
  BY <1>1, <1>2, <1>4, <1>5
<1>7. tokens[i] = Spent(audit[i], Len(audit[i]))
  BY <1>1, <1>3
<1> QED BY <1>2, <1>6, <1>7 DEF BudgetOf

\* The model is asked at most Steps times, and never after its answers have cost
\* Tokens (Run, the head of its loop), by what the audit log has.
THEOREM BudgetIsKept == Spec => []BudgetHolds
<1>1. (\A i \in Incidents : BudgetOf(i)) => BudgetHolds
  BY DEF BudgetOf, BudgetHolds
<1> QED BY <1>1, InitInv, NextInv, BudgetInit, BudgetStep, PTL DEF Spec
=============================================================================
