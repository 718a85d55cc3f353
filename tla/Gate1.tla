-------------------------------- MODULE Gate1 --------------------------------
(***************************************************************************)
(* internal/controlplane/rca.go: the RCA a model submits, and gate1, the   *)
(* deterministic citation check on it.  Pure.  A failure is the Claim's id *)
(* and a tag for the reason; its wording is left out.  The ledger is a set *)
(* of [ref, ok], since no two queries share a call id (rand.Text).         *)
(***************************************************************************)
EXTENDS Integers, Sequences

CONSTANTS ClaimIds,    \* ids a model gives its Claims
          Refs,        \* call ids of Evidence queries, and what looks like one
          Statements   \* what a Claim says

ASSUME Gate1Assumption == "" \notin ClaimIds

\* "other" stands for every kind or level that is none of the schema's.
Claims == [id: ClaimIds, statement: Statements, kind: {"observed", "inferred", "other"},
           cites: Seq(ClaimIds \cup Refs)]
RCAs == [summary: Seq(Claims), claims: Seq(Claims),
         level: {"low", "medium", "high", "other"}]

\* A nil *RCA.
NoRCA == [summary |-> <<>>, claims |-> <<>>, level |-> "none"]

\* The Claims gate1 goes through: of the summary, then of the confidence.
AllClaims(rca) == rca.summary \o rca.claims

Succeeded(ledger) == {e.ref : e \in {x \in ledger : x.ok}}

\* The ids the n-th Claim may cite: of Evidence queries that succeeded, or of
\* other Claims.  What a Claim of another kind cites is not looked at.
Cited(all, n, ledger) ==
  CASE all[n].kind = "observed" -> Succeeded(ledger)
    [] all[n].kind = "inferred" -> {all[m].id : m \in DOMAIN all} \ {all[n].id}
    [] all[n].kind = "other"    -> {all[n].cites[k] : k \in DOMAIN all[n].cites}

When(condition, failure) == IF condition THEN {failure} ELSE {}

\* Claims of one id: the first is checked, and the others are compared to it.
IsFirst(all, n) == \A m \in 1..(n - 1) : all[m].id # all[n].id

\* Mutant of Repeats: what a repeated id stands for is not compared.
RepeatsNot(all, n) == {}

Repeats(all, n) ==
  LET different == \E m \in 1..(n - 1) : IsFirst(all, m) /\ all[m].id = all[n].id /\ all[m] # all[n]
  IN When(different, [claim |-> all[n].id, reason |-> "two claims"])

\* Why a Claim that is the first of its id fails.
Check(all, n, ledger) ==
  LET fail(reason) == [claim |-> all[n].id, reason |-> reason]
      bad == {k \in DOMAIN all[n].cites : all[n].cites[k] \notin Cited(all, n, ledger)}
  IN When(all[n].cites = <<>>, fail("cites nothing"))
     \cup When(bad # {}, fail("cites what it may not"))
     \cup When(all[n].kind = "other", fail("kind"))

gate1(rca, ledger) ==
  LET all == AllClaims(rca)
      ofClaim(n) == IF IsFirst(all, n) THEN Check(all, n, ledger) ELSE Repeats(all, n)
  IN (UNION {ofClaim(n) : n \in DOMAIN all})
     \cup When(rca.level = "other", [claim |-> "", reason |-> "level"])

\* Mutant of confidence: an investigation without an answer is not thought of.
confidenceOf(rca, failures) == IF failures # {} THEN "low" ELSE rca.level

\* The level the ticket shows (confidence in investigate.go): low without an
\* answer or when any check fails.
confidence(rca, failures) ==
  IF rca = NoRCA \/ failures # {} THEN "low" ELSE rca.level

-----------------------------------------------------------------------------
(* What a check is for.                                                    *)

\* Every Claim of the RCA, repeated ones too, cites something, and only what
\* exists and succeeded; and no id stands for two Claims.
Backed(rca, ledger) ==
  LET all == AllClaims(rca)
  IN /\ \A n \in DOMAIN all :
          /\ all[n].cites # <<>> /\ all[n].kind # "other"
          /\ \A k \in DOMAIN all[n].cites :
               all[n].cites[k] \in IF all[n].kind = "observed"
                                   THEN Succeeded(ledger)
                                   ELSE {all[m].id : m \in DOMAIN all} \ {all[n].id}
     /\ \A m, n \in DOMAIN all : all[m].id = all[n].id => all[m] = all[n]
=============================================================================
