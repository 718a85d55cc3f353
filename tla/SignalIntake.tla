---------------------------- MODULE SignalIntake ----------------------------
(***************************************************************************)
(* What intake makes of one Alert before Triage sees it: Adapter.Map,      *)
(* signal.Bound and Mapping.Resolve.  A label or annotation value is its   *)
(* size.  The raw Alert is where its runes end, in bytes and in JSON (an   *)
(* escape is longer than what it stands for); cutting it until its JSON    *)
(* string fits is a loop, of which each turn is a step here.               *)
(***************************************************************************)
EXTENDS Integers, Sequences

CONSTANTS Alerts,    \* Alerts that come in
          Workloads, \* Mapping.Workloads: the labels that name one, by priority
          MaxValue,  \* largest value kept whole, in bytes
          MaxRaw     \* largest raw kept whole, in bytes

\* Where the first k runes of a raw end: in its bytes, and in its JSON string.
End(runes, k) == IF k = 0 THEN [bytes |-> 0, json |-> 0] ELSE runes[k]

\* A rune has a size, and escaping makes none shorter.
Raws == {runes \in Seq([bytes: Nat, json: Nat]) : \A k \in 1..Len(runes) :
           /\ End(runes, k - 1).bytes < End(runes, k).bytes
           /\ End(runes, k).bytes - End(runes, k - 1).bytes
                <= End(runes, k).json - End(runes, k - 1).json}

\* decodes, fingerprint: the Alert does, has one; namespace: it has one; labels:
\* those of Workloads it has; values: sizes of its label and annotation values;
\* alertname, severity: which of the values are theirs, 0 when it has none.
AlertType ==
  {a \in [decodes: BOOLEAN, fingerprint: BOOLEAN, alertname: Nat, severity: Nat,
          status: {"firing", "resolved", "other"},
          namespace: BOOLEAN, labels: SUBSET {Workloads[k] : k \in DOMAIN Workloads},
          values: Seq(Nat), raw: Raws] :
     {a.alertname, a.severity} \subseteq 0..Len(a.values)}

ASSUME SignalIntakeAssumption ==
  /\ Alerts \subseteq AlertType
  /\ MaxValue \in Nat /\ MaxRaw \in Nat /\ MaxRaw >= 2

VARIABLES
  alert,   \* the Alert at hand
  step,    \* "map", "values", "cut", "resolve", "done" or "dropped"
  values, name, severityRaw, raw, target, truncated,  \* the Signal so far
  n        \* bytes of raw the loop tries to keep

vars == <<alert, step, values, name, severityRaw, raw, target, truncated, n>>

NoTarget == "none"

Init ==
  /\ alert \in Alerts /\ step = "map"
  /\ values = <<>> /\ name = 0 /\ severityRaw = 0 /\ raw = <<>> /\ target = NoTarget /\ truncated = FALSE
  /\ n = 0

-----------------------------------------------------------------------------
(* Sizes.                                                                  *)

Size(runes) == End(runes, Len(runes)).bytes

\* The length of the JSON string that holds runes, with its quotes.
Marshalled(runes) == 2 + End(runes, Len(runes)).json

\* At most the first limit bytes, no rune of them split.
Cut(runes, limit) ==
  SubSeq(runes, 1, CHOOSE k \in 0..Len(runes) :
    /\ End(runes, k).bytes <= limit
    /\ k = Len(runes) \/ End(runes, k + 1).bytes > limit)

-----------------------------------------------------------------------------
\* The size of one of the Alert's values, of none when it lacks it.
Value(k) == IF k = 0 THEN 0 ELSE alert.values[k]

Known == /\ alert.decodes /\ alert.fingerprint /\ alert.alertname # 0
         /\ alert.status \in {"firing", "resolved"}

\* Map: Name and SeverityRaw are copies of label values.
Map ==
  /\ step = "map" /\ Known
  /\ step' = "values"
  /\ values' = alert.values /\ raw' = alert.raw
  /\ name' = Value(alert.alertname) /\ severityRaw' = Value(alert.severity)
  /\ UNCHANGED <<alert, target, truncated, n>>

\* What has no identity, no name or no known status is an error, and dropped.
MapRefuses ==
  /\ step = "map" /\ ~Known
  /\ step' = "dropped"
  /\ UNCHANGED <<alert, values, name, severityRaw, raw, target, truncated, n>>

\* A value cut to the bound.
Bounded(size) == IF size > MaxValue THEN MaxValue ELSE size

\* Mutant of BoundValues: cut values are not marked.
BoundValuesQuietly ==
  /\ step = "values"
  /\ values' = [k \in DOMAIN values |-> Bounded(values[k])]
  /\ name' = Bounded(name)
  /\ n' = MaxRaw
  /\ step' = IF Size(raw) > MaxRaw THEN "cut" ELSE "resolve"
  /\ UNCHANGED <<alert, severityRaw, raw, target, truncated>>

\* Bound, labels and annotations: a value over MaxValue is cut, and so is Name.
\* SeverityRaw, a label value too, is left as it is.
BoundValues ==
  /\ step = "values"
  /\ values' = [k \in DOMAIN values |-> Bounded(values[k])]
  /\ name' = Bounded(name)
  /\ truncated' = \E k \in DOMAIN values : values[k] > MaxValue
  /\ n' = MaxRaw
  /\ step' = IF Size(raw) > MaxRaw THEN "cut" ELSE "resolve"
  /\ UNCHANGED <<alert, severityRaw, raw, target>>

\* Mutant of Shrink: the size it had does not count.
ShrinkNot(kept) == IF kept > MaxRaw THEN kept ELSE n

\* The next n: escaping made the string longer, so shrink in proportion.
Shrink(length) == (n * MaxRaw) \div length

\* Bound, an oversized raw: a turn of the loop.
BoundRaw ==
  LET kept == Cut(raw, n)
      length == Marshalled(kept)
  IN /\ step = "cut"
     /\ IF length <= MaxRaw
        THEN raw' = kept /\ truncated' = TRUE /\ step' = "resolve" /\ UNCHANGED n
        ELSE n' = Shrink(length) /\ UNCHANGED <<raw, truncated, step>>
     /\ UNCHANGED <<alert, values, name, severityRaw, target>>

\* Resolve: labels that name no workload, or no namespace, give no Target; of
\* several the first in the Mapping's order wins.
Resolve ==
  LET present == {k \in DOMAIN Workloads : Workloads[k] \in alert.labels}
  IN /\ step = "resolve"
     /\ target' = IF ~alert.namespace \/ present = {} THEN NoTarget
                  ELSE Workloads[CHOOSE k \in present : \A j \in present : k <= j]
     /\ step' = "done"
     /\ UNCHANGED <<alert, values, name, severityRaw, raw, truncated, n>>

Next == Map \/ MapRefuses \/ BoundValues \/ BoundRaw \/ Resolve

Spec == Init /\ [][Next]_vars
FairSpec == Spec /\ WF_vars(Next)
-----------------------------------------------------------------------------
(* Correctness.                                                            *)

\* What the Signal takes up when it is written out: raw as it came, or as a string.
RawLength == IF raw = alert.raw THEN Size(raw) ELSE Marshalled(raw)

\* "Bound cuts s to the ingest bounds and marks it truncated if anything was cut":
\* label and annotation values fit, and so does raw, once it is a string too; the
\* Name is still the label's value, although each is cut on its own; what was kept
\* of raw is a beginning of what came, with no rune split; and the mark says
\* exactly whether something is missing.  This is what Bound covers, not all of
\* the Signal: SeverityRaw is the label's value whole, however long it is, and
\* Key, Link and the names of labels have no bound either.
BoundedAndMarked ==
  step = "done" =>
    /\ \A k \in DOMAIN values : values[k] <= MaxValue
    /\ name = values[alert.alertname]
    /\ RawLength <= MaxRaw
    /\ raw = SubSeq(alert.raw, 1, Len(raw))
    /\ truncated <=> (values # alert.values \/ raw # alert.raw)

\* The loop over raw ends, however much longer escaping makes it, and every
\* Alert comes out as a Signal or is dropped.
IntakeEnds == <>(step \in {"done", "dropped"})
-----------------------------------------------------------------------------
(* Why they hold.                                                          *)

\* The values once Bound has been over them, and the copies Map made of them.
ValuesInv ==
  /\ step \in {"values", "cut", "resolve", "done"} =>
       /\ alert.alertname # 0 /\ name = values[alert.alertname]
       /\ severityRaw = Value(alert.severity)
  /\ step \in {"cut", "resolve", "done"} =>
       /\ \A k \in DOMAIN values : values[k] <= MaxValue
       /\ values # alert.values <=> \E k \in DOMAIN alert.values : alert.values[k] > MaxValue

\* What the loop over raw works on is the whole of it, which is too long; so
\* whatever the loop keeps, something is missing.
RawInv ==
  /\ step = "values" => raw = alert.raw
  /\ step = "cut" => /\ raw = alert.raw /\ Size(raw) > MaxRaw /\ n <= MaxRaw
                     /\ truncated <=> values # alert.values
  /\ step \in {"resolve", "done"} =>
       /\ RawLength <= MaxRaw /\ raw = SubSeq(alert.raw, 1, Len(raw))
       /\ truncated <=> (values # alert.values \/ raw # alert.raw)

IntakeType ==
  /\ alert \in Alerts /\ raw \in Raws /\ values \in Seq(Nat) /\ truncated \in BOOLEAN /\ n \in Nat
  /\ name \in Nat /\ severityRaw \in Nat
  /\ step \in {"map", "values", "cut", "resolve", "done", "dropped"}
  /\ step = "values" => values = alert.values

\* Together they are inductive.
IntakeInv == IntakeType /\ ValuesInv /\ RawInv

\* cut "returns at most the first n bytes of s (n < len(s))": it reads s[n], and
\* is never called with an n past the end.
CutInBounds == step = "cut" => n < Size(raw)

\* Every turn of the loop that does not end it tries fewer bytes than the last.
LoopShrinks == [][step = "cut" /\ step' = "cut" => n' < n]_vars
=============================================================================
