------------------------- MODULE SignalIntakeProofs -------------------------
(***************************************************************************)
(* What intake makes of an Alert, for any Alerts, labels and bounds.       *)
(***************************************************************************)
EXTENDS SignalIntake, SequenceTheorems, WellFoundedInduction, TLAPS

-----------------------------------------------------------------------------
(* Sizes.                                                                  *)

\* Every non-empty set of naturals has a least element.
LEMMA LeastNat == ASSUME NEW T \in SUBSET Nat, T # {}
                  PROVE  \E k \in T : \A m \in T : k <= m
<1> DEFINE R == OpToRel(<, Nat)
<1>1. IsWellFoundedOn(R, Nat)
  BY NatLessThanWellFounded
<1>2. \E x \in T : \A y \in T : ~ (<<y, x>> \in R)
  <2> HIDE DEF R
  <2> QED BY <1>1, WFMin
<1>3. \A x, y \in Nat : <<y, x>> \in R <=> y < x
  BY DEF OpToRel
<1> HIDE DEF R
<1>4. \A x, y \in Nat : ~ (y < x) => x <= y
  OBVIOUS
<1> QED BY <1>2, <1>3, <1>4

\* Every rune ends somewhere, and past the rune before it.
LEMMA Ends ==
  ASSUME NEW runes \in Raws
  PROVE  /\ Len(runes) \in Nat /\ DOMAIN runes = 1..Len(runes)
         /\ runes \in Seq([bytes: Nat, json: Nat])
         /\ \A k \in 0..Len(runes) : End(runes, k) \in [bytes: Nat, json: Nat]
         /\ \A k \in 1..Len(runes) : End(runes, k - 1).bytes < End(runes, k).bytes
<1>1. runes \in Seq([bytes: Nat, json: Nat])
  BY DEF Raws
<1>2. Len(runes) \in Nat /\ DOMAIN runes = 1..Len(runes)
  BY <1>1, LenProperties
<1>3. \A k \in 1..Len(runes) : runes[k] \in [bytes: Nat, json: Nat]
  BY <1>1, ElementOfSeq
<1>4. \A k \in 0..Len(runes) : End(runes, k) \in [bytes: Nat, json: Nat]
  <2> TAKE k \in 0..Len(runes)
  <2>1. k # 0 => k \in 1..Len(runes)
    BY <1>2
  <2> QED BY <1>3, <2>1 DEF End
<1> QED BY <1>1, <1>2, <1>4 DEF Raws

\* Sizes are numbers.
LEMMA Sizes ==
  ASSUME NEW runes \in Raws
  PROVE  Size(runes) \in Nat /\ Marshalled(runes) \in Nat
<1>1. Len(runes) \in 0..Len(runes)
  BY Ends
<1>2. End(runes, Len(runes)) \in [bytes: Nat, json: Nat]
  BY <1>1, Ends
<1> QED BY <1>2 DEF Size, Marshalled

\* A beginning of a raw is one too, and its runes end where they did.
LEMMA Beginning ==
  ASSUME NEW runes \in Raws, NEW k \in 0..Len(runes), NEW kept, kept = SubSeq(runes, 1, k)
  PROVE  /\ kept \in Raws /\ Len(kept) = k
         /\ Size(kept) = End(runes, k).bytes /\ Marshalled(kept) = 2 + End(runes, k).json
<1>1. k \in Nat /\ k <= Len(runes) /\ Len(runes) \in Nat
  BY Ends
<1>2. \A j \in 1..k : runes[j] \in [bytes: Nat, json: Nat]
  <2> TAKE j \in 1..k
  <2>1. j \in 1..Len(runes) /\ runes \in Seq([bytes: Nat, json: Nat])
    BY <1>1, Ends
  <2> QED BY <2>1, ElementOfSeq
<1>3. /\ kept \in Seq([bytes: Nat, json: Nat]) /\ Len(kept) = k
      /\ \A j \in 1..k : kept[j] = runes[j]
  BY <1>1, <1>2, Ends, SubSeqProperties
<1>4. \A j \in 0..k : End(kept, j) = End(runes, j)
  <2> TAKE j \in 0..k
  <2>1. j # 0 => j \in 1..k
    BY <1>1
  <2> QED BY <1>3, <2>1 DEF End
<1>5. \A j \in 1..k : j \in 1..Len(runes) /\ j \in 0..k /\ j - 1 \in 0..k
  BY <1>1
<1>6. kept \in Raws
  BY <1>3, <1>4, <1>5 DEF Raws
<1>7. k \in 0..k
  BY <1>1
<1> QED BY <1>3, <1>4, <1>6, <1>7 DEF Size, Marshalled

\* cut finds a beginning that fits: the last rune that ends within the limit.
LEMMA CutFits ==
  ASSUME NEW runes \in Raws, NEW limit \in Nat
  PROVE  \E k \in 0..Len(runes) : Cut(runes, limit) = SubSeq(runes, 1, k) /\ End(runes, k).bytes <= limit
<1> DEFINE Fits(k) == /\ End(runes, k).bytes <= limit
                      /\ k = Len(runes) \/ End(runes, k + 1).bytes > limit
           over == {k \in 0..Len(runes) : End(runes, k).bytes > limit}
<1>1. \E k \in 0..Len(runes) : Fits(k)
  <2>1. Len(runes) \in Nat /\ \A k \in 0..Len(runes) : End(runes, k).bytes \in Nat
    BY Ends
  <2>2. CASE over = {}
    <3>1. Len(runes) \in 0..Len(runes)
      BY <2>1
    <3> QED BY <2>1, <2>2, <3>1
  <2>3. CASE over # {}
    <3>1. over \in SUBSET Nat
      BY <2>1
    <3>2. PICK m \in over : \A j \in over : m <= j
      <4> HIDE DEF over
      <4> QED BY <2>3, <3>1, LeastNat
    <3>3. m # 0
      BY <3>2 DEF End
    <3>4. m - 1 \in 0..Len(runes) /\ m - 1 + 1 = m /\ m - 1 \notin over
      BY <2>1, <3>2, <3>3
    <3>5. End(runes, m - 1).bytes <= limit /\ End(runes, m).bytes > limit
      BY <2>1, <3>2, <3>4
    <3> QED BY <3>4, <3>5
  <2> QED BY <2>2, <2>3
<1>2. PICK c : c = CHOOSE k \in 0..Len(runes) : Fits(k)
  OBVIOUS
<1>3. c \in 0..Len(runes) /\ Fits(c)
  <2> HIDE DEF Fits
  <2> QED BY <1>1, <1>2
<1>4. Cut(runes, limit) = SubSeq(runes, 1, c)
  BY <1>2 DEF Cut
<1> QED BY <1>3, <1>4

\* The next n is less than the last one, as long as there is anything to cut.
LEMMA Shrinks ==
  ASSUME n \in Nat, n > 0, NEW length \in Nat, length > MaxRaw
  PROVE  Shrink(length) \in Nat /\ Shrink(length) < n
<1>1. MaxRaw \in Nat /\ length > 0
  BY SignalIntakeAssumption
<1>2. PICK a : a = n * MaxRaw
  OBVIOUS
<1>3. a \in Nat /\ a < n * length
  <2>1. n * MaxRaw \in Nat /\ n * length \in Nat /\ n * length - n * MaxRaw = n * (length - MaxRaw)
    BY <1>1
  <2>2. length - MaxRaw \in Nat \ {0} /\ n \in Nat \ {0}
    BY <1>1
  <2>3. \A x, y \in Nat \ {0} : x * y > 0
    OBVIOUS
  <2>4. n * (length - MaxRaw) > 0
    BY <2>2, <2>3
  <2> QED BY <1>2, <2>1, <2>4
<1>4. PICK q : q = a \div length
  OBVIOUS
<1>5. q \in Nat /\ length * q <= a
  BY <1>1, <1>3, <1>4
<1>6. q < n
  <2> SUFFICES ASSUME q >= n PROVE FALSE
    BY <1>5
  <2>1. \A x, y, z \in Nat : x >= y => z * x >= y * z
    OBVIOUS
  <2>2. length * q >= n * length
    BY <1>5, <2>1
  <2>3. n * length \in Nat /\ length * q \in Nat
    BY <1>5
  <2> QED BY <1>3, <1>5, <2>2, <2>3
<1> QED BY <1>2, <1>4, <1>5, <1>6 DEF Shrink

\* What a turn of the loop cuts raw to: a beginning of at most n bytes, and of
\* less than the loop was given; with n at 0 it is empty, and fits.
LEMMA KeptIs ==
  ASSUME IntakeInv, step = "cut", NEW kept, kept = Cut(raw, n)
  PROVE  /\ kept \in Raws /\ Len(kept) \in Nat /\ Marshalled(kept) \in Nat
         /\ kept = SubSeq(alert.raw, 1, Len(kept))
         /\ kept # alert.raw
         /\ n = 0 => Marshalled(kept) = 2
<1>1. raw \in Raws /\ n \in Nat /\ raw = alert.raw /\ n <= MaxRaw /\ Size(raw) > MaxRaw
  BY DEF IntakeInv, IntakeType, RawInv
<1>2. PICK k \in 0..Len(raw) : kept = SubSeq(raw, 1, k) /\ End(raw, k).bytes <= n
  BY <1>1, CutFits
<1>3. /\ kept \in Raws /\ Len(kept) = k
      /\ Size(kept) = End(raw, k).bytes /\ Marshalled(kept) = 2 + End(raw, k).json
  BY <1>1, <1>2, Beginning
<1>4. kept # alert.raw
  <2>1. Size(kept) \in Nat /\ Size(raw) \in Nat /\ MaxRaw \in Nat
    BY <1>1, <1>3, Sizes, SignalIntakeAssumption
  <2>2. Size(kept) # Size(raw)
    BY <1>1, <1>2, <1>3, <2>1
  <2> QED BY <1>1, <2>2
<1>5. ASSUME n = 0 PROVE k = 0
  <2> SUFFICES ASSUME k # 0 PROVE FALSE
    OBVIOUS
  <2>1. Len(raw) \in Nat
    BY <1>1, Ends
  <2>2. k \in 1..Len(raw) /\ k - 1 \in 0..Len(raw) /\ k \in 0..Len(raw)
    BY <1>2, <2>1
  <2>3. /\ End(raw, k - 1) \in [bytes: Nat, json: Nat] /\ End(raw, k) \in [bytes: Nat, json: Nat]
        /\ End(raw, k - 1).bytes < End(raw, k).bytes
    BY <1>1, <2>2, Ends
  <2>4. End(raw, k - 1).bytes \in Nat /\ End(raw, k).bytes \in Nat
    BY <2>3
  <2> QED BY <1>2, <1>5, <2>3, <2>4
<1>6. n = 0 => Marshalled(kept) = 2
  BY <1>3, <1>5 DEF End
<1> QED BY <1>1, <1>2, <1>3, <1>4, <1>6, Sizes, Ends

-----------------------------------------------------------------------------
(* The steps.                                                              *)

\* A value the Alert has is a size.
LEMMA ValueIs ==
  ASSUME alert \in Alerts
  PROVE  /\ alert.values \in Seq(Nat) /\ alert.raw \in Raws
         /\ Len(alert.values) \in Nat /\ DOMAIN alert.values = 1..Len(alert.values)
         /\ alert.alertname \in 0..Len(alert.values) /\ alert.severity \in 0..Len(alert.values)
         /\ \A k \in 0..Len(alert.values) : Value(k) \in Nat /\ (k # 0 => k \in DOMAIN alert.values)
<1>1. /\ alert.values \in Seq(Nat) /\ alert.raw \in Raws
      /\ alert.alertname \in 0..Len(alert.values) /\ alert.severity \in 0..Len(alert.values)
  BY SignalIntakeAssumption DEF AlertType
<1>2. /\ Len(alert.values) \in Nat /\ DOMAIN alert.values = 1..Len(alert.values)
      /\ \A k \in 1..Len(alert.values) : alert.values[k] \in Nat
  BY <1>1, LenProperties, ElementOfSeq
<1>3. \A k \in 0..Len(alert.values) : k # 0 => k \in 1..Len(alert.values)
  BY <1>2
<1>4. \A k \in 0..Len(alert.values) : Value(k) \in Nat
  BY <1>2, <1>3 DEF Value
<1> QED BY <1>1, <1>2, <1>3, <1>4

\* Map takes the Alert over whole.
LEMMA MapStep ==
  ASSUME IntakeInv, Map
  PROVE  IntakeInv'
<1>1. alert \in Alerts /\ alert.alertname # 0
  BY DEF IntakeInv, IntakeType, Map, Known
<1>2. /\ step' = "values" /\ alert' = alert /\ n' = n /\ truncated' = truncated
      /\ values' = alert.values /\ raw' = alert.raw
      /\ name' = Value(alert.alertname) /\ severityRaw' = Value(alert.severity)
  BY DEF Map
<1>3. IntakeType'
  BY <1>1, <1>2, ValueIs DEF IntakeInv, IntakeType
<1>4. ValuesInv'
  BY <1>1, <1>2 DEF ValuesInv, Value
<1>5. RawInv'
  BY <1>2 DEF RawInv
<1> QED BY <1>3, <1>4, <1>5 DEF IntakeInv

\* A refused Alert leaves nothing of a Signal.
LEMMA RefusesStep ==
  ASSUME IntakeInv, MapRefuses
  PROVE  IntakeInv'
<1>1. step' = "dropped" /\ UNCHANGED <<alert, values, name, severityRaw, raw, target, truncated, n>>
  BY DEF MapRefuses
<1> QED BY <1>1 DEF IntakeInv, IntakeType, ValuesInv, RawInv

\* Bound cuts the values, the Name among them, and knows whether it cut one.
LEMMA ValuesStep ==
  ASSUME IntakeInv, BoundValues
  PROVE  IntakeInv'
<1>1. /\ alert \in Alerts /\ raw \in Raws /\ values = alert.values
      /\ raw = alert.raw /\ UNCHANGED <<alert, raw, severityRaw>> /\ n' = MaxRaw
      /\ step' = IF Size(raw) > MaxRaw THEN "cut" ELSE "resolve"
      /\ alert.alertname # 0 /\ name = values[alert.alertname] /\ name' = Bounded(name)
      /\ severityRaw = Value(alert.severity) /\ severityRaw \in Nat
  BY DEF IntakeInv, IntakeType, ValuesInv, RawInv, BoundValues
<1>2. MaxValue \in Nat /\ MaxRaw \in Nat /\ Size(raw) \in Nat
  BY <1>1, Sizes, SignalIntakeAssumption
<1>3. /\ values \in Seq(Nat) /\ Len(values) \in Nat /\ DOMAIN values = 1..Len(values)
      /\ \A k \in DOMAIN values : values[k] \in Nat
      /\ alert.alertname \in DOMAIN values
  BY <1>1, ValueIs, ElementOfSeq
<1>4. values' = [k \in 1..Len(values) |-> Bounded(values[k])]
  BY <1>3 DEF BoundValues
<1>5. values' \in Seq(Nat)
  <2>1. values' \in [1..Len(values) -> Nat]
    BY <1>2, <1>3, <1>4 DEF Bounded
  <2>2. Len(values) \in Nat
    BY <1>3
  <2> QED BY <2>1, <2>2, IsASeq
<1>6. \A k \in DOMAIN values' : values'[k] <= MaxValue
  BY <1>2, <1>3, <1>4 DEF Bounded
<1>7. values' # values <=> \E k \in DOMAIN values : values[k] > MaxValue
  <2>1. ASSUME NEW k \in DOMAIN values, values[k] > MaxValue PROVE values' # values
    <3>1. values'[k] = MaxValue /\ values[k] # MaxValue
      BY <1>2, <1>3, <1>4, <2>1 DEF Bounded
    <3> QED BY <3>1
  <2>2. ASSUME \A k \in DOMAIN values : ~(values[k] > MaxValue) PROVE values' = values
    <3>1. values = [k \in 1..Len(values) |-> values[k]]
      BY <1>3
    <3> QED BY <1>3, <1>4, <2>2, <3>1 DEF Bounded
  <2> QED BY <2>1, <2>2
<1>8. truncated' \in BOOLEAN /\ (truncated' <=> values' # alert'.values)
  BY <1>1, <1>7 DEF BoundValues
<1>9. name' \in Nat /\ name' = values'[alert'.alertname]
  BY <1>1, <1>2, <1>3, <1>4 DEF Bounded
<1>10. IntakeType'
  BY <1>1, <1>2, <1>5, <1>8, <1>9 DEF IntakeType
<1>11. ValuesInv'
  BY <1>1, <1>6, <1>7, <1>9 DEF ValuesInv, Value
<1>12. RawInv'
  <2>1. raw = SubSeq(alert.raw, 1, Len(raw))
    BY <1>1, Ends, SubSeqFull
  <2>2. CASE Size(raw) > MaxRaw
    BY <1>1, <1>2, <1>8, <2>2 DEF RawInv
  <2>3. CASE ~(Size(raw) > MaxRaw)
    <3>1. step' = "resolve" /\ RawLength' <= MaxRaw
      BY <1>1, <1>2, <2>3 DEF RawLength
    <3>2. raw' = SubSeq(alert'.raw, 1, Len(raw')) /\ (truncated' <=> (values' # alert'.values \/ raw' # alert'.raw))
      BY <1>1, <1>8, <2>1
    <3> QED BY <3>1, <3>2 DEF RawInv
  <2> QED BY <2>2, <2>3
<1> QED BY <1>10, <1>11, <1>12 DEF IntakeInv

\* A turn of the loop keeps what fits, or tries less.
LEMMA RawStep ==
  ASSUME IntakeInv, BoundRaw
  PROVE  IntakeInv' /\ (step' = "cut" => n' < n)
<1>0. /\ step = "cut" /\ MaxRaw \in Nat /\ MaxRaw >= 2 /\ n \in Nat /\ n <= MaxRaw
      /\ UNCHANGED <<alert, values, name, severityRaw>>
  BY SignalIntakeAssumption DEF BoundRaw, IntakeInv, IntakeType, RawInv
<1>1. PICK kept : kept = Cut(raw, n)
  OBVIOUS
<1>2. /\ kept \in Raws /\ Len(kept) \in Nat /\ Marshalled(kept) \in Nat
      /\ kept = SubSeq(alert.raw, 1, Len(kept)) /\ kept # alert.raw
      /\ n = 0 => Marshalled(kept) = 2
  BY <1>0, <1>1, KeptIs
<1>3. CASE Marshalled(kept) <= MaxRaw
  <2>1. raw' = kept /\ truncated' = TRUE /\ step' = "resolve" /\ n' = n
    BY <1>1, <1>3 DEF BoundRaw
  <2>2. RawLength' <= MaxRaw
    BY <1>0, <1>2, <1>3, <2>1 DEF RawLength
  <2>3. RawInv'
    BY <1>0, <1>2, <2>1, <2>2 DEF RawInv
  <2>4. IntakeType' /\ ValuesInv'
    BY <1>0, <1>2, <2>1 DEF IntakeInv, IntakeType, ValuesInv, Value
  <2> QED BY <2>1, <2>3, <2>4 DEF IntakeInv
<1>4. CASE ~(Marshalled(kept) <= MaxRaw)
  <2>1. n' = Shrink(Marshalled(kept)) /\ UNCHANGED <<raw, truncated, step>>
    BY <1>1, <1>4 DEF BoundRaw
  <2>2. n > 0 /\ Marshalled(kept) > MaxRaw
    BY <1>0, <1>2, <1>4
  <2>3. n' \in Nat /\ n' < n
    BY <1>0, <1>2, <2>1, <2>2, Shrinks
  <2>4. n' <= MaxRaw
    BY <1>0, <2>3
  <2>5. RawInv'
    BY <1>0, <2>1, <2>4 DEF IntakeInv, RawInv, RawLength
  <2>6. IntakeType' /\ ValuesInv'
    BY <1>0, <2>1, <2>3 DEF IntakeInv, IntakeType, ValuesInv, Value
  <2> QED BY <2>3, <2>5, <2>6 DEF IntakeInv
<1> QED BY <1>3, <1>4

\* Resolve leaves what Bound did alone.
LEMMA ResolveStep ==
  ASSUME IntakeInv, Resolve
  PROVE  IntakeInv'
<1>1. step = "resolve" /\ step' = "done" /\ UNCHANGED <<alert, values, name, severityRaw, raw, truncated, n>>
  BY DEF Resolve
<1>2. IntakeType' /\ ValuesInv'
  BY <1>1 DEF IntakeInv, IntakeType, ValuesInv, Value
<1>3. RawInv'
  BY <1>1 DEF IntakeInv, RawInv, RawLength
<1> QED BY <1>2, <1>3 DEF IntakeInv

-----------------------------------------------------------------------------
(* The theorems.                                                           *)

\* An Alert has just come in.
LEMMA IntakeInvInit == Init => IntakeInv
<1> SUFFICES ASSUME Init PROVE IntakeInv
  OBVIOUS
<1>1. <<>> \in Raws
  <2>1. <<>> \in Seq([bytes: Nat, json: Nat]) /\ Len(<<>>) = 0
    BY EmptySeq
  <2> QED BY <2>1 DEF Raws
<1>2. <<>> \in Seq(Nat)
  BY EmptySeq
<1> QED BY <1>1, <1>2 DEF Init, IntakeInv, IntakeType, ValuesInv, RawInv

\* Every step keeps the invariant.
LEMMA IntakeInvStep == IntakeInv /\ [Next]_vars => IntakeInv'
<1> SUFFICES ASSUME IntakeInv, [Next]_vars PROVE IntakeInv'
  OBVIOUS
<1>1. CASE UNCHANGED vars
  BY <1>1 DEF vars, IntakeInv, IntakeType, ValuesInv, RawInv, RawLength, Value
<1> QED BY <1>1, MapStep, RefusesStep, ValuesStep, RawStep, ResolveStep DEF Next

\* The invariants hold together through every step.
THEOREM IntakeInvariance == Spec => []IntakeInv
BY IntakeInvInit, IntakeInvStep, PTL DEF Spec

\* What Bound covers of a Signal that reaches Triage (label and annotation values,
\* Name, raw) fits, what was kept of raw is a beginning of what came, and the mark
\* says exactly whether something is missing.  SeverityRaw is not covered.
THEOREM SignalsAreBounded == Spec => []BoundedAndMarked
<1>1. IntakeInv => BoundedAndMarked
  BY DEF IntakeInv, ValuesInv, RawInv, BoundedAndMarked
<1> QED BY <1>1, IntakeInvariance, PTL

\* cut never reads past the end of the string.
THEOREM CutsInBounds == Spec => []CutInBounds
<1>1. IntakeInv => CutInBounds
  <2> SUFFICES ASSUME IntakeInv, step = "cut" PROVE n < Size(raw)
    BY DEF CutInBounds
  <2>1. Size(raw) \in Nat /\ MaxRaw \in Nat /\ n \in Nat /\ n <= MaxRaw /\ Size(raw) > MaxRaw
    BY Sizes, SignalIntakeAssumption DEF IntakeInv, IntakeType, RawInv
  <2> QED BY <2>1
<1> QED BY <1>1, IntakeInvariance, PTL

\* The loop over raw cannot go on for ever: every turn that does not end it
\* tries fewer bytes than the last, and none tries less than none.
THEOREM LoopEnds == Spec => LoopShrinks
<1>1. IntakeInv /\ [Next]_vars => [step = "cut" /\ step' = "cut" => n' < n]_vars
  <2> SUFFICES ASSUME IntakeInv, Next, step = "cut", step' = "cut" PROVE n' < n
    BY DEF vars
  <2>1. BoundRaw
    BY DEF Next, Map, MapRefuses, BoundValues, Resolve
  <2> QED BY <2>1, RawStep
<1> QED BY <1>1, IntakeInvariance, PTL DEF Spec, LoopShrinks
=============================================================================
