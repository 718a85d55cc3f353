----------------------------- MODULE DemoProofs -----------------------------
(***************************************************************************)
(* Proofs about the demo, for any scenarios, any number of commands, of    *)
(* commands that fail at any step, and of pods that fail meanwhile: what   *)
(* the file "armed" says of the cluster, and which pods an Evidence answer *)
(* shows.                                                                  *)
(***************************************************************************)
EXTENDS Demo, TLAPS

Deployments == [uid: Nat \ {0}, template: Templates]
PodType == [id: Nat, owner: Deployments, ready: BOOLEAN, leaving: BOOLEAN]
CmdSteps == {"idle", "apply", "arm", "reset", "rollout", "podsReady", "alerts", "disarm"}

ClusterTypes ==
  /\ deployment \in Deployments /\ acted \in Deployments
  /\ pods \subseteq PodType
  /\ made \in Nat

\* A pod's id is its own, its ReplicaSet is there, and no Deployment that is yet to
\* be has one.
PodsInv ==
  /\ \A p, q \in pods : p.id = q.id => p = q
  /\ \A p \in pods : p.id <= made /\ p.owner \in sets /\ p.owner.uid <= deployment.uid
  /\ acted \in sets /\ acted.uid <= deployment.uid

\* What is left of a scenario in the Deployment and its pods: nothing.
NoTrace == NoTraceIn(OwnPods)

\* What a clear has reached by each of its steps.
ClearInv ==
  /\ cmd.step = "arm" => deployment.template = cmd.scenario
  /\ cmd.step = "rollout" => deployment.template = Baseline
  /\ cmd.step \in {"podsReady", "alerts", "disarm"} =>
       /\ deployment.template = Baseline /\ acted.template = Baseline
       /\ \A p \in Staying : Own(p) => p.owner.template = Baseline
  /\ cmd.step \in {"alerts", "disarm"} => NoTrace

CmdTypes ==
  /\ dir \in Dirs
  /\ cmd \in [step: CmdSteps, scenario: Templates]
  /\ armed \in Templates \cup {None} /\ torn \in BOOLEAN

ArmedInv == CmdTypes /\ ClearInv /\ ArmedTellsWhatIsThere

\* Some pods, by their ids, are of the Deployment that was read.
AreOfIt(ids) ==
  /\ \A n \in ids : n \in Nat /\ n <= made
  /\ \A p \in pods : p.id \in ids => p.owner.uid = query.uid

\* What a query has read so far.
QueryInv ==
  /\ query.step \in {"sets", "pods", "events"} =>
       query.uid \in 1..deployment.uid /\ AreOfIt(query.there)
  /\ query.step \in {"pods", "events"} =>
       /\ \A s \in query.through : s.uid = query.uid
       /\ \A p \in pods : p.id \in query.there => p.owner \in query.through
  /\ query.step = "events" =>
       AreOfIt(query.listed) /\ \A p \in pods : p.id \in query.there => p.id \in query.listed

DemoInv == ClusterTypes /\ PodsInv /\ ArmedInv /\ QueryInv

-----------------------------------------------------------------------------
\* The pods of every step but StartPod were there before, with the same owner,
\* and none comes back that leaves.
Kept(p, q) == p.id = q.id /\ p.owner = q.owner /\ (p.leaving => q.leaving)

OldPods ==
  /\ made' = made
  /\ \A q \in pods' : \E p \in pods : Kept(p, q)
  /\ \A p, q \in pods' : p.id = q.id => p = q
  /\ pods' \subseteq PodType

NewPod ==
  /\ made' = made + 1
  /\ pods' = pods \cup {[id |-> made + 1, owner |-> acted, ready |-> FALSE, leaving |-> FALSE]}

\* A change of one pod's Ready or leaving.
LEMMA OnePod ==
  ASSUME ClusterTypes, PodsInv, NEW p \in pods, NEW r \in PodType, Kept(p, r),
         pods' = (pods \ {p}) \cup {r}, made' = made
  PROVE  OldPods
<1>1. \A q \in pods' : \E o \in pods : Kept(o, q)
  BY DEF Kept
<1>2. \A q, s \in pods' : q.id = s.id => q = s
  BY DEF Kept, PodsInv
<1>3. pods' \subseteq PodType
  BY DEF ClusterTypes
<1> QED BY <1>1, <1>2, <1>3 DEF OldPods

LEMMA NoPod ==
  ASSUME ClusterTypes, PodsInv, pods' \subseteq pods, made' = made
  PROVE  OldPods
BY DEF ClusterTypes, PodsInv, OldPods, Kept

\* What the cluster does to the pods, the Deployment and the sets by itself.
LEMMA ClusterDoes ==
  ASSUME ClusterTypes, PodsInv, ClusterStep
  PROVE  /\ OldPods \/ NewPod
         /\ sets \subseteq sets' /\ acted' \in sets'
         /\ deployment' \in Deployments /\ deployment'.template = deployment.template
         /\ deployment'.uid >= deployment.uid
         /\ acted' = acted \/ acted' = deployment
         /\ NewPod => acted' = acted /\ deployment' = deployment
<1> USE DEF ClusterTypes, PodsInv
<1>0. deployment.uid >= deployment.uid
  BY DEF Deployments
<1>1. CASE Observe
  <2>1. OldPods
    BY <1>1, NoPod DEF Observe
  <2>2. ~NewPod
    BY <1>1 DEF Observe, NewPod
  <2> QED BY <1>0, <1>1, <2>1, <2>2 DEF Observe
<1>2. CASE StartPod
  <2>1. NewPod
    BY <1>2 DEF StartPod, NewPod
  <2> QED BY <1>0, <1>2, <2>1 DEF StartPod
<1>3. CASE EndPod
  <2>1. PICK p \in Staying : pods' = (pods \ {p}) \cup {[p EXCEPT !.leaving = TRUE]}
    BY <1>3 DEF EndPod
  <2>2. p \in pods /\ p \in PodType
    BY <2>1 DEF Staying
  <2>3. [p EXCEPT !.leaving = TRUE] \in PodType /\ Kept(p, [p EXCEPT !.leaving = TRUE])
    BY <2>2 DEF PodType, Kept
  <2>4. OldPods
    BY <1>3, <2>1, <2>2, <2>3, OnePod DEF EndPod
  <2> QED BY <1>0, <1>3, <2>4 DEF EndPod
<1>4. CASE PodGone
  <2>1. OldPods
    BY <1>4, NoPod DEF PodGone
  <2> QED BY <1>0, <1>4, <2>1 DEF PodGone
<1>5. CASE PodReady
  <2>1. PICK p \in Staying : pods' = (pods \ {p}) \cup {[p EXCEPT !.ready = TRUE]}
    BY <1>5 DEF PodReady
  <2>2. p \in pods /\ p \in PodType
    BY <2>1 DEF Staying
  <2>3. [p EXCEPT !.ready = TRUE] \in PodType /\ Kept(p, [p EXCEPT !.ready = TRUE])
    BY <2>2 DEF PodType, Kept
  <2>4. OldPods
    BY <1>5, <2>1, <2>2, <2>3, OnePod DEF PodReady
  <2> QED BY <1>0, <1>5, <2>4 DEF PodReady
<1>6. CASE AlertEnds \/ AlertFires
  <2>1. OldPods
    BY <1>6, NoPod DEF AlertEnds, AlertFires
  <2> QED BY <1>0, <1>6, <2>1 DEF AlertEnds, AlertFires
<1>7. CASE PodFails
  <2>1. PICK p \in pods : pods' = (pods \ {p}) \cup {[p EXCEPT !.ready = FALSE]}
    BY <1>7 DEF PodFails
  <2>2. p \in PodType
    BY <2>1
  <2>3. [p EXCEPT !.ready = FALSE] \in PodType /\ Kept(p, [p EXCEPT !.ready = FALSE])
    BY <2>2 DEF PodType, Kept
  <2>4. OldPods
    BY <1>7, <2>1, <2>2, <2>3, OnePod DEF PodFails
  <2> QED BY <1>0, <1>7, <2>4 DEF PodFails
<1>8. CASE Recreate
  <2>1. OldPods
    BY <1>8, NoPod DEF Recreate
  <2>2. /\ deployment' \in Deployments /\ deployment'.template = deployment.template
        /\ deployment'.uid >= deployment.uid
    BY <1>8 DEF Recreate, Deployments
  <2>3. ~NewPod
    BY <1>8 DEF Recreate, NewPod
  <2> QED BY <1>8, <2>1, <2>2, <2>3 DEF Recreate
<1> QED BY <1>1, <1>2, <1>3, <1>4, <1>5, <1>6, <1>7, <1>8 DEF ClusterStep, Settle

-----------------------------------------------------------------------------
(* The pods and their owners.                                              *)

\* A step that leaves the pods, and what was made of the Deployment, alone.
LEMMA PodsStand ==
  ASSUME ClusterTypes, PodsInv, deployment' \in Deployments, deployment'.uid = deployment.uid,
         UNCHANGED <<acted, sets, pods, made>>
  PROVE  ClusterTypes' /\ PodsInv'
BY DEF ClusterTypes, PodsInv

\* A step of the cluster keeps what every pod and ReplicaSet is of.
LEMMA ClusterKeeps ==
  ASSUME ClusterTypes, PodsInv, ClusterStep
  PROVE  ClusterTypes' /\ PodsInv'
<1>1. /\ OldPods \/ NewPod
      /\ sets \subseteq sets' /\ acted' \in sets'
      /\ deployment' \in Deployments /\ deployment'.uid >= deployment.uid
      /\ acted' = acted \/ acted' = deployment
      /\ NewPod => acted' = acted /\ deployment' = deployment
  BY ClusterDoes
<1>2. /\ acted' \in Deployments /\ acted'.uid <= deployment'.uid
      /\ \A p \in pods : p.owner.uid <= deployment'.uid
  <2>1. \A d \in Deployments : d.uid \in Nat
    BY DEF Deployments
  <2>2. deployment \in Deployments /\ acted \in Deployments /\ \A p \in pods : p.owner \in Deployments
    BY DEF ClusterTypes, PodType
  <2> QED BY <1>1, <2>1, <2>2 DEF PodsInv
<1>3. CASE OldPods
  <2>1. \A p \in pods' : p.id <= made' /\ p.owner \in sets' /\ p.owner.uid <= deployment'.uid
    BY <1>1, <1>2, <1>3 DEF OldPods, Kept, PodsInv
  <2> QED BY <1>1, <1>2, <1>3, <2>1 DEF OldPods, PodsInv, ClusterTypes
<1>4. CASE NewPod
  <2> DEFINE new == [id |-> made + 1, owner |-> acted, ready |-> FALSE, leaving |-> FALSE]
  <2>1. new \in PodType /\ made' \in Nat
    BY <1>4 DEF ClusterTypes, PodType, NewPod
  <2>2. pods' = pods \cup {new} /\ made' = made + 1
    BY <1>4 DEF NewPod
  <2>3. \A p \in pods : p.id \in Nat /\ p.id <= made
    BY DEF PodsInv, ClusterTypes, PodType
  <2>4. \A p \in pods' : p.id <= made' /\ p.owner \in sets' /\ p.owner.uid <= deployment'.uid
    BY <1>1, <1>2, <1>4, <2>2, <2>3 DEF PodsInv, ClusterTypes
  <2>5. \A p, q \in pods' : p.id = q.id => p = q
    <3> SUFFICES ASSUME NEW p \in pods', NEW q \in pods', p.id = q.id
                 PROVE  p = q
      OBVIOUS
    <3>1. new.id = made + 1 /\ made \in Nat
      BY DEF ClusterTypes
    <3>2. CASE p \in pods /\ q \in pods
      BY <3>2 DEF PodsInv
    <3>3. \A o \in pods : o.id # new.id
      BY <3>1, <2>3
    <3>4. CASE p = new \/ q = new
      <4> HIDE DEF new
      <4> QED BY <3>3, <3>4, <2>2
    <3> QED BY <3>2, <3>4, <2>2
  <2> QED BY <1>1, <1>2, <2>1, <2>2, <2>4, <2>5 DEF PodsInv, ClusterTypes
<1> QED BY <1>1, <1>3, <1>4

\* A pod made since some were read is none of those.
LEMMA ThereStands ==
  ASSUME ClusterTypes, PodsInv, ClusterStep, NEW T, \A n \in T : n \in Nat /\ n <= made
  PROVE  /\ \A q \in pods' : q.id \in T => \E p \in pods : p.id = q.id /\ p.owner = q.owner
         /\ \A n \in T : n \in Nat /\ n <= made'
<1>1. CASE OldPods
  BY <1>1 DEF OldPods, Kept
<1>2. CASE NewPod
  <2>1. made \in Nat /\ made' = made + 1
    BY <1>2 DEF NewPod, ClusterTypes
  <2>2. \A q \in pods' : q \in pods \/ q.id = made + 1
    BY <1>2 DEF NewPod
  <2> QED BY <2>1, <2>2
<1> QED BY <1>1, <1>2, ClusterDoes

-----------------------------------------------------------------------------
(* Evidence queries.                                                       *)

LEMMA QueryStands ==
  ASSUME ClusterTypes, PodsInv, QueryInv, ClusterStep, UNCHANGED query
  PROVE  QueryInv'
<1>1. ASSUME NEW T, \A n \in T : n \in Nat /\ n <= made
      PROVE  /\ \A q \in pods' : q.id \in T => \E p \in pods : p.id = q.id /\ p.owner = q.owner
             /\ \A n \in T : n \in Nat /\ n <= made'
  BY <1>1, ThereStands
<1>2. query.uid \in 1..deployment.uid => query.uid \in 1..deployment'.uid
  <2>1. /\ deployment \in Deployments /\ deployment' \in Deployments
        /\ deployment'.uid >= deployment.uid
    BY ClusterDoes DEF ClusterTypes
  <2> QED BY <2>1 DEF Deployments
<1>3. CASE query.step \in {"sets", "pods", "events"}
  <2>1. AreOfIt(query.there) /\ query.uid \in 1..deployment.uid
    BY <1>3 DEF QueryInv
  <2>2. /\ \A q \in pods' : q.id \in query.there => \E p \in pods : p.id = q.id /\ p.owner = q.owner
        /\ \A n \in query.there : n \in Nat /\ n <= made'
    BY <1>1, <2>1 DEF AreOfIt
  <2>3. query.step = "events" =>
          /\ \A q \in pods' : q.id \in query.listed => \E p \in pods : p.id = q.id /\ p.owner = q.owner
          /\ \A n \in query.listed : n \in Nat /\ n <= made'
    BY <1>1 DEF QueryInv, AreOfIt
  <2> QED BY <1>2, <1>3, <2>1, <2>2, <2>3 DEF QueryInv, AreOfIt
<1>4. CASE query.step \notin {"sets", "pods", "events"}
  BY <1>4 DEF QueryInv
<1> QED BY <1>3, <1>4

\* A step of a query keeps what is known of its reads.
LEMMA QueryKeeps ==
  ASSUME ClusterTypes, PodsInv, QueryInv, QueryStep
  PROVE  QueryInv'
<1>1. UNCHANGED <<deployment, pods, made, sets>> /\ deployment.uid \in Nat \ {0}
  BY DEF QueryStep, Get, ListSets, ListPods, ListEvents, ReadFails, cluster, ClusterTypes, Deployments
<1>2. \A p \in pods : p.id \in Nat /\ p.id <= made
  BY DEF PodsInv, ClusterTypes, PodType
<1>3. CASE Get
  <2>1. /\ query'.step = "sets" /\ query'.uid = deployment.uid
        /\ query'.there = {p.id : p \in {q \in pods : q.owner.uid = deployment.uid}}
    BY <1>3 DEF Get
  <2>2. \A p \in pods : p.id \in query'.there => p.owner.uid = query'.uid
    BY <2>1 DEF PodsInv
  <2>3. \A n \in query'.there : n \in Nat /\ n <= made
    BY <1>2, <2>1
  <2> QED BY <1>1, <2>1, <2>2, <2>3 DEF QueryInv, AreOfIt
<1>4. CASE ListSets
  <2>1. /\ query'.step = "pods" /\ query'.uid = query.uid /\ query'.there = query.there
        /\ query'.through = {s \in sets : s.uid = query.uid} /\ query.step = "sets"
    BY <1>4 DEF ListSets, OwnedSets
  <2>2. \A p \in pods : p.id \in query.there => p.owner.uid = query.uid /\ p.owner \in sets
    BY <2>1 DEF QueryInv, AreOfIt, PodsInv
  <2> QED BY <1>1, <2>1, <2>2 DEF QueryInv, AreOfIt
<1>5. CASE ListPods /\ query' # NoQuery
  <2> DEFINE ids == {p.id : p \in Pods}
  <2>0. query' = [query EXCEPT !.step = "events", !.listed = ids] /\ query.step = "pods"
    BY <1>5 DEF ListPods
  <2>a. ids = {p.id : p \in {q \in pods : q.owner \in query.through}}
    BY DEF Pods
  <2>1. /\ query'.step = "events" /\ query'.uid = query.uid /\ query'.there = query.there
        /\ query'.through = query.through /\ query.step = "pods"
        /\ query'.listed = ids
    <3> HIDE DEF ids
    <3> QED BY <2>0
  <2>2. /\ \A n \in query'.listed : n \in Nat /\ n <= made
        /\ \A p \in pods : p.id \in query'.listed <=> p.owner \in query.through
    BY <1>2, <2>1, <2>a DEF PodsInv
  <2> HIDE DEF ids
  <2> QED BY <1>1, <2>1, <2>2 DEF QueryInv, AreOfIt
<1>6. CASE query' = NoQuery
  BY <1>6 DEF NoQuery, QueryInv
<1> QED BY <1>3, <1>4, <1>5, <1>6 DEF QueryStep, ListEvents, ReadFails

-----------------------------------------------------------------------------
(* faultctl, and what "armed" says.                                        *)

\* No cluster step brings a trace of a scenario where there is none; so none
\* undoes what a clear has reached, or what "armed" says.
LEMMA ArmedStands ==
  ASSUME ClusterTypes, PodsInv, ArmedInv, ClusterStep, UNCHANGED ctl
  PROVE  ArmedInv'
<1> USE DEF ArmedInv
<1>1. /\ UNCHANGED <<dir, armed, cmd, torn>>
      /\ OldPods \/ NewPod
      /\ deployment'.template = deployment.template
      /\ deployment' \in Deployments /\ deployment'.uid >= deployment.uid
      /\ acted' = acted \/ acted' = deployment
      /\ NewPod => acted' = acted /\ deployment' = deployment
  BY ClusterDoes DEF ctl, files
<1>a. ASSUME NEW q \in pods', q.owner.uid = deployment'.uid
      PROVE  \/ q.owner = acted
             \/ \E p \in pods : Kept(p, q) /\ p.owner.uid = deployment.uid
  <2>1. CASE OldPods
    <3>1. PICK p \in pods : Kept(p, q)
      BY <2>1 DEF OldPods
    <3>2. p.owner.uid \in Nat /\ deployment.uid \in Nat /\ deployment'.uid \in Nat
      BY <1>1, <3>1 DEF ClusterTypes, PodType, Deployments
    <3>3. p.owner.uid <= deployment.uid /\ p.owner = q.owner
      BY <3>1 DEF PodsInv, Kept
    <3> QED BY <1>1, <1>a, <3>1, <3>2, <3>3
  <2>2. CASE NewPod
    <3>1. q \in pods \/ q.owner = acted
      BY <2>2 DEF NewPod
    <3> QED BY <1>1, <1>a, <2>2, <3>1 DEF Kept
  <2> QED BY <1>1, <2>1, <2>2
<1>2. NoTrace => NoTrace'
  <2> SUFFICES ASSUME NoTrace PROVE NoTrace'
    OBVIOUS
  <2>1. ASSUME NEW q \in pods', q.owner.uid = deployment'.uid PROVE q.owner.template = Baseline
    BY <1>a, <2>1 DEF NoTrace, NoTraceIn, OwnPods, Own, Kept
  <2> QED BY <1>1, <2>1 DEF NoTrace, NoTraceIn, OwnPods, Own
<1>3. CmdTypes'
  BY <1>1 DEF CmdTypes
<1>4. ASSUME deployment.template = Baseline, acted.template = Baseline,
             \A p \in Staying : Own(p) => p.owner.template = Baseline
      PROVE  /\ deployment'.template = Baseline /\ acted'.template = Baseline
             /\ \A p \in Staying' : Own(p)' => p.owner.template = Baseline
  <2>1. ASSUME NEW q \in pods', ~q.leaving, q.owner.uid = deployment'.uid
        PROVE  q.owner.template = Baseline
    BY <1>4, <1>a, <2>1 DEF Kept, Staying, Own
  <2> QED BY <1>1, <1>4, <2>1 DEF Staying, Own
<1>5. ClearInv'
  BY <1>1, <1>2, <1>4 DEF ClearInv
<1>6. ArmedTellsWhatIsThere'
  BY <1>1, <1>2 DEF ArmedTellsWhatIsThere, NoTrace
<1> QED BY <1>3, <1>5, <1>6

LEMMA ScenarioNames == \A d \in Dirs : \A s \in d : s.name \in Templates
BY FaultCtlAssumption DEF ScenarioType

\* The steps of faultctl apply a template at most.
LEMMA CtlApplies ==
  ASSUME ClusterTypes, ArmedInv, CtlStep
  PROVE  /\ deployment' \in Deployments /\ deployment'.uid = deployment.uid
         /\ UNCHANGED <<acted, sets, pods, made>>
<1> USE DEF ArmedInv
<1>1. ASSUME NEW t \in Templates, Applied(t)
      PROVE  deployment' \in Deployments /\ deployment'.uid = deployment.uid
  BY <1>1 DEF Applied, ClusterTypes, Deployments
<1>2. Baseline \in Templates /\ cmd.scenario \in Templates
  BY DemoClusterAssumption DEF CmdTypes
<1>3. CASE ApplyOverlay \/ ApplyBaseline \/ CutApplied
  BY <1>1, <1>2, <1>3 DEF ApplyOverlay, ApplyBaseline, CutApplied, controllers
<1>4. CASE Edit \/ Inject \/ Clear \/ Arm \/ Waited \/ Disarm \/ TimesOut \/ CutShort
  BY <1>4 DEF ClusterTypes, Edit, Inject, Clear, Arm, Waited, Disarm, TimesOut, CutShort, cluster
<1> QED BY <1>3, <1>4 DEF CtlStep, CtlWork

LEMMA CtlTypes ==
  ASSUME CmdTypes, CtlStep
  PROVE  CmdTypes'
<1> USE DEF CmdTypes
<1>1. Baseline \in Templates /\ None \notin Templates
  BY DemoClusterAssumption, FaultCtlAssumption
<1>2. CASE Edit
  BY <1>2 DEF Edit
<1>3. CASE Inject
  BY <1>3, ScenarioNames DEF Inject, CmdSteps, files
<1>4. CASE Waited
  <2>1. After(cmd.step) \in CmdSteps
    BY <1>4 DEF Waited, Waits, After, CmdSteps
  <2> QED BY <1>4, <2>1 DEF Waited, Goto, files
<1>5. CASE ApplyOverlay \/ ApplyBaseline \/ Clear
  BY <1>5 DEF ApplyOverlay, ApplyBaseline, Clear, Goto, CmdSteps, files
<1>6. CASE Arm \/ Disarm \/ TimesOut
  <2>1. cmd' = Idle /\ Idle \in [step: CmdSteps, scenario: Templates]
    BY <1>1, <1>6 DEF Arm, Disarm, TimesOut, Idle, CmdSteps
  <2>2. armed' \in {armed, cmd.scenario, None} /\ torn' \in {torn, FALSE} /\ dir' = dir
    BY <1>6, Zenon DEF Arm, Disarm, TimesOut, files
  <2>3. cmd.scenario \in Templates
    OBVIOUS
  <2> QED BY <2>1, <2>2, <2>3
<1>7. CASE CutShort
  BY <1>1, <1>7, Zenon DEF CutShort, Idle, CmdSteps
<1>8. CASE CutApplied
  BY <1>1, <1>8, Zenon DEF CutApplied, Idle, CmdSteps, files
<1> QED BY <1>2, <1>3, <1>4, <1>5, <1>6, <1>7, <1>8 DEF CtlStep, CtlWork

\* What the file armed tells is kept by every step of a command.
LEMMA ArmedKeeps ==
  ASSUME ClusterTypes, ArmedInv, CtlStep
  PROVE  ArmedInv'
<1> USE DEF ArmedInv
<1>1. CmdTypes'
  BY CtlTypes
<1>2. /\ Baseline \in Templates /\ None \notin Templates
      /\ cmd.scenario \in Templates /\ cmd.step \in CmdSteps /\ deployment \in Deployments
  BY DemoClusterAssumption, FaultCtlAssumption DEF CmdTypes, ClusterTypes
<1>3. ASSUME NEW t, Applied(t) PROVE deployment'.template = t
  BY <1>2, <1>3 DEF Applied, Deployments
<1>4. ASSUME cmd'.step \in {"idle", "apply", "reset"} PROVE ClearInv'
  BY <1>4 DEF ClearInv
<1>a. deployment'.uid = deployment.uid
  BY CtlApplies
<1>5. ASSUME UNCHANGED <<acted, pods>> PROVE NoTrace /\ deployment'.template = Baseline => NoTrace'
  BY <1>a, <1>5 DEF NoTrace, NoTraceIn, OwnPods, Own
<1>6. CASE Edit
  BY <1>1, <1>6 DEF Edit, cluster, ClearInv, ArmedTellsWhatIsThere, NoTrace, NoTraceIn, OwnPods, Own,
              Staying
<1>7. CASE Inject \/ Clear
  <2>1. /\ UNCHANGED <<deployment, acted, pods, armed, torn>>
        /\ cmd.step = "idle" /\ cmd'.step \in {"apply", "reset"}
    BY <1>7, <1>2 DEF Inject, Clear, cluster, files, Idle, Goto, CmdTypes
  <2>2. ArmedTellsWhatIsThere'
    BY <2>1 DEF ArmedTellsWhatIsThere, NoTrace, NoTraceIn, OwnPods, Own
  <2> QED BY <1>1, <1>4, <2>1, <2>2
<1>8. CASE ApplyOverlay
  <2>1. deployment'.template = cmd.scenario /\ cmd'.step = "arm" /\ cmd'.scenario = cmd.scenario
    BY <1>3, <1>8 DEF ApplyOverlay, Goto, CmdTypes
  <2> QED BY <1>1, <2>1 DEF ClearInv, ArmedTellsWhatIsThere, NoTrace
<1>9. CASE Arm
  <2>1. /\ armed' = cmd.scenario /\ deployment'.template = cmd.scenario /\ cmd'.step = "idle"
    BY <1>9 DEF Arm, Idle, cluster, ClearInv
  <2>2. ArmedTellsWhatIsThere'
    BY <1>2, <2>1 DEF ArmedTellsWhatIsThere, NoTrace
  <2> QED BY <1>1, <1>4, <2>1, <2>2
<1>10. CASE ApplyBaseline
  <2>1. /\ deployment'.template = Baseline /\ cmd'.step = "rollout" /\ cmd.step = "reset"
        /\ UNCHANGED <<acted, pods, armed, torn>>
    BY <1>3, <1>10 DEF ApplyBaseline, Goto, CmdTypes, controllers, files
  <2>2. ClearInv'
    BY <2>1 DEF ClearInv
  <2>3. ArmedTellsWhatIsThere'
    BY <1>5, <2>1 DEF ArmedTellsWhatIsThere, NoTrace
  <2> QED BY <1>1, <2>2, <2>3
<1>11. CASE Waited
  <2>1. /\ UNCHANGED <<deployment, acted, pods, armed, torn>>
        /\ cmd.step \in Waits /\ Over(cmd.step) /\ cmd'.step = After(cmd.step)
    BY <1>11 DEF Waited, Goto, CmdTypes, cluster, files
  <2>2. ArmedTellsWhatIsThere'
    BY <2>1 DEF ArmedTellsWhatIsThere, Waits, After, NoTrace, NoTraceIn, OwnPods, Own
  <2>3. ASSUME cmd.step = "rollout" PROVE ClearInv'
    BY <2>1, <2>3 DEF ClearInv, Over, After, RolledOut, Staying, Own
  <2>4. ASSUME cmd.step = "podsReady" PROVE ClearInv'
    BY <2>1, <2>4 DEF ClearInv, Over, After, PodsReady, Staying, NoTrace, NoTraceIn, OwnPods, Own
  <2>5. ASSUME cmd.step = "alerts" PROVE ClearInv'
    BY <2>1, <2>5 DEF ClearInv, After, Staying, NoTrace, NoTraceIn, OwnPods, Own
  <2> QED BY <1>1, <2>1, <2>2, <2>3, <2>4, <2>5 DEF Waits
<1>12. CASE Disarm
  <2>1. cmd'.step = "idle" /\ NoTrace'
    BY <1>12 DEF Disarm, Idle, ClearInv, cluster, NoTrace, NoTraceIn, OwnPods, Own
  <2>2. ArmedTellsWhatIsThere'
    BY <1>12, <2>1 DEF Disarm, ArmedTellsWhatIsThere, NoTrace
  <2> QED BY <1>1, <1>4, <2>1, <2>2
<1>13. CASE TimesOut
  <2>1. /\ UNCHANGED <<deployment, acted, pods, armed, torn>>
        /\ cmd.step \in Waits /\ cmd'.step = "idle"
    BY <1>13 DEF TimesOut, Idle, cluster, files
  <2>2. ArmedTellsWhatIsThere'
    BY <2>1 DEF ArmedTellsWhatIsThere, Waits, NoTrace, NoTraceIn, OwnPods, Own
  <2> QED BY <1>1, <1>4, <2>1, <2>2
<1>14. CASE CutShort
  <2>1. /\ UNCHANGED <<deployment, acted, pods>> /\ cmd'.step = "idle"
        /\ torn' = (torn \/ cmd.step = "arm")
        /\ armed' = armed \/ cmd.step = "arm"
    BY <1>14 DEF CutShort, Idle, cluster
  <2>2. ArmedTellsWhatIsThere'
    BY <2>1 DEF ArmedTellsWhatIsThere, NoTrace, NoTraceIn, OwnPods, Own, CmdTypes
  <2> QED BY <1>1, <1>4, <2>1, <2>2
<1>15. CASE CutApplied
  <2>1. UNCHANGED <<acted, pods, armed>> /\ cmd'.step = "idle"
    BY <1>15 DEF CutApplied, Idle, controllers, files
  <2>2. \/ torn' = TRUE
        \/ cmd.step = "reset" /\ deployment'.template = Baseline /\ torn' = torn
    BY <1>3, <1>15 DEF CutApplied
  <2>3. ArmedTellsWhatIsThere'
    BY <1>5, <2>1, <2>2 DEF ArmedTellsWhatIsThere, NoTrace
  <2> QED BY <1>1, <1>4, <2>1, <2>3
<1> QED BY <1>6, <1>7, <1>8, <1>9, <1>10, <1>11, <1>12, <1>13, <1>14, <1>15 DEF CtlStep, CtlWork

-----------------------------------------------------------------------------
\* The demo as deployed.
LEMMA DemoStarts == Init => DemoInv
<1> SUFFICES ASSUME Init PROVE DemoInv
  OBVIOUS
<1> USE DEF Init, ClusterInit, CtlInit, QueryInit
<1>1. Baseline \in Templates
  BY DemoClusterAssumption
<1>2. First \in Deployments /\ First.template = Baseline
  BY <1>1 DEF First, Deployments
<1>3. ClusterTypes /\ PodsInv
  BY <1>2 DEF ClusterTypes, PodsInv, PodType, First
<1>4. CmdTypes
  BY <1>1 DEF CmdTypes, Idle, CmdSteps
<1>5. ClearInv
  BY DEF ClearInv, Idle
<1>6. ArmedTellsWhatIsThere
  BY <1>2 DEF ArmedTellsWhatIsThere, NoTrace, NoTraceIn, OwnPods, Own
<1>7. QueryInv
  BY DEF QueryInv, NoQuery
<1> QED BY <1>3, <1>4, <1>5, <1>6, <1>7 DEF DemoInv, ArmedInv

\* Commands, queries and the cluster, in whatever order, keep all of it.
LEMMA DemoStep == DemoInv /\ [Next]_vars => DemoInv'
<1> SUFFICES ASSUME DemoInv, [Next]_vars PROVE DemoInv'
  OBVIOUS
<1> USE DEF DemoInv
<1>1. CASE CtlStep /\ UNCHANGED query
  <2>1. /\ ArmedInv' /\ deployment' \in Deployments /\ deployment'.uid = deployment.uid
        /\ UNCHANGED <<acted, sets, pods, made>>
    BY <1>1, ArmedKeeps, CtlApplies
  <2>2. ClusterTypes' /\ PodsInv'
    BY <2>1, PodsStand
  <2>3. QueryInv'
    BY <1>1, <2>1 DEF QueryInv, AreOfIt
  <2> QED BY <2>1, <2>2, <2>3
<1>2. CASE QueryStep /\ UNCHANGED ctl
  <2>1. UNCHANGED cluster
    BY <1>2 DEF QueryStep, Get, ListSets, ListPods, ListEvents, ReadFails
  <2>2. ClusterTypes' /\ PodsInv'
    BY <2>1, PodsStand DEF cluster, ClusterTypes
  <2>3. ArmedInv'
    BY <1>2, <2>1 DEF ArmedInv, CmdTypes, ClearInv, ArmedTellsWhatIsThere, NoTrace, NoTraceIn,
                      OwnPods, Own, Staying, ctl, files, cluster
  <2> QED BY <1>2, <2>2, <2>3, QueryKeeps
<1>3. CASE ClusterStep /\ UNCHANGED <<ctl, query>>
  BY <1>3, ClusterKeeps, QueryStands, ArmedStands
<1>4. CASE UNCHANGED vars
  <2>1. UNCHANGED <<cluster, ctl, query>>
    BY <1>4 DEF vars
  <2>2. ClusterTypes' /\ PodsInv'
    BY <2>1, PodsStand DEF cluster, ClusterTypes
  <2>3. ArmedInv' /\ QueryInv'
    BY <2>1 DEF ArmedInv, CmdTypes, ClearInv, ArmedTellsWhatIsThere, NoTrace, NoTraceIn, OwnPods, Own,
                Staying, QueryInv, AreOfIt, ctl, files, cluster
  <2> QED BY <2>2, <2>3
<1> QED BY <1>1, <1>2, <1>3, <1>4 DEF Next

\* What an applied template leaves in ReplicaSets and pods, what each step of clear
\* has seen of the Deployment's own, and what a query has read: inductive together.
THEOREM DemoInductive == Spec => []DemoInv
BY DemoStarts, DemoStep, PTL DEF Spec

\* "Armed returns the scenario last injected and not yet cleared": with nothing
\* armed the Deployment is the baseline, and none of its pods, ready or leaving, is
\* left of any scenario, though clear looked at pods only once, and before it waited
\* for the alerts; unless an inject was cut short before it wrote the file.
THEOREM ArmedTells == Spec => []ArmedTellsWhatIsThere
<1>1. DemoInv => ArmedTellsWhatIsThere
  BY DEF DemoInv, ArmedInv
<1> QED BY <1>1, DemoInductive, PTL

\* The pods that workload_state or events answer with are those of the Deployment
\* that was read, all that stood still, whatever the cluster does between the reads.
THEOREM AnswersHaveTheirPods == Spec => []AnswerHasItsPods
<1>1. ASSUME DemoInv PROVE AnswerHasItsPods
  <2> USE <1>1 DEF DemoInv
  <2>1. CASE query.step = "pods"
    BY <2>1 DEF QueryInv, Pods, AnswerHasItsPods
  <2>2. CASE query.step = "events"
    <3>1. /\ EventsAbout.deployments = 1..deployment.uid /\ EventsAbout.pods = query.listed
          /\ EventsAbout.sets = {s \in sets : \E o \in query.through : o.template = s.template}
      BY DEF EventsAbout
    <3>2. \A p \in pods : p.id \in query.there =>
            p.owner \in {s \in sets : \E o \in query.through : o.template = s.template}
      BY <2>2 DEF QueryInv, PodsInv
    <3> QED BY <2>2, <3>1, <3>2 DEF QueryInv, AreOfIt, AnswerHasItsPods
  <2> QED BY <2>1, <2>2 DEF AnswerHasItsPods
<1> QED BY <1>1, DemoInductive, PTL
=============================================================================
