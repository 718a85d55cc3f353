----------------------------- MODULE DemoCluster -----------------------------
(***************************************************************************)
(* The cluster that faultctl writes to and the Evidence tools read: one    *)
(* Deployment of the demo with one replica, as internal/fault and          *)
(* internal/kubernetes use it.  The Deployment controller, the kubelet and *)
(* Alertmanager are external; each acts when it gets to it.  A pod         *)
(* template is the baseline's or what a scenario makes of it.              *)
(***************************************************************************)
EXTENDS Naturals

CONSTANTS Templates, Baseline,
          Works,      \* templates whose pods become Ready
          MaxUpsets   \* bound: times a Ready pod stops being so, or the Deployment
                      \* is deleted and made anew under its name

ASSUME DemoClusterAssumption ==
  /\ Baseline \in Works /\ Works \subseteq Templates
  /\ MaxUpsets \in Nat

VARIABLES
  deployment, \* [uid, template]: what was applied
  acted,      \* what the controller last saw of it
  sets,       \* the ReplicaSets, of old templates too
  pods,       \* [id, owner, ready, leaving]; leaving: has a deletionTimestamp
  made,       \* pods made so far: the last id
  firing,     \* Alertmanager has an active alert of the demo's namespace
  upsets

cluster == <<deployment, acted, sets, pods, made, firing, upsets>>

First == [uid |-> 1, template |-> Baseline]

\* The demo was deployed, and is healthy.
ClusterInit ==
  /\ deployment = First /\ acted = First /\ sets = {First}
  /\ pods = {[id |-> 1, owner |-> First, ready |-> TRUE, leaving |-> FALSE]}
  /\ made = 1 /\ firing = FALSE /\ upsets = 0

\* kubectl apply.
Applied(template) == deployment' = [deployment EXCEPT !.template = template]

Staying == {p \in pods : ~p.leaving}

\* A pod of the Deployment that has the name now.
Own(p) == p.owner.uid = deployment.uid

-----------------------------------------------------------------------------
\* The controller takes the Deployment up; a ReplicaSet of the template is used
\* again if there is one.
Observe ==
  /\ acted # deployment
  /\ acted' = deployment
  /\ sets' = sets \cup {deployment}
  /\ UNCHANGED <<deployment, pods, made, firing, upsets>>

\* A rollout starts a pod of the new template before it ends the old one.
StartPod ==
  /\ acted.uid = deployment.uid
  /\ \A p \in Staying : p.owner # acted
  /\ made' = made + 1
  /\ pods' = pods \cup {[id |-> made', owner |-> acted, ready |-> FALSE, leaving |-> FALSE]}
  /\ UNCHANGED <<deployment, acted, sets, firing, upsets>>

\* It ends once the new pod is Ready, or at once when it was not Ready itself; and
\* one whose Deployment is gone ends whenever that is noticed.
EndPod ==
  \E p \in Staying :
    /\ \/ ~Own(p)
       \/ /\ p.owner # acted
          /\ ~p.ready \/ \E q \in Staying : q.owner = acted /\ q.ready
    /\ pods' = (pods \ {p}) \cup {[p EXCEPT !.leaving = TRUE]}
    /\ UNCHANGED <<deployment, acted, sets, made, firing, upsets>>

\* A pod that leaves may be Ready to the end.
PodGone ==
  \E p \in pods \ Staying :
    /\ pods' = pods \ {p}
    /\ UNCHANGED <<deployment, acted, sets, made, firing, upsets>>

PodReady ==
  \E p \in Staying :
    /\ ~p.ready /\ p.owner.template \in Works
    /\ pods' = (pods \ {p}) \cup {[p EXCEPT !.ready = TRUE]}
    /\ UNCHANGED <<deployment, acted, sets, made, firing, upsets>>

AlertEnds ==
  /\ firing /\ \A p \in pods : p.ready /\ p.owner.template = Baseline
  /\ firing' = FALSE
  /\ UNCHANGED <<deployment, acted, sets, pods, made, upsets>>

AlertFires ==
  /\ ~firing /\ \E p \in pods : ~p.ready \/ p.owner.template # Baseline
  /\ firing' = TRUE
  /\ UNCHANGED <<deployment, acted, sets, pods, made, upsets>>

PodFails ==
  \E p \in pods :
    /\ p.ready /\ upsets < MaxUpsets
    /\ pods' = (pods \ {p}) \cup {[p EXCEPT !.ready = FALSE]}
    /\ upsets' = upsets + 1
    /\ UNCHANGED <<deployment, acted, sets, made, firing>>

\* The Deployment is deleted and applied again, and is another one.
Recreate ==
  /\ upsets < MaxUpsets
  /\ deployment' = [deployment EXCEPT !.uid = @ + 1]
  /\ upsets' = upsets + 1
  /\ UNCHANGED <<acted, sets, pods, made, firing>>

\* What the cluster gets done by itself.
Settle == Observe \/ StartPod \/ EndPod \/ PodGone \/ PodReady \/ AlertEnds

ClusterStep == Settle \/ AlertFires \/ PodFails \/ Recreate
=============================================================================
