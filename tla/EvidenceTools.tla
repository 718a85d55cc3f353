---------------------------- MODULE EvidenceTools ----------------------------
(***************************************************************************)
(* internal/kubernetes/tools.go: the Evidence tools workload_state and     *)
(* events, for a Target that is a Deployment.  An answer is put together   *)
(* from several reads of a cluster that does not stand still meanwhile:    *)
(* the Deployment, the ReplicaSets it owns, their pods, the events.  Those *)
(* are matched by owner references, but events by kind and name.  The      *)
(* tools only read.  When events happened, and so the window of a query,   *)
(* is left out.                                                            *)
(***************************************************************************)
EXTENDS DemoCluster

\* The query at hand: its next read, and what it has read.  there is for the
\* property: the pods the Deployment had when it was read.
VARIABLE query

NoQuery == [step |-> "get", uid |-> 0, through |-> {}, there |-> {}, listed |-> {}]

QueryInit == query = NoQuery

Get ==
  /\ query.step = "get"
  /\ query' = [NoQuery EXCEPT !.step = "sets", !.uid = deployment.uid,
                 !.there = {p.id : p \in {q \in pods : q.owner.uid = deployment.uid}}]
  /\ UNCHANGED cluster

\* Mutant of OwnedSets: only that of the template of today.
OwnedSetsNewest == {s \in sets : s.uid = query.uid /\ s.template = deployment.template}

\* The ReplicaSets with an owner reference to the Deployment that was read.
OwnedSets == {s \in sets : s.uid = query.uid}

ListSets ==
  /\ query.step = "sets"
  /\ query' = [query EXCEPT !.step = "pods", !.through = OwnedSets]
  /\ UNCHANGED cluster

\* The pods with an owner reference to one of those.
Pods == {p \in pods : p.owner \in query.through}

\* workload_state is answered with their states; events goes on.
ListPods ==
  /\ query.step = "pods"
  /\ query' \in {NoQuery, [query EXCEPT !.step = "events", !.listed = {p.id : p \in Pods}]}
  /\ UNCHANGED cluster

\* The events of the namespace outlive what they are about, and are shown by the
\* kinds and names of what was read.  A Deployment has the name of those before it,
\* a ReplicaSet that of its template, a pod one of its own.
EventsAbout ==
  [deployments |-> 1..deployment.uid,
   sets |-> {s \in sets : \E o \in query.through : o.template = s.template},
   pods |-> query.listed]

\* The answer is EventsAbout.
ListEvents ==
  /\ query.step = "events"
  /\ query' = NoQuery
  /\ UNCHANGED cluster

\* Any read may fail, and then the answer is its error.
ReadFails ==
  /\ query # NoQuery
  /\ query' = NoQuery
  /\ UNCHANGED cluster

QueryStep == Get \/ ListSets \/ ListPods \/ ListEvents \/ ReadFails
-----------------------------------------------------------------------------
(* Correctness.                                                            *)

\* Though its parts are of different moments, an answer shows the pods of one
\* workload: a pod it shows, or whose events it shows, is of the Deployment that
\* was read, not of another one that had its name before or got it meanwhile.  And
\* it is complete for what stood still: a pod of that Deployment that was there
\* when it was read, and still is, is shown, of whichever rollout it is, with its
\* own events, its ReplicaSet's and its Deployment's.  It is not said that events
\* of Deployments and ReplicaSets are of one workload: those of deleted ones with
\* the same names are shown too.
AnswerHasItsPods ==
  /\ query.step = "pods" =>
       /\ \A p \in Pods : p.owner.uid = query.uid
       /\ \A p \in pods : p.id \in query.there => p \in Pods
  /\ query.step = "events" =>
       \A p \in pods :
         /\ p.id \in EventsAbout.pods => p.owner.uid = query.uid
         /\ p.id \in query.there =>
              /\ p.id \in EventsAbout.pods /\ p.owner \in EventsAbout.sets
              /\ query.uid \in EventsAbout.deployments
=============================================================================
