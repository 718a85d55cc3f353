--------------------------------- MODULE Demo ---------------------------------
(***************************************************************************)
(* The demo: faultctl changes the cluster while a Sensor's tools read it.  *)
(***************************************************************************)
EXTENDS FaultCtl, EvidenceTools

vars == <<cluster, ctl, query>>

Init == ClusterInit /\ CtlInit /\ QueryInit

Next ==
  \/ CtlStep /\ UNCHANGED query
  \/ QueryStep /\ UNCHANGED ctl
  \/ ClusterStep /\ UNCHANGED <<ctl, query>>

Spec == Init /\ [][Next]_vars

\* The controllers and the kubelet go on as long as anything stays to be done; a
\* command that runs goes on; and the operator runs clear again and again.
FairSpec ==
  /\ Spec
  /\ WF_vars(Settle /\ UNCHANGED <<ctl, query>>)
  /\ WF_vars(CtlWork /\ UNCHANGED query) /\ WF_vars(Clear /\ UNCHANGED query)
=============================================================================
