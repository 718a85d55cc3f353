------------------------------- MODULE FaultCtl -------------------------------
(***************************************************************************)
(* internal/fault and cmd/faultctl: scenarios are injected into the demo   *)
(* and cleared again.  A command is a process of its own; it may fail, be  *)
(* interrupted or run out of time between any two steps, and the next one  *)
(* finds only the cluster and the file "armed".  An operator runs one      *)
(* command at a time, and edits the scenarios.  list, status and leakcheck *)
(* change nothing and are left out.  That the baseline cannot be read      *)
(* (checkBaseline) is one of the ways a command is cut short.              *)
(***************************************************************************)
EXTENDS DemoCluster

CONSTANTS Dirs,        \* what eval/scenarios may hold: sets of scenarios
          None,        \* nothing is armed
          MaxInjects,  \* bounds: commands inject; commands that fail, and edits of
          MaxMishaps   \* the scenarios

\* A scenario as far as it is looked at.  name is also the template its patch
\* makes of the baseline; complete: what is required is there; contradictory: an
\* action is both acceptable and unsafe; leaks: Leaks finds something in the
\* change cause or the patch.
ScenarioType == [name: Templates \ {Baseline}, complete: BOOLEAN, contradictory: BOOLEAN,
                 leaks: BOOLEAN]

ASSUME FaultCtlAssumption ==
  /\ Dirs \subseteq SUBSET ScenarioType
  /\ None \notin Templates
  /\ {MaxInjects, MaxMishaps} \subseteq Nat

VARIABLES
  dir,    \* the scenarios on disk
  armed,  \* the file "armed"
  cmd,    \* the command that runs: its next step, and its scenario
  injects, mishaps,
  torn    \* for the properties: the last inject ended between apply and "armed"

files == <<dir, armed>>
counts == <<injects, mishaps>>
ctl == <<files, cmd, counts, torn>>
controllers == <<acted, sets, pods, made, firing, upsets>>

Idle == [step |-> "idle", scenario |-> Baseline]

CtlInit ==
  /\ dir \in Dirs
  /\ armed = None /\ cmd = Idle
  /\ injects = 0 /\ mishaps = 0
  /\ torn = FALSE

\* The operator edits the scenarios, whatever runs.
Edit ==
  /\ mishaps < MaxMishaps /\ mishaps' = mishaps + 1
  /\ dir' \in Dirs \ {dir}
  /\ UNCHANGED <<cluster, armed, cmd, injects, torn>>

-----------------------------------------------------------------------------
\* ParseScenario.
Valid(s) == s.complete /\ ~s.contradictory /\ ~s.leaks

\* LoadScenarios: one file that is not valid, and no command runs.
Loaded == \A s \in dir : Valid(s)

Goto(step) == cmd' = [cmd EXCEPT !.step = step]

-----------------------------------------------------------------------------
(* Demo.Inject.                                                            *)

Inject ==
  /\ cmd = Idle /\ Loaded
  /\ injects < MaxInjects /\ injects' = injects + 1
  /\ \E s \in dir : cmd' = [step |-> "apply", scenario |-> s.name]
  /\ UNCHANGED <<cluster, files, mishaps, torn>>

\* The overlay is the whole baseline with one patch: what an earlier scenario
\* changed is as in the baseline again.
ApplyOverlay ==
  /\ cmd.step = "apply"
  /\ Applied(cmd.scenario)
  /\ Goto("arm")
  /\ UNCHANGED <<controllers, files, counts, torn>>

Arm ==
  /\ cmd.step = "arm"
  /\ armed' = cmd.scenario /\ torn' = FALSE
  /\ cmd' = Idle
  /\ UNCHANGED <<cluster, dir, counts>>

-----------------------------------------------------------------------------
(* Demo.Clear.                                                             *)

\* Mutant of Clear: nothing is armed, so there is nothing to do.
ClearArmed ==
  /\ cmd = Idle /\ Loaded /\ armed # None
  /\ Goto("reset")
  /\ UNCHANGED <<cluster, files, counts, torn>>

Clear ==
  /\ cmd = Idle /\ Loaded
  /\ Goto("reset")
  /\ UNCHANGED <<cluster, files, counts, torn>>

ApplyBaseline ==
  /\ cmd.step = "reset"
  /\ Applied(Baseline)
  /\ Goto("rollout")
  /\ UNCHANGED <<controllers, files, counts, torn>>

\* What kubectl rollout status waits for.  It goes by the Deployment's own status:
\* pods of one that had the name before are none of its.
RolledOut ==
  /\ acted = deployment
  /\ \A p \in Staying : Own(p) => p.owner = acted
  /\ \E p \in Staying : p.owner = acted /\ p.ready

\* Mutant of PodsReady: a pod with a deletionTimestamp counts as Ready.
PodsReadyLeaving == \A p \in pods : p.ready

\* unreadyPods returns none.
PodsReady == \A p \in pods : p.ready /\ ~p.leaving

\* FiringAlerts returns none of the demo's namespace.
NoAlerts == ~firing

\* The three waits of Clear, and where each goes on.
Waits == {"rollout", "podsReady", "alerts"}

Over(step) ==
  CASE step = "rollout" -> RolledOut
    [] step = "podsReady" -> PodsReady
    [] step = "alerts" -> NoAlerts

After(step) ==
  CASE step = "rollout" -> "podsReady"
    [] step = "podsReady" -> "alerts"
    [] step = "alerts" -> "disarm"

Waited ==
  /\ cmd.step \in Waits /\ Over(cmd.step)
  /\ Goto(After(cmd.step))
  /\ UNCHANGED <<cluster, files, counts, torn>>

Disarm ==
  /\ cmd.step = "disarm"
  /\ armed' = None /\ torn' = FALSE
  /\ cmd' = Idle
  /\ UNCHANGED <<cluster, dir, counts>>

-----------------------------------------------------------------------------
(* Commands that end early.                                                *)

\* The time is over while a wait is not.
TimesOut ==
  /\ cmd.step \in Waits /\ ~Over(cmd.step)
  /\ cmd' = Idle
  /\ UNCHANGED <<cluster, files, counts, torn>>

\* A call fails or the command is interrupted at any step but an apply's.  A write
\* of "armed" leaves the file as it was, or empty.
CutShort ==
  /\ cmd # Idle
  /\ mishaps < MaxMishaps /\ mishaps' = mishaps + 1
  /\ \/ armed' = armed
     \/ cmd.step = "arm" /\ armed' = None
  /\ torn' = (torn \/ cmd.step = "arm")
  /\ cmd' = Idle
  /\ UNCHANGED <<cluster, dir, injects>>

\* An apply fails, or is interrupted, though it worked.
CutApplied ==
  /\ mishaps < MaxMishaps /\ mishaps' = mishaps + 1
  /\ \/ /\ cmd.step = "apply" /\ torn' = TRUE
        /\ Applied(cmd.scenario)
     \/ /\ cmd.step = "reset" /\ torn' = torn
        /\ Applied(Baseline)
  /\ cmd' = Idle
  /\ UNCHANGED <<controllers, files, injects>>

-----------------------------------------------------------------------------
CtlWork == ApplyOverlay \/ Arm \/ ApplyBaseline \/ Waited \/ Disarm \/ TimesOut
CtlStep == Edit \/ Inject \/ Clear \/ CtlWork \/ CutShort \/ CutApplied
-----------------------------------------------------------------------------
(* Correctness.                                                            *)

\* No trace of a scenario in some of the pods, nor in what makes new ones.
NoTraceIn(these) ==
  /\ deployment.template = Baseline /\ acted.template = Baseline
  /\ \A p \in these : p.owner.template = Baseline

OwnPods == {p \in pods : Own(p)}

\* "Armed returns the scenario last injected and not yet cleared" (faultctl.go:252),
\* unless an inject ended before it could say so: when nothing is armed there is
\* nothing left of any scenario in the Deployment and its pods, one on its way out
\* included; and when one is, the Deployment is that scenario's, or a clear was
\* begun.  It is not said of pods of a Deployment that was deleted: none of
\* clear's waits tells a Ready one from the new Deployment's.
ArmedTellsWhatIsThere ==
  cmd.step # "arm" /\ ~torn =>
    IF armed = None THEN NoTraceIn(OwnPods) ELSE deployment.template \in {armed, Baseline}

\* "It is safe to run again" (faultctl.go:97): whatever was cut short, timed out or
\* torn, clear run often enough brings the baseline back, in every pod there is, and
\* disarms; unless the scenarios on disk stop it from running.
SafeToRunAgain == <>[]Loaded => <>[](NoTraceIn(pods) /\ armed = None)
=============================================================================
