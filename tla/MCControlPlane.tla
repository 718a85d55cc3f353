--------------------------- MODULE MCControlPlane ---------------------------
(***************************************************************************)
(* Small instances of the Signal path for TLC.                             *)
(***************************************************************************)
EXTENDS ControlPlaneInv, TLC

CONSTANTS r1, r2, api, web, kApi, kApi2, kNone

MCRequests == {r1, r2}
MCKeys == {kApi, kApi2, kNone}
MCTargets == {api, web}
MCStarts == {1, 2}

Firing(k, at, t) == [status |-> "firing", key |-> k, startsAt |-> at, target |-> t]

\* Two Alerts about one Target, notified separately.
OneTarget ==
  {[form |-> "alerts", alerts |-> <<Firing(kApi, 1, api)>>],
   [form |-> "alerts", alerts |-> <<Firing(kApi2, 1, api)>>]}

\* An Alert about a Target, and a group of two: another Target and none.
ThreeProblems ==
  {[form |-> "alerts", alerts |-> <<Firing(kApi, 1, api)>>],
   [form |-> "alerts", alerts |-> <<Firing(kApi2, 1, web), Firing(kNone, 1, NoTarget)>>]}

\* Two refused bodies, each with an Alert of its own, so that processing it would
\* show; one that was cut, and of whose Alerts one is dropped and one resolved;
\* and a group of two problems, the second the same as before.
IntakeBodies ==
  {[form |-> "unauthorized", alerts |-> <<Firing(kApi2, 1, web)>>],
   [form |-> "oversize", alerts |-> <<Firing(kApi2, 1, web)>>],
   [form |-> "truncated",
    alerts |-> <<Unmappable, [Firing(kApi, 1, api) EXCEPT !.status = "resolved"], Firing(kApi, 1, api)>>],
   [form |-> "alerts", alerts |-> <<Firing(kNone, 1, NoTarget), Firing(kApi, 2, api)>>]}

OneRequest == {r1}

Slots == Permutations(MCRequests)
=============================================================================
