-------------------------------- MODULE MCDemo --------------------------------
(***************************************************************************)
(* Small instances of the demo for TLC: a scenario whose pods never become *)
(* Ready, one whose pods do, and a directory with one that is not valid.   *)
(***************************************************************************)
EXTENDS Demo

CONSTANTS base, image, oom

MCTemplates == {base, image, oom}
MCWorks == {base, oom}

Scenario(name) == [name |-> name, complete |-> TRUE, contradictory |-> FALSE, leaks |-> FALSE]

MCDirs ==
  {{Scenario(image), Scenario(oom)},
   {Scenario(oom), [Scenario(image) EXCEPT !.leaks = TRUE]}}
=============================================================================
