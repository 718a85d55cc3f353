------------------------------- MODULE MCLink -------------------------------
(***************************************************************************)
(* Small instances of the link for TLC: two Queries of one Location, whose *)
(* queue has room for one Call, and a second Location that meddles.        *)
(***************************************************************************)
EXTENDS Link, TLC

CONSTANTS c1, c2, here, there, p1, p2

MCCalls == {c1, c2}
MCAt == (c1 :> here) @@ (c2 :> here)
MCLocations == {here, there}
MCPolls == {p1, p2}
=============================================================================
