--------------------------- MODULE MCInvestigation ---------------------------
(***************************************************************************)
(* Small instances of the investigations for TLC.  Call ids are drawn in   *)
(* order, so a model that cites 1 or 2 cites its own query, that of the    *)
(* other Incident, or one that was never made.                             *)
(***************************************************************************)
EXTENDS Investigation

CONSTANTS a, b

MCClaimIds == {a, b}
MCRefs == 1..2
MCStatements == {"s", "t"}

Says(id, kind, cites) == [id |-> id, statement |-> "s", kind |-> kind, cites |-> cites]
Submission(summary, claims, level) == [summary |-> summary, claims |-> claims, level |-> level]

CitesOne == Submission(<<Says(a, "observed", <<1>>)>>, <<Says(b, "inferred", <<a>>)>>, "high")
CitesTwo == Submission(<<Says(a, "observed", <<2>>)>>, <<Says(a, "observed", <<2>>)>>, "medium")
CitesNothing == Submission(<<Says(a, "observed", <<>>)>>, <<>>, "high")
Circular == Submission(<<Says(a, "inferred", <<b>>), Says(b, "inferred", <<a>>)>>, <<>>, "high")
TwoOfOneId == Submission(<<Says(a, "observed", <<1>>)>>, <<Says(a, "observed", <<2>>)>>, "high")
Unschooled == Submission(<<Says(a, "other", <<b>>)>>, <<>>, "other")
Empty == Submission(<<>>, <<>>, "high")

MCSubmissions == {CitesOne, CitesTwo, CitesNothing, Circular, TwoOfOneId, Unschooled, Empty}

Call(tool) == [tool |-> tool, rca |-> NoRCA]
SubmitCall(r) == [tool |-> "submit_rca", rca |-> r]

\* One query, none, calls that come to nothing, a submission, and one that is
\* replaced while a query runs between.
Anything ==
  {[calls |-> <<>>, tokens |-> 1],
   [calls |-> <<Call("evidence")>>, tokens |-> 1],
   [calls |-> <<Call("unknown"), Call("malformed")>>, tokens |-> 2],
   [calls |-> <<SubmitCall(Empty), Call("evidence"), SubmitCall(CitesOne)>>, tokens |-> 1]}
  \cup {[calls |-> <<SubmitCall(s)>>, tokens |-> 1] : s \in MCSubmissions}

\* The second Incident's model only asks.
Asks == {[calls |-> <<Call("evidence")>>, tokens |-> 1]}

MCAnswers == [i \in Incidents |-> IF i = 1 THEN Anything ELSE Asks]
=============================================================================
