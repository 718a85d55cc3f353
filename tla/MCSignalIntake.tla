--------------------------- MODULE MCSignalIntake ---------------------------
(***************************************************************************)
(* Small instances of what intake makes of an Alert, for TLC: every way to *)
(* be refused, every set of two workload labels, and every raw of up to    *)
(* six runes that are plain, wide, or six times as long in JSON.           *)
(***************************************************************************)
EXTENDS SignalIntake, SequencesExt

Plain == [size |-> 1, escaped |-> 1]
Wide == [size |-> 3, escaped |-> 3]
Escaped == [size |-> 1, escaped |-> 6]
Runes == {Plain, Wide, Escaped}

\* Where the runes of a raw end.
Ends(runes) ==
  FoldLeft(LAMBDA ends, r : Append(ends, [bytes |-> Size(ends) + r.size,
                                          json |-> End(ends, Len(ends)).json + r.escaped]),
           <<>>, runes)

MCWorkloads == <<"deployment", "job_name">>

Good == [decodes |-> TRUE, fingerprint |-> TRUE, alertname |-> 1, severity |-> 2, status |-> "firing",
         namespace |-> TRUE, labels |-> {"deployment"}, values |-> <<2, 3>>, raw |-> Ends(<<Plain>>)]

MCAlerts ==
  {[Good EXCEPT !.decodes = FALSE], [Good EXCEPT !.fingerprint = FALSE],
   [Good EXCEPT !.alertname = 0], [Good EXCEPT !.status = "other"]}
  \cup {[Good EXCEPT !.namespace = ns, !.labels = ls] :
          ns \in BOOLEAN, ls \in SUBSET {"deployment", "job_name"}}
  \cup {[Good EXCEPT !.values = <<v, w>>, !.severity = k] : v, w \in 1..4, k \in 0..2}
  \cup {[Good EXCEPT !.raw = Ends(r)] : r \in UNION {[1..k -> Runes] : k \in 0..6}}
=============================================================================
