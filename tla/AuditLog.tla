------------------------------ MODULE AuditLog ------------------------------
(***************************************************************************)
(* internal/audit: the hash-chained JSONL log, appended to by concurrent   *)
(* writers in one process, across failing writes, process kills and power  *)
(* loss.                                                                   *)
(*                                                                         *)
(* The file is a sequence of pieces, one per Write: an entry and how much  *)
(* of its line reached the file.  A piece that is not the whole line runs  *)
(* into the next one, and two pieces on one line are not an entry.  An     *)
(* entry's hash is the entry itself, and its prev is the entry its writer  *)
(* took for the last: the digests are assumed free of collisions.          *)
(***************************************************************************)
EXTENDS Integers, Sequences

CONSTANTS Writers,    \* goroutines that append
          None,       \* "no writer"
          MaxAppends, \* bound: entries the writers make
          MaxFaults,  \* bound: failing Write or Sync calls
          MaxKills    \* bound: kills of the process, and power losses

ASSUME AuditLogAssumption ==
  /\ None \notin Writers
  /\ {MaxAppends, MaxFaults, MaxKills} \subseteq Nat

VARIABLES
  file,     \* pieces [seq, id, prev, part]
  synced,   \* how many of them are on disk for certain
  status,   \* "up", "down" or "refused" (Open returned an error)
  mu,       \* Log.mu: the writer holding it
  seq, prev,  \* Log.seq and Log.prev
  pc, entry,  \* per writer: its next call, the entry it built
  acked,    \* ids whose Append returned nil, in that order
  made, faults, kills  \* counters for the bounds

disk == <<file, synced>>
log == <<seq, prev>>
vars == <<file, synced, status, mu, seq, prev, pc, entry, acked, made, faults, kills>>

\* How much of a line a Write left: all of it, all but the newline, or less.
Parts == {"line", "unterminated", "torn"}

NoEntry == [seq |-> 0, id |-> 0, prev |-> 0]
Ids == 0..MaxAppends   \* 0 stands for the empty prev of the first entry
Pieces == [seq: Nat, id: Ids, prev: Ids, part: Parts]

Init ==
  /\ file = <<>> /\ synced = 0 /\ status = "down"
  /\ mu = None /\ seq = 0 /\ prev = 0
  /\ pc = [w \in Writers |-> "idle"]
  /\ entry = [w \in Writers |-> NoEntry]
  /\ acked = <<>> /\ made = 0 /\ faults = 0 /\ kills = 0

-----------------------------------------------------------------------------
(* Verification.                                                           *)

\* The scanner's last line may lack its newline; every other line must be one
\* entry, and follow from the one before it.
Verifies(f) ==
  \A n \in DOMAIN f :
    /\ f[n].part = "line" \/ (n = Len(f) /\ f[n].part = "unterminated")
    /\ f[n].seq = n
    /\ f[n].prev = IF n = 1 THEN 0 ELSE f[n - 1].id

\* The entry verify returns: the zero Entry for an empty log.
Last(f) == IF f = <<>> THEN NoEntry ELSE f[Len(f)]

-----------------------------------------------------------------------------
\* Mutant of Open: the chain is continued without being verified.
OpenUnverified ==
  /\ status = "down"
  /\ status' = "up" /\ seq' = Last(file).seq /\ prev' = Last(file).id
  /\ UNCHANGED <<disk, mu, pc, entry, acked, made, faults, kills>>

\* The process starts: it continues a chain that verifies, and refuses any other.
Open ==
  /\ status = "down"
  /\ \/ Verifies(file) /\ status' = "up" /\ seq' = Last(file).seq /\ prev' = Last(file).id
     \/ ~Verifies(file) /\ status' = "refused" /\ UNCHANGED log
  /\ UNCHANGED <<disk, mu, pc, entry, acked, made, faults, kills>>

\* Mutant of Lock: writers share seq and prev without the mutex.
LockNot(w) ==
  /\ status = "up" /\ pc[w] = "idle" /\ made < MaxAppends
  /\ mu' = w /\ made' = made + 1
  /\ entry' = [entry EXCEPT ![w] = [seq |-> seq + 1, id |-> made + 1, prev |-> prev]]
  /\ pc' = [pc EXCEPT ![w] = "write"]
  /\ UNCHANGED <<disk, status, log, acked, faults, kills>>

\* Append: the mutex is taken and the entry built on the last one.
Lock(w) ==
  /\ status = "up" /\ pc[w] = "idle" /\ mu = None /\ made < MaxAppends
  /\ mu' = w /\ made' = made + 1
  /\ entry' = [entry EXCEPT ![w] = [seq |-> seq + 1, id |-> made + 1, prev |-> prev]]
  /\ pc' = [pc EXCEPT ![w] = "write"]
  /\ UNCHANGED <<disk, status, log, acked, faults, kills>>

Piece(w, part) ==
  [seq |-> entry[w].seq, id |-> entry[w].id, prev |-> entry[w].prev, part |-> part]

\* Append returns, with or without an error: the deferred Unlock runs.
Return(w) == mu' = None /\ pc' = [pc EXCEPT ![w] = "idle"] /\ entry' = [entry EXCEPT ![w] = NoEntry]

Write(w) ==
  /\ pc[w] = "write"
  /\ file' = Append(file, Piece(w, "line"))
  /\ pc' = [pc EXCEPT ![w] = "sync"]
  /\ UNCHANGED <<synced, status, mu, log, entry, acked, made, faults, kills>>

\* The disk is full or failing: some of the line, or none, is in the file.
WriteFails(w) ==
  /\ pc[w] = "write" /\ faults < MaxFaults /\ faults' = faults + 1
  /\ \/ UNCHANGED file
     \/ \E part \in {"torn", "unterminated"} : file' = Append(file, Piece(w, part))
  /\ Return(w)
  /\ UNCHANGED <<synced, status, log, acked, made, kills>>

\* Mutant of Sync: success is reported before the file is on disk.
SyncNot(w) ==
  /\ pc[w] = "sync"
  /\ seq' = entry[w].seq /\ prev' = entry[w].id
  /\ acked' = Append(acked, entry[w].id)
  /\ Return(w)
  /\ UNCHANGED <<disk, status, made, faults, kills>>

Sync(w) ==
  /\ pc[w] = "sync"
  /\ synced' = Len(file)
  /\ seq' = entry[w].seq /\ prev' = entry[w].id
  /\ acked' = Append(acked, entry[w].id)
  /\ Return(w)
  /\ UNCHANGED <<file, status, made, faults, kills>>

\* The line is in the file, but Append returns an error and seq and prev stay.
SyncFails(w) ==
  /\ pc[w] = "sync" /\ faults < MaxFaults /\ faults' = faults + 1
  /\ Return(w)
  /\ UNCHANGED <<disk, status, log, acked, made, kills>>

\* What a kill leaves of a write under way: nothing, part of the line, or all
\* of it.
Torn == {<<>>} \cup {<<Piece(w, part)>> : w \in {x \in Writers : pc[x] = "write"}, part \in Parts}

Down ==
  /\ status' = "down" /\ mu' = None /\ seq' = 0 /\ prev' = 0
  /\ pc' = [w \in Writers |-> "idle"]
  /\ entry' = [w \in Writers |-> NoEntry]
  /\ kills < MaxKills /\ kills' = kills + 1
  /\ UNCHANGED <<acked, made, faults>>

\* The process is killed; what it wrote stays in the file.
Kill ==
  /\ status = "up"
  /\ \E left \in Torn : file' = file \o left
  /\ Down
  /\ UNCHANGED synced

\* The machine loses power: of what was not synced any beginning may remain, the
\* last line of it torn.  A file system that loses the middle is not modelled.
Beginnings(f) ==
  {SubSeq(f, 1, n) : n \in synced..Len(f)} \cup
  {Append(SubSeq(f, 1, n), [f[n + 1] EXCEPT !.part = "torn"]) : n \in synced..(Len(f) - 1)}

PowerLoss ==
  /\ status = "up"
  /\ \E left \in Torn : file' \in Beginnings(file \o left)
  /\ synced' = Len(file')
  /\ Down

Next ==
  \/ Open \/ Kill \/ PowerLoss
  \/ \E w \in Writers : Lock(w) \/ Write(w) \/ WriteFails(w) \/ Sync(w) \/ SyncFails(w)

Spec == Init /\ [][Next]_vars

-----------------------------------------------------------------------------
(* Correctness.                                                            *)

\* The type invariant, with the mutex: the writer inside Append is its holder.
TypeOK ==
  /\ file \in Seq(Pieces) /\ synced \in Nat /\ status \in {"up", "down", "refused"}
  /\ mu \in Writers \cup {None} /\ seq \in Nat /\ prev \in Ids
  /\ pc \in [Writers -> {"idle", "write", "sync"}]
  /\ entry \in [Writers -> [seq: Nat, id: Ids, prev: Ids]]
  /\ acked \in Seq(Ids) /\ made \in Ids /\ faults \in Nat /\ kills \in Nat
  /\ \A w \in Writers : pc[w] # "idle" <=> mu = w

\* While a process is up the whole file is one valid chain, at every moment and
\* through any kills and power losses before it started, and between two
\* appends Log.seq and Log.prev are its end.  Two things void this: a Write or
\* Sync that failed (see NothingAppendedToBroken), and a kill that lost no more
\* of a line than its newline, which verify accepts and the next entry runs into.
ChainHolds ==
  status = "up" /\ faults = 0 /\ (\A n \in DOMAIN file : file[n].part # "unterminated") =>
    /\ Verifies(file)
    /\ mu = None => seq = Last(file).seq /\ prev = Last(file).id

\* "Append writes one entry and syncs it to disk before returning": an entry
\* whose Append returned nil stays in the file, whole, through any failing
\* call, kill or power loss, after those acknowledged before it.
AckedIsDurable ==
  \A a \in DOMAIN acked : \E n \in 1..synced :
    /\ n <= Len(file) /\ file[n].id = acked[a] /\ file[n].part = "line"
    /\ \A b \in 1..(a - 1) : \E m \in 1..(n - 1) : file[m].id = acked[b]

-----------------------------------------------------------------------------
(* Why they hold.                                                          *)

\* What is synced is in the file, the piece a writer is about to sync is its own
\* whole line, the last one, not synced yet, and a writer is inside Append only
\* while a process runs.
SyncInv ==
  /\ synced <= Len(file)
  /\ status # "up" => mu = None
  /\ \A w \in Writers : pc[w] = "sync" =>
       synced < Len(file) /\ file[Len(file)] = Piece(w, "line")

\* The entry a writer is about to write goes on where the file ends, under the
\* conditions of ChainHolds.
WriteInv ==
  status = "up" /\ faults = 0 /\ (\A n \in DOMAIN file : file[n].part # "unterminated") =>
    \A w \in Writers : pc[w] = "write" =>
      entry[w].seq = Last(file).seq + 1 /\ entry[w].prev = Last(file).id

\* Together they are inductive.
LogInv == TypeOK /\ SyncInv /\ WriteInv /\ ChainHolds /\ AckedIsDurable

-----------------------------------------------------------------------------
(* What the repository says and the code does not do.                      *)

\* audit.go:39-40 "It refuses a log whose chain does not verify, so nothing is
\* ever appended to a broken one": a Write finds a chain that verifies.
NothingAppendedToBroken ==
  [][\A w \in Writers : pc[w] = "write" /\ Len(file') > Len(file) => Verifies(file)]_vars
=============================================================================
