--------------------------- MODULE AuditLogProofs ---------------------------
(***************************************************************************)
(* The audit log, for any number of writers, entries, failing calls, kills *)
(* and power losses.                                                       *)
(***************************************************************************)
EXTENDS AuditLog, SequenceTheorems, TLAPS

-----------------------------------------------------------------------------
(* The file.                                                               *)

\* What power loss leaves of a file has all that was synced.
LEMMA BeginningsKeepSynced ==
  ASSUME NEW f \in Seq(Pieces), synced \in 0..Len(f), NEW g \in Beginnings(f)
  PROVE  /\ g \in Seq(Pieces) /\ Len(g) \in Nat /\ synced <= Len(g)
         /\ \A n \in 1..synced : g[n] = f[n]
<1>1. Len(f) \in Nat /\ DOMAIN f = 1..Len(f) /\ \A n \in 1..Len(f) : f[n] \in Pieces
  BY LenProperties, ElementOfSeq
<1> HIDE DEF Pieces
<1>2. ASSUME NEW n \in synced..Len(f)
      PROVE  /\ SubSeq(f, 1, n) \in Seq(Pieces) /\ Len(SubSeq(f, 1, n)) = n
             /\ \A i \in 1..n : SubSeq(f, 1, n)[i] = f[i]
  <2>1. n \in Nat /\ \A i \in 1..n : f[i] \in Pieces
    BY <1>1
  <2> QED BY <2>1, SubSeqProperties
<1>3. CASE \E n \in synced..Len(f) : g = SubSeq(f, 1, n)
  BY <1>1, <1>2, <1>3
<1>4. ASSUME NEW n \in synced..(Len(f) - 1), g = Append(SubSeq(f, 1, n), [f[n + 1] EXCEPT !.part = "torn"])
      PROVE  /\ g \in Seq(Pieces) /\ Len(g) \in Nat /\ synced <= Len(g)
             /\ \A i \in 1..synced : g[i] = f[i]
  <2>1. n \in synced..Len(f) /\ n + 1 \in 1..Len(f)
    BY <1>1
  <2>2. [f[n + 1] EXCEPT !.part = "torn"] \in Pieces
    BY <1>1, <2>1 DEF Pieces, Parts
  <2>3. PICK h, e : h = SubSeq(f, 1, n) /\ e = [f[n + 1] EXCEPT !.part = "torn"]
    OBVIOUS
  <2>4. h \in Seq(Pieces) /\ Len(h) = n /\ \A i \in 1..n : h[i] = f[i]
    BY <1>2, <2>1, <2>3
  <2>5. /\ g \in Seq(Pieces) /\ Len(g) = n + 1
        /\ \A i \in 1..Len(h) : g[i] = h[i]
    BY <1>4, <2>2, <2>3, <2>4, AppendProperties
  <2> QED BY <1>1, <2>4, <2>5
<1> QED BY <1>3, <1>4 DEF Beginnings

\* What a kill leaves of the write under way is a piece or nothing.
LEMMA TornAdds ==
  ASSUME TypeOK, NEW left \in Torn
  PROVE  /\ file \o left \in Seq(Pieces) /\ Len(file) <= Len(file \o left)
         /\ \A n \in 1..Len(file) : (file \o left)[n] = file[n]
<1>1. file \in Seq(Pieces) /\ Len(file) \in Nat
  BY LenProperties DEF TypeOK
<1>2. left \in Seq(Pieces)
  <2>1. ASSUME NEW w \in Writers, NEW part \in Parts PROVE Piece(w, part) \in Pieces
    BY <2>1 DEF TypeOK, Piece, Pieces
  <2>2. ASSUME NEW p \in Pieces PROVE <<p>> \in Seq(Pieces)
    <3> HIDE DEF Pieces
    <3> QED BY <2>2
  <2>3. <<>> \in Seq(Pieces)
    BY EmptySeq
  <2> HIDE DEF Pieces
  <2>4. CASE left = <<>>
    BY <2>3, <2>4
  <2>5. ASSUME NEW w \in Writers, NEW part \in Parts, left = <<Piece(w, part)>>
        PROVE  left \in Seq(Pieces)
    BY <2>1, <2>2, <2>5
  <2> QED BY <2>4, <2>5 DEF Torn
<1> HIDE DEF Pieces
<1>3. Len(left) \in Nat
  BY <1>2, LenProperties
<1> QED BY <1>1, <1>2, <1>3, ConcatProperties

\* A step keeps what was synced, and syncs more or nothing.
LEMMA FileStep ==
  ASSUME TypeOK, synced <= Len(file), [Next]_vars
  PROVE  /\ file' \in Seq(Pieces) /\ synced' \in Nat /\ Len(file') \in Nat
         /\ synced <= synced' /\ synced' <= Len(file')
         /\ \A n \in 1..synced : file'[n] = file[n]
<1>1. file \in Seq(Pieces) /\ Len(file) \in Nat /\ synced \in Nat
  BY LenProperties DEF TypeOK
<1> DEFINE G == /\ file' \in Seq(Pieces) /\ synced' \in Nat /\ Len(file') \in Nat
                /\ synced <= synced' /\ synced' <= Len(file')
                /\ \A n \in 1..synced : file'[n] = file[n]
<1>2. ASSUME UNCHANGED disk PROVE G
  BY <1>1, <1>2 DEF disk
<1>3. ASSUME NEW w \in Writers, NEW part \in Parts, file' = Append(file, Piece(w, part)),
             UNCHANGED synced
      PROVE  G
  <2>1. Piece(w, part) \in Pieces
    BY DEF TypeOK, Piece, Pieces
  <2>2. PICK p : p = Piece(w, part)
    OBVIOUS
  <2> HIDE DEF Pieces
  <2>3. file' \in Seq(Pieces) /\ Len(file') = Len(file) + 1 /\ \A n \in 1..Len(file) : file'[n] = file[n]
    BY <1>1, <1>3, <2>1, <2>2, AppendProperties
  <2> QED BY <1>1, <1>3, <2>3
<1>4. ASSUME NEW w \in Writers, Lock(w) \/ SyncFails(w) PROVE G
  BY <1>2, <1>4 DEF Lock, SyncFails
<1>5. ASSUME NEW w \in Writers, Write(w) PROVE G
  BY <1>3, <1>5 DEF Write, Parts
<1>6. ASSUME NEW w \in Writers, WriteFails(w) PROVE G
  BY <1>2, <1>3, <1>6 DEF WriteFails, Parts, disk
<1>7. ASSUME NEW w \in Writers, Sync(w) PROVE G
  BY <1>1, <1>7 DEF Sync
<1>8. ASSUME Kill PROVE G
  <2>1. PICK left \in Torn : file' = file \o left
    BY <1>8 DEF Kill
  <2>2. file' \in Seq(Pieces) /\ Len(file) <= Len(file') /\ \A n \in 1..Len(file) : file'[n] = file[n]
    BY <2>1, TornAdds
  <2>3. Len(file') \in Nat
    <3> HIDE DEF Pieces
    <3> QED BY <2>2, LenProperties
  <2> QED BY <1>1, <1>8, <2>2, <2>3 DEF Kill
<1>9. ASSUME PowerLoss PROVE G
  <2>1. PICK left \in Torn : file' \in Beginnings(file \o left)
    BY <1>9 DEF PowerLoss
  <2>2. PICK f : f = file \o left
    OBVIOUS
  <2>3. f \in Seq(Pieces) /\ Len(file) <= Len(f) /\ \A n \in 1..Len(file) : f[n] = file[n]
    BY <2>2, TornAdds
  <2>4. Len(f) \in Nat
    <3> HIDE DEF Pieces
    <3> QED BY <2>3, LenProperties
  <2>5. /\ file' \in Seq(Pieces) /\ Len(file') \in Nat /\ synced <= Len(file')
        /\ \A n \in 1..synced : file'[n] = f[n]
    <3>1. synced \in 0..Len(f)
      BY <1>1, <2>3, <2>4
    <3>2. file' \in Beginnings(f)
      BY <2>1, <2>2
    <3>3. PICK g : g = file'
      OBVIOUS
    <3> HIDE DEF Pieces
    <3> QED BY <2>3, <3>1, <3>2, <3>3, BeginningsKeepSynced
  <2> QED BY <1>1, <1>9, <2>3, <2>5 DEF PowerLoss
<1>10. ASSUME Open \/ UNCHANGED vars PROVE G
  BY <1>2, <1>10 DEF Open, vars, disk
<1> QED BY <1>4, <1>5, <1>6, <1>7, <1>8, <1>9, <1>10 DEF Next

\* A writer's step adds at most its own piece, at the end.
LEMMA AppendedPiece ==
  ASSUME TypeOK, NEW w \in Writers, NEW part \in Parts, file' = Append(file, Piece(w, part))
  PROVE  /\ Len(file) \in Nat /\ Len(file') = Len(file) + 1
         /\ DOMAIN file = 1..Len(file) /\ DOMAIN file' = 1..Len(file')
         /\ \A n \in 1..Len(file) : file'[n] = file[n]
         /\ file'[Len(file')] = Piece(w, part)
<1>1. Piece(w, part) \in Pieces
  BY DEF TypeOK, Piece, Pieces
<1>2. PICK p : p = Piece(w, part)
  OBVIOUS
<1>3. file \in Seq(Pieces)
  BY DEF TypeOK
<1> HIDE DEF Pieces
<1>4. /\ file' \in Seq(Pieces) /\ Len(file') = Len(file) + 1
      /\ \A n \in 1..Len(file) : file'[n] = file[n]
      /\ file'[Len(file) + 1] = p
  BY <1>1, <1>2, <1>3, AppendProperties
<1> QED BY <1>2, <1>3, <1>4, LenProperties

-----------------------------------------------------------------------------
(* The invariants, one by one.                                             *)

\* Types, and the mutex.
LEMMA TypeStep ==
  ASSUME TypeOK, SyncInv, [Next]_vars
  PROVE  TypeOK'
<1>0. file' \in Seq(Pieces) /\ synced' \in Nat
  BY FileStep DEF SyncInv
<1>a. Len(file) \in Nat
  BY LenProperties DEF TypeOK
<1> DEFINE F == file \in Seq(Pieces)
           E == [seq: Nat, id: Ids, prev: Ids]
           A == acked \in Seq(Ids)
<1>b. /\ F' /\ A /\ NoEntry \in E
      /\ Verifies(file) => Last(file).seq \in Nat /\ Last(file).id \in Ids
  <2>1. 0 \in Ids
    BY AuditLogAssumption DEF Ids
  <2>2. file # <<>> => file[Len(file)] \in Pieces
    <3>1. file \in Seq(Pieces)
      BY DEF TypeOK
    <3> HIDE DEF Pieces
    <3>2. file # <<>> => Len(file) \in 1..Len(file)
      BY <1>a, <3>1, EmptySeq
    <3> QED BY <3>1, <3>2, ElementOfSeq
  <2> QED BY <1>0, <2>1, <2>2 DEF TypeOK, NoEntry, Last, Pieces
<1>1. CASE Open
  BY <1>0, <1>b, <1>1 DEF Open, TypeOK, log, disk
<1>2. ASSUME NEW w \in Writers, Lock(w) PROVE TypeOK'
  <2>1. made + 1 \in Ids /\ seq + 1 \in Nat
    BY <1>2, AuditLogAssumption DEF Lock, TypeOK, Ids
  <2>2. mu' = w /\ mu = None /\ w # None
    BY <1>2, AuditLogAssumption DEF Lock
  <2>3. \A v \in Writers : pc'[v] # "idle" <=> mu' = v
    BY <1>2, <2>2, AuditLogAssumption DEF Lock, TypeOK
  <2> QED BY <1>0, <1>2, <2>1, <2>3 DEF Lock, TypeOK, disk, log
<1>3. ASSUME NEW w \in Writers, Return(w), pc[w] # "idle"
      PROVE  /\ mu' \in Writers \cup {None} /\ pc' \in [Writers -> {"idle", "write", "sync"}]
             /\ entry' \in [Writers -> E] /\ \A v \in Writers : pc'[v] # "idle" <=> mu' = v
  BY <1>b, <1>3, AuditLogAssumption DEF Return, TypeOK
<1>4. ASSUME NEW w \in Writers, Write(w) PROVE TypeOK'
  BY <1>0, <1>4 DEF Write, TypeOK, log
<1>5. ASSUME NEW w \in Writers, WriteFails(w) PROVE TypeOK'
  BY <1>0, <1>3, <1>5 DEF WriteFails, TypeOK, log
<1>6. ASSUME NEW w \in Writers, Sync(w) PROVE TypeOK'
  <2>1. entry[w].seq \in Nat /\ entry[w].id \in Ids
    BY DEF TypeOK
  <2>2. acked' \in Seq(Ids)
    <3>1. acked' = Append(acked, entry[w].id)
      BY <1>6 DEF Sync
    <3> HIDE DEF Ids
    <3> QED BY <2>1, <3>1 DEF TypeOK
  <2> QED BY <1>0, <1>3, <1>6, <2>1, <2>2 DEF Sync, TypeOK
<1>7. ASSUME NEW w \in Writers, SyncFails(w) PROVE TypeOK'
  BY <1>0, <1>3, <1>7 DEF SyncFails, TypeOK, log
<1>8. CASE Kill \/ PowerLoss
  <2>1. Down
    BY <1>8 DEF Kill, PowerLoss
  <2>2. /\ status' = "down" /\ mu' = None /\ seq' = 0 /\ prev' = 0
        /\ pc' \in [Writers -> {"idle", "write", "sync"}] /\ entry' \in [Writers -> E]
        /\ \A w \in Writers : pc'[w] # "idle" <=> mu' = w
    BY <1>b, <2>1, AuditLogAssumption DEF Down
  <2>3. prev' \in Ids
    BY <2>2, AuditLogAssumption DEF Ids
  <2> QED BY <1>0, <2>1, <2>2, <2>3 DEF Down, TypeOK
<1>9. CASE UNCHANGED vars
  BY <1>9 DEF vars, TypeOK
<1> QED BY <1>1, <1>2, <1>4, <1>5, <1>6, <1>7, <1>8, <1>9 DEF Next

\* The piece to be synced stays whole and last while its writer holds the mutex.
LEMMA SyncStep ==
  ASSUME TypeOK, TypeOK', SyncInv, [Next]_vars
  PROVE  SyncInv'
<1>1. synced' <= Len(file')
  BY FileStep DEF SyncInv
<1>4. status' # "up" => mu' = None
  BY DEF SyncInv, TypeOK, Next, vars, Open, Kill, PowerLoss, Down, Lock, Write, WriteFails, Sync, SyncFails, Return
<1> SUFFICES ASSUME NEW w \in Writers, pc'[w] = "sync"
             PROVE  synced' < Len(file') /\ file'[Len(file')] = Piece(w, "line")'
  BY <1>1, <1>4 DEF SyncInv
<1>2. CASE pc[w] = "sync"
  <2>1. mu = w /\ \A v \in Writers \ {w} : pc[v] = "idle"
    BY <1>2 DEF TypeOK
  <2>2. /\ UNCHANGED <<file, synced>> /\ entry'[w] = entry[w]
    BY <1>2, <2>1, AuditLogAssumption DEF Next, vars, disk, Open, Kill, PowerLoss, Down, Lock, Write,
       WriteFails, Sync, SyncFails, Return, TypeOK
  <2> QED BY <1>2, <2>2 DEF SyncInv, Piece
<1>3. CASE pc[w] # "sync"
  <2>1. Write(w)
    BY <1>3, AuditLogAssumption DEF Next, vars, Open, Kill, PowerLoss, Down, Lock, Write, WriteFails, Sync,
       SyncFails, Return, TypeOK
  <2>2. synced' = synced /\ file' = Append(file, Piece(w, "line")) /\ entry' = entry
    BY <2>1 DEF Write
  <2>3. Len(file') = Len(file) + 1 /\ file'[Len(file')] = Piece(w, "line") /\ Len(file) \in Nat
    BY <2>2, AppendedPiece DEF Parts
  <2> QED BY <2>2, <2>3 DEF SyncInv, Piece, TypeOK
<1> QED BY <1>2, <1>3

\* What was acknowledged stays, whole and in order, and what is acknowledged
\* now comes after it.
LEMMA AckedStep ==
  ASSUME TypeOK, TypeOK', SyncInv, AckedIsDurable, [Next]_vars
  PROVE  AckedIsDurable'
<1>1. /\ synced \in Nat /\ synced' \in Nat /\ Len(file) \in Nat /\ Len(file') \in Nat
      /\ synced <= synced' /\ synced' <= Len(file') /\ synced <= Len(file)
      /\ \A n \in 1..synced : file'[n] = file[n]
  <2>1. Len(file) \in Nat /\ synced \in Nat
    BY LenProperties DEF TypeOK
  <2> QED BY <2>1, FileStep DEF SyncInv
<1> DEFINE Kept(a) == \E n \in 1..synced :
              /\ n <= Len(file) /\ file[n].id = acked[a] /\ file[n].part = "line"
              /\ \A b \in 1..(a - 1) : \E m \in 1..(n - 1) : file[m].id = acked[b]
<1>2. \A n \in 1..synced : n \in 1..synced' /\ n <= Len(file') /\ \A m \in 1..(n - 1) : m \in 1..synced
  BY <1>1
<1>3. CASE UNCHANGED acked
  <2> SUFFICES ASSUME NEW a \in DOMAIN acked PROVE Kept(a)'
    BY <1>3 DEF AckedIsDurable
  <2>1. PICK n \in 1..synced :
          /\ file[n].id = acked[a] /\ file[n].part = "line"
          /\ \A b \in 1..(a - 1) : \E m \in 1..(n - 1) : file[m].id = acked[b]
    BY DEF AckedIsDurable
  <2> QED BY <1>1, <1>2, <1>3, <2>1
<1>4. ASSUME NEW w \in Writers, Sync(w) PROVE AckedIsDurable'
  <2>1. /\ acked' = Append(acked, entry[w].id) /\ file' = file /\ synced' = Len(file)
        /\ synced < Len(file) /\ file[Len(file)] = Piece(w, "line")
    BY <1>4 DEF Sync, SyncInv
  <2>2. /\ Len(acked) \in Nat /\ DOMAIN acked = 1..Len(acked) /\ DOMAIN acked' = 1..(Len(acked) + 1)
        /\ \A a \in 1..Len(acked) : acked'[a] = acked[a]
        /\ acked'[Len(acked) + 1] = entry[w].id
    <3>1. acked \in Seq(Ids) /\ entry[w].id \in Ids /\ acked' \in Seq(Ids)
      BY DEF TypeOK
    <3> HIDE DEF Ids
    <3>2. PICK e : e = entry[w].id
      OBVIOUS
    <3> QED BY <2>1, <3>1, <3>2, AppendProperties, LenProperties
  <2>3. ASSUME NEW a \in 1..Len(acked) PROVE Kept(a)'
    <3>1. PICK n \in 1..synced :
            /\ file[n].id = acked[a] /\ file[n].part = "line"
            /\ \A b \in 1..(a - 1) : \E m \in 1..(n - 1) : file[m].id = acked[b]
      <4>1. a \in DOMAIN acked
        BY <2>2
      <4> HIDE DEF Kept
      <4> QED BY <4>1 DEF AckedIsDurable
    <3>2. \A b \in 1..(a - 1) : acked'[b] = acked[b]
      BY <2>2
    <3> QED BY <1>1, <1>2, <2>1, <2>2, <3>1, <3>2
  <2>4. ASSUME NEW a, a = Len(acked) + 1 PROVE Kept(a)'
    <3>1. \A b \in 1..Len(acked) : \E m \in 1..synced : file[m].id = acked[b]
      BY <2>2 DEF AckedIsDurable
    <3>2. Len(file) \in 1..Len(file) /\ \A m \in 1..synced : m \in 1..(Len(file) - 1)
      BY <1>1, <2>1
    <3>3. \A b \in 1..(a - 1) : b \in 1..Len(acked)
      BY <2>2, <2>4
    <3>4. file[Len(file)].id = entry[w].id /\ file[Len(file)].part = "line"
      BY <2>1 DEF Piece
    <3>5. PICK n : n = Len(file)
      OBVIOUS
    <3>6. /\ n \in 1..synced' /\ n <= Len(file') /\ file'[n].id = acked'[a] /\ file'[n].part = "line"
      BY <1>1, <2>1, <2>2, <2>4, <3>2, <3>4, <3>5
    <3>7. \A b \in 1..(a - 1) : \E m \in 1..(n - 1) : file'[m].id = acked'[b]
      BY <2>1, <2>2, <3>1, <3>2, <3>3, <3>5
    <3> QED BY <3>6, <3>7
  <2>5. \A a \in DOMAIN acked' : a \in 1..Len(acked) \/ a = Len(acked) + 1
    BY <2>2
  <2> HIDE DEF Kept
  <2>6. \A a \in DOMAIN acked' : Kept(a)'
    BY <2>3, <2>4, <2>5
  <2> QED BY <2>6 DEF Kept, AckedIsDurable
<1>5. UNCHANGED acked \/ \E w \in Writers : Sync(w)
  BY DEF Next, vars, Open, Kill, PowerLoss, Down, Lock, Write, WriteFails, SyncFails
<1> QED BY <1>3, <1>4, <1>5

\* Where a chain that verifies ends: its last entry is numbered by its length.
LEMMA ChainEnd ==
  ASSUME TypeOK, Verifies(file)
  PROVE  /\ Last(file).seq = Len(file)
         /\ Last(file).id = IF Len(file) = 0 THEN 0 ELSE file[Len(file)].id
<1>1. file \in Seq(Pieces) /\ Len(file) \in Nat /\ DOMAIN file = 1..Len(file)
  BY LenProperties DEF TypeOK
<1> HIDE DEF Pieces
<1>2. CASE file = <<>>
  <2>1. Len(file) = 0
    BY <1>2
  <2> QED BY <1>2, <2>1 DEF Last, NoEntry
<1>3. CASE file # <<>>
  <2>1. Len(file) # 0
    BY <1>1, <1>3, EmptySeq
  <2>2. Len(file) \in DOMAIN file
    BY <1>1, <2>1
  <2> QED BY <1>3, <2>1, <2>2 DEF Last, Verifies
<1> QED BY <1>2, <1>3

\* The chain and the entry that will extend it: a writer builds its entry on the
\* end of the file while nobody else can write.
LEMMA ChainStep ==
  ASSUME LogInv, TypeOK', [Next]_vars
  PROVE  WriteInv' /\ ChainHolds'
<1> USE DEF LogInv
<1> DEFINE Quiet == faults = 0 /\ \A n \in DOMAIN file : file[n].part # "unterminated"
           Chain == Verifies(file) /\ (mu = None => seq = Last(file).seq /\ prev = Last(file).id)
           Ready == \A w \in Writers : pc[w] = "write" =>
                      entry[w].seq = Last(file).seq + 1 /\ entry[w].prev = Last(file).id
<1>1. /\ status = "up" /\ Quiet => Chain /\ Ready
      /\ (status' = "up" /\ Quiet' => Chain' /\ Ready') => WriteInv' /\ ChainHolds'
  BY DEF WriteInv, ChainHolds
<1> SUFFICES ASSUME status' = "up", Quiet' PROVE Chain' /\ Ready'
  BY <1>1
<1>2. CASE Open
  <2>1. \A w \in Writers : pc[w] = "idle"
    BY <1>2, AuditLogAssumption DEF Open, SyncInv, TypeOK
  <2> QED BY <1>2, <2>1 DEF Open, disk, Verifies, Last, log
<1>3. ASSUME NEW w \in Writers, Lock(w) PROVE Chain' /\ Ready'
  <2>1. \A v \in Writers : pc[v] = "idle"
    BY <1>3, AuditLogAssumption DEF Lock, TypeOK
  <2>2. Chain
    BY <1>1, <1>3 DEF Lock, disk
  <2>3. /\ Verifies(file)' /\ mu' # None
        /\ Last(file)' = Last(file)
    BY <1>3, <2>2, AuditLogAssumption DEF Lock, disk, Verifies, Last
  <2>4. \A v \in Writers : pc'[v] = "write" => v = w
    BY <1>3, <2>1 DEF Lock, TypeOK
  <2>5. entry'[w].seq = seq + 1 /\ entry'[w].prev = prev
    BY <1>3 DEF Lock, TypeOK
  <2> QED BY <1>3, <2>2, <2>3, <2>4, <2>5 DEF Lock
<1>4. ASSUME NEW w \in Writers, Write(w) PROVE Chain' /\ Ready'
  <2>1. mu = w /\ mu' # None /\ \A v \in Writers : pc'[v] # "write"
    BY <1>4, AuditLogAssumption DEF Write, TypeOK
  <2>2. /\ Len(file) \in Nat /\ Len(file') = Len(file) + 1
        /\ DOMAIN file = 1..Len(file) /\ DOMAIN file' = 1..Len(file')
        /\ \A n \in 1..Len(file) : file'[n] = file[n]
        /\ file'[Len(file')] = Piece(w, "line")
    BY <1>4, AppendedPiece DEF Write, Parts
  <2>3. Quiet
    <3>1. \A n \in 1..Len(file) : n \in 1..Len(file')
      BY <2>2
    <3> QED BY <1>4, <2>2, <3>1 DEF Write
  <2>4. Chain /\ Ready
    BY <1>1, <1>4, <2>3 DEF Write
  <2>5. /\ entry[w].seq = Len(file) + 1
        /\ entry[w].prev = IF Len(file) = 0 THEN 0 ELSE file[Len(file)].id
    BY <1>4, <2>4, ChainEnd DEF Write
  <2>6. Verifies(file)'
    <3> SUFFICES ASSUME NEW n \in 1..Len(file')
                 PROVE  /\ file'[n].part = "line" /\ file'[n].seq = n
                        /\ file'[n].prev = IF n = 1 THEN 0 ELSE file'[n - 1].id
      BY <2>2 DEF Verifies
    <3>1. CASE n \in 1..Len(file)
      <4>1. /\ file[n].part = "line" /\ file[n].seq = n
            /\ file[n].prev = IF n = 1 THEN 0 ELSE file[n - 1].id
        BY <2>2, <2>3, <2>4, <3>1 DEF Verifies
      <4>2. n # 1 => n - 1 \in 1..Len(file)
        BY <2>2, <3>1
      <4> QED BY <2>2, <3>1, <4>1, <4>2
    <3>2. CASE n = Len(file) + 1
      <4>1. file'[n] = Piece(w, "line")
        BY <2>2, <3>2
      <4>2. n = 1 <=> Len(file) = 0
        BY <2>2, <3>2
      <4>3. n # 1 => n - 1 = Len(file) /\ Len(file) \in 1..Len(file)
        BY <2>2, <3>2
      <4>4. n # 1 => file'[n - 1] = file[Len(file)]
        BY <2>2, <4>3
      <4> QED BY <2>5, <3>2, <4>1, <4>2, <4>4 DEF Piece
    <3> QED BY <2>2, <3>1, <3>2
  <2> QED BY <2>1, <2>6
<1>5. ASSUME NEW w \in Writers, WriteFails(w) \/ SyncFails(w) PROVE FALSE
  BY <1>5 DEF WriteFails, SyncFails, TypeOK
<1>6. ASSUME NEW w \in Writers, Sync(w) PROVE Chain' /\ Ready'
  <2>1. mu = w /\ \A v \in Writers : pc'[v] # "write"
    BY <1>6, AuditLogAssumption DEF Sync, Return, TypeOK
  <2>2. file' = file /\ status = "up" /\ Quiet
    BY <1>6 DEF Sync
  <2>3. Chain /\ file[Len(file)] = Piece(w, "line") /\ synced < Len(file)
    BY <1>1, <1>6, <2>2 DEF SyncInv, Sync
  <2>4. Last(file) = Piece(w, "line")
    <3>1. file # <<>>
      BY <2>3 DEF TypeOK
    <3> QED BY <2>3, <3>1 DEF Last
  <2>5. seq' = Last(file).seq /\ prev' = Last(file).id
    BY <1>6, <2>4 DEF Sync, Piece
  <2> QED BY <2>1, <2>2, <2>3, <2>5 DEF Verifies, Last
<1>7. CASE Kill \/ PowerLoss
  BY <1>7 DEF Kill, PowerLoss, Down
<1>8. CASE UNCHANGED vars
  BY <1>1, <1>8 DEF vars, Verifies, Last
<1> QED BY <1>2, <1>3, <1>4, <1>5, <1>6, <1>7, <1>8 DEF Next

-----------------------------------------------------------------------------
(* The theorems.                                                           *)

\* An empty file, and no process.
LEMMA LogInvInit == Init => LogInv
<1> SUFFICES ASSUME Init PROVE LogInv
  OBVIOUS
<1>1. TypeOK
  <2>1. 0 \in Ids
    BY AuditLogAssumption DEF Ids
  <2>2. file \in Seq(Pieces) /\ acked \in Seq(Ids)
    <3> HIDE DEF Pieces, Ids
    <3> QED BY EmptySeq DEF Init
  <2> QED BY <2>1, <2>2, AuditLogAssumption DEF Init, TypeOK, NoEntry
<1>2. SyncInv /\ WriteInv /\ ChainHolds
  BY DEF Init, SyncInv, WriteInv, ChainHolds
<1>3. AckedIsDurable
  BY DEF Init, AckedIsDurable
<1> QED BY <1>1, <1>2, <1>3 DEF LogInv

\* The invariants hold together through every step.
THEOREM LogInvariance == Spec => []LogInv
<1>1. LogInv /\ [Next]_vars => LogInv'
  <2> SUFFICES ASSUME LogInv, [Next]_vars PROVE LogInv'
    OBVIOUS
  <2>1. TypeOK'
    BY TypeStep DEF LogInv
  <2> QED BY <2>1, SyncStep, AckedStep, ChainStep DEF LogInv
<1> QED BY <1>1, LogInvInit, PTL DEF Spec

\* The types, and that the writer inside Append is the one holding the mutex.
THEOREM LogTypes == Spec => []TypeOK
<1>1. LogInv => TypeOK
  BY DEF LogInv
<1> QED BY <1>1, LogInvariance, PTL

\* As long as no Write or Sync failed and no kill left a line in the file without
\* its newline, the log a process has open is one chain, and Log.seq and Log.prev
\* are its end, through all other kills and power losses and for any writers.
THEOREM LogIsAChain == Spec => []ChainHolds
<1>1. LogInv => ChainHolds
  BY DEF LogInv
<1> QED BY <1>1, LogInvariance, PTL

\* An entry whose Append returned nil is in the synced part of the file, whole
\* and after those acknowledged before it, through every failure.
THEOREM AppendIsDurable == Spec => []AckedIsDurable
<1>1. LogInv => AckedIsDurable
  BY DEF LogInv
<1> QED BY <1>1, LogInvariance, PTL
=============================================================================
