------------------------ MODULE ContestRecorder_proofs ------------------------
(***************************************************************************)
(* Theorems of the contest recorder, for any number of processes, any       *)
(* limits and any number of kills, power losses and hand-made changes.      *)
(***************************************************************************)
EXTENDS ContestRecorder, FiniteSetTheorems, SequenceTheorems, WellFoundedInduction, TLAPS

IsSequence(a) == \E S : a \in Seq(S)

Holding == {"scan", "fetch", "write", "rename", "sync"}
Points == Holding \cup {"idle", "lock", "report"}

LastDigest == IF archive = <<>> THEN Null ELSE Digest(Last(archive))

(* What the first w files of a capture weigh.                               *)
Staged(lines, w) == IF w = 0 THEN 0 ELSE Cardinality(lines) + w - 1

(* What a run knows of the archive while it holds the lock.                 *)
Knows(p) ==
  /\ Verifies(archive, config[p]) /\ Len(archive) < MaxSnapshots
  /\ scan[p].count = Len(archive) /\ scan[p].previous = LastDigest
  /\ scan[p].used \in Nat

Fields == {"number", "previous", "config", "files", "synced"}

Prepared(p) ==
  LET s == capture[p].snapshot
      lines == capture[p].lines
  IN  /\ {"snapshot", "lines"} \subseteq DOMAIN capture[p] /\ Fields \subseteq DOMAIN s
      /\ s.number = Len(archive) + 1 /\ s.previous = LastDigest
      /\ s.config = config[p] /\ s.files = Files
      /\ Cardinality(lines) \in Nat
      /\ scan[p].used + TotalSize(lines) <= Budget
      /\ bytes = scan[p].used + Staged(lines, written[p])

RunOK(p) ==
  /\ pc[p] \in Holding => lock = p
  /\ pc[p] \in {"fetch", "write", "rename"} => Knows(p)
  /\ pc[p] = "fetch" => bytes = scan[p].used
  /\ pc[p] \in {"write", "rename"} => Prepared(p)
  /\ pc[p] = "rename" => capture[p].snapshot.synced = TRUE
  /\ pc[p] = "sync" => capture[p].snapshot.number = Len(archive) /\ Len(archive) > 0
  /\ pc[p] = "report" /\ damage = 0 => capture[p].snapshot.number \in 1 .. durable

(* Every snapshot links to the one before, whole and on disk.               *)
Sound(a) ==
  \A i \in 1 .. Len(a) :
    /\ a[i].number = i
    /\ a[i].previous = IF i = 1 THEN Null ELSE Digest(a[i - 1])
    /\ a[i].config = a[1].config /\ a[i].files = Files /\ a[i].synced = TRUE

ArchiveOK ==
  /\ IsSequence(archive)
  /\ durable \in 0 .. Len(archive) /\ bytes \in Nat /\ damage \in Nat
  /\ bytes <= Budget /\ Len(archive) <= MaxSnapshots
  /\ damage = 0 => Sound(archive) /\ \A r \in reports : r.number \in 1 .. durable

Shapes ==
  /\ pc \in [Proc -> Points] /\ written \in [Proc -> 0 .. Files]
  /\ DOMAIN config = Proc /\ DOMAIN scan = Proc /\ DOMAIN capture = Proc

RInv == Shapes /\ ArchiveOK /\ \A p \in Proc : RunOK(p)

Private(p) == <<pc[p], config[p], scan[p], capture[p], written[p]>>

-----------------------------------------------------------------------------
LEMMA SequenceFacts ==
  ASSUME NEW a, IsSequence(a)
  PROVE  /\ Len(a) \in Nat /\ DOMAIN a = 1 .. Len(a)
         /\ a = <<>> <=> Len(a) = 0
         /\ Last(a) = a[Len(a)]
<1>1. PICK S : a \in Seq(S)
  BY DEF IsSequence
<1> QED
  BY <1>1, EmptySeq, LenProperties DEF Last

LEMMA AppendFacts ==
  ASSUME NEW a, IsSequence(a), NEW x
  PROVE  /\ IsSequence(Append(a, x)) /\ Len(Append(a, x)) = Len(a) + 1
         /\ \A i \in 1 .. Len(a) : Append(a, x)[i] = a[i]
         /\ Append(a, x)[Len(a) + 1] = x
<1>1. PICK S : a \in Seq(S)
  BY DEF IsSequence
<1> DEFINE T == S \cup {x}
<1>2. a \in Seq(T) /\ x \in T
  BY <1>1, SeqMonotonic
<1>3. Append(a, x) \in Seq(T)
  BY <1>2
<1>4. IsSequence(Append(a, x))
  BY <1>3 DEF IsSequence
<1> QED
  BY <1>1, <1>2, <1>4

LEMMA RemoveFacts ==
  ASSUME NEW a, IsSequence(a), NEW i \in 1 .. Len(a)
  PROVE  IsSequence(RemoveAt(a, i)) /\ Len(RemoveAt(a, i)) = Len(a) - 1
<1>1. PICK S : a \in Seq(S)
  BY DEF IsSequence
<1>2. Len(a) \in Nat /\ \A j \in 1 .. Len(a) : a[j] \in S
  BY <1>1
<1> DEFINE front == SubSeq(a, 1, i - 1)
           rest == SubSeq(a, i + 1, Len(a))
<1>3. front \in Seq(S) /\ Len(front) = i - 1
  BY <1>2, SubSeqProperties
<1>4. rest \in Seq(S) /\ Len(rest) = Len(a) - i
  BY <1>2, SubSeqProperties
<1>5. RemoveAt(a, i) = front \o rest
  BY DEF RemoveAt
<1> HIDE DEF front, rest
<1>6. RemoveAt(a, i) \in Seq(S) /\ Len(RemoveAt(a, i)) = Len(front) + Len(rest)
  BY <1>3, <1>4, <1>5, ConcatProperties
<1> QED
  BY <1>2, <1>3, <1>4, <1>6 DEF IsSequence

(* A run is not disturbed by what leaves it and, while it holds the lock,   *)
(* the archive alone.                                                       *)
LEMMA OtherRun ==
  ASSUME NEW q, RunOK(q), Private(q)' = Private(q), damage' = damage,
         durable \in Nat, durable' \in Nat, durable' >= durable,
         lock = q => UNCHANGED <<lock, archive, bytes>>
  PROVE  RunOK(q)'
<1>1. pc'[q] = pc[q] /\ config'[q] = config[q] /\ scan'[q] = scan[q]
      /\ capture'[q] = capture[q] /\ written'[q] = written[q]
  BY DEF Private
<1>2. CASE pc[q] \in Holding
  <2>1. lock' = lock /\ archive' = archive /\ bytes' = bytes /\ LastDigest' = LastDigest
    BY <1>2 DEF RunOK, LastDigest
  <2> QED
    BY <1>1, <1>2, <2>1 DEF RunOK, Knows, Prepared, Holding
<1>3. CASE pc[q] \notin Holding
  BY <1>1, <1>3 DEF RunOK, Holding
<1> QED
  BY <1>2, <1>3

LEMMA EndedRun ==
  ASSUME NEW p \in Proc, Shapes, Exit(p)
  PROVE  Shapes' /\ RunOK(p)' /\ \A q \in Proc \ {p} : Private(q)' = Private(q)
<1>1. Shapes'
  BY DEF Shapes, Exit, Goto, Points, Files
<1>2. pc'[p] = "idle"
  BY DEF Shapes, Exit, Goto
<1>3. ASSUME NEW q \in Proc \ {p} PROVE Private(q)' = Private(q)
  BY DEF Shapes, Exit, Goto, Private
<1> QED
  BY <1>1, <1>2, <1>3 DEF RunOK, Holding

(* A run that ends and leaves the archive alone, up to what it weighs.      *)
LEMMA ExitStep ==
  ASSUME RInv, NEW p \in Proc, Exit(p), UNCHANGED <<archive, durable, damage>>,
         bytes' \in Nat, bytes' <= Budget, bytes' # bytes => lock = p,
         reports' = reports \/ (damage = 0 => \A r \in reports' : r.number \in 1 .. durable)
  PROVE  RInv'
<1>1. ArchiveOK'
  BY DEF RInv, ArchiveOK
<1>2. durable \in Nat
  BY SequenceFacts DEF RInv, ArchiveOK
<1>3. ASSUME NEW q \in Proc \ {p} PROVE RunOK(q)'
  <2>1. lock = q => UNCHANGED <<lock, archive, bytes>>
    BY <1>3 DEF Exit
  <2> QED
    BY <1>2, <1>3, <2>1, EndedRun, OtherRun DEF RInv
<1> QED
  BY <1>1, <1>3, EndedRun DEF RInv

(* Steps of a run that leave the archive and what it weighs alone.          *)
LEMMA InnerStep ==
  ASSUME RInv, NEW p \in Proc, Shapes', RunOK(p)',
         \A q \in Proc \ {p} : Private(q)' = Private(q),
         UNCHANGED <<archive, durable, bytes, damage, reports>>,
         \A q \in Proc \ {p} : lock = q => lock' = q
  PROVE  RInv'
<1>1. ArchiveOK'
  BY DEF RInv, ArchiveOK
<1>2. durable \in Nat
  BY SequenceFacts DEF RInv, ArchiveOK
<1>3. ASSUME NEW q \in Proc \ {p} PROVE RunOK(q)'
  BY <1>2, <1>3, OtherRun DEF RInv
<1> QED
  BY <1>1, <1>3 DEF RInv

LEMMA StartKeeps ==
  ASSUME RInv, NEW p \in Proc, Start(p)
  PROVE  RInv'
<1>1. Shapes' /\ pc'[p] = "lock" /\ \A q \in Proc \ {p} : Private(q)' = Private(q)
  BY DEF RInv, Shapes, Start, Goto, Points, Private
<1>2. RunOK(p)'
  BY <1>1 DEF RunOK, Holding
<1> QED
  BY <1>1, <1>2, InnerStep DEF Start

LEMMA LockKeeps ==
  ASSUME RInv, NEW p \in Proc, Lock(p)
  PROVE  RInv'
<1>1. CASE Exit(p)
  BY <1>1, ExitStep DEF Lock, RInv, ArchiveOK
<1>2. CASE ~Exit(p)
  <2>1. lock = Null /\ lock' = p /\ Goto(p, "scan") /\ UNCHANGED <<config, scan, capture, written>>
    BY <1>2 DEF Lock
  <2>2. Shapes' /\ pc'[p] = "scan" /\ \A q \in Proc \ {p} : Private(q)' = Private(q)
    BY <2>1 DEF RInv, Shapes, Goto, Points, Holding, Private
  <2>3. RunOK(p)'
    BY <2>1, <2>2 DEF RunOK, Holding
  <2>4. \A q \in Proc \ {p} : lock # q
    BY <2>1, RecorderAssumption
  <2> QED
    BY <2>2, <2>3, <2>4, InnerStep DEF Lock
<1> QED
  BY <1>1, <1>2

LEMMA ScanKeeps ==
  ASSUME RInv, NEW p \in Proc, Scan(p)
  PROVE  RInv'
<1>1. CASE Exit(p)
  BY <1>1, ExitStep DEF Scan, RInv, ArchiveOK
<1>2. CASE ~Exit(p)
  <2> DEFINE s == [used |-> bytes, count |-> Len(archive), previous |-> LastDigest,
                   coverage |-> IF archive = <<>> THEN <<>> ELSE Last(archive).coverage]
  <2>1. /\ pc[p] = "scan" /\ Verifies(archive, config[p]) /\ Len(archive) < MaxSnapshots
        /\ scan' = [scan EXCEPT ![p] = s]
        /\ Goto(p, "fetch") /\ UNCHANGED <<archive, bytes, lock, config, capture, written>>
    BY <1>2 DEF Scan, LastDigest
  <2>2. Shapes' /\ pc'[p] = "fetch" /\ scan'[p] = s /\ \A q \in Proc \ {p} : Private(q)' = Private(q)
    BY <2>1 DEF RInv, Shapes, Goto, Points, Holding, Private
  <2>3. lock = p /\ bytes \in Nat
    BY <2>1 DEF RInv, RunOK, Holding, ArchiveOK
  <2>4. LastDigest' = LastDigest /\ config'[p] = config[p]
    BY <2>1 DEF LastDigest
  <2>5. Knows(p)' /\ bytes' = scan'[p].used
    BY <2>1, <2>2, <2>3, <2>4 DEF Knows
  <2>6. RunOK(p)'
    BY <2>1, <2>2, <2>3, <2>5 DEF RunOK, Holding
  <2> QED
    BY <2>1, <2>2, <2>6, InnerStep DEF Scan
<1> QED
  BY <1>1, <1>2

LEMMA LinesFinite ==
  ASSUME NEW lines \in SUBSET Seqs
  PROVE  Cardinality(lines) \in Nat
<1>1. IsFiniteSet(Seqs)
  BY RecorderAssumption, FS_Interval DEF Seqs
<1> QED
  BY <1>1, FS_Subset, FS_CardinalityType

LEMMA FetchKeeps ==
  ASSUME RInv, NEW p \in Proc, Fetch(p)
  PROVE  RInv'
<1>1. CASE Exit(p)
  BY <1>1, ExitStep DEF Fetch, RInv, ArchiveOK
<1>2. CASE ~Exit(p)
  <2>1. PICK lines \in SUBSET Seqs, valid \in BOOLEAN, generation \in {c.generation : c \in Configs} :
          /\ Fits(p, lines)
          /\ capture' = [capture EXCEPT ![p] =
               [snapshot |-> Capture(p, lines, generation, valid), lines |-> lines]]
          /\ written' = [written EXCEPT ![p] = 0]
          /\ Goto(p, "write") /\ UNCHANGED <<lock, config, scan>>
    BY <1>2 DEF Fetch
  <2> DEFINE s == Capture(p, lines, generation, valid)
  <2>2. s.number = scan[p].count + 1 /\ s.previous = scan[p].previous
        /\ s.config = config[p] /\ s.files = Files /\ Fields \subseteq DOMAIN s
    BY DEF Capture, Fields
  <2> HIDE DEF s
  <2>3. pc[p] = "fetch" /\ UNCHANGED <<archive, durable, bytes, reports, damage>>
    BY DEF Fetch
  <2>4. /\ Shapes' /\ pc'[p] = "write" /\ capture'[p] = [snapshot |-> s, lines |-> lines]
        /\ written'[p] = 0
        /\ \A q \in Proc \ {p} : Private(q)' = Private(q)
    BY <2>1 DEF RInv, Shapes, Goto, Points, Holding, Private, Files, s
  <2>5. lock = p /\ Knows(p) /\ bytes = scan[p].used
    BY <2>3 DEF RInv, RunOK, Holding
  <2>6. LastDigest' = LastDigest /\ config'[p] = config[p] /\ scan'[p] = scan[p]
    BY <2>1, <2>3 DEF LastDigest
  <2>7. Knows(p)'
    BY <2>3, <2>5, <2>6 DEF Knows
  <2>8. Prepared(p)'
    BY <2>1, <2>2, <2>3, <2>4, <2>5, <2>6, LinesFinite
    DEF Knows, Prepared, Fits, TotalSize, Staged, Files
  <2>9. RunOK(p)'
    BY <2>1, <2>4, <2>5, <2>7, <2>8 DEF RunOK, Holding
  <2> QED
    BY <2>1, <2>3, <2>4, <2>9, InnerStep
<1> QED
  BY <1>1, <1>2

LEMMA FetchFailsKeeps ==
  ASSUME RInv, NEW p \in Proc, FetchFails(p)
  PROVE  RInv'
BY ExitStep DEF FetchFails, RInv, ArchiveOK

(* What a file adds to the weight of a capture.                             *)
LEMMA StagedGrows ==
  ASSUME NEW lines, Cardinality(lines) \in Nat, NEW w \in 0 .. Files, w < Files
  PROVE  /\ Staged(lines, w) \in Nat /\ FileSize(lines, w + 1) \in Nat
         /\ Staged(lines, w + 1) = Staged(lines, w) + FileSize(lines, w + 1)
         /\ Staged(lines, w + 1) <= TotalSize(lines)
BY DEF Staged, FileSize, TotalSize, Files

(* The holder of the lock changes what the archive weighs.                  *)
LEMMA HolderStep ==
  ASSUME RInv, NEW p \in Proc, lock = p, Shapes', RunOK(p)', ArchiveOK',
         \A q \in Proc \ {p} : Private(q)' = Private(q),
         damage' = damage, durable' >= durable
  PROVE  RInv'
<1>1. durable \in Nat /\ durable' \in Nat
  BY SequenceFacts DEF RInv, ArchiveOK
<1>2. ASSUME NEW q \in Proc \ {p} PROVE RunOK(q)'
  BY <1>1, <1>2, OtherRun DEF RInv
<1> QED
  BY <1>2 DEF RInv

LEMMA WriteKeeps ==
  ASSUME RInv, NEW p \in Proc, Write(p)
  PROVE  RInv'
<1> DEFINE lines == capture[p].lines
           w == written[p]
<1>1. /\ pc[p] = "write" /\ w < Files /\ w \in 0 .. Files
      /\ written' = [written EXCEPT ![p] = w + 1]
      /\ bytes' = bytes + FileSize(lines, w + 1)
      /\ UNCHANGED <<archive, durable, lock, pc, config, scan, capture, reports, faults, damage>>
  BY DEF Write, RInv, Shapes
<1>2. lock = p /\ Knows(p) /\ Prepared(p)
  BY <1>1 DEF RInv, RunOK, Holding
<1>3. Shapes' /\ written'[p] = w + 1 /\ \A q \in Proc \ {p} : Private(q)' = Private(q)
  BY <1>1 DEF RInv, Shapes, Private, Files
<1>4. /\ scan[p].used \in Nat /\ bytes = scan[p].used + Staged(lines, w)
      /\ scan[p].used + TotalSize(lines) <= Budget /\ Cardinality(lines) \in Nat
  BY <1>2 DEF Knows, Prepared
<1>5. /\ Staged(lines, w) \in Nat /\ FileSize(lines, w + 1) \in Nat
      /\ Staged(lines, w + 1) = Staged(lines, w) + FileSize(lines, w + 1)
      /\ Staged(lines, w + 1) <= TotalSize(lines)
  BY <1>1, <1>4, StagedGrows
<1>6. TotalSize(lines) \in Int /\ Budget \in Nat
  BY <1>4, RecorderAssumption DEF TotalSize, Files
<1>7. bytes' \in Nat /\ bytes' <= Budget /\ bytes' = scan[p].used + Staged(lines, w + 1)
  BY <1>1, <1>4, <1>5, <1>6
<1>8. ArchiveOK'
  BY <1>1, <1>7 DEF RInv, ArchiveOK
<1>9. LastDigest' = LastDigest
  BY <1>1 DEF LastDigest
<1>10. Knows(p)' /\ Prepared(p)'
  BY <1>1, <1>2, <1>3, <1>7, <1>9 DEF Knows, Prepared
<1>11. RunOK(p)'
  BY <1>1, <1>2, <1>10 DEF RunOK, Holding
<1>12. durable' >= durable
  BY <1>1, SequenceFacts DEF RInv, ArchiveOK
<1> QED
  BY <1>1, <1>2, <1>3, <1>8, <1>11, <1>12, HolderStep

LEMMA SyncStagingKeeps ==
  ASSUME RInv, NEW p \in Proc, SyncStaging(p)
  PROVE  RInv'
<1>1. /\ pc[p] = "write" /\ capture' = [capture EXCEPT ![p].snapshot.synced = TRUE]
      /\ Goto(p, "rename")
      /\ UNCHANGED <<archive, durable, bytes, lock, config, scan, written, reports, faults, damage>>
  BY DEF SyncStaging
<1>2. lock = p /\ Knows(p) /\ Prepared(p)
  BY <1>1 DEF RInv, RunOK, Holding
<1>3. Shapes' /\ pc'[p] = "rename" /\ \A q \in Proc \ {p} : Private(q)' = Private(q)
  BY <1>1 DEF RInv, Shapes, Goto, Private, Points, Holding
<1>4. capture'[p] = [capture[p] EXCEPT !.snapshot.synced = TRUE]
  BY <1>1 DEF RInv, Shapes
<1>5. /\ capture'[p].lines = capture[p].lines
      /\ capture'[p].snapshot = [capture[p].snapshot EXCEPT !.synced = TRUE]
  BY <1>2, <1>4 DEF Prepared
<1>6. /\ \A field \in Fields \ {"synced"} : capture'[p].snapshot[field] = capture[p].snapshot[field]
      /\ capture'[p].snapshot.synced = TRUE
      /\ DOMAIN capture'[p].snapshot = DOMAIN capture[p].snapshot
      /\ DOMAIN capture'[p] = DOMAIN capture[p]
  BY <1>2, <1>4, <1>5 DEF Prepared, Fields
<1>7. LastDigest' = LastDigest
  BY <1>1 DEF LastDigest
<1>8. Knows(p)' /\ Prepared(p)'
  BY <1>1, <1>2, <1>5, <1>6, <1>7 DEF Knows, Prepared, Fields
<1>9. RunOK(p)'
  BY <1>1, <1>2, <1>3, <1>6, <1>8 DEF RunOK, Holding
<1> QED
  BY <1>1, <1>3, <1>9, InnerStep

(* What a rename makes of a sound archive, and of a verified one.           *)
LEMMA SoundGrows ==
  ASSUME NEW a, IsSequence(a), Sound(a), NEW x, NEW c,
         Verifies(a, c),
         x.number = Len(a) + 1,
         x.previous = IF a = <<>> THEN Null ELSE Digest(Last(a)),
         x.config = c, x.files = Files, x.synced = TRUE
  PROVE  Sound(Append(a, x))
<1> DEFINE b == Append(a, x)
<1>1. /\ Len(b) = Len(a) + 1 /\ b[Len(a) + 1] = x /\ \A i \in 1 .. Len(a) : b[i] = a[i]
      /\ Len(a) \in Nat /\ (a = <<>> <=> Len(a) = 0) /\ Last(a) = a[Len(a)] /\ DOMAIN a = 1 .. Len(a)
  BY AppendFacts, SequenceFacts
<1>2. \A i \in 1 .. Len(a) : a[i].config = c
  BY <1>1 DEF Verifies
<1> HIDE DEF b
<1>3. ASSUME NEW i \in 1 .. Len(a)
      PROVE  /\ b[i].number = i
             /\ b[i].previous = IF i = 1 THEN Null ELSE Digest(b[i - 1])
             /\ b[i].config = b[1].config /\ b[i].files = Files /\ b[i].synced = TRUE
  <2>1. b[i] = a[i] /\ b[1] = a[1] /\ (i # 1 => b[i - 1] = a[i - 1])
    BY <1>1, <1>3
  <2> QED
    BY <1>3, <2>1 DEF Sound
<1>4. x.config = b[1].config
  BY <1>1, <1>2
<1>5. x.previous = IF Len(a) + 1 = 1 THEN Null ELSE Digest(b[Len(a)])
  BY <1>1
<1>6. Sound(b)
  <2> SUFFICES ASSUME NEW i \in 1 .. Len(b)
               PROVE  /\ b[i].number = i
                      /\ b[i].previous = IF i = 1 THEN Null ELSE Digest(b[i - 1])
                      /\ b[i].config = b[1].config /\ b[i].files = Files /\ b[i].synced = TRUE
    BY DEF Sound
  <2>0. i \in 1 .. Len(a) \/ i = Len(a) + 1
    BY <1>1
  <2>1. CASE i \in 1 .. Len(a)
    BY <1>3, <2>1
  <2>2. CASE i = Len(a) + 1
    <3>1. b[i] = x /\ i - 1 = Len(a)
      BY <1>1, <2>2
    <3>2. x.previous = IF i = 1 THEN Null ELSE Digest(b[i - 1])
      BY <1>5, <2>2, <3>1
    <3>3. x.number = i /\ x.config = b[1].config /\ x.files = Files /\ x.synced = TRUE
      BY <1>4, <2>2
    <3> QED
      BY <3>1, <3>2, <3>3
  <2> QED
    BY <2>0, <2>1, <2>2
<1> QED
  BY <1>6 DEF b

LEMMA RenameKeeps ==
  ASSUME RInv, NEW p \in Proc, Rename(p)
  PROVE  RInv' /\ Verifies(archive, Last(archive').config)
<1> DEFINE x == capture[p].snapshot
<1>1. /\ pc[p] = "rename" /\ archive' = Append(archive, x) /\ Goto(p, "sync")
      /\ UNCHANGED <<durable, bytes, lock, config, scan, capture, written, reports, faults, damage>>
  BY DEF Rename
<1>2. lock = p /\ Knows(p) /\ Prepared(p) /\ x.synced = TRUE
  BY <1>1 DEF RInv, RunOK, Holding
<1>3. Shapes' /\ pc'[p] = "sync" /\ \A q \in Proc \ {p} : Private(q)' = Private(q)
  BY <1>1 DEF RInv, Shapes, Goto, Private, Points, Holding
<1>4. IsSequence(archive) /\ Len(archive) \in Nat
  BY SequenceFacts DEF RInv, ArchiveOK
<1>5. /\ IsSequence(archive') /\ Len(archive') = Len(archive) + 1
      /\ archive'[Len(archive) + 1] = x
  BY <1>1, <1>4, AppendFacts
<1>6. Last(archive') = x
  BY <1>4, <1>5 DEF Last
<1>7. x.number = Len(archive) + 1 /\ x.config = config[p] /\ x.files = Files
      /\ x.previous = IF archive = <<>> THEN Null ELSE Digest(Last(archive))
  BY <1>2 DEF Prepared, LastDigest
<1>8. Verifies(archive, config[p]) /\ Len(archive) < MaxSnapshots
  BY <1>2 DEF Knows
<1>9. damage = 0 => Sound(archive')
  <2> HIDE DEF x
  <2> QED
    BY <1>1, <1>2, <1>4, <1>7, <1>8, SoundGrows DEF RInv, ArchiveOK
<1>10. Len(archive') <= MaxSnapshots /\ durable \in 0 .. Len(archive')
  BY <1>4, <1>5, <1>8, RecorderAssumption DEF RInv, ArchiveOK
<1>11. ArchiveOK'
  BY <1>1, <1>5, <1>9, <1>10 DEF RInv, ArchiveOK
<1>12. RunOK(p)'
  BY <1>1, <1>2, <1>3, <1>4, <1>5, <1>7 DEF RunOK, Holding
<1>13. durable' >= durable
  BY <1>1, <1>4 DEF RInv, ArchiveOK
<1> QED
  BY <1>1, <1>2, <1>3, <1>6, <1>7, <1>8, <1>11, <1>12, <1>13, HolderStep

LEMMA SyncRootKeeps ==
  ASSUME RInv, NEW p \in Proc, SyncRoot(p)
  PROVE  RInv'
<1>1. /\ pc[p] = "sync" /\ durable' = Len(archive) /\ lock' = Null /\ Goto(p, "report")
      /\ UNCHANGED <<archive, bytes, config, scan, capture, written, reports, faults, damage>>
  BY DEF SyncRoot
<1>2. lock = p /\ capture[p].snapshot.number = Len(archive) /\ Len(archive) > 0
  BY <1>1 DEF RInv, RunOK, Holding
<1>3. Shapes' /\ pc'[p] = "report" /\ \A q \in Proc \ {p} : Private(q)' = Private(q)
  BY <1>1 DEF RInv, Shapes, Goto, Private, Points, Holding
<1>4. Len(archive) \in Nat /\ durable \in 0 .. Len(archive)
  BY SequenceFacts DEF RInv, ArchiveOK
<1>5. ArchiveOK'
  BY <1>1, <1>4 DEF RInv, ArchiveOK
<1>6. RunOK(p)'
  BY <1>1, <1>2, <1>3, <1>4 DEF RunOK, Holding
<1> QED
  BY <1>1, <1>2, <1>3, <1>4, <1>5, <1>6, HolderStep

LEMMA ReportKeeps ==
  ASSUME RInv, NEW p \in Proc, Report(p)
  PROVE  RInv'
<1>1. /\ pc[p] = "report" /\ Exit(p) /\ UNCHANGED <<archive, durable, bytes, faults, damage>>
      /\ \A r \in reports' : r \in reports \/ r.number = capture[p].snapshot.number
  BY DEF Report
<1>2. damage = 0 => \A r \in reports' : r.number \in 1 .. durable
  BY <1>1 DEF RInv, RunOK, ArchiveOK
<1> QED
  BY <1>1, <1>2, ExitStep DEF RInv, ArchiveOK

LEMMA KillKeeps ==
  ASSUME RInv, NEW p \in Proc, Kill(p)
  PROVE  RInv'
<1>1. Exit(p) /\ UNCHANGED <<archive, durable, reports, damage>>
  BY DEF Kill
<1>2. CASE pc[p] = "write" /\ written[p] < Files
  <2> DEFINE lines == capture[p].lines
             w == written[p]
  <2>1. lock = p /\ Knows(p) /\ Prepared(p) /\ w \in 0 .. Files
    BY <1>2 DEF RInv, RunOK, Holding, Shapes
  <2>2. /\ scan[p].used \in Nat /\ bytes = scan[p].used + Staged(lines, w)
        /\ scan[p].used + TotalSize(lines) <= Budget /\ Cardinality(lines) \in Nat
    BY <2>1 DEF Knows, Prepared
  <2>3. /\ Staged(lines, w) \in Nat /\ FileSize(lines, w + 1) \in Nat
        /\ Staged(lines, w + 1) = Staged(lines, w) + FileSize(lines, w + 1)
        /\ Staged(lines, w + 1) <= TotalSize(lines)
    BY <1>2, <2>1, <2>2, StagedGrows
  <2>4. PICK part \in 0 .. FileSize(lines, w + 1) : bytes' = bytes + part
    BY <1>2 DEF Kill
  <2>5. TotalSize(lines) \in Int /\ Budget \in Nat
    BY <2>2, RecorderAssumption DEF TotalSize, Files
  <2>6. bytes' \in Nat /\ bytes' <= Budget
    BY <2>2, <2>3, <2>4, <2>5
  <2> QED
    BY <1>1, <2>1, <2>6, ExitStep
<1>3. CASE ~(pc[p] = "write" /\ written[p] < Files)
  BY <1>1, <1>3, ExitStep DEF Kill, RInv, ArchiveOK
<1> QED
  BY <1>2, <1>3

(* The first snapshots of a sound chain are a sound chain.                  *)
LEMMA SoundPrefix ==
  ASSUME NEW a, NEW b, Sound(a), Len(a) \in Nat, NEW n \in 0 .. Len(a),
         Len(b) = n, \A i \in 1 .. n : b[i] = a[i]
  PROVE  Sound(b)
<1> SUFFICES ASSUME NEW i \in 1 .. Len(b)
             PROVE  /\ b[i].number = i
                    /\ b[i].previous = (IF i = 1 THEN Null ELSE Digest(b[i - 1]))
                    /\ b[i].config = b[1].config /\ b[i].files = Files /\ b[i].synced = TRUE
  BY DEF Sound
<1>1. i \in 1 .. Len(a) /\ b[i] = a[i] /\ b[1] = a[1]
  OBVIOUS
<1>2. i # 1 => b[i - 1] = a[i - 1]
  OBVIOUS
<1>3. /\ a[i].number = i
      /\ a[i].previous = (IF i = 1 THEN Null ELSE Digest(a[i - 1]))
      /\ a[i].config = a[1].config /\ a[i].files = Files /\ a[i].synced = TRUE
  BY <1>1 DEF Sound
<1> QED
  BY <1>1, <1>2, <1>3

(* A power loss takes the newest snapshots only, and none that was synced.  *)
LEMMA RootSurvivesKeeps ==
  ASSUME RInv, PowerLoss, RootSurvives
  PROVE  RInv'
<1>1. PICK n \in durable .. Len(archive), names \in {0, Files} :
        /\ archive' = [i \in 1 .. n |-> IF archive[i].synced THEN archive[i]
                                       ELSE [archive[i] EXCEPT !.files = names]]
        /\ durable' = n
  BY DEF RootSurvives
<1>2. Quiet(pc', lock', config', scan', capture', written') /\ UNCHANGED <<bytes, reports, damage>>
  BY DEF PowerLoss, RootSurvives
<1>3. Len(archive) \in Nat /\ durable \in 0 .. Len(archive) /\ n \in Nat
  BY <1>1, SequenceFacts DEF RInv, ArchiveOK
<1>4. IsSequence(archive') /\ Len(archive') = n
  <2> DEFINE T == {archive'[i] : i \in 1 .. n}
  <2>1. archive' \in [1 .. n -> T]
    BY <1>1
  <2> HIDE DEF T
  <2>2. archive' \in Seq(T)
    BY <1>3, <2>1, SeqDef
  <2>3. DOMAIN archive' = 1 .. n /\ DOMAIN archive' = 1 .. Len(archive') /\ Len(archive') \in Nat
    BY <2>1, <2>2, LenProperties
  <2>4. Len(archive') = n
    BY <1>3, <2>3
  <2> QED
    BY <2>2, <2>4 DEF IsSequence
<1>5. ASSUME damage = 0
      PROVE  Sound(archive') /\ \A r \in reports : r.number \in 1 .. durable'
  <2>1. Sound(archive) /\ \A r \in reports : r.number \in 1 .. durable
    BY <1>5 DEF RInv, ArchiveOK
  <2>2. \A i \in 1 .. n : archive'[i] = archive[i]
    BY <1>1, <1>3, <2>1 DEF Sound
  <2>3. Sound(archive')
    BY <1>1, <1>3, <1>4, <2>1, <2>2, SoundPrefix
  <2> QED
    BY <1>1, <1>3, <2>1, <2>3
<1>6. ArchiveOK'
  BY <1>1, <1>2, <1>3, <1>4, <1>5, RecorderAssumption DEF RInv, ArchiveOK
<1>7. Shapes' /\ \A p \in Proc : RunOK(p)'
  BY <1>2 DEF Quiet, Shapes, RunOK, Points, Holding, Files
<1> QED
  BY <1>6, <1>7 DEF RInv

(* Where the directory itself is gone, the chain starts anew.               *)
LEMMA RootVanishesKeeps ==
  ASSUME RInv, PowerLoss, RootVanishes
  PROVE  RInv'
<1>1. /\ Quiet(pc', lock', config', scan', capture', written') /\ damage' = damage
      /\ archive' = <<>> /\ durable' = 0 /\ bytes' = 0 /\ reports' = {}
  BY DEF PowerLoss, RootVanishes
<1>2. IsSequence(<<>>) /\ Len(<<>>) = 0
  BY EmptySeq DEF IsSequence
<1>3. ArchiveOK'
  BY <1>1, <1>2, RecorderAssumption DEF RInv, ArchiveOK, Sound
<1>4. Shapes' /\ \A p \in Proc : RunOK(p)'
  BY <1>1 DEF Quiet, Shapes, RunOK, Points, Holding, Files
<1> QED
  BY <1>3, <1>4 DEF RInv

LEMMA PowerLossKeeps ==
  ASSUME RInv, PowerLoss
  PROVE  RInv'
BY RootSurvivesKeeps, RootVanishesKeeps DEF PowerLoss

(* A change by hand leaves a sequence, which is no longer than before.      *)
LEMMA DamageShrinks ==
  ASSUME RInv, Damage
  PROVE  /\ IsSequence(archive') /\ Len(archive') <= Len(archive) /\ Len(archive') \in Nat
         /\ durable' \in 0 .. Len(archive')
<1>2. PICK i \in 1 .. Len(archive) :
        \/ archive' = [archive EXCEPT ![i].files = Files - 1] /\ UNCHANGED durable
        \/ archive' = [archive EXCEPT ![i].edited = TRUE] /\ UNCHANGED durable
        \/ archive' = RemoveAt(archive, i) /\ durable' = Len(archive) - 1
  BY SequenceFacts DEF Damage, RInv, ArchiveOK
<1>3. Len(archive) \in Nat /\ durable \in 0 .. Len(archive) /\ IsSequence(archive) /\ damage \in Nat
  BY SequenceFacts DEF RInv, ArchiveOK
<1>4. ASSUME NEW x, archive' = [archive EXCEPT ![i] = x]
      PROVE  IsSequence(archive') /\ Len(archive') = Len(archive)
  <2>1. PICK S : archive \in Seq(S)
    BY <1>3 DEF IsSequence
  <2>2. archive \in Seq(S \cup {x}) /\ x \in S \cup {x}
    BY <2>1, SeqMonotonic
  <2>3. archive' \in Seq(S \cup {x}) /\ Len(archive') = Len(archive)
    BY <1>4, <2>2, ExceptSeq
  <2> QED
    BY <2>3 DEF IsSequence
<1> QED
  <2>1. CASE archive' = RemoveAt(archive, i) /\ durable' = Len(archive) - 1
    BY <1>3, <2>1, RemoveFacts
  <2>2. CASE archive' = [archive EXCEPT ![i].files = Files - 1] /\ UNCHANGED durable
    <3> DEFINE x == [archive[i] EXCEPT !.files = Files - 1]
    <3>1. archive' = [archive EXCEPT ![i] = x]
      BY <2>2
    <3> HIDE DEF x
    <3>2. IsSequence(archive') /\ Len(archive') = Len(archive)
      BY <1>4, <3>1
    <3> QED
      BY <1>3, <2>2, <3>2
  <2>3. CASE archive' = [archive EXCEPT ![i].edited = TRUE] /\ UNCHANGED durable
    <3> DEFINE x == [archive[i] EXCEPT !.edited = TRUE]
    <3>1. archive' = [archive EXCEPT ![i] = x]
      BY <2>3
    <3> HIDE DEF x
    <3>2. IsSequence(archive') /\ Len(archive') = Len(archive)
      BY <1>4, <3>1
    <3> QED
      BY <1>3, <2>3, <3>2
  <2> QED
    BY <1>2, <2>1, <2>2, <2>3

(* Nobody holds what it has read of the archive when it is changed by hand. *)
LEMMA DamageKeeps ==
  ASSUME RInv, Damage
  PROVE  RInv'
<1>1. /\ \A p \in Proc : pc[p] \in {"idle", "lock"}
      /\ damage' = damage + 1
      /\ UNCHANGED <<bytes, lock, pc, config, scan, capture, written, reports, faults>>
  BY DEF Damage
<1>3. Len(archive) \in Nat /\ damage \in Nat
  BY SequenceFacts DEF RInv, ArchiveOK
<1>5. /\ IsSequence(archive') /\ Len(archive') <= Len(archive) /\ Len(archive') \in Nat
      /\ durable' \in 0 .. Len(archive')
  BY DamageShrinks
<1>6. damage' # 0 /\ damage' \in Nat
  BY <1>1, <1>3
<1>7. Len(archive') <= MaxSnapshots
  BY <1>3, <1>5, RecorderAssumption DEF RInv, ArchiveOK
<1>8. ArchiveOK'
  BY <1>1, <1>5, <1>6, <1>7 DEF RInv, ArchiveOK
<1>9. Shapes' /\ \A p \in Proc : RunOK(p)'
  BY <1>1, <1>6 DEF RInv, Shapes, RunOK, Holding
<1> QED
  BY <1>8, <1>9 DEF RInv

-----------------------------------------------------------------------------
LEMMA RecorderStep ==
  ASSUME RInv, [Next]_vars
  PROVE  RInv'
<1>1. CASE UNCHANGED vars
  BY <1>1 DEF vars, RInv, Shapes, ArchiveOK, RunOK, Knows, Prepared, LastDigest
<1>2. ASSUME NEW p \in Proc, Start(p) \/ Step(p) \/ Kill(p)
      PROVE  RInv'
  BY <1>2, StartKeeps, LockKeeps, ScanKeeps, FetchFailsKeeps, FetchKeeps, WriteKeeps,
     SyncStagingKeeps, RenameKeeps, SyncRootKeeps, ReportKeeps, KillKeeps DEF Step
<1> QED
  BY <1>1, <1>2, PowerLossKeeps, DamageKeeps DEF Next

LEMMA RecorderInvariant == Spec => []RInv
<1>1. Init => RInv
  <2> SUFFICES ASSUME Init PROVE RInv
    OBVIOUS
  <2>1. Shapes /\ \A p \in Proc : RunOK(p)
    BY DEF Init, Quiet, Shapes, RunOK, Points, Holding, Files
  <2>2. IsSequence(<<>>) /\ Len(<<>>) = 0
    BY EmptySeq DEF IsSequence
  <2>3. ArchiveOK
    BY <2>2, RecorderAssumption DEF Init, ArchiveOK, Sound
  <2> QED
    BY <2>1, <2>3 DEF RInv
<1> QED
  BY <1>1, RecorderStep, PTL DEF Spec

(* An archive that nobody has changed by hand is one the next run accepts:  *)
(* kills, power losses and concurrent runs leave no snapshot half written,  *)
(* unlinked or numbered twice.                                              *)
THEOREM ChainStaysIntact == Spec => []ChainIntact
<1>1. ASSUME RInv PROVE ChainIntact
  <2> SUFFICES ASSUME damage = 0, NEW c \in Configs, archive # <<>>, archive[1].config = c
               PROVE  Verifies(archive, c)
    BY DEF ChainIntact
  <2>1. Sound(archive) /\ DOMAIN archive = 1 .. Len(archive)
    BY <1>1, SequenceFacts DEF RInv, ArchiveOK
  <2> QED
    BY <2>1 DEF Sound, Verifies
<1> QED
  BY <1>1, RecorderInvariant, PTL

(* The archive with the remnants of crashed captures stays in the budget.   *)
THEOREM StorageStaysBounded == Spec => []StorageBounded
<1>1. RInv => StorageBounded
  BY DEF RInv, ArchiveOK, StorageBounded
<1> QED
  BY <1>1, RecorderInvariant, PTL

(* A directory whose name is on disk stays, and nothing else is promised of *)
(* a report that was made in it.                                            *)
RootInv == lost = {} /\ \A r \in reports : r.kept => root = "kept"

LEMMA RootStep ==
  ASSUME RootInv, [Next]_vars
  PROVE  RootInv'
<1>1. CASE UNCHANGED vars
  BY <1>1 DEF vars, RootInv
<1>2. ASSUME NEW p \in Proc, Lock(p) PROVE RootInv'
  BY <1>2 DEF Lock, MakeRoot, RootInv
<1>3. ASSUME NEW p \in Proc, Report(p) PROVE RootInv'
  <2> DEFINE s == capture[p].snapshot
             new == [number |-> s.number, status |-> IF s.warned THEN 2 ELSE 0,
                     kept |-> root = "kept"]
  <2>1. reports' = reports \cup {new} /\ root' = root /\ lost' = lost
    BY <1>3 DEF Report
  <2>2. new.kept <=> root = "kept"
    OBVIOUS
  <2> HIDE DEF new
  <2> QED
    BY <2>1, <2>2 DEF RootInv
<1>4. ASSUME NEW p \in Proc,
             \/ Start(p) \/ Scan(p) \/ FetchFails(p) \/ Fetch(p) \/ Write(p)
             \/ SyncStaging(p) \/ Rename(p) \/ SyncRoot(p) \/ Kill(p)
      PROVE  RootInv'
  <2>1. UNCHANGED <<root, lost, reports>>
    BY <1>4 DEF Start, Scan, FetchFails, Fetch, Write, SyncStaging, Rename, SyncRoot, Kill
  <2> QED
    BY <2>1 DEF RootInv
<1>5. CASE PowerLoss
  <2>1. CASE RootSurvives
    BY <2>1 DEF RootSurvives, RootInv
  <2>2. CASE RootVanishes
    BY <2>2 DEF RootVanishes, RootInv
  <2> QED
    BY <1>5, <2>1, <2>2 DEF PowerLoss
<1>6. CASE Damage
  BY <1>6 DEF Damage, RootInv
<1> QED
  BY <1>1, <1>2, <1>3, <1>4, <1>5, <1>6 DEF Next, Step

(* A reported snapshot survives every kill, and every power loss that the   *)
(* directory survives: one whose own name was on disk when the report was   *)
(* made.  A new directory goes with everything in it or stays with all that *)
(* was reported of it.                                                      *)
THEOREM ReportsAreKept == Spec => []ReportedKept
<1>1. ASSUME RInv, RootInv PROVE ReportedKept
  <2>1. ASSUME damage = 0, NEW r \in reports
        PROVE  r.number \in DOMAIN archive /\ archive[r.number].files = Files
    <3>1. Sound(archive) /\ r.number \in 1 .. durable
      BY <1>1, <2>1 DEF RInv, ArchiveOK
    <3>2. Len(archive) \in Nat /\ DOMAIN archive = 1 .. Len(archive) /\ durable \in 0 .. Len(archive)
      BY <1>1, SequenceFacts DEF RInv, ArchiveOK
    <3>3. r.number \in 1 .. Len(archive)
      BY <3>1, <3>2
    <3> QED
      BY <3>1, <3>2, <3>3 DEF Sound
  <2> QED
    BY <1>1, <2>1 DEF ReportedKept, RootInv
<1>2. Init => RootInv
  BY DEF Init, RootInv
<1> QED
  BY <1>1, <1>2, RootStep, RecorderInvariant, PTL DEF Spec

(* Snapshots are appended to verified archives only, also when two runs     *)
(* are under way or somebody has changed the archive before.                *)
THEOREM OnlyVerifiedExtended == Spec => ExtendsVerified
<1>1. ASSUME RInv, [Next]_vars, Len(archive') > Len(archive)
      PROVE  Verifies(archive, Last(archive').config)
  <2>1. CASE \E p \in Proc : Rename(p)
    BY <1>1, <2>1, RenameKeeps
  <2>2. CASE archive' = archive
    BY <1>1, <2>2, SequenceFacts DEF RInv, ArchiveOK
  <2>3. CASE PowerLoss
    <3>1. Len(archive) \in Nat /\ durable \in 0 .. Len(archive)
      BY <1>1, SequenceFacts DEF RInv, ArchiveOK
    <3>2. PICK n \in 0 .. Len(archive) : DOMAIN archive' = 1 .. n
      <4>1. CASE RootSurvives
        BY <3>1, <4>1 DEF RootSurvives
      <4>2. CASE RootVanishes
        BY <3>1, <4>2 DEF RootVanishes
      <4> QED
        BY <2>3, <4>1, <4>2 DEF PowerLoss
    <3>3. IsSequence(archive')
      BY <1>1, RecorderStep DEF RInv, ArchiveOK
    <3>4. DOMAIN archive' = 1 .. Len(archive') /\ Len(archive') \in Nat
      BY <3>3, SequenceFacts
    <3> QED
      BY <1>1, <3>1, <3>2, <3>4
  <2>4. CASE Damage
    <3>1. Len(archive') <= Len(archive)
      BY <1>1, <2>4, DamageShrinks
    <3>2. Len(archive) \in Nat /\ Len(archive') \in Nat
      BY <1>1, RecorderStep, SequenceFacts DEF RInv, ArchiveOK
    <3> QED
      BY <1>1, <3>1, <3>2
  <2> QED
    BY <1>1, <2>1, <2>2, <2>3, <2>4
    DEF Next, vars, Step, Start, Lock, Scan, FetchFails, Fetch, Write, SyncStaging, SyncRoot,
        Report, Kill
<1>2. RInv /\ [Next]_vars => [Len(archive') > Len(archive) => Verifies(archive, Last(archive').config)]_archive
  BY <1>1
<1> QED
  BY <1>2, RecorderInvariant, PTL DEF Spec, ExtendsVerified

-----------------------------------------------------------------------------
(* What the folds of Merge and Holes compute.  A fold over a finite set is  *)
(* a function on its subsets, and induction over these subsets is induction *)
(* over their size, with a set of numbers in the place of a predicate.      *)

(* Induction over the naturals, for a set of them.                          *)
LEMMA NatSetInduction ==
  ASSUME NEW S, 0 \in S, \A n \in Nat : n \in S => n + 1 \in S
  PROVE  Nat \subseteq S
<1> DEFINE T == Nat \ S
           R == OpToRel(<, Nat)
<1> SUFFICES ASSUME T # {} PROVE FALSE
  OBVIOUS
<1>1. \A x, y \in Nat : x < y => <<x, y>> \in R
  BY DEF OpToRel
<1>2. IsWellFoundedOn(R, Nat)
  BY NatLessThanWellFounded
<1> HIDE DEF R
<1>3. PICK x \in T : \A y \in T : ~ (<<y, x>> \in R)
  BY <1>2, WFMin
<1>4. x # 0 /\ x - 1 \in Nat /\ x - 1 < x
  OBVIOUS
<1>5. x - 1 \in S
  BY <1>1, <1>3, <1>4
<1> QED
  BY <1>4, <1>5

(* Subsets of a finite set, by their size.                                  *)
LEMMA SizeFacts ==
  ASSUME NEW S, IsFiniteSet(S), NEW s \in SUBSET S
  PROVE  /\ IsFiniteSet(s) /\ Cardinality(s) \in Nat /\ Cardinality(s) <= Cardinality(S)
         /\ (Cardinality(s) = 0 <=> s = {})
         /\ \A x \in s : Cardinality(s \ {x}) = Cardinality(s) - 1
BY FS_Subset, FS_CardinalityType, FS_EmptySet, FS_RemoveElement

(* The subsets of S are reached within P, one element at a time.            *)
Grows(P, S) ==
  {} \in P /\ \A s \in (SUBSET S) \ {{}} : \E x \in s : s \ {x} \in P => s \in P

(* Induction over the subsets of a finite set.                              *)
LEMMA SubsetInduction ==
  ASSUME NEW S, IsFiniteSet(S), NEW P, Grows(P, S)
  PROVE  \A s \in SUBSET S : s \in P
<1> DEFINE N == {n \in Nat : \A s \in SUBSET S : Cardinality(s) = n => s \in P}
<1>1. 0 \in N
  BY SizeFacts DEF Grows
<1>2. ASSUME NEW n \in Nat, n \in N
      PROVE  n + 1 \in N
  <2> SUFFICES ASSUME NEW s \in SUBSET S, Cardinality(s) = n + 1
               PROVE  s \in P
    OBVIOUS
  <2>1. s # {}
    BY FS_EmptySet
  <2>2. PICK x \in s : s \ {x} \in P => s \in P
    BY <2>1 DEF Grows
  <2>3. Cardinality(s \ {x}) = n /\ s \ {x} \in SUBSET S
    BY SizeFacts
  <2> QED
    BY <1>2, <2>2, <2>3
<1> HIDE DEF N
<1>3. Nat \subseteq N
  BY <1>1, <1>2, NatSetInduction
<1>4. ASSUME NEW s \in SUBSET S PROVE s \in P
  <2>1. Cardinality(s) \in N
    BY <1>3, SizeFacts
  <2> QED
    BY <2>1 DEF N
<1> QED
  BY <1>4

(* The equations that a fold over the subsets of S solves.                  *)
FoldsBy(g, S, base, pick, step) ==
  \A s \in SUBSET S : g[s] = IF s = {} THEN base ELSE step[<<pick[s], g[s \ {pick[s]}]>>]

(* They have a solution.                                                    *)
LEMMA FoldExists ==
  ASSUME NEW S, IsFiniteSet(S), NEW T, NEW base \in T, NEW pick, NEW step \in [S \X T -> T],
         \A s \in (SUBSET S) \ {{}} : pick[s] \in s
  PROVE  \E g \in [SUBSET S -> T] : FoldsBy(g, S, base, pick, step)
<1> DEFINE Small(n) == {s \in SUBSET S : Cardinality(s) <= n}
           Solves(g, n) == \A s \in Small(n) :
             g[s] = IF s = {} THEN base ELSE step[<<pick[s], g[s \ {pick[s]}]>>]
           N == {n \in Nat : \E g \in [Small(n) -> T] : Solves(g, n)}
<1>1. 0 \in N
  <2> DEFINE g == [s \in Small(0) |-> base]
  <2>1. g \in [Small(0) -> T]
    OBVIOUS
  <2>2. \A s \in Small(0) : s = {}
    BY SizeFacts
  <2>3. Solves(g, 0)
    BY <2>2
  <2> QED
    BY <2>1, <2>3
<1>2. ASSUME NEW n \in Nat, n \in N
      PROVE  n + 1 \in N
  <2>1. PICK g \in [Small(n) -> T] : Solves(g, n)
    BY <1>2
  <2> DEFINE Next1(s) == IF s = {} THEN base ELSE step[<<pick[s], g[s \ {pick[s]}]>>]
             h == [s \in Small(n + 1) |-> Next1(s)]
  <2>2. ASSUME NEW s \in Small(n + 1), s # {}
        PROVE  pick[s] \in S /\ s \ {pick[s]} \in Small(n)
    <3>1. Cardinality(s \ {pick[s]}) = Cardinality(s) - 1 /\ Cardinality(s) \in Nat /\ pick[s] \in s
      BY <2>2, SizeFacts
    <3>2. Cardinality(s) <= n + 1
      OBVIOUS
    <3> QED
      BY <3>1, <3>2
  <2>3. h \in [Small(n + 1) -> T]
    BY <2>1, <2>2
  <2>4. Small(n) \subseteq Small(n + 1)
    BY SizeFacts
  <2>5. \A s \in Small(n) : h[s] = g[s]
    BY <2>1, <2>4
  <2>6. ASSUME NEW s \in Small(n + 1)
        PROVE  h[s] = IF s = {} THEN base ELSE step[<<pick[s], h[s \ {pick[s]}]>>]
    <3>1. h[s] = Next1(s)
      OBVIOUS
    <3>2. s # {} => h[s \ {pick[s]}] = g[s \ {pick[s]}]
      BY <2>2, <2>5
    <3> HIDE DEF h
    <3> QED
      BY <3>1, <3>2
  <2>7. Solves(h, n + 1)
    BY <2>6
  <2> HIDE DEF h
  <2>8. \E x \in [Small(n + 1) -> T] : Solves(x, n + 1)
    BY <2>3, <2>7
  <2>9. n + 1 \in Nat
    OBVIOUS
  <2> HIDE DEF Small, Solves
  <2> QED
    BY <2>8, <2>9
<1> HIDE DEF N
<1>3. Cardinality(S) \in N
  BY <1>1, <1>2, NatSetInduction, FS_CardinalityType
<1>4. Small(Cardinality(S)) = SUBSET S
  BY SizeFacts
<1> QED
  BY <1>3, <1>4 DEF N, FoldsBy

-----------------------------------------------------------------------------
Interval == Nat \X Nat

(* Intervals in order, none of which touches the next.                      *)
Proper(m) ==
  /\ m \in Seq(Interval)
  /\ \A k \in 1 .. Len(m) : m[k][1] <= m[k][2]
  /\ \A k \in 1 .. Len(m) - 1 : m[k][2] + 1 < m[k + 1][1]

LEMMA CoveredMember ==
  ASSUME NEW m \in Seq(Interval), NEW x
  PROVE  x \in Covered(m) <=> x \in Nat /\ \E k \in 1 .. Len(m) : m[k][1] <= x /\ x <= m[k][2]
<1>1. DOMAIN m = 1 .. Len(m) /\ \A k \in 1 .. Len(m) : m[k][1] \in Nat /\ m[k][2] \in Nat
  BY DEF Interval
<1>2. x \in Covered(m) <=> \E k \in 1 .. Len(m) : x \in m[k][1] .. m[k][2]
  BY <1>1 DEF Covered, ToSet
<1> QED
  BY <1>1, <1>2

LEMMA JoinShape ==
  ASSUME NEW m \in Seq(Interval), NEW r \in Interval
  PROVE  /\ Join(r, m) \in Seq(Interval) /\ Join(r, m) # <<>>
         /\ ~Touches(r, m) => Join(r, m) = Append(m, r)
         /\ Touches(r, m) =>
              /\ m # <<>> /\ r[1] <= m[Len(m)][2] + 1 /\ Len(Join(r, m)) = Len(m)
              /\ \A k \in 1 .. Len(m) - 1 : Join(r, m)[k] = m[k]
              /\ Join(r, m)[Len(m)] = <<m[Len(m)][1], IF r[2] > m[Len(m)][2] THEN r[2] ELSE m[Len(m)][2]>>
<1>1. Len(m) \in Nat /\ (m = <<>> <=> Len(m) = 0) /\ (~Touches(r, m) => Join(r, m) = Append(m, r))
  BY DEF Join
<1>2. CASE ~Touches(r, m)
  BY <1>1, <1>2
<1>3. CASE Touches(r, m)
  <2> DEFINE n == Len(m)
             b == IF r[2] > m[n][2] THEN r[2] ELSE m[n][2]
             x == [m[n] EXCEPT ![2] = b]
  <2>1. m # <<>> /\ r[1] <= m[n][2] + 1 /\ n \in 1 .. Len(m)
    BY <1>1, <1>3 DEF Touches, Last
  <2>2. m[n] \in Interval /\ r[2] \in Nat
    BY <2>1 DEF Interval
  <2>3. x = <<m[n][1], b>> /\ x \in Interval
    BY <2>2 DEF Interval
  <2>4. Join(r, m) = [m EXCEPT ![n] = x]
    BY <1>3 DEF Join
  <2> HIDE DEF x, b
  <2>5. Join(r, m) \in Seq(Interval) /\ Len(Join(r, m)) = Len(m) /\ Join(r, m)[n] = x
        /\ \A k \in 1 .. Len(m) - 1 : Join(r, m)[k] = m[k]
    BY <2>1, <2>3, <2>4, <1>1
  <2> QED
    BY <1>1, <1>3, <2>1, <2>3, <2>5 DEF b
<1> QED
  BY <1>2, <1>3

(* Joining an interval that does not start before the last one adds what it *)
(* covers and leaves the intervals in order and apart.                      *)
LEMMA JoinOK ==
  ASSUME NEW m, Proper(m), NEW r \in Interval, r[1] <= r[2],
         m # <<>> => Last(m)[1] <= r[1]
  PROVE  /\ Proper(Join(r, m)) /\ Join(r, m) # <<>> /\ Last(Join(r, m))[1] <= r[1]
         /\ Covered(Join(r, m)) = Covered(m) \cup (r[1] .. r[2])
<1> DEFINE n == Len(m)
           j == Join(r, m)
<1>1. m \in Seq(Interval) /\ n \in Nat /\ (m = <<>> <=> n = 0) /\ r[1] \in Nat /\ r[2] \in Nat
      /\ \A k \in 1 .. n : m[k] \in Interval /\ m[k][1] \in Nat /\ m[k][2] \in Nat
  BY DEF Proper, Interval
<1>2. j \in Seq(Interval) /\ j # <<>>
  BY <1>1, JoinShape
<1>3. \A k \in 1 .. n : m[k][1] <= m[k][2]
  BY DEF Proper
<1>4. \A k \in 1 .. n - 1 : m[k][2] + 1 < m[k + 1][1]
  BY DEF Proper
<1>5. n # 0 => m[n][1] <= r[1]
  BY <1>1 DEF Last
<1>6. CASE ~Touches(r, m)
  <2>1. j = Append(m, r)
    BY <1>1, <1>6, JoinShape
  <2>2. Len(j) = n + 1 /\ j[n + 1] = r /\ \A k \in 1 .. n : j[k] = m[k]
    BY <1>1, <2>1
  <2>3. n # 0 => m[n][2] + 1 < r[1]
    BY <1>1, <1>6 DEF Touches, Last
  <2> HIDE DEF j, n
  <2>4. \A k \in 1 .. Len(j) : j[k][1] <= j[k][2]
    <3> SUFFICES ASSUME NEW k \in 1 .. n + 1 PROVE j[k][1] <= j[k][2]
      BY <2>2
    <3>1. CASE k = n + 1
      BY <2>2, <3>1
    <3>2. CASE k \in 1 .. n
      BY <1>3, <2>2, <3>2
    <3> QED
      BY <1>1, <3>1, <3>2
  <2>5. \A k \in 1 .. Len(j) - 1 : j[k][2] + 1 < j[k + 1][1]
    <3> SUFFICES ASSUME NEW k \in 1 .. n PROVE j[k][2] + 1 < j[k + 1][1]
      BY <1>1, <2>2
    <3>1. CASE k = n
      BY <1>1, <2>2, <2>3, <3>1
    <3>2. CASE k \in 1 .. n - 1
      <4>1. k + 1 \in 1 .. n
        BY <1>1, <3>2
      <4> QED
        BY <1>4, <2>2, <3>2, <4>1
    <3> QED
      BY <1>1, <3>1, <3>2
  <2>6. ASSUME NEW x
        PROVE  x \in Covered(j) <=> x \in Covered(m) \cup (r[1] .. r[2])
    <3>1. x \in Covered(j) <=> x \in Nat /\ \E k \in 1 .. n + 1 : j[k][1] <= x /\ x <= j[k][2]
      BY <1>2, <2>2, CoveredMember
    <3>2. x \in Covered(m) <=> x \in Nat /\ \E k \in 1 .. n : m[k][1] <= x /\ x <= m[k][2]
      BY <1>1, CoveredMember DEF n
    <3>3. (\E k \in 1 .. n + 1 : j[k][1] <= x /\ x <= j[k][2])
          <=> \/ \E k \in 1 .. n : m[k][1] <= x /\ x <= m[k][2]
              \/ r[1] <= x /\ x <= r[2]
      <4>1. 1 .. n + 1 = (1 .. n) \cup {n + 1}
        BY <1>1
      <4> QED
        BY <2>2, <4>1
    <3>4. x \in r[1] .. r[2] <=> x \in Nat /\ r[1] <= x /\ x <= r[2]
      BY <1>1
    <3> QED
      BY <3>1, <3>2, <3>3, <3>4
  <2>7. Last(j)[1] <= r[1]
    BY <1>1, <2>2 DEF Last
  <2> QED
    BY <1>2, <2>4, <2>5, <2>6, <2>7 DEF Proper, j
<1>7. CASE Touches(r, m)
  <2> DEFINE b == IF r[2] > m[n][2] THEN r[2] ELSE m[n][2]
  <2>1. /\ n # 0 /\ r[1] <= m[n][2] + 1 /\ Len(j) = n
        /\ \A k \in 1 .. n - 1 : j[k] = m[k]
        /\ j[n] = <<m[n][1], b>>
    BY <1>1, <1>7, JoinShape
  <2>2. n \in 1 .. n /\ m[n][1] \in Nat /\ m[n][2] \in Nat /\ b \in Nat
        /\ m[n][1] <= r[1] /\ m[n][1] <= m[n][2]
    BY <1>1, <1>3, <1>5, <2>1
  <2>3. j[n][1] = m[n][1] /\ j[n][2] = b
    BY <2>1
  <2>4. b >= m[n][2] /\ b >= r[2] /\ (b = r[2] \/ b = m[n][2])
    BY <1>1, <2>2
  <2> HIDE DEF j, n, b
  <2>5. \A k \in 1 .. Len(j) : j[k][1] <= j[k][2]
    <3> SUFFICES ASSUME NEW k \in 1 .. n PROVE j[k][1] <= j[k][2]
      BY <2>1
    <3>1. CASE k = n
      BY <2>2, <2>3, <2>4, <3>1
    <3>2. CASE k \in 1 .. n - 1
      BY <1>1, <1>3, <2>1, <3>2
    <3> QED
      BY <1>1, <3>1, <3>2
  <2>6. \A k \in 1 .. Len(j) - 1 : j[k][2] + 1 < j[k + 1][1]
    <3> SUFFICES ASSUME NEW k \in 1 .. n - 1 PROVE j[k][2] + 1 < j[k + 1][1]
      BY <1>1, <2>1
    <3>1. j[k] = m[k] /\ m[k][2] + 1 < m[k + 1][1]
      BY <1>4, <2>1
    <3>2. CASE k + 1 = n
      BY <2>3, <3>1, <3>2
    <3>3. CASE k + 1 \in 1 .. n - 1
      BY <2>1, <3>1, <3>3
    <3> QED
      BY <1>1, <3>2, <3>3
  <2>7. ASSUME NEW x
        PROVE  x \in Covered(j) <=> x \in Covered(m) \cup (r[1] .. r[2])
    <3>1. x \in Covered(j) <=> x \in Nat /\ \E k \in 1 .. n : j[k][1] <= x /\ x <= j[k][2]
      BY <1>2, <2>1, CoveredMember
    <3>2. x \in Covered(m) <=> x \in Nat /\ \E k \in 1 .. n : m[k][1] <= x /\ x <= m[k][2]
      BY <1>1, CoveredMember DEF n
    <3>3. 1 .. n = (1 .. n - 1) \cup {n}
      BY <1>1, <2>1
    <3>4. (\E k \in 1 .. n : j[k][1] <= x /\ x <= j[k][2])
          <=> \/ \E k \in 1 .. n - 1 : m[k][1] <= x /\ x <= m[k][2]
              \/ m[n][1] <= x /\ x <= b
      BY <2>1, <2>3, <3>3
    <3>5. (\E k \in 1 .. n : m[k][1] <= x /\ x <= m[k][2])
          <=> \/ \E k \in 1 .. n - 1 : m[k][1] <= x /\ x <= m[k][2]
              \/ m[n][1] <= x /\ x <= m[n][2]
      BY <3>3
    <3>6. x \in r[1] .. r[2] <=> x \in Nat /\ r[1] <= x /\ x <= r[2]
      BY <1>1
    <3>7. ASSUME x \in Nat
          PROVE  m[n][1] <= x /\ x <= b
                 <=> (m[n][1] <= x /\ x <= m[n][2]) \/ (r[1] <= x /\ x <= r[2])
      BY <1>1, <2>1, <2>2, <2>4, <3>7
    <3> QED
      BY <3>1, <3>2, <3>4, <3>5, <3>6, <3>7
  <2>8. Last(j)[1] <= r[1]
    BY <2>1, <2>2, <2>3 DEF Last
  <2> QED
    BY <1>2, <2>5, <2>6, <2>7, <2>8 DEF Proper, j
<1> QED
  BY <1>6, <1>7

(* An interval whose bounds come after those of all others.                 *)
LEMMA LatestChosen ==
  ASSUME NEW S \in SUBSET Interval, IsFiniteSet(S), NEW s \in SUBSET S, s # {}
  PROVE  Latest(s) \in s /\ \A q \in s : q[1] <= Latest(s)[1]
<1> DEFINE After(r, q) == q[1] < r[1] \/ (q[1] = r[1] /\ q[2] <= r[2])
           P == {t \in SUBSET S : t # {} => \E r \in t : \A q \in t : After(r, q)}
<1>1. \A q \in Interval : q[1] \in Nat /\ q[2] \in Nat
  BY DEF Interval
<1>2. ASSUME NEW t \in SUBSET S, NEW x \in t, t \ {x} \in P
      PROVE  t \in P
  <2>1. CASE t \ {x} = {}
    <3>1. \A q \in t : After(x, q)
      BY <1>1, <2>1
    <3> QED
      BY <3>1
  <2>2. CASE t \ {x} # {}
    <3>1. PICK r \in t \ {x} : \A q \in t \ {x} : After(r, q)
      BY <1>2, <2>2
    <3>2. CASE After(r, x)
      <4>1. \A q \in t : After(r, q)
        BY <3>1, <3>2
      <4> HIDE DEF After
      <4> QED
        BY <4>1
    <3>3. CASE ~After(r, x)
      <4>1. After(x, r) /\ After(x, x)
        BY <1>1, <3>3
      <4>2. \A q \in t \ {x} : After(x, q)
        BY <1>1, <3>1, <4>1
      <4>3. \A q \in t : After(x, q)
        BY <4>1, <4>2
      <4> HIDE DEF After
      <4> QED
        BY <4>3
    <3> QED
      BY <3>2, <3>3
  <2> QED
    BY <2>1, <2>2
<1>3. \A t \in (SUBSET S) \ {{}} : \E x \in t : t \ {x} \in P => t \in P
  BY <1>2
<1>4. {} \in P
  OBVIOUS
<1> HIDE DEF P
<1>5. s \in P
  BY <1>3, <1>4, SubsetInduction DEF Grows
<1>6. \E r \in s : \A q \in s : After(r, q)
  BY <1>5 DEF P
<1>7. Latest(s) \in s /\ \A q \in s : After(Latest(s), q)
  BY <1>6 DEF Latest
<1>8. \A q \in s : q[1] \in Nat /\ Latest(s)[1] \in Nat
  BY <1>1, <1>7
<1> QED
  BY <1>7, <1>8

(* The fold of Merge, as equations.                                         *)
LEMMA MergeUnfolds ==
  ASSUME NEW S \in SUBSET Interval, IsFiniteSet(S)
  PROVE  \E g \in [SUBSET S -> Seq(Interval)] :
           /\ Merge(S) = g[S] /\ g[{}] = <<>>
           /\ \A s \in (SUBSET S) \ {{}} : g[s] = Join(Latest(s), g[s \ {Latest(s)}])
<1> DEFINE T == Seq(Interval)
           step == [x \in S \X T |-> Join(x[1], x[2])]
           pick == [s \in SUBSET S |-> Latest(s)]
           Eq(g) == g = [s \in SUBSET S |-> IF s = {} THEN <<>>
                                           ELSE Join(Latest(s), g[s \ {Latest(s)}])]
<1>1. step \in [S \X T -> T]
  <2>1. ASSUME NEW x \in S \X T PROVE Join(x[1], x[2]) \in T
    BY JoinShape
  <2> QED
    BY <2>1
<1>2. \A s \in (SUBSET S) \ {{}} : Latest(s) \in s /\ pick[s] = Latest(s)
  BY LatestChosen
<1>3. <<>> \in T
  OBVIOUS
<1>4. \E g : Eq(g)
  <2>1. PICK g \in [SUBSET S -> T] : FoldsBy(g, S, <<>>, pick, step)
    <3>1. \A s \in (SUBSET S) \ {{}} : pick[s] \in s
      BY <1>2
    <3> HIDE DEF step, pick, T
    <3> QED
      BY <1>1, <1>3, <3>1, FoldExists
  <2>2. ASSUME NEW s \in SUBSET S
        PROVE  g[s] = IF s = {} THEN <<>> ELSE Join(Latest(s), g[s \ {Latest(s)}])
    <3>1. CASE s # {}
      <4>1. <<Latest(s), g[s \ {Latest(s)}]>> \in S \X T
        BY <1>2, <3>1
      <4> QED
        BY <1>2, <2>1, <3>1, <4>1 DEF FoldsBy
    <3> QED
      BY <2>1, <3>1 DEF FoldsBy
  <2>3. Eq(g)
    BY <2>2
  <2> QED
    BY <2>3
<1> DEFINE h == CHOOSE h : Eq(h)
<1>5. Eq(h)
  <2> HIDE DEF Eq
  <2> QED
    BY <1>4
<1>6. Merge(S) = h[S]
  BY DEF Merge, MapThenFoldSet
<1> HIDE DEF h
<1>7. \A s \in SUBSET S : h[s] = IF s = {} THEN <<>> ELSE Join(Latest(s), h[s \ {Latest(s)}])
  BY <1>5
<1>8. DOMAIN h = SUBSET S
  BY <1>5
<1> DEFINE P == {s \in SUBSET S : h[s] \in T}
<1>9. {} \in P
  BY <1>3, <1>7
<1>10. ASSUME NEW s \in (SUBSET S) \ {{}}, s \ {Latest(s)} \in P PROVE s \in P
  <2>1. Latest(s) \in Interval /\ h[s \ {Latest(s)}] \in T
    BY <1>2, <1>10
  <2>2. h[s] = Join(Latest(s), h[s \ {Latest(s)}])
    BY <1>7
  <2>3. h[s] \in T
    BY <2>1, <2>2, JoinShape
  <2> QED
    BY <2>3
<1> HIDE DEF P
<1>11. \A s \in (SUBSET S) \ {{}} : \E x \in s : s \ {x} \in P => s \in P
  BY <1>2, <1>10
<1>12. ASSUME NEW s \in SUBSET S PROVE s \in P
  BY <1>9, <1>11, SubsetInduction DEF Grows
<1>13. h \in [SUBSET S -> T]
  <2>1. \A s \in SUBSET S : h[s] \in T
    BY <1>12 DEF P
  <2>2. h = [s \in SUBSET S |-> h[s]]
    BY <1>5
  <2> QED
    BY <2>1, <2>2
<1> QED
  BY <1>6, <1>7, <1>13

LEMMA EmptyCovered == Proper(<<>>) /\ Covered(<<>>) = {}
BY DEF Proper, Covered, ToSet

(* Merged intervals are in order and apart and cover what they covered.     *)
LEMMA MergeOK ==
  ASSUME NEW S \in SUBSET Interval, IsFiniteSet(S), \A r \in S : r[1] <= r[2]
  PROVE  /\ Proper(Merge(S)) /\ Covered(Merge(S)) = UNION {r[1] .. r[2] : r \in S}
         /\ S # {} => Merge(S) # <<>>
<1>1. PICK g \in [SUBSET S -> Seq(Interval)] :
        /\ Merge(S) = g[S] /\ g[{}] = <<>>
        /\ \A s \in (SUBSET S) \ {{}} : g[s] = Join(Latest(s), g[s \ {Latest(s)}])
  BY MergeUnfolds
<1> DEFINE All(s) == UNION {r[1] .. r[2] : r \in s}
           Starts(s) == s # {} => g[s] # <<>> /\ \E q \in s : Last(g[s])[1] <= q[1]
           P == {s \in SUBSET S : Proper(g[s]) /\ Covered(g[s]) = All(s) /\ Starts(s)}
<1>2. {} \in P
  <2>1. Proper(g[{}]) /\ Covered(g[{}]) = All({})
    BY <1>1, EmptyCovered
  <2> QED
    BY <2>1
<1>3. ASSUME NEW s \in (SUBSET S) \ {{}}, s \ {Latest(s)} \in P
      PROVE  s \in P
  <2> DEFINE r == Latest(s)
             m == g[s \ {r}]
  <2>1. r \in s /\ \A q \in s : q[1] <= r[1]
    BY LatestChosen
  <2>2. r \in Interval /\ r[1] <= r[2]
    BY <2>1
  <2>3. Proper(m) /\ Covered(m) = All(s \ {r}) /\ Starts(s \ {r})
    BY <1>3
  <2>4. m # <<>> => Last(m)[1] <= r[1]
    <3> SUFFICES ASSUME m # <<>> PROVE Last(m)[1] <= r[1]
      OBVIOUS
    <3>1. s \ {r} # {}
      BY <1>1
    <3>2. PICK q \in s \ {r} : Last(m)[1] <= q[1]
      BY <2>3, <3>1
    <3>3. q \in Interval /\ q[1] \in Nat /\ r[1] \in Nat /\ q[1] <= r[1]
      BY <2>1, <2>2 DEF Interval
    <3>4. Last(m)[1] \in Nat
      <4>1. m \in Seq(Interval) /\ Len(m) \in 1 .. Len(m)
        BY <2>3, EmptySeq, LenProperties DEF Proper
      <4>2. m[Len(m)] \in Interval
        BY <4>1
      <4> QED
        BY <4>2 DEF Last, Interval
    <3> QED
      BY <3>2, <3>3, <3>4
  <2>5. g[s] = Join(r, m)
    BY <1>1
  <2> HIDE DEF r, m
  <2>6. /\ Proper(g[s]) /\ g[s] # <<>> /\ Last(g[s])[1] <= r[1]
        /\ Covered(g[s]) = Covered(m) \cup (r[1] .. r[2])
    BY <2>2, <2>3, <2>4, <2>5, JoinOK
  <2>7. All(s) = All(s \ {r}) \cup (r[1] .. r[2])
    BY <2>1
  <2> QED
    BY <2>1, <2>3, <2>6, <2>7
<1>4. Grows(P, S)
  BY <1>2, <1>3, LatestChosen DEF Grows
<1> HIDE DEF P
<1>5. S \in P
  BY <1>4, SubsetInduction
<1> QED
  BY <1>1, <1>5 DEF P

(* The greatest of finitely many numbers.                                   *)
LEMMA MaxChosen ==
  ASSUME NEW S \in SUBSET Nat, IsFiniteSet(S), S # {}
  PROVE  Max(S) \in S /\ \A y \in S : y <= Max(S)
<1> DEFINE P == {s \in SUBSET S : s # {} => \E x \in s : \A y \in s : x >= y}
<1>1. ASSUME NEW s \in SUBSET S, NEW x \in s, s \ {x} \in P
      PROVE  s \in P
  <2>1. CASE s \ {x} = {}
    <3>1. \A y \in s : x >= y
      BY <2>1
    <3> QED
      BY <3>1
  <2>2. CASE s \ {x} # {}
    <3>1. PICK z \in s \ {x} : \A y \in s \ {x} : z >= y
      BY <1>1, <2>2
    <3>2. CASE z >= x
      <4>1. \A y \in s : z >= y
        BY <3>1, <3>2
      <4> QED
        BY <4>1
    <3>3. CASE ~(z >= x)
      <4>1. \A y \in s : x >= y
        BY <3>1, <3>3
      <4> QED
        BY <4>1
    <3> QED
      BY <3>2, <3>3
  <2> QED
    BY <2>1, <2>2
<1>2. Grows(P, S)
  BY <1>1 DEF Grows
<1> HIDE DEF P
<1>3. S \in P
  BY <1>2, SubsetInduction
<1>4. \E x \in S : \A y \in S : x >= y
  BY <1>3 DEF P
<1> QED
  BY <1>4 DEF Max

Accumulators == [cursor : Nat, found : Seq(Interval)]

LEMMA PassTyped ==
  ASSUME NEW acc \in Accumulators, NEW r \in Interval
  PROVE  Pass(acc, r) \in Accumulators
<1>1. r[1] \in Nat /\ r[2] \in Nat /\ acc.cursor \in Nat /\ acc.found \in Seq(Interval)
  BY DEF Interval, Accumulators
<1>2. r[1] > acc.cursor => <<acc.cursor, r[1] - 1>> \in Interval
  BY <1>1 DEF Interval
<1> QED
  BY <1>1, <1>2 DEF Pass, Accumulators

(* The fold of Holes, as equations.                                         *)
LEMMA HolesUnfold ==
  ASSUME NEW m \in Seq(Interval), NEW base \in Accumulators
  PROVE  \E g : /\ FoldLeft(Pass, base, m) = g[Len(m)] /\ g[0] = base
                /\ \A i \in 1 .. Len(m) : g[i] = Pass(g[i - 1], m[i])
<1> DEFINE n == Len(m)
           S == 1 .. n
           A == Accumulators
           step == [x \in S \X A |-> Pass(x[2], m[x[1]])]
           pick == [s \in SUBSET S |-> Max(s)]
           Eq(g) == g = [s \in SUBSET S |-> IF s = {} THEN base
                                           ELSE Pass(g[s \ {Max(s)}], m[Max(s)])]
<1>1. n \in Nat /\ DOMAIN m = S /\ IsFiniteSet(S) /\ \A i \in S : m[i] \in Interval
  BY FS_Interval
<1>2. step \in [S \X A -> A]
  BY <1>1, PassTyped
<1>3. \A s \in (SUBSET S) \ {{}} : Max(s) \in s
  <2> SUFFICES ASSUME NEW s \in (SUBSET S) \ {{}} PROVE Max(s) \in s
    OBVIOUS
  <2>1. IsFiniteSet(s)
    <3> HIDE DEF S
    <3> QED
      BY <1>1, FS_Subset
  <2>2. s \in SUBSET Nat
    BY <1>1
  <2> QED
    BY <2>1, <2>2, MaxChosen
<1>4. \E g : Eq(g)
  <2>1. PICK g \in [SUBSET S -> A] : FoldsBy(g, S, base, pick, step)
    <3>1. \A s \in (SUBSET S) \ {{}} : pick[s] \in s
      BY <1>3
    <3> HIDE DEF step, pick, A, S
    <3> QED
      BY <1>1, <1>2, <3>1, FoldExists DEF A
  <2>2. ASSUME NEW s \in SUBSET S
        PROVE  g[s] = IF s = {} THEN base ELSE Pass(g[s \ {Max(s)}], m[Max(s)])
    <3>1. CASE s # {}
      <4>1. <<Max(s), g[s \ {Max(s)}]>> \in S \X A
        BY <1>3, <3>1
      <4> QED
        BY <1>3, <2>1, <3>1, <4>1 DEF FoldsBy
    <3> QED
      BY <2>1, <3>1 DEF FoldsBy
  <2>3. Eq(g)
    BY <2>2
  <2> QED
    BY <2>3
<1> DEFINE h == CHOOSE h : Eq(h)
<1>5. Eq(h)
  <2> HIDE DEF Eq
  <2> QED
    BY <1>4
<1>6. FoldLeft(Pass, base, m) = h[S]
  BY <1>1 DEF FoldLeft, MapThenFoldSet
<1> HIDE DEF h
<1>7. \A s \in SUBSET S : h[s] = IF s = {} THEN base ELSE Pass(h[s \ {Max(s)}], m[Max(s)])
  BY <1>5
<1> DEFINE g == [i \in 0 .. n |-> h[1 .. i]]
<1>8. g[0] = base /\ g[n] = h[S]
  <2>1. 1 .. 0 = {} /\ {} \in SUBSET S /\ 0 \in 0 .. n /\ n \in 0 .. n
    BY <1>1
  <2>2. h[{}] = base
    BY <1>7, <2>1
  <2> QED
    BY <2>1, <2>2
<1>9. ASSUME NEW i \in 1 .. n
      PROVE  g[i] = Pass(g[i - 1], m[i])
  <2>1. Max(1 .. i) = i
    BY <1>1 DEF Max
  <2>2. 1 .. i \in SUBSET S /\ 1 .. i # {} /\ (1 .. i) \ {i} = 1 .. i - 1
    BY <1>1
  <2>3. g[i] = h[1 .. i] /\ g[i - 1] = h[1 .. i - 1]
    BY <1>1
  <2> HIDE DEF g
  <2> QED
    BY <1>7, <2>1, <2>2, <2>3
<1> HIDE DEF g
<1> QED
  BY <1>6, <1>8, <1>9

(* An interval beyond the cursor adds the hole before it.                   *)
LEMMA PassOK ==
  ASSUME NEW acc \in Accumulators, Proper(acc.found),
         acc.found # <<>> => Last(acc.found)[2] + 1 < acc.cursor,
         NEW r \in Interval, acc.cursor <= r[1], r[1] <= r[2]
  PROVE  LET new == Pass(acc, r)
         IN  /\ new \in Accumulators /\ new.cursor = r[2] + 1 /\ Proper(new.found)
             /\ new.found # <<>> => Last(new.found)[2] + 1 < new.cursor
             /\ Covered(new.found) = Covered(acc.found) \cup (acc.cursor .. r[1] - 1)
<1> DEFINE new == Pass(acc, r)
           f == acc.found
           c == acc.cursor
           x == <<c, r[1] - 1>>
<1>1. r[1] \in Nat /\ r[2] \in Nat /\ c \in Nat /\ f \in Seq(Interval)
  BY DEF Interval, Accumulators
<1>2. new \in Accumulators /\ new.cursor = r[2] + 1
      /\ new.found = IF r[1] > c THEN Append(f, x) ELSE f
  BY <1>1, PassTyped DEF Pass
<1>3. CASE r[1] > c
  <2>1. x \in Interval /\ x[1] = c /\ x[2] = r[1] - 1 /\ x[1] <= x[2]
    BY <1>1, <1>3 DEF Interval
  <2>2. f # <<>> => Last(f)[1] <= x[1]
    <3> SUFFICES ASSUME f # <<>> PROVE Last(f)[1] <= x[1]
      OBVIOUS
    <3>1. Len(f) \in 1 .. Len(f)
      BY <1>1, EmptySeq, LenProperties
    <3>2. Last(f) \in Interval /\ Last(f)[1] <= Last(f)[2]
      BY <1>1, <3>1 DEF Proper, Last
    <3>3. Last(f)[1] \in Nat /\ Last(f)[2] \in Nat /\ Last(f)[2] + 1 < c
      BY <3>2 DEF Interval
    <3> QED
      BY <1>1, <2>1, <3>2, <3>3
  <2>3. ~Touches(x, f)
    <3> SUFFICES ASSUME f # <<>> PROVE ~(x[1] <= Last(f)[2] + 1)
      BY DEF Touches
    <3>1. Len(f) \in 1 .. Len(f)
      BY <1>1, EmptySeq, LenProperties
    <3>2. Last(f) \in Interval
      BY <1>1, <3>1 DEF Last
    <3>3. Last(f)[2] \in Nat /\ Last(f)[2] + 1 < c
      BY <3>2 DEF Interval
    <3> QED
      BY <1>1, <2>1, <3>3
  <2>4. new.found = Join(x, f) /\ new.found = Append(f, x)
    BY <1>2, <1>3, <2>3 DEF Join
  <2>5. Last(new.found) = x
    BY <1>1, <2>1, <2>4 DEF Last
  <2> HIDE DEF new, x, f, c
  <2>6. Proper(new.found) /\ Covered(new.found) = Covered(f) \cup (x[1] .. x[2])
    BY <2>1, <2>2, <2>4, JoinOK DEF f
  <2>7. Last(new.found)[2] + 1 < new.cursor
    BY <1>1, <1>2, <2>1, <2>5
  <2>8. x[1] .. x[2] = c .. r[1] - 1
    BY <2>1
  <2> QED
    BY <1>2, <2>6, <2>7, <2>8 DEF new, f, c
<1>4. CASE ~(r[1] > c)
  <2>1. new.found = f /\ c .. r[1] - 1 = {} /\ r[1] = c
    BY <1>1, <1>2, <1>4
  <2>2. f # <<>> => Last(f)[2] + 1 < new.cursor
    <3> SUFFICES ASSUME f # <<>> PROVE Last(f)[2] + 1 < new.cursor
      OBVIOUS
    <3>1. Len(f) \in 1 .. Len(f)
      BY <1>1, EmptySeq, LenProperties
    <3>2. Last(f) \in Interval
      BY <1>1, <3>1 DEF Last
    <3>3. Last(f)[2] \in Nat /\ Last(f)[2] + 1 < c
      BY <3>2 DEF Interval
    <3> QED
      BY <1>1, <1>2, <2>1, <3>3
  <2> QED
    BY <1>2, <2>1, <2>2
<1> QED
  BY <1>3, <1>4

Top(m, after) == IF m = <<>> THEN after ELSE Last(m)[2]

(* The holes of intervals that start beyond after are what they lack up to  *)
(* the end of the last one.                                                 *)
LEMMA HolesOK ==
  ASSUME NEW m, Proper(m), NEW after \in Nat, \A x \in Covered(m) : x > after
  PROVE  /\ Proper(Holes(m, after))
         /\ Covered(Holes(m, after)) = (after + 1 .. Top(m, after)) \ Covered(m)
         /\ \A x \in Covered(m) : x <= Top(m, after)
         /\ m # <<>> => Top(m, after) \in Covered(m)
         /\ Top(m, after) \in Nat
<1> DEFINE n == Len(m)
           base == [cursor |-> after + 1, found |-> <<>>]
           End(i) == IF i = 0 THEN after ELSE m[i][2]
           In(x, i) == \E k \in 1 .. i : m[k][1] <= x /\ x <= m[k][2]
<1>1. m \in Seq(Interval) /\ n \in Nat /\ (m = <<>> <=> n = 0)
      /\ \A k \in 1 .. n : m[k] \in Interval /\ m[k][1] \in Nat /\ m[k][2] \in Nat
                           /\ m[k][1] <= m[k][2]
  BY DEF Proper, Interval
<1>2. \A k \in 1 .. n : m[k][1] > after
  <2> SUFFICES ASSUME NEW k \in 1 .. n PROVE m[k][1] > after
    OBVIOUS
  <2>1. m[k][1] \in Covered(m)
    BY <1>1, CoveredMember
  <2> QED
    BY <2>1
<1>3. \A k \in 1 .. n - 1 : m[k][2] + 1 < m[k + 1][1]
  BY DEF Proper
<1>4. base \in Accumulators
  BY DEF Accumulators
<1>5. PICK g : /\ FoldLeft(Pass, base, m) = g[n] /\ g[0] = base
               /\ \A i \in 1 .. n : g[i] = Pass(g[i - 1], m[i])
  BY <1>1, <1>4, HolesUnfold
<1> DEFINE OK(i) ==
             /\ g[i] \in Accumulators /\ g[i].cursor = End(i) + 1 /\ Proper(g[i].found)
             /\ g[i].found # <<>> => Last(g[i].found)[2] + 1 < g[i].cursor
             /\ \A x \in Nat : x \in Covered(g[i].found) <=> after < x /\ x <= End(i) /\ ~In(x, i)
             /\ \A x \in Nat : In(x, i) => x <= End(i)
           S == {i \in Nat : i <= n => OK(i)}
<1>6. 0 \in S
  <2>1. g[0] = base /\ base.cursor = after + 1 /\ base.found = <<>> /\ End(0) = after
    BY <1>5
  <2>2. \A x \in Nat : ~In(x, 0) /\ ~(after < x /\ x <= after)
    OBVIOUS
  <2> HIDE DEF In, End
  <2>3. OK(0)
    BY <1>4, <2>1, <2>2, EmptyCovered
  <2> QED
    BY <2>3
<1>7. ASSUME NEW i \in Nat, i \in S
      PROVE  i + 1 \in S
  <2> SUFFICES ASSUME i + 1 <= n PROVE OK(i + 1)
    OBVIOUS
  <2> DEFINE r == m[i + 1]
             acc == g[i]
             new == g[i + 1]
  <2>1. OK(i)
    BY <1>1, <1>7
  <2>2. i + 1 \in 1 .. n /\ (i + 1) - 1 = i
    BY <1>1
  <2>3. r \in Interval /\ r[1] \in Nat /\ r[2] \in Nat /\ r[1] <= r[2] /\ r[1] > after
    BY <1>1, <1>2, <2>2
  <2>4. new = Pass(acc, r)
    BY <1>5, <2>2
  <2>5. End(i) < r[1] /\ End(i) \in Nat /\ End(i) >= after
    <3>1. CASE i = 0
      BY <2>3, <3>1
    <3>2. CASE i # 0
      <4>1. i \in 1 .. n - 1
        BY <1>1, <3>2
      <4> QED
        BY <1>1, <1>2, <1>3, <2>3, <3>2, <4>1
    <3> QED
      BY <3>1, <3>2
  <2>6. End(i + 1) = r[2]
    OBVIOUS
  <2>7. \A x \in Nat : In(x, i + 1) <=> In(x, i) \/ (r[1] <= x /\ x <= r[2])
    <3>1. 1 .. i + 1 = (1 .. i) \cup {i + 1}
      OBVIOUS
    <3> QED
      BY <3>1
  <2> HIDE DEF In, End, r, acc, new
  <2>8. acc \in Accumulators /\ acc.cursor = End(i) + 1 /\ Proper(acc.found)
        /\ (acc.found # <<>> => Last(acc.found)[2] + 1 < acc.cursor)
    BY <2>1 DEF acc
  <2>9. acc.cursor <= r[1]
    BY <2>3, <2>5, <2>8
  <2>10. /\ new \in Accumulators /\ new.cursor = r[2] + 1 /\ Proper(new.found)
         /\ new.found # <<>> => Last(new.found)[2] + 1 < new.cursor
         /\ Covered(new.found) = Covered(acc.found) \cup (acc.cursor .. r[1] - 1)
    BY <2>3, <2>4, <2>8, <2>9, PassOK
  <2>11. ASSUME NEW x \in Nat
         PROVE  x \in Covered(new.found) <=> after < x /\ x <= End(i + 1) /\ ~In(x, i + 1)
    <3>1. x \in Covered(acc.found) <=> after < x /\ x <= End(i) /\ ~In(x, i)
      BY <2>1 DEF acc
    <3>2. x \in acc.cursor .. r[1] - 1 <=> End(i) < x /\ x < r[1]
      BY <2>3, <2>5, <2>8
    <3>3. In(x, i) => x <= End(i)
      BY <2>1
    <3> QED
      BY <2>3, <2>5, <2>6, <2>7, <2>10, <3>1, <3>2, <3>3
  <2>12. ASSUME NEW x \in Nat, In(x, i + 1) PROVE x <= End(i + 1)
    BY <2>1, <2>3, <2>5, <2>6, <2>7, <2>12
  <2> QED
    BY <2>6, <2>10, <2>11, <2>12 DEF new
<1> HIDE DEF S
<1>8. n \in S
  BY <1>1, <1>6, <1>7, NatSetInduction
<1>9. OK(n)
  BY <1>1, <1>8 DEF S
<1>10. Holes(m, after) = g[n].found
  BY <1>5 DEF Holes
<1>11. End(n) = Top(m, after) /\ End(n) \in Nat
  BY <1>1 DEF Top, Last
<1>12. \A x : x \in Covered(m) <=> x \in Nat /\ In(x, n)
  BY <1>1, CoveredMember
<1>13. m # <<>> => Top(m, after) \in Covered(m)
  <2> SUFFICES ASSUME m # <<>> PROVE End(n) \in Covered(m)
    BY <1>11
  <2>1. n \in 1 .. n /\ End(n) = m[n][2]
    BY <1>1
  <2> QED
    BY <1>1, <1>12, <2>1
<1> HIDE DEF In, End
<1>14. \A x : x \in Covered(Holes(m, after)) => x \in Nat
  <2>1. Holes(m, after) \in Seq(Interval)
    BY <1>9, <1>10 DEF Proper
  <2> QED
    BY <2>1, CoveredMember
<1>15. ASSUME NEW x
       PROVE  x \in Covered(Holes(m, after)) <=> x \in (after + 1 .. Top(m, after)) \ Covered(m)
  <2>1. x \in after + 1 .. Top(m, after) <=> x \in Nat /\ after < x /\ x <= End(n)
    BY <1>11
  <2> QED
    BY <1>9, <1>10, <1>12, <1>14, <2>1
<1>16. \A x \in Covered(m) : x <= Top(m, after)
  BY <1>9, <1>11, <1>12
<1> QED
  BY <1>9, <1>10, <1>11, <1>13, <1>15, <1>16

-----------------------------------------------------------------------------
(* What the first i snapshots of an archive have shown.                     *)
Shown(a, i) == UNION {a[j].shown : j \in 1 .. i}

LastCoverage == IF archive = <<>> THEN <<>> ELSE Last(archive).coverage

Contents == {"config", "coverage", "missing", "receipts", "warned", "shown"}

(* A snapshot taken after others that have shown the numbers of earlier.    *)
SnapshotOK(s, earlier) ==
  LET all == earlier \cup s.shown
      after == s.config.after
  IN  /\ Contents \subseteq DOMAIN s /\ after \in Nat
      /\ Proper(s.coverage) /\ Covered(s.coverage) = all /\ \A x \in all : x > after
      /\ Proper(s.missing) /\ Covered(s.missing) = (after + 1 .. Top(s.coverage, after)) \ all
      /\ \A r \in s.receipts : r \notin Forged /\ (r > after => r \in s.shown)
      /\ ~s.warned =>
           s.missing = <<>> /\ (s.coverage # <<>> => Top(s.coverage, after) \in s.shown)

ArchiveRead(a) == \A i \in 1 .. Len(a) : SnapshotOK(a[i], Shown(a, i - 1))

(* What a run carries from the archive and into it.                         *)
RunRead(p) ==
  /\ pc[p] \in {"fetch", "write", "rename"} => scan[p].coverage = LastCoverage
  /\ pc[p] \in {"write", "rename"} =>
       SnapshotOK(capture[p].snapshot, Shown(archive, Len(archive)))
  /\ pc[p] \in {"sync", "report"} =>
       archive[capture[p].snapshot.number] = capture[p].snapshot

ReportsRead == \A r \in reports : r.status = 0 => ~archive[r.number].warned

ContentInv ==
  /\ \A p \in Proc : pc[p] # "idle" => config[p] \in Configs
  /\ damage = 0 => ArchiveRead(archive) /\ ReportsRead /\ \A p \in Proc : RunRead(p)

-----------------------------------------------------------------------------
LEMMA ImageFinite ==
  ASSUME NEW S, IsFiniteSet(S), NEW f
  PROVE  IsFiniteSet({f[x] : x \in S})
<1> DEFINE T == {f[x] : x \in S}
           g == [x \in S |-> f[x]]
<1>1. g \in Surjection(S, T)
  BY DEF Surjection
<1> HIDE DEF T, g
<1>2. IsFiniteSet(T)
  BY <1>1, FS_Surjection
<1> QED
  BY <1>2 DEF T

LEMMA IntervalsFinite ==
  ASSUME NEW m, Proper(m)
  PROVE  /\ ToSet(m) \in SUBSET Interval /\ IsFiniteSet(ToSet(m))
         /\ \A r \in ToSet(m) : r[1] <= r[2]
         /\ Covered(m) = UNION {r[1] .. r[2] : r \in ToSet(m)} /\ Covered(m) \subseteq Nat
<1>1. m \in Seq(Interval) /\ DOMAIN m = 1 .. Len(m) /\ Len(m) \in Nat
  BY DEF Proper
<1>2. IsFiniteSet(ToSet(m))
  <2>1. IsFiniteSet(1 .. Len(m))
    BY <1>1, FS_Interval
  <2> QED
    BY <1>1, <2>1, ImageFinite DEF ToSet
<1>3. Covered(m) \subseteq Nat
  BY <1>1, CoveredMember
<1> QED
  BY <1>1, <1>2, <1>3 DEF Proper, ToSet, Covered

(* The intervals of single numbers.                                         *)
LEMMA ObservedOK ==
  ASSUME NEW seqs \in SUBSET Seqs
  PROVE  /\ Proper(Merge({<<n, n>> : n \in seqs}))
         /\ Covered(Merge({<<n, n>> : n \in seqs})) = seqs
<1> DEFINE pair == [n \in seqs |-> <<n, n>>]
           S == {<<n, n>> : n \in seqs}
<1>1. Seqs \in SUBSET Nat /\ IsFiniteSet(Seqs)
  BY RecorderAssumption, FS_Interval DEF Seqs
<1>2. seqs \in SUBSET Nat /\ IsFiniteSet(seqs)
  BY <1>1, FS_Subset
<1>3. S = {pair[n] : n \in seqs}
  OBVIOUS
<1>4. IsFiniteSet(S)
  <2> HIDE DEF S, pair
  <2> QED
    BY <1>2, <1>3, ImageFinite
<1>5. S \in SUBSET Interval /\ \A r \in S : r[1] <= r[2]
  BY <1>2 DEF Interval
<1>6. UNION {r[1] .. r[2] : r \in S} = seqs
  <2>1. \A n \in seqs : n .. n = {n}
    BY <1>2
  <2>2. ASSUME NEW x PROVE x \in UNION {r[1] .. r[2] : r \in S} <=> x \in seqs
    <3>1. x \in UNION {r[1] .. r[2] : r \in S} <=> \E r \in S : x \in r[1] .. r[2]
      OBVIOUS
    <3>2. ASSUME NEW r \in S, x \in r[1] .. r[2] PROVE x \in seqs
      <4>1. PICK n \in seqs : r = <<n, n>>
        OBVIOUS
      <4>2. r[1] = n /\ r[2] = n
        BY <4>1
      <4> QED
        BY <2>1, <3>2, <4>2
    <3>3. ASSUME x \in seqs PROVE \E r \in S : x \in r[1] .. r[2]
      <4>1. <<x, x>> \in S /\ <<x, x>>[1] = x /\ <<x, x>>[2] = x /\ x \in x .. x
        BY <2>1, <3>3
      <4> QED
        BY <4>1
    <3> QED
      BY <3>1, <3>2, <3>3
  <2> HIDE DEF S
  <2> QED
    BY <2>2
<1> HIDE DEF S
<1>7. Proper(Merge(S)) /\ Covered(Merge(S)) = UNION {r[1] .. r[2] : r \in S}
  BY <1>4, <1>5, MergeOK
<1> QED
  BY <1>6, <1>7 DEF S

LEMMA UnionOK ==
  ASSUME NEW m, Proper(m), NEW k, Proper(k)
  PROVE  /\ Proper(Merge(ToSet(m) \cup ToSet(k)))
         /\ Covered(Merge(ToSet(m) \cup ToSet(k))) = Covered(m) \cup Covered(k)
<1> DEFINE S == ToSet(m) \cup ToSet(k)
<1>1. /\ ToSet(m) \in SUBSET Interval /\ IsFiniteSet(ToSet(m)) /\ \A r \in ToSet(m) : r[1] <= r[2]
      /\ Covered(m) = UNION {r[1] .. r[2] : r \in ToSet(m)}
  BY IntervalsFinite
<1>2. /\ ToSet(k) \in SUBSET Interval /\ IsFiniteSet(ToSet(k)) /\ \A r \in ToSet(k) : r[1] <= r[2]
      /\ Covered(k) = UNION {r[1] .. r[2] : r \in ToSet(k)}
  BY IntervalsFinite
<1>3. S \in SUBSET Interval /\ \A r \in S : r[1] <= r[2]
  BY <1>1, <1>2
<1>4. IsFiniteSet(S)
  BY <1>1, <1>2, FS_Union
<1>5. UNION {r[1] .. r[2] : r \in S} = Covered(m) \cup Covered(k)
  BY <1>1, <1>2
<1> HIDE DEF S
<1>6. Proper(Merge(S)) /\ Covered(Merge(S)) = UNION {r[1] .. r[2] : r \in S}
  BY <1>3, <1>4, MergeOK
<1> QED
  BY <1>5, <1>6 DEF S

(* What a run makes of an export is right, if what it has read of the       *)
(* archive is.                                                              *)
LEMMA CaptureOK ==
  ASSUME NEW p, NEW lines \in SUBSET Seqs, NEW generation, NEW valid \in BOOLEAN,
         config[p].after \in Nat, Proper(scan[p].coverage),
         \A x \in Covered(scan[p].coverage) : x > config[p].after
  PROVE  SnapshotOK(Capture(p, lines, generation, valid), Covered(scan[p].coverage))
<1> DEFINE after == config[p].after
           credited == Credited(p, generation, valid)
           seqs == {s \in lines : s > after}
           observed == Merge({<<s, s>> : s \in seqs})
           before == scan[p].coverage
           coverage == IF credited THEN Merge(ToSet(before) \cup ToSet(observed)) ELSE before
           missing == Holes(coverage, after)
           s == Capture(p, lines, generation, valid)
           all == Covered(before) \cup s.shown
<1>1. /\ s.config = config[p] /\ s.coverage = coverage /\ s.missing = missing
      /\ s.receipts = (IF credited THEN (lines \cap Receipts) \ Forged ELSE {})
      /\ s.shown = (IF credited THEN seqs ELSE {})
      /\ ~s.warned => credited /\ ~Regressed(before, observed) /\ missing = <<>>
      /\ Contents \subseteq DOMAIN s
  BY DEF Capture, Credited, Contents
<1>2. seqs \in SUBSET Seqs /\ \A x \in seqs : x > after
  OBVIOUS
<1> HIDE DEF s, seqs
<1>3. Proper(observed) /\ Covered(observed) = seqs
  BY <1>2, ObservedOK
<1> HIDE DEF observed
<1>4. Proper(coverage) /\ Covered(coverage) = all
  BY <1>1, <1>3, UnionOK
<1>5. \A x \in all : x > after
  BY <1>1, <1>2
<1> HIDE DEF before, coverage
<1>6. /\ Proper(missing)
      /\ Covered(missing) = (after + 1 .. Top(coverage, after)) \ Covered(coverage)
      /\ \A x \in Covered(coverage) : x <= Top(coverage, after)
      /\ coverage # <<>> => Top(coverage, after) \in Covered(coverage)
      /\ Top(coverage, after) \in Nat
  BY <1>4, <1>5, HolesOK
<1>7. \A r \in s.receipts : r \notin Forged /\ (r > after => r \in s.shown)
  BY <1>1 DEF seqs
<1>8. ASSUME ~s.warned, coverage # <<>>
      PROVE  Top(coverage, after) \in s.shown
  <2>1. credited /\ s.shown = seqs /\ ~Regressed(before, observed)
    BY <1>1, <1>8
  <2>2. Top(coverage, after) \in Covered(before) \/ Top(coverage, after) \in seqs
    BY <1>4, <1>6, <1>8, <2>1
  <2>3. CASE Top(coverage, after) \in Covered(before)
    <3>1. before # <<>>
      BY <2>3, EmptyCovered
    <3>2. observed # <<>> /\ ~(Last(observed)[2] < Last(before)[2])
      BY <2>1, <3>1 DEF Regressed
    <3>3. \A x \in Covered(before) : x <= Top(before, after)
      BY HolesOK DEF before
    <3>4. Top(observed, after) \in seqs /\ Top(observed, after) \in Nat
      BY <1>2, <1>3, <3>2, HolesOK
    <3>5. Top(before, after) \in Nat
      BY HolesOK DEF before
    <3>6. Top(observed, after) >= Top(before, after)
      BY <3>1, <3>2, <3>4, <3>5 DEF Top
    <3>7. Top(observed, after) <= Top(coverage, after)
      BY <1>4, <1>6, <2>1, <3>4
    <3>8. Top(coverage, after) <= Top(before, after)
      BY <2>3, <3>3
    <3>9. Top(coverage, after) = Top(observed, after)
      BY <1>6, <3>4, <3>5, <3>6, <3>7, <3>8
    <3> QED
      BY <2>1, <3>4, <3>9
  <2> QED
    BY <2>1, <2>2, <2>3
<1> HIDE DEF missing
<1>9. Covered(before) = Covered(scan[p].coverage)
  BY DEF before
<1> HIDE DEF after, all, credited
<1>10. /\ Covered(s.coverage) = all /\ \A x \in all : x > after
       /\ Covered(s.missing) = (after + 1 .. Top(s.coverage, after)) \ all
       /\ Proper(s.coverage) /\ Proper(s.missing)
  BY <1>1, <1>4, <1>5, <1>6
<1>11. ~s.warned => s.missing = <<>> /\ (s.coverage # <<>> => Top(s.coverage, after) \in s.shown)
  BY <1>1, <1>8
<1>12. s.config.after = after /\ after \in Nat /\ all = Covered(scan[p].coverage) \cup s.shown
  BY <1>1, <1>9 DEF after, all
<1>13. SnapshotOK(s, Covered(scan[p].coverage))
  BY <1>1, <1>7, <1>10, <1>11, <1>12 DEF SnapshotOK
<1> QED
  BY <1>13 DEF s

-----------------------------------------------------------------------------
LEMMA ShownSame ==
  ASSUME NEW a, NEW b, NEW n, \A i \in 1 .. n : b[i] = a[i]
  PROVE  Shown(b, n) = Shown(a, n)
BY DEF Shown

LEMMA ShownNext ==
  ASSUME NEW a, NEW n \in Nat \ {0}
  PROVE  Shown(a, n) = Shown(a, n - 1) \cup a[n].shown
<1>1. 1 .. n = (1 .. n - 1) \cup {n}
  OBVIOUS
<1> QED
  BY <1>1 DEF Shown

LEMMA ReadPrefix ==
  ASSUME NEW a, ArchiveRead(a), NEW b, Len(a) \in Nat, Len(b) \in 0 .. Len(a),
         \A i \in 1 .. Len(b) : b[i] = a[i]
  PROVE  ArchiveRead(b)
<1> SUFFICES ASSUME NEW i \in 1 .. Len(b) PROVE SnapshotOK(b[i], Shown(b, i - 1))
  BY DEF ArchiveRead
<1>1. i \in 1 .. Len(a) /\ b[i] = a[i]
  OBVIOUS
<1>2. Shown(b, i - 1) = Shown(a, i - 1)
  <2>1. \A j \in 1 .. i - 1 : b[j] = a[j]
    OBVIOUS
  <2> QED
    BY <2>1, ShownSame
<1> QED
  BY <1>1, <1>2 DEF ArchiveRead

LEMMA ReadGrows ==
  ASSUME NEW a, IsSequence(a), ArchiveRead(a), NEW x, SnapshotOK(x, Shown(a, Len(a)))
  PROVE  ArchiveRead(Append(a, x))
<1> DEFINE b == Append(a, x)
           n == Len(a)
<1>1. n \in Nat /\ Len(b) = n + 1 /\ b[n + 1] = x /\ \A i \in 1 .. n : b[i] = a[i]
  BY SequenceFacts, AppendFacts
<1> HIDE DEF b
<1>2. ASSUME NEW i \in 1 .. n + 1
      PROVE  SnapshotOK(b[i], Shown(b, i - 1))
  <2>1. \A j \in 1 .. i - 1 : b[j] = a[j]
    BY <1>1
  <2>2. Shown(b, i - 1) = Shown(a, i - 1)
    BY <2>1, ShownSame
  <2>3. CASE i = n + 1
    <3>1. i - 1 = Len(a) /\ b[i] = x
      BY <1>1, <2>3
    <3> QED
      BY <2>2, <3>1
  <2>4. CASE i \in 1 .. n
    <3>1. b[i] = a[i] /\ SnapshotOK(a[i], Shown(a, i - 1))
      BY <1>1, <2>4 DEF ArchiveRead
    <3> QED
      BY <2>2, <3>1
  <2> QED
    BY <1>1, <2>3, <2>4
<1> QED
  BY <1>1, <1>2 DEF ArchiveRead, b

(* The coverage a run goes on from is what the archive has shown, beyond    *)
(* the starting point it was given.                                         *)
LEMMA CoverageKnown ==
  ASSUME RInv, NEW p \in Proc, Knows(p), config[p] \in Configs, ArchiveRead(archive),
         scan[p].coverage = LastCoverage
  PROVE  /\ config[p].after \in Nat /\ Proper(scan[p].coverage)
         /\ Covered(scan[p].coverage) = Shown(archive, Len(archive))
         /\ \A x \in Covered(scan[p].coverage) : x > config[p].after
<1>1. config[p].after \in Nat
  BY RecorderAssumption
<1>2. Len(archive) \in Nat /\ (archive = <<>> <=> Len(archive) = 0)
      /\ Last(archive) = archive[Len(archive)] /\ DOMAIN archive = 1 .. Len(archive)
  BY SequenceFacts DEF RInv, ArchiveOK
<1>3. CASE archive = <<>>
  <2>1. scan[p].coverage = <<>>
    BY <1>3 DEF LastCoverage
  <2>2. Shown(archive, Len(archive)) = {}
    BY <1>2, <1>3 DEF Shown
  <2> QED
    BY <1>1, <2>1, <2>2, EmptyCovered
<1>4. CASE archive # <<>>
  <2> DEFINE n == Len(archive)
             s == archive[n]
  <2>1. n \in 1 .. n /\ n \in Nat \ {0} /\ scan[p].coverage = s.coverage
    BY <1>2, <1>4 DEF LastCoverage
  <2>2. s.config = config[p]
    BY <1>2, <2>1 DEF Knows, Verifies
  <2>3. SnapshotOK(s, Shown(archive, n - 1))
    BY <2>1 DEF ArchiveRead
  <2>4. Shown(archive, n) = Shown(archive, n - 1) \cup s.shown
    BY <2>1, ShownNext
  <2> HIDE DEF s, n
  <2>5. Proper(s.coverage) /\ Covered(s.coverage) = Shown(archive, n)
        /\ \A x \in Shown(archive, n) : x > s.config.after
    BY <2>3, <2>4 DEF SnapshotOK
  <2> QED
    BY <1>1, <2>1, <2>2, <2>5 DEF n
<1> QED
  BY <1>3, <1>4

(* Steps of a run that leave the archive alone.                             *)
LEMMA InnerReads ==
  ASSUME ContentInv, NEW p \in Proc, UNCHANGED <<archive, damage>>,
         \A q \in Proc \ {p} : Private(q)' = Private(q),
         pc'[p] # "idle" => config'[p] \in Configs,
         damage = 0 => ReportsRead' /\ RunRead(p)'
  PROVE  ContentInv'
<1>1. ASSUME NEW q \in Proc \ {p}
      PROVE  /\ pc'[q] # "idle" => config'[q] \in Configs
             /\ damage = 0 => RunRead(q)'
  <2>1. pc'[q] = pc[q] /\ config'[q] = config[q] /\ scan'[q] = scan[q] /\ capture'[q] = capture[q]
    BY <1>1 DEF Private
  <2>2. LastCoverage' = LastCoverage
    BY DEF LastCoverage
  <2> QED
    BY <2>1, <2>2 DEF ContentInv, RunRead
<1>2. damage = 0 => ArchiveRead(archive)'
  BY DEF ContentInv, ArchiveRead
<1> QED
  BY <1>1, <1>2 DEF ContentInv

LEMMA ExitReads ==
  ASSUME RInv, ContentInv, NEW p \in Proc, Exit(p), UNCHANGED <<archive, damage>>,
         damage = 0 => ReportsRead'
  PROVE  ContentInv'
<1>1. pc'[p] = "idle" /\ \A q \in Proc \ {p} : Private(q)' = Private(q)
  BY EndedRun DEF RInv, Shapes, Exit, Goto
<1>2. RunRead(p)'
  BY <1>1 DEF RunRead
<1> QED
  BY <1>1, <1>2, InnerReads

LEMMA SameReports ==
  ASSUME ContentInv, UNCHANGED <<archive, damage, reports>>
  PROVE  damage = 0 => ReportsRead'
BY DEF ContentInv, ReportsRead

LEMMA StartReads ==
  ASSUME RInv, ContentInv, NEW p \in Proc, Start(p)
  PROVE  ContentInv'
<1>1. /\ pc'[p] = "lock" /\ config'[p] \in Configs
      /\ \A q \in Proc \ {p} : Private(q)' = Private(q)
      /\ UNCHANGED <<archive, damage, reports>>
  BY DEF RInv, Shapes, Start, Goto, Private
<1>2. RunRead(p)'
  BY <1>1 DEF RunRead
<1> QED
  BY <1>1, <1>2, InnerReads, SameReports

LEMMA LockReads ==
  ASSUME RInv, ContentInv, NEW p \in Proc, Lock(p)
  PROVE  ContentInv'
<1>1. UNCHANGED <<archive, damage, reports>>
  BY DEF Lock
<1>2. CASE Exit(p)
  BY <1>1, <1>2, ExitReads, SameReports
<1>3. CASE ~Exit(p)
  <2>1. pc[p] = "lock" /\ Goto(p, "scan") /\ UNCHANGED <<config, scan, capture, written>>
    BY <1>3 DEF Lock
  <2>2. pc'[p] = "scan" /\ config'[p] \in Configs /\ \A q \in Proc \ {p} : Private(q)' = Private(q)
    BY <2>1 DEF RInv, Shapes, Goto, Private, ContentInv
  <2>3. RunRead(p)'
    BY <2>2 DEF RunRead
  <2> QED
    BY <1>1, <2>2, <2>3, InnerReads, SameReports
<1> QED
  BY <1>2, <1>3

LEMMA ScanReads ==
  ASSUME RInv, ContentInv, NEW p \in Proc, Scan(p)
  PROVE  ContentInv'
<1>1. UNCHANGED <<archive, damage, reports>>
  BY DEF Scan
<1>2. CASE Exit(p)
  BY <1>1, <1>2, ExitReads, SameReports
<1>3. CASE ~Exit(p)
  <2> DEFINE s == [used |-> bytes, count |-> Len(archive),
                   previous |-> IF archive = <<>> THEN Null ELSE Digest(Last(archive)),
                   coverage |-> IF archive = <<>> THEN <<>> ELSE Last(archive).coverage]
  <2>1. pc[p] = "scan" /\ scan' = [scan EXCEPT ![p] = s]
        /\ Goto(p, "fetch") /\ UNCHANGED <<lock, config, capture, written>>
    BY <1>3 DEF Scan
  <2>2. s.coverage = LastCoverage
    BY DEF LastCoverage
  <2> HIDE DEF s
  <2>3. /\ pc'[p] = "fetch" /\ scan'[p] = s /\ config'[p] \in Configs
        /\ \A q \in Proc \ {p} : Private(q)' = Private(q)
    BY <2>1 DEF RInv, Shapes, Goto, Private, ContentInv
  <2>4. LastCoverage' = LastCoverage
    BY <1>1 DEF LastCoverage
  <2>5. RunRead(p)'
    BY <2>2, <2>3, <2>4 DEF RunRead
  <2> QED
    BY <1>1, <2>3, <2>5, InnerReads, SameReports
<1> QED
  BY <1>2, <1>3

LEMMA FetchReads ==
  ASSUME RInv, ContentInv, NEW p \in Proc, Fetch(p)
  PROVE  ContentInv'
<1>1. pc[p] = "fetch" /\ UNCHANGED <<archive, damage, reports>>
  BY DEF Fetch
<1>2. CASE Exit(p)
  BY <1>1, <1>2, ExitReads, SameReports
<1>3. CASE ~Exit(p)
  <2>1. PICK lines \in SUBSET Seqs, valid \in BOOLEAN, generation \in {c.generation : c \in Configs} :
          /\ capture' = [capture EXCEPT ![p] =
               [snapshot |-> Capture(p, lines, generation, valid), lines |-> lines]]
          /\ written' = [written EXCEPT ![p] = 0]
          /\ Goto(p, "write") /\ UNCHANGED <<lock, config, scan>>
    BY <1>3 DEF Fetch
  <2> DEFINE s == Capture(p, lines, generation, valid)
  <2>2. /\ pc'[p] = "write" /\ capture'[p].snapshot = s /\ config'[p] \in Configs
        /\ scan'[p] = scan[p] /\ \A q \in Proc \ {p} : Private(q)' = Private(q)
    <3> HIDE DEF s
    <3>1. capture' = [capture EXCEPT ![p] = [snapshot |-> s, lines |-> lines]]
      BY <2>1 DEF s
    <3> QED
      BY <1>1, <2>1, <3>1 DEF RInv, Shapes, Goto, Private, ContentInv
  <2>3. LastCoverage' = LastCoverage /\ Shown(archive, Len(archive))' = Shown(archive, Len(archive))
    BY <1>1 DEF LastCoverage, Shown
  <2>4. ASSUME damage = 0
        PROVE  scan[p].coverage = LastCoverage /\ SnapshotOK(s, Shown(archive, Len(archive)))
    <3>1. Knows(p)
      BY <1>1 DEF RInv, RunOK
    <3>2. config[p] \in Configs /\ ArchiveRead(archive) /\ scan[p].coverage = LastCoverage
      BY <1>1, <2>4 DEF ContentInv, RunRead
    <3>3. /\ config[p].after \in Nat /\ Proper(scan[p].coverage)
          /\ Covered(scan[p].coverage) = Shown(archive, Len(archive))
          /\ \A x \in Covered(scan[p].coverage) : x > config[p].after
      BY <3>1, <3>2, CoverageKnown
    <3>4. SnapshotOK(s, Covered(scan[p].coverage))
      BY <3>3, CaptureOK
    <3> QED
      BY <3>2, <3>3, <3>4
  <2> HIDE DEF s
  <2>5. damage = 0 => RunRead(p)'
    BY <2>2, <2>3, <2>4 DEF RunRead
  <2> QED
    BY <1>1, <2>2, <2>5, InnerReads, SameReports
<1> QED
  BY <1>2, <1>3

LEMMA WriteReads ==
  ASSUME RInv, ContentInv, NEW p \in Proc, Write(p)
  PROVE  ContentInv'
<1>1. /\ UNCHANGED <<archive, damage, reports, pc, config, scan, capture>>
      /\ written' = [written EXCEPT ![p] = @ + 1]
  BY DEF Write
<1>2. \A q \in Proc \ {p} : Private(q)' = Private(q)
  BY <1>1 DEF RInv, Shapes, Private
<1>3. LastCoverage' = LastCoverage /\ Shown(archive, Len(archive))' = Shown(archive, Len(archive))
  BY <1>1 DEF LastCoverage, Shown
<1>4. /\ pc'[p] # "idle" => config'[p] \in Configs
      /\ damage = 0 => RunRead(p)'
  BY <1>1, <1>3 DEF ContentInv, RunRead
<1> QED
  BY <1>1, <1>2, <1>4, InnerReads, SameReports

LEMMA SyncStagingReads ==
  ASSUME RInv, ContentInv, NEW p \in Proc, SyncStaging(p)
  PROVE  ContentInv'
<1>1. /\ pc[p] = "write" /\ capture' = [capture EXCEPT ![p].snapshot.synced = TRUE]
      /\ Goto(p, "rename") /\ UNCHANGED <<archive, damage, reports, config, scan, written>>
  BY DEF SyncStaging
<1>2. /\ pc'[p] = "rename" /\ config'[p] \in Configs /\ scan'[p] = scan[p]
      /\ \A q \in Proc \ {p} : Private(q)' = Private(q)
  BY <1>1 DEF RInv, Shapes, Goto, Private, ContentInv
<1>3. Prepared(p)
  BY <1>1 DEF RInv, RunOK
<1>4. capture'[p] = [capture[p] EXCEPT !.snapshot.synced = TRUE]
  BY <1>1 DEF RInv, Shapes
<1>5. capture'[p].snapshot = [capture[p].snapshot EXCEPT !.synced = TRUE]
  BY <1>3, <1>4 DEF Prepared
<1> DEFINE s == capture[p].snapshot
           new == capture'[p].snapshot
<1>6. ASSUME NEW earlier, SnapshotOK(s, earlier)
      PROVE  SnapshotOK(new, earlier)
  <2>1. DOMAIN new = DOMAIN s /\ \A field \in Contents : new[field] = s[field]
    BY <1>5, <1>6 DEF SnapshotOK, Contents
  <2>2. /\ new.config = s.config /\ new.coverage = s.coverage /\ new.missing = s.missing
        /\ new.receipts = s.receipts /\ new.warned = s.warned /\ new.shown = s.shown
    BY <2>1 DEF Contents
  <2> HIDE DEF new, s
  <2> QED
    BY <1>6, <2>1, <2>2 DEF SnapshotOK
<1>7. LastCoverage' = LastCoverage /\ Shown(archive, Len(archive))' = Shown(archive, Len(archive))
  BY <1>1 DEF LastCoverage, Shown
<1>8. damage = 0 => RunRead(p)'
  BY <1>1, <1>2, <1>6, <1>7 DEF ContentInv, RunRead
<1> QED
  BY <1>1, <1>2, <1>8, InnerReads, SameReports

(* The archive grows by a snapshot that is right, under the lock.           *)
LEMMA RenameReads ==
  ASSUME RInv, ContentInv, NEW p \in Proc, Rename(p)
  PROVE  ContentInv'
<1> DEFINE x == capture[p].snapshot
<1>1. /\ pc[p] = "rename" /\ archive' = Append(archive, x) /\ Goto(p, "sync")
      /\ UNCHANGED <<durable, lock, config, scan, capture, written, reports, damage>>
  BY DEF Rename
<1>2. lock = p /\ Prepared(p)
  BY <1>1 DEF RInv, RunOK, Holding
<1>3. /\ pc'[p] = "sync" /\ \A q \in Proc : config'[q] = config[q] /\ capture'[q] = capture[q]
      /\ \A q \in Proc \ {p} : pc'[q] = pc[q]
  BY <1>1 DEF RInv, Shapes, Goto
<1>4. IsSequence(archive) /\ Len(archive) \in Nat /\ durable \in 0 .. Len(archive)
  BY SequenceFacts DEF RInv, ArchiveOK
<1>5. /\ archive'[Len(archive) + 1] = x
      /\ \A i \in 1 .. Len(archive) : archive'[i] = archive[i]
  BY <1>1, <1>4, AppendFacts
<1>6. \A q \in Proc : pc'[q] # "idle" => config'[q] \in Configs
  BY <1>1, <1>3 DEF ContentInv
<1>7. ASSUME damage = 0
      PROVE  ArchiveRead(archive') /\ ReportsRead' /\ \A q \in Proc : RunRead(q)'
  <2>1. ArchiveRead(archive) /\ SnapshotOK(x, Shown(archive, Len(archive)))
    BY <1>1, <1>7 DEF ContentInv, RunRead
  <2>2. ArchiveRead(archive')
    <3> HIDE DEF x
    <3> QED
      BY <1>1, <1>4, <2>1, ReadGrows
  <2>3. \A r \in reports : r.number \in 1 .. Len(archive)
    BY <1>4, <1>7 DEF RInv, ArchiveOK
  <2>4. ReportsRead'
    <3> SUFFICES ASSUME NEW r \in reports, r.status = 0 PROVE ~archive'[r.number].warned
      BY <1>1 DEF ReportsRead
    <3>1. archive'[r.number] = archive[r.number]
      BY <1>5, <2>3
    <3> QED
      BY <1>7, <3>1 DEF ContentInv, ReportsRead
  <2>5. RunRead(p)'
    <3>1. x.number = Len(archive) + 1
      BY <1>2 DEF Prepared
    <3> QED
      BY <1>3, <1>5, <3>1 DEF RunRead
  <2>6. ASSUME NEW q \in Proc \ {p} PROVE RunRead(q)'
    <3>1. pc[q] \notin Holding
      BY <1>2, <2>6 DEF RInv, RunOK
    <3>2. CASE pc[q] = "report"
      <4>1. capture[q].snapshot.number \in 1 .. Len(archive)
        BY <1>4, <1>7, <3>2 DEF RInv, RunOK
      <4>2. archive[capture[q].snapshot.number] = capture[q].snapshot
        BY <1>7, <3>2 DEF ContentInv, RunRead
      <4> QED
        BY <1>3, <1>5, <3>2, <4>1, <4>2 DEF RunRead
    <3>3. CASE pc[q] # "report"
      BY <1>3, <3>1, <3>3 DEF RunRead, Holding
    <3> QED
      BY <3>2, <3>3
  <2> QED
    BY <2>2, <2>4, <2>5, <2>6
<1> QED
  BY <1>1, <1>6, <1>7 DEF ContentInv

LEMMA SyncRootReads ==
  ASSUME RInv, ContentInv, NEW p \in Proc, SyncRoot(p)
  PROVE  ContentInv'
<1>1. /\ pc[p] = "sync" /\ Goto(p, "report")
      /\ UNCHANGED <<archive, config, scan, capture, written, reports, damage>>
  BY DEF SyncRoot
<1>2. /\ pc'[p] = "report" /\ config'[p] \in Configs
      /\ \A q \in Proc \ {p} : Private(q)' = Private(q)
  BY <1>1 DEF RInv, Shapes, Goto, Private, ContentInv
<1>3. damage = 0 => RunRead(p)'
  BY <1>1, <1>2 DEF ContentInv, RunRead
<1> QED
  BY <1>1, <1>2, <1>3, InnerReads, SameReports

LEMMA ReportReads ==
  ASSUME RInv, ContentInv, NEW p \in Proc, Report(p)
  PROVE  ContentInv'
<1> DEFINE s == capture[p].snapshot
           new == [number |-> s.number, status |-> IF s.warned THEN 2 ELSE 0,
                   kept |-> root = "kept"]
<1>1. /\ pc[p] = "report" /\ Exit(p) /\ UNCHANGED <<archive, damage>>
      /\ reports' = reports \cup {new}
  BY DEF Report
<1>2. ASSUME damage = 0 PROVE ReportsRead'
  <2>1. archive[s.number] = s /\ ReportsRead
    BY <1>1, <1>2 DEF ContentInv, RunRead
  <2>2. new.number = s.number /\ (new.status = 0 => ~s.warned)
    OBVIOUS
  <2> HIDE DEF s, new
  <2> QED
    BY <1>1, <2>1, <2>2 DEF ReportsRead
<1> QED
  BY <1>1, <1>2, ExitReads

LEMMA KillReads ==
  ASSUME RInv, ContentInv, NEW p \in Proc, Kill(p) \/ FetchFails(p)
  PROVE  ContentInv'
<1>1. Exit(p) /\ UNCHANGED <<archive, damage, reports>>
  BY DEF Kill, FetchFails
<1> QED
  BY <1>1, ExitReads, SameReports

(* A power loss leaves the first snapshots as they are, and those reported. *)
LEMMA RootSurvivesReads ==
  ASSUME RInv, ContentInv, PowerLoss, RootSurvives
  PROVE  ContentInv'
<1>1. PICK n \in durable .. Len(archive), names \in {0, Files} :
        archive' = [i \in 1 .. n |-> IF archive[i].synced THEN archive[i]
                                    ELSE [archive[i] EXCEPT !.files = names]]
  BY DEF RootSurvives
<1>2. Quiet(pc', lock', config', scan', capture', written') /\ UNCHANGED <<reports, damage>>
  BY DEF PowerLoss, RootSurvives
<1>3. Len(archive) \in Nat /\ durable \in 0 .. Len(archive) /\ n \in 0 .. Len(archive)
  BY <1>1, SequenceFacts DEF RInv, ArchiveOK
<1>4. Len(archive') = n
  <2>1. IsSequence(archive')
    BY PowerLossKeeps DEF RInv, ArchiveOK
  <2>2. n \in Nat /\ Len(archive') \in Nat /\ 1 .. n = 1 .. Len(archive')
    BY <1>1, <1>3, <2>1, SequenceFacts
  <2> QED
    BY <2>2
<1>5. ASSUME damage = 0
      PROVE  ArchiveRead(archive') /\ ReportsRead'
  <2>1. Sound(archive) /\ \A r \in reports : r.number \in 1 .. durable
    BY <1>5 DEF RInv, ArchiveOK
  <2>2. \A i \in 1 .. n : archive'[i] = archive[i]
    BY <1>1, <1>3, <2>1 DEF Sound
  <2>3. ArchiveRead(archive')
    BY <1>3, <1>4, <1>5, <2>2, ReadPrefix DEF ContentInv
  <2>4. ReportsRead'
    <3> SUFFICES ASSUME NEW r \in reports, r.status = 0 PROVE ~archive'[r.number].warned
      BY <1>2 DEF ReportsRead
    <3>1. archive'[r.number] = archive[r.number]
      BY <1>1, <1>3, <2>1, <2>2
    <3> QED
      BY <1>5, <3>1 DEF ContentInv, ReportsRead
  <2> QED
    BY <2>3, <2>4
<1>6. \A p \in Proc : pc'[p] = "idle"
  BY <1>2 DEF Quiet
<1>7. \A p \in Proc : RunRead(p)'
  BY <1>6 DEF RunRead
<1> QED
  BY <1>2, <1>5, <1>6, <1>7 DEF ContentInv

LEMMA PowerLossReads ==
  ASSUME RInv, ContentInv, PowerLoss
  PROVE  ContentInv'
<1>1. CASE RootSurvives
  BY <1>1, RootSurvivesReads
<1>2. CASE RootVanishes
  <2>1. \A p \in Proc : pc'[p] = "idle"
    BY DEF PowerLoss, Quiet
  <2>2. archive' = <<>> /\ reports' = {} /\ Len(<<>>) = 0
    BY <1>2, EmptySeq DEF RootVanishes
  <2>3. ArchiveRead(archive') /\ ReportsRead'
    BY <2>2 DEF ArchiveRead, ReportsRead
  <2>4. \A p \in Proc : RunRead(p)'
    BY <2>1 DEF RunRead
  <2> QED
    BY <2>1, <2>3, <2>4 DEF ContentInv
<1> QED
  BY <1>1, <1>2 DEF PowerLoss

LEMMA DamageReads ==
  ASSUME RInv, ContentInv, Damage
  PROVE  ContentInv'
<1>1. damage' # 0
  BY DEF Damage, RInv, ArchiveOK
<1> QED
  BY <1>1 DEF Damage, ContentInv

-----------------------------------------------------------------------------
LEMMA ContentStep ==
  ASSUME RInv, ContentInv, [Next]_vars
  PROVE  ContentInv'
<1>1. CASE UNCHANGED vars
  <2>1. /\ UNCHANGED <<archive, damage, reports, pc, config, scan, capture>>
        /\ LastCoverage' = LastCoverage
        /\ Shown(archive, Len(archive))' = Shown(archive, Len(archive))
    BY <1>1 DEF vars, LastCoverage, Shown
  <2>2. \A q \in Proc : RunRead(q) => RunRead(q)'
    BY <2>1 DEF RunRead
  <2>3. ReportsRead => ReportsRead'
    BY <2>1 DEF ReportsRead
  <2> QED
    BY <2>1, <2>2, <2>3 DEF ContentInv
<1>2. ASSUME NEW p \in Proc, Start(p) \/ Step(p) \/ Kill(p)
      PROVE  ContentInv'
  BY <1>2, StartReads, LockReads, ScanReads, FetchReads, WriteReads, SyncStagingReads,
     RenameReads, SyncRootReads, ReportReads, KillReads DEF Step
<1> QED
  BY <1>1, <1>2, PowerLossReads, DamageReads DEF Next

LEMMA ContentInvariant == Spec => []ContentInv
<1>1. ASSUME Init PROVE ContentInv
  <2>1. archive = <<>> /\ reports = {} /\ \A p \in Proc : pc[p] = "idle"
    BY <1>1 DEF Init, Quiet
  <2>2. Len(archive) = 0
    BY <2>1
  <2> QED
    BY <2>1, <2>2 DEF ContentInv, ArchiveRead, ReportsRead, RunRead
<1> QED
  BY <1>1, ContentStep, RecorderInvariant, PTL DEF Spec

(* What the invariant says of one snapshot, in the words of the properties. *)
LEMMA SnapshotRead ==
  ASSUME RInv, ContentInv, damage = 0, NEW i \in DOMAIN archive
  PROVE  LET s == archive[i]
             shown == ShownUpTo(i)
             top == Top(s.coverage, s.config.after)
         IN  /\ SnapshotOK(s, Shown(archive, i - 1)) /\ Covered(s.coverage) = shown
             /\ Covered(s.missing) = (s.config.after + 1 .. top) \ shown
             /\ IF shown = {} THEN top = s.config.after ELSE top = Max(shown)
             /\ shown # {} => s.coverage # <<>>
             /\ shown \subseteq s.config.after + 1 .. top
<1> DEFINE s == archive[i]
           shown == ShownUpTo(i)
           after == s.config.after
           top == Top(s.coverage, after)
<1>1. DOMAIN archive = 1 .. Len(archive) /\ Len(archive) \in Nat
  BY SequenceFacts DEF RInv, ArchiveOK
<1>2. SnapshotOK(s, Shown(archive, i - 1))
  BY <1>1 DEF ContentInv, ArchiveRead
<1>3. shown = Shown(archive, i - 1) \cup s.shown
  BY <1>1, ShownNext DEF ShownUpTo, Shown
<1> HIDE DEF s, shown
<1>4. /\ Proper(s.coverage) /\ Covered(s.coverage) = shown /\ after \in Nat
      /\ \A x \in shown : x > after
      /\ Covered(s.missing) = (after + 1 .. top) \ shown
  BY <1>2, <1>3 DEF SnapshotOK
<1>5. /\ \A x \in shown : x <= top
      /\ s.coverage # <<>> => top \in shown
      /\ top \in Nat /\ shown \subseteq Nat
  BY <1>4, HolesOK, IntervalsFinite
<1>6. shown # {} => s.coverage # <<>>
  BY <1>4, EmptyCovered
<1>7. shown = {} => top = after
  BY <1>5 DEF Top
<1>8. shown # {} => top = Max(shown)
  BY <1>5, <1>6 DEF Max
<1>9. shown \subseteq after + 1 .. top
  BY <1>4, <1>5
<1> QED
  BY <1>2, <1>4, <1>6, <1>7, <1>8, <1>9 DEF s, shown

(* The coverage of each snapshot is exactly what the exports that count     *)
(* have shown, its missing ranges are exactly the rest, and its receipts    *)
(* come from such an export.                                                *)
THEOREM CoverageIsExact == Spec => []CoverageExact
<1>1. ASSUME RInv, ContentInv PROVE CoverageExact
  <2> SUFFICES ASSUME damage = 0, NEW i \in DOMAIN archive
               PROVE  LET s == archive[i]
                          shown == ShownUpTo(i)
                          top == IF shown = {} THEN s.config.after ELSE Max(shown)
                      IN  /\ Covered(s.coverage) = shown
                          /\ Covered(s.missing) = (s.config.after + 1 .. top) \ shown
                          /\ \A ranges \in {s.coverage, s.missing} :
                               \A k \in 1 .. Len(ranges) - 1 : ranges[k][2] + 1 < ranges[k + 1][1]
                          /\ \A r \in s.receipts :
                               r \notin Forged /\ (r > s.config.after => r \in s.shown)
    BY DEF CoverageExact
  <2> DEFINE s == archive[i]
             shown == ShownUpTo(i)
             top == IF shown = {} THEN s.config.after ELSE Max(shown)
  <2>1. /\ SnapshotOK(s, Shown(archive, i - 1)) /\ Covered(s.coverage) = shown
        /\ Covered(s.missing) = (s.config.after + 1 .. Top(s.coverage, s.config.after)) \ shown
        /\ Top(s.coverage, s.config.after) = top
    BY <1>1, SnapshotRead
  <2> HIDE DEF s, shown, top
  <2>2. /\ Proper(s.coverage) /\ Proper(s.missing)
        /\ \A r \in s.receipts : r \notin Forged /\ (r > s.config.after => r \in s.shown)
    BY <2>1 DEF SnapshotOK
  <2>3. \A ranges \in {s.coverage, s.missing} :
          \A k \in 1 .. Len(ranges) - 1 : ranges[k][2] + 1 < ranges[k + 1][1]
    BY <2>2 DEF Proper
  <2> QED
    BY <2>1, <2>2, <2>3 DEF s, shown, top
<1> QED
  BY <1>1, RecorderInvariant, ContentInvariant, PTL

(* Exit status 0 is given only when everything up to the newest number any  *)
(* capture has shown was observed, and by a capture that has seen it.       *)
THEOREM CleanExitsAreClean == Spec => []CleanExit
<1>1. ASSUME RInv, ContentInv PROVE CleanExit
  <2> SUFFICES ASSUME damage = 0, NEW r \in reports, r.status = 0, r.number \in DOMAIN archive,
                      ShownUpTo(r.number) # {}
               PROVE  LET shown == ShownUpTo(r.number)
                      IN  /\ shown = archive[r.number].config.after + 1 .. Max(shown)
                          /\ Max(shown) \in archive[r.number].shown
    BY DEF CleanExit
  <2> DEFINE s == archive[r.number]
             shown == ShownUpTo(r.number)
             top == Top(s.coverage, s.config.after)
  <2>1. /\ SnapshotOK(s, Shown(archive, r.number - 1))
        /\ Covered(s.missing) = (s.config.after + 1 .. top) \ shown
        /\ top = Max(shown) /\ s.coverage # <<>>
        /\ shown \subseteq s.config.after + 1 .. top
    BY <1>1, SnapshotRead
  <2>2. ~s.warned
    BY <1>1 DEF ContentInv, ReportsRead
  <2> HIDE DEF s, shown
  <2>3. s.missing = <<>> /\ top \in s.shown
    BY <2>1, <2>2 DEF SnapshotOK
  <2>4. (s.config.after + 1 .. top) \ shown = {}
    BY <2>1, <2>3, EmptyCovered
  <2>5. shown = s.config.after + 1 .. top
    BY <2>1, <2>4
  <2> QED
    BY <2>1, <2>3, <2>5 DEF s, shown
<1> QED
  BY <1>1, RecorderInvariant, ContentInvariant, PTL
=============================================================================
