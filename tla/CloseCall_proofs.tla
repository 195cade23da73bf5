--------------------------- MODULE CloseCall_proofs ---------------------------
(***************************************************************************)
(* Theorems of the two verifiers of a contest, for any rooms, any number of *)
(* sweeps and any party that departs from its part.                         *)
(***************************************************************************)
EXTENDS CloseCallArchive, FiniteSetTheorems, TLAPS

Parties == {"server", "referee", "relay", "keeper"}
Signers == {Referee, Stranger}
Files == [n : Nat, version : {"full", "other"}]

(* What is ever posted in a room.                                           *)
SweepRecords(k) ==
  [room : {k}, from : Signers, t : {k}, n : Nat, file : Files, binds : {FALSE}]
MarkRecords(k) ==
  [room : {k}, from : {Referee}, t : {"seed", "final"}, n : {0}, file : {None}, binds : BOOLEAN]
Records(k) == SweepRecords(k) \cup MarkRecords(k)

AnyRecord ==
  [room : Kinds, from : Signers, t : Kinds \cup {"seed", "final"}, n : Nat,
   file : Files \cup {None}, binds : BOOLEAN]
Lines == [seq : Nat, record : AnyRecord]

PackageFiles == [Artifacts -> {"reviewed", "edited"}]
Reports ==
  [referee : Signers, files : Seq(Files), final : BOOLEAN, package : PackageFiles]

CallTypeOK ==
  /\ party \in Parties /\ slipped \in BOOLEAN
  /\ DOMAIN rooms = Kinds /\ \A k \in Kinds : rooms[k] \in Seq(Records(k))
  /\ swept \in [Kinds -> 0..MaxSweeps]
  /\ evicted \in [Kinds -> {0, 1}]
  /\ \A k \in Kinds : evicted[k] <= Len(rooms[k])
  /\ exports \in [Kinds -> Seq(Lines)]
  /\ package \in [manifest : PackageFiles, files : PackageFiles]
  /\ reports \subseteq Reports

-----------------------------------------------------------------------------
(* What the referee signs for a sweep when it does its part.                *)
Right(k, n) == Sweep(k, Referee, n, SweepFile(n))

(* One room at most has a sweep that is not the referee's own file, and     *)
(* none has one before the referee departs from its part.                   *)
AllRight(k) ==
  \A i \in DOMAIN rooms[k] : rooms[k][i].t = k => rooms[k][i].file = SweepFile(rooms[k][i].n)

OneWrongRoom ==
  /\ \E w \in Kinds : \A k \in Kinds \ {w} : AllRight(k)
  /\ party # "referee" \/ ~slipped => \A k \in Kinds : AllRight(k)

(* Until then the rooms hold the seed, the sweeps in order, and the final   *)
(* record, after which nothing is posted.                                   *)
PriceRoom ==
  LET price == rooms["price"]
      m == swept["price"]
  IN  \/ price = <<>> /\ \A k \in Kinds : swept[k] = 0
      \/ /\ Len(price) \in {m + 1, m + 2} /\ price[1] = Seed
         /\ \A n \in 1..m : price[n + 1] = Right("price", n)
         /\ Len(price) = m + 2 => price[m + 2] = Final

RoomsInOrder ==
  party # "referee" =>
    /\ PriceRoom
    /\ \A k \in Kinds \ {"price"} :
         Len(rooms[k]) = swept[k] /\ \A n \in 1..swept[k] : rooms[k][n] = Right(k, n)

(* What nobody but the keeper and the server changes.                       *)
Untouched ==
  /\ ~slipped => package = [manifest |-> Reviewed, files |-> Reviewed]
  /\ party # "server" \/ ~slipped => \A k \in Kinds : evicted[k] = 0

(* Every record that is saved was posted, and by nobody but a relay is it   *)
(* given another number.                                                    *)
ExportsPosted ==
  \A k \in Kinds : \A i \in DOMAIN exports[k] :
    LET line == exports[k][i]
    IN  /\ \E l \in Kinds : \E j \in DOMAIN rooms[l] : line.record = rooms[l][j]
        /\ party # "relay" => line.seq \in DOMAIN rooms[k] /\ line.record = rooms[k][line.seq]
        /\ party = "referee" => line.seq = i

(* What a report says of the rooms, for good.                               *)
ReportPlaced(r) ==
  LET price == rooms["price"]
      m == Len(r.files)
  IN  /\ Len(price) > m /\ \A i \in 2..(m + 1) : price[i].t # "final"
      /\ r.final => Len(price) > m + 1 /\ price[m + 2].t = "final"
      /\ \A n \in 1..m : n \in DOMAIN rooms["flow"] /\ rooms["flow"][n].file = r.files[n]

ReportsRight ==
  \A r \in reports :
    /\ \A n \in DOMAIN r.files : r.files[n] = SweepFile(n)
    /\ party # "relay" => ReportPlaced(r)

CallInv ==
  /\ CallTypeOK /\ OneWrongRoom /\ RoomsInOrder /\ Untouched /\ ExportsPosted
  /\ ReportFaithful /\ ReportsRight

(* The archive verifier's report, beside the flow room.                     *)
VerifiedRight ==
  verified # None =>
    /\ party = "referee" =>
         \A n \in DOMAIN verified.files :
           n \in DOMAIN rooms["flow"] /\ rooms["flow"][n].file = verified.files[n]
    /\ party # "referee" => \A n \in DOMAIN verified.files : verified.files[n] = SweepFile(n)

ArchiveTypeOK ==
  /\ Len(index) \in Nat /\ DOMAIN index = 1..Len(index)
  /\ \A i \in DOMAIN index : index[i].status \in {"full", "redacted"}

ArchiveInv == CallInv /\ ArchiveTypeOK /\ VerifiedRight /\ RecordsGenuine

-----------------------------------------------------------------------------
(* How rooms grow                                                           *)

(* A room loses nothing that was ever posted in it.                         *)
Grows ==
  /\ DOMAIN rooms' = Kinds
  /\ \A k \in Kinds : \A i \in DOMAIN rooms[k] :
       i \in DOMAIN rooms'[k] /\ rooms'[k][i] = rooms[k][i]
  /\ \A k \in Kinds : Len(rooms[k]) <= Len(rooms'[k])

(* A record that is posted is the last one of its room.                     *)
LEMMA PostedLast ==
  ASSUME CallTypeOK, NEW kind \in Kinds, NEW e \in Records(kind), Posted(kind, e)
  PROVE  /\ \A k \in Kinds \ {kind} : rooms'[k] = rooms[k]
         /\ rooms'[kind] = Append(rooms[kind], e)
         /\ Len(rooms'[kind]) = Len(rooms[kind]) + 1
         /\ rooms'[kind][Len(rooms[kind]) + 1] = e
         /\ \A i \in 1..Len(rooms[kind]) : rooms'[kind][i] = rooms[kind][i]
         /\ DOMAIN rooms' = Kinds
         /\ \A k \in Kinds : rooms'[k] \in Seq(Records(k))
         /\ Grows
<1>1. /\ DOMAIN rooms = Kinds /\ rooms[kind] \in Seq(Records(kind))
      /\ \A k \in Kinds : rooms[k] \in Seq(Records(k))
  BY DEF CallTypeOK
<1>2. /\ DOMAIN rooms' = Kinds
      /\ \A k \in Kinds \ {kind} : rooms'[k] = rooms[k]
      /\ rooms'[kind] = Append(rooms[kind], e)
  BY <1>1 DEF Posted
<1>3. /\ rooms'[kind] \in Seq(Records(kind))
      /\ Len(rooms'[kind]) = Len(rooms[kind]) + 1
      /\ rooms'[kind][Len(rooms[kind]) + 1] = e
      /\ \A i \in 1..Len(rooms[kind]) : rooms'[kind][i] = rooms[kind][i]
  BY <1>1, <1>2
<1>4. Grows
  BY <1>1, <1>2, <1>3 DEF Grows
<1> QED
  BY <1>1, <1>2, <1>3, <1>4

(* What the referee posts when it does its part.                            *)
LEMMA RightRecords ==
  ASSUME NEW k \in Kinds, NEW n \in Nat
  PROVE  /\ Right(k, n) \in Records(k) /\ Right(k, n).t = k
         /\ Right(k, n).n = n /\ Right(k, n).file = SweepFile(n)
         /\ Seed \in Records("price") /\ Final \in Records("price")
         /\ Seed.t = "seed" /\ Final.t = "final" /\ k \notin {"seed", "final"}
  BY CloseCallAssumption
     DEF Right, Sweep, Record, SweepFile, Seed, Final, Records, SweepRecords, MarkRecords,
         Signers, Files

(* Any record of a room is a record.                                        *)
LEMMA RecordsTyped ==
  ASSUME NEW k \in Kinds
  PROVE  Records(k) \subseteq AnyRecord
<1>1. MarkRecords(k) \subseteq AnyRecord
  BY DEF MarkRecords, AnyRecord, Signers
<1>2. SweepRecords(k) \subseteq AnyRecord
  BY DEF SweepRecords, AnyRecord
<1> QED
  BY <1>1, <1>2 DEF Records

(* What it posts when it does not.                                          *)
LEMMA WrongTyped ==
  ASSUME CallTypeOK, NEW k \in Kinds, NEW r \in WrongRecords(k)
  PROVE  r \in Records(k)
<1>1. swept[k] \in Nat
  BY CloseCallAssumption DEF CallTypeOK
<1>2. CASE r \in {Record(k, Referee, t, 0, None, b) : t \in {"seed", "final"}, b \in BOOLEAN}
  BY <1>2 DEF Record, Records, MarkRecords
<1>3. CASE r \in {Sweep(k, who, swept[k] + d, [n |-> swept[k] + d, version |-> v]) :
                    who \in {Referee, Stranger},
                    d \in {1, 2} \cap 1..(MaxSweeps + 1 - swept[k]), v \in {"full", "other"}}
  <2>1. PICK who \in {Referee, Stranger}, d \in {1, 2} \cap 1..(MaxSweeps + 1 - swept[k]),
             v \in {"full", "other"} :
          r = Sweep(k, who, swept[k] + d, [n |-> swept[k] + d, version |-> v])
    BY <1>3
  <2>2. swept[k] + d \in Nat
    BY <1>1
  <2>3. [n |-> swept[k] + d, version |-> v] \in Files
    BY <2>2 DEF Files
  <2> QED
    BY <2>1, <2>2, <2>3 DEF Sweep, Record, Records, SweepRecords, Signers
<1> QED
  BY <1>2, <1>3 DEF WrongRecords

-----------------------------------------------------------------------------
(* What is saved                                                            *)

(* What a room exports are its records, under their numbers.                *)
LEMMA Exported ==
  ASSUME CallTypeOK, NEW k \in Kinds
  PROVE  /\ Export(k) \in Seq(Lines)
         /\ \A i \in DOMAIN Export(k) :
              /\ i + evicted[k] \in DOMAIN rooms[k]
              /\ Export(k)[i] = [seq |-> i + evicted[k], record |-> rooms[k][i + evicted[k]]]
<1>1. /\ rooms[k] \in Seq(Records(k)) /\ evicted[k] \in {0, 1} /\ evicted[k] <= Len(rooms[k])
  BY DEF CallTypeOK
<1>2. Records(k) \subseteq AnyRecord
  BY RecordsTyped
<1>3. \A i \in 1..(Len(rooms[k]) - evicted[k]) :
        /\ i + evicted[k] \in DOMAIN rooms[k] /\ rooms[k][i + evicted[k]] \in AnyRecord
  BY <1>1, <1>2
<1>4. Len(rooms[k]) - evicted[k] \in Nat
  BY <1>1
<1> DEFINE n == Len(rooms[k]) - evicted[k]
<1>5. \A i \in 1..n : [seq |-> i + evicted[k], record |-> rooms[k][i + evicted[k]]] \in Lines
  BY <1>1, <1>3 DEF Lines
<1>6. Export(k) = [i \in 1..n |-> [seq |-> i + evicted[k], record |-> rooms[k][i + evicted[k]]]]
  BY DEF Export
<1> QED
  BY <1>3, <1>4, <1>5, <1>6

(* What a relay serves has been posted in some room.                        *)
LEMMA ServedPosted ==
  ASSUME CallTypeOK, NEW k \in Kinds, NEW file \in Served(k)
  PROVE  /\ file \in Seq(Lines)
         /\ \A i \in DOMAIN file : \E l \in Kinds : \E j \in DOMAIN rooms[l] :
              file[i].record = rooms[l][j]
<1> DEFINE P == {r \in AnyRecord : \E l \in Kinds : \E j \in DOMAIN rooms[l] : r = rooms[l][j]}
           genuine == rooms[k]
<1>1. \A l \in Kinds : rooms[l] \in Seq(P)
  <2>1. ASSUME NEW l \in Kinds  PROVE rooms[l] \in Seq(P)
    <3>1. rooms[l] \in Seq(AnyRecord)
      BY RecordsTyped DEF CallTypeOK
    <3>2. \A i \in 1..Len(rooms[l]) : rooms[l][i] \in P
      BY <3>1
    <3> QED
      BY <3>1, <3>2
  <2> QED
    BY <2>1
<1>2. PICK s : /\ file = [i \in DOMAIN s |-> [seq |-> i, record |-> s[i]]]
               /\ \/ \E i \in DOMAIN genuine : s = RemoveAt(genuine, i)
                  \/ \E i \in DOMAIN genuine : s = InsertAt(genuine, i, genuine[i])
                  \/ \E l \in {l \in Kinds : rooms[l] # <<>>} :
                       s = Append(genuine, Last(rooms[l]))
  BY DEF Served
<1> HIDE DEF P
<1>3. ASSUME \E i \in DOMAIN genuine : s = RemoveAt(genuine, i)
      PROVE  s \in Seq(P)
  <2>1. PICK d \in DOMAIN genuine :
          s = SubSeq(genuine, 1, d - 1) \o SubSeq(genuine, d + 1, Len(genuine))
    BY <1>3 DEF RemoveAt
  <2>2. /\ SubSeq(genuine, 1, d - 1) \in Seq(P)
        /\ SubSeq(genuine, d + 1, Len(genuine)) \in Seq(P)
    BY <1>1
  <2> QED
    BY <2>1, <2>2
<1>4. ASSUME \E i \in DOMAIN genuine : s = InsertAt(genuine, i, genuine[i])
      PROVE  s \in Seq(P)
  <2>1. PICK d \in DOMAIN genuine :
          s = SubSeq(genuine, 1, d - 1) \o <<genuine[d]>> \o SubSeq(genuine, d, Len(genuine))
    BY <1>4 DEF InsertAt
  <2>2. /\ SubSeq(genuine, 1, d - 1) \in Seq(P) /\ <<genuine[d]>> \in Seq(P)
        /\ SubSeq(genuine, d, Len(genuine)) \in Seq(P)
    BY <1>1
  <2> QED
    BY <2>1, <2>2
<1>5. ASSUME \E l \in {l \in Kinds : rooms[l] # <<>>} : s = Append(genuine, Last(rooms[l]))
      PROVE  s \in Seq(P)
  <2>1. PICK l \in Kinds : rooms[l] # <<>> /\ s = Append(genuine, Last(rooms[l]))
    BY <1>5
  <2>2. Last(rooms[l]) \in P
    BY <1>1, <2>1 DEF Last
  <2> QED
    BY <1>1, <2>1, <2>2
<1>6. s \in Seq(P)
  BY <1>2, <1>3, <1>4, <1>5
<1>7. /\ Len(s) \in Nat /\ DOMAIN s = 1..Len(s) /\ \A i \in 1..Len(s) : s[i] \in P
  BY <1>6
<1>8. /\ DOMAIN file = 1..Len(s)
      /\ \A i \in 1..Len(s) : file[i] = [seq |-> i, record |-> s[i]]
  BY <1>2, <1>7
<1>9. \A i \in 1..Len(s) : file[i] \in Lines
  BY <1>7, <1>8 DEF P, Lines
<1>10. file \in Seq(Lines)
  <2>1. file = [i \in 1..Len(s) |-> file[i]]
    BY <1>2, <1>7
  <2> QED
    BY <1>7, <1>9, <2>1
<1> QED
  BY <1>7, <1>8, <1>10 DEF P
-----------------------------------------------------------------------------
(* What is accepted                                                         *)

(* The sweeps of an export follow one another, from the line a to the line  *)
(* b: counted so, a number says how far into them a line is.                *)
LEMMA SweepNumbers ==
  ASSUME NEW file \in Seq(Lines), NEW a \in {1, 2}, NEW b \in Nat, a <= b + 1,
         SweepLines(file) = a..b
  PROVE  /\ Cardinality(SweepLines(file)) = b + 1 - a
         /\ Numbered(file) <=> \A i \in a..b : file[i].record.n = i + 1 - a
         /\ Numbered(file) =>
              Commitments(file) = [n \in 1..(b + 1 - a) |-> file[n + a - 1].record.file]
<1>1. Cardinality(a..b) = b + 1 - a
  BY FS_Interval
<1>2. ASSUME NEW i \in a..b
      PROVE  Cardinality((a..b) \cap 1..i) = i + 1 - a
  <2>1. (a..b) \cap 1..i = a..i
    OBVIOUS
  <2>2. a \in Int /\ i \in Int /\ ~(a > i)
    OBVIOUS
  <2>3. Cardinality(a..i) = i + 1 - a
    BY <2>2, FS_Interval
  <2> QED
    BY <2>1, <2>3, Zenon
<1>3. Numbered(file) <=> \A i \in a..b : file[i].record.n = i + 1 - a
  BY <1>2 DEF Numbered
<1>4. ASSUME Numbered(file)
      PROVE  Commitments(file) = [n \in 1..(b + 1 - a) |-> file[n + a - 1].record.file]
  <2>1. ASSUME NEW n \in 1..(b + 1 - a)
        PROVE  (CHOOSE i \in SweepLines(file) : file[i].record.n = n) = n + a - 1
    <3> DEFINE c == CHOOSE i \in SweepLines(file) : file[i].record.n = n
    <3>1. n + a - 1 \in a..b /\ file[n + a - 1].record.n = n
      BY <1>3, <1>4
    <3>2. c \in SweepLines(file) /\ file[c].record.n = n
      BY <3>1, Zenon
    <3> HIDE DEF c
    <3>3. c = n + a - 1
      BY <1>3, <1>4, <3>2
    <3> QED
      BY <3>3 DEF c
  <2>2. Cardinality(SweepLines(file)) = b + 1 - a
    BY <1>1, Zenon
  <2> QED
    <3>1. Commitments(file) =
            [n \in 1..(b + 1 - a) |->
               file[CHOOSE i \in SweepLines(file) : file[i].record.n = n].record.file]
      BY <2>2, Zenon DEF Commitments
    <3> DEFINE c(n) == CHOOSE i \in SweepLines(file) : file[i].record.n = n
    <3>2. Commitments(file) = [n \in 1..(b + 1 - a) |-> file[c(n)].record.file]
      BY <3>1
    <3>3. \A n \in 1..(b + 1 - a) : c(n) = n + a - 1
      BY <2>1
    <3> HIDE DEF c
    <3> QED
      BY <3>2, <3>3
<1> QED
  BY <1>1, <1>3, <1>4

(* What comes before the sweeps of a room.                                  *)
Before(k) == IF k = "price" THEN 1 ELSE 0

(* An export that is accepted: the seed in the price room, m sweeps in      *)
(* order, and at most a final record after them.                            *)
Taken(k, m) ==
  LET file == exports[k]
  IN  /\ m \in Nat /\ m + Before(k) <= Len(file)
      /\ Commitments(file) = [n \in 1..m |-> file[n + Before(k)].record.file]
      /\ \A n \in 1..m : LET r == file[n + Before(k)].record
                         IN  r.room = k /\ r.t = k /\ r.n = n
      /\ k = "price" => /\ file[1].record.t = "seed"
                        /\ Last(file).record.t = "final" => Len(file) = m + 2

LEMMA Accepted ==
  ASSUME CallTypeOK, ExportsOk, NEW k \in Kinds
  PROVE  Taken(k, Len(Commitments(exports[k])))
<1> DEFINE file == exports[k]
<1>1. /\ file \in Seq(Lines) /\ file # <<>> /\ SignedFor(k, file)
      /\ SeedFirst(k, file) /\ FinalLast(k, file) /\ Numbered(file)
      /\ k = "price" => file[1].record.t = "seed"
  BY DEF CallTypeOK, ExportsOk, Complete
<1>2. DOMAIN file = 1..Len(file)
  BY <1>1
<1>3. Len(file) \in Nat /\ Len(file) >= 1
  BY <1>1
<1>4. \A i \in 1..Len(file) : file[i].record.room = k /\ file[i].record.t \in RoomTypes(k)
  BY <1>1, <1>2 DEF SignedFor
<1>5. k \notin {"seed", "final"}
  BY CloseCallAssumption
<1> HIDE DEF file
<1>6. ASSUME NEW a \in {1, 2}, NEW b \in Nat, a <= b + 1, b <= Len(file), SweepLines(file) = a..b,
             a = 1 + Before(k), \A i \in a..b : file[i].record.t = k,
             k = "price" => (Last(file).record.t = "final" => Len(file) = b + 1)
      PROVE  Taken(k, Len(Commitments(file)))
  <2> DEFINE m == b + 1 - a
  <2>1. /\ Commitments(file) = [n \in 1..m |-> file[n + a - 1].record.file]
        /\ \A i \in a..b : file[i].record.n = i + 1 - a
    BY <1>1, <1>6, SweepNumbers
  <2>2. Before(k) \in Nat /\ Before(k) = a - 1 /\ m \in Nat /\ m + Before(k) <= Len(file)
    BY <1>3, <1>6 DEF Before
  <2>3. Len(Commitments(file)) = m
    BY <2>1, <2>2
  <2>4. \A n \in 1..m : n + Before(k) \in a..b /\ n + Before(k) = n + a - 1
    BY <2>2
  <2>5. Commitments(file) = [n \in 1..m |-> file[n + Before(k)].record.file]
    BY <2>1, <2>4
  <2>6. \A n \in 1..m : /\ file[n + Before(k)].record.room = k
                        /\ file[n + Before(k)].record.t = k
                        /\ file[n + Before(k)].record.n = n
    <3>1. ASSUME NEW n \in 1..m
          PROVE  /\ file[n + Before(k)].record.room = k
                 /\ file[n + Before(k)].record.t = k
                 /\ file[n + Before(k)].record.n = n
      <4>1. n + Before(k) \in a..b /\ n + Before(k) = n + a - 1
        BY <2>4
      <4>2. n + Before(k) \in 1..Len(file) /\ n + Before(k) + 1 - a = n
        BY <1>3, <1>6, <4>1
      <4> QED
        BY <1>4, <1>6, <2>1, <4>1, <4>2
    <3> QED
      BY <3>1
  <2>7. k = "price" => (Last(file).record.t = "final" => Len(file) = m + 2)
    BY <1>6, <2>2 DEF Before
  <2> HIDE DEF m
  <2> QED
    BY <1>1, <2>2, <2>3, <2>5, <2>6, <2>7 DEF Taken, file
<1>7. CASE k # "price"
  <2>1. \A i \in 1..Len(file) : file[i].record.t = k
    BY <1>4, <1>7 DEF RoomTypes
  <2>2. SweepLines(file) = 1..Len(file)
    BY <1>2, <1>5, <2>1 DEF SweepLines
  <2> QED
    BY <1>3, <1>6, <1>7, <2>1, <2>2 DEF file, Before
<1>8. CASE k = "price"
  <2>1. /\ file[1].record.t = "seed"
        /\ \A i \in 1..Len(file) : /\ file[i].record.t = "seed" => i = 1
                                   /\ file[i].record.t = "final" => i = Len(file)
                                   /\ file[i].record.t \in {"seed", "price", "final"}
    BY <1>1, <1>2, <1>3, <1>4, <1>8 DEF SeedFirst, FinalLast, RoomTypes
  <2>2. CASE Last(file).record.t = "final"
    <3>1. SweepLines(file) = 2..(Len(file) - 1)
      <4>1. ASSUME NEW i \in 1..Len(file)
            PROVE  file[i].record.t \notin {"seed", "final"} <=> i \in 2..(Len(file) - 1)
        BY <1>3, <2>1, <2>2 DEF Last
      <4> QED
        BY <1>2, <1>3, <4>1 DEF SweepLines
    <3>2. Len(file) - 1 \in Nat /\ 2 <= Len(file)
      <4>1. ~(Len(file) <= 1)
        BY <1>3, <2>1, <2>2 DEF Last
      <4> QED
        BY <1>3, <4>1
    <3>3. \A i \in 2..(Len(file) - 1) : file[i].record.t = k
      BY <1>3, <1>8, <2>1
    <3> QED
      BY <1>3, <1>6, <1>8, <3>1, <3>2, <3>3 DEF file, Before
  <2>3. CASE Last(file).record.t # "final"
    <3>1. SweepLines(file) = 2..Len(file)
      <4>1. ASSUME NEW i \in 1..Len(file)
            PROVE  file[i].record.t \notin {"seed", "final"} <=> i \in 2..Len(file)
        BY <1>3, <2>1, <2>3 DEF Last
      <4> QED
        BY <1>2, <1>3, <4>1 DEF SweepLines
    <3>2. \A i \in 2..Len(file) : file[i].record.t = k
      BY <1>3, <1>8, <2>1, <2>3 DEF Last
    <3> QED
      BY <1>3, <1>6, <1>8, <2>3, <3>1, <3>2 DEF file, Before
  <2> QED
    BY <2>2, <2>3
<1> QED
  BY <1>7, <1>8

-----------------------------------------------------------------------------
(* What stays as rooms grow                                                 *)

(* Nothing is posted.                                                       *)
LEMMA SameRooms ==
  ASSUME CallTypeOK, rooms' = rooms
  PROVE  Grows
  BY DEF CallTypeOK, Grows

(* A saved record remains posted.                                           *)
LEMMA ExportsStay ==
  ASSUME CallTypeOK, ExportsPosted, Grows, UNCHANGED <<party, exports>>
  PROVE  ExportsPosted'
<1> SUFFICES ASSUME NEW k \in Kinds, NEW i \in DOMAIN exports[k]
             PROVE  LET line == exports[k][i]
                    IN  /\ \E l \in Kinds : \E j \in DOMAIN rooms'[l] : line.record = rooms'[l][j]
                        /\ party # "relay" => /\ line.seq \in DOMAIN rooms'[k]
                                              /\ line.record = rooms'[k][line.seq]
                        /\ party = "referee" => line.seq = i
  BY DEF ExportsPosted
<1> DEFINE line == exports[k][i]
<1>1. PICK l \in Kinds : \E j \in DOMAIN rooms[l] : line.record = rooms[l][j]
  BY DEF ExportsPosted
<1>2. \E j \in DOMAIN rooms'[l] : line.record = rooms'[l][j]
  BY <1>1 DEF Grows
<1>3. party # "relay" => line.seq \in DOMAIN rooms'[k] /\ line.record = rooms'[k][line.seq]
  BY DEF Grows, ExportsPosted
<1>4. party = "referee" => line.seq = i
  BY DEF ExportsPosted
<1> QED
  BY <1>2, <1>3, <1>4

(* A closed contest remains closed.                                         *)
LEMMA ClosedStays ==
  ASSUME CallTypeOK, Grows, Closed
  PROVE  Closed'
  BY CloseCallAssumption DEF Closed, Grows

(* A report remains faithful.                                               *)
LEMMA FaithfulStays ==
  ASSUME CallTypeOK, ReportFaithful, Grows, UNCHANGED reports
  PROVE  ReportFaithful'
<1>1. ASSUME NEW r \in reports, NEW k \in Kinds, NEW n \in DOMAIN r.files
      PROVE  \E i \in DOMAIN rooms'[k] : rooms'[k][i] = Sweep(k, Referee, n, r.files[n])
  BY <1>1 DEF ReportFaithful, Grows
<1>2. \A r \in reports : r.final => Closed'
  BY ClosedStays DEF ReportFaithful
<1> QED
  BY <1>1, <1>2 DEF ReportFaithful

(* What a report says of the lines of the rooms stays true.                 *)
LEMMA PlacedStays ==
  ASSUME CallTypeOK, Grows, NEW r \in Reports, ReportPlaced(r)
  PROVE  ReportPlaced(r)'
<1> DEFINE m == Len(r.files)
<1>1. /\ "price" \in Kinds /\ "flow" \in Kinds /\ m \in Nat
      /\ Len(rooms["price"]) \in Nat /\ DOMAIN rooms["price"] = 1..Len(rooms["price"])
      /\ Len(rooms'["price"]) >= Len(rooms["price"])
  <2>1. "price" \in Kinds /\ "flow" \in Kinds
    BY CloseCallAssumption
  <2>2. r.files \in Seq(Files) /\ rooms["price"] \in Seq(Records("price"))
    BY <2>1 DEF Reports, CallTypeOK
  <2>3. Len(rooms["price"]) <= Len(rooms'["price"])
    BY <2>1 DEF Grows
  <2> QED
    BY <2>1, <2>2, <2>3
<1>2. \A i \in 1..Len(rooms["price"]) : rooms'["price"][i] = rooms["price"][i]
  BY <1>1 DEF Grows
<1>3. \A n \in DOMAIN rooms["flow"] :
        n \in DOMAIN rooms'["flow"] /\ rooms'["flow"][n] = rooms["flow"][n]
  BY <1>1 DEF Grows
<1>4. /\ Len(rooms["price"]) > m /\ \A i \in 2..(m + 1) : rooms["price"][i].t # "final"
      /\ r.final => Len(rooms["price"]) > m + 1 /\ rooms["price"][m + 2].t = "final"
      /\ \A n \in 1..m : n \in DOMAIN rooms["flow"] /\ rooms["flow"][n].file = r.files[n]
  BY DEF ReportPlaced
<1> DEFINE before == Len(rooms["price"])
           after == Len(rooms'["price"])
<1>5. before \in Nat /\ after >= before /\ before > m /\ m \in Nat /\ (r.final => before > m + 1)
  BY <1>1, <1>4
<1>6. ASSUME NEW i \in 2..(m + 1)
      PROVE  rooms'["price"][i].t # "final"
  <2>1. i \in 1..before
    <3> HIDE DEF m, before
    <3> QED
      BY <1>5, <1>6
  <2> QED
    BY <1>2, <1>4, <2>1
<1>7. ASSUME r.final
      PROVE  after > m + 1 /\ rooms'["price"][m + 2].t = "final"
  <2>1. m + 2 \in 1..before /\ after > m + 1
    <3>1. after \in Int
      BY <1>5, <1>1 DEF Grows
    <3> HIDE DEF m, before, after
    <3> QED
      BY <1>5, <1>7, <3>1
  <2> QED
    BY <1>2, <1>4, <1>7, <2>1
<1>8. \A n \in 1..m : n \in DOMAIN rooms'["flow"] /\ rooms'["flow"][n].file = r.files[n]
  BY <1>3, <1>4
<1> QED
  BY <1>5, <1>6, <1>7, <1>8 DEF ReportPlaced

LEMMA ReportsStay ==
  ASSUME CallTypeOK, ReportsRight, Grows, UNCHANGED <<party, reports>>
  PROVE  ReportsRight'
<1>1. \A r \in reports : r \in Reports
  BY DEF CallTypeOK
<1>2. \A r \in reports : party # "relay" => ReportPlaced(r)'
  BY <1>1, PlacedStays DEF ReportsRight
<1> QED
  BY <1>2 DEF ReportsRight

(* The same of the archive's report.                                        *)
LEMMA VerifiedStays ==
  ASSUME CallTypeOK, VerifiedRight, RecordsGenuine, Grows, UNCHANGED <<party, verified>>
  PROVE  VerifiedRight' /\ RecordsGenuine'
<1>1. "flow" \in Kinds
  BY CloseCallAssumption
<1>2. VerifiedRight'
  BY <1>1 DEF VerifiedRight, Grows
<1>3. RecordsGenuine'
  BY <1>1 DEF RecordsGenuine, Grows
<1> QED
  BY <1>2, <1>3

-----------------------------------------------------------------------------
(* Records that are posted                                                  *)

(* Whatever is posted leaves the types, the package, what was saved and     *)
(* what was reported as they have to be.                                    *)
LEMMA PostKeeps ==
  ASSUME CallInv, NEW kind \in Kinds, NEW e \in Records(kind), Posted(kind, e),
         UNCHANGED <<party, evicted, exports, package, reports>>,
         swept' \in [Kinds -> 0..MaxSweeps], slipped' \in BOOLEAN, slipped => slipped'
  PROVE  CallTypeOK' /\ Untouched' /\ ExportsPosted' /\ ReportFaithful' /\ ReportsRight'
<1>1. CallTypeOK /\ Untouched /\ ExportsPosted /\ ReportFaithful /\ ReportsRight
  BY DEF CallInv
<1>2. /\ DOMAIN rooms' = Kinds /\ \A k \in Kinds : rooms'[k] \in Seq(Records(k)) /\ Grows
  BY <1>1, PostedLast
<1>3. CallTypeOK'
  <2>1. \A k \in Kinds : evicted[k] <= Len(rooms'[k])
    <3> SUFFICES ASSUME NEW k \in Kinds  PROVE evicted[k] <= Len(rooms'[k])
      OBVIOUS
    <3>1. /\ evicted[k] \in {0, 1} /\ evicted[k] <= Len(rooms[k]) /\ Len(rooms[k]) \in Nat
          /\ Len(rooms'[k]) \in Nat /\ Len(rooms[k]) <= Len(rooms'[k])
      BY <1>1, <1>2 DEF CallTypeOK, Grows
    <3> QED
      BY <3>1
  <2> QED
    BY <1>1, <1>2, <2>1 DEF CallTypeOK
<1>4. Untouched'
  BY <1>1 DEF Untouched
<1> QED
  BY <1>1, <1>2, <1>3, <1>4, ExportsStay, FaithfulStays, ReportsStay

(* A right record leaves the rooms right.                                   *)
LEMMA PostRight ==
  ASSUME CallTypeOK, OneWrongRoom, NEW kind \in Kinds, NEW e \in Records(kind), Posted(kind, e),
         e.t = kind => e.file = SweepFile(e.n), UNCHANGED <<party, slipped>>
  PROVE  OneWrongRoom'
<1>1. ASSUME NEW k \in Kinds, AllRight(k)
      PROVE  AllRight(k)'
  <2>1. /\ rooms[k] \in Seq(Records(k)) /\ rooms'[k] \in Seq(Records(k))
        /\ \A i \in 1..Len(rooms[k]) : rooms[k][i].t = k =>
             rooms[k][i].file = SweepFile(rooms[k][i].n)
    BY <1>1, PostedLast DEF CallTypeOK, AllRight
  <2>2. CASE k # kind
    <3>1. rooms'[k] = rooms[k]
      BY <2>2, PostedLast
    <3> QED
      BY <1>1, <3>1 DEF AllRight
  <2>3. CASE k = kind
    <3>1. /\ Len(rooms'[k]) = Len(rooms[k]) + 1 /\ rooms'[k][Len(rooms[k]) + 1] = e
          /\ \A i \in 1..Len(rooms[k]) : rooms'[k][i] = rooms[k][i]
      BY <2>3, PostedLast
    <3>2. ASSUME NEW i \in 1..Len(rooms'[k]), rooms'[k][i].t = k
          PROVE  rooms'[k][i].file = SweepFile(rooms'[k][i].n)
      <4>1. i \in 1..Len(rooms[k]) \/ i = Len(rooms[k]) + 1
        BY <2>1, <3>1
      <4> QED
        BY <2>1, <2>3, <3>1, <3>2, <4>1
    <3> QED
      BY <2>1, <3>2 DEF AllRight
  <2> QED
    BY <2>2, <2>3
<1>2. (\E w \in Kinds : \A k \in Kinds \ {w} : AllRight(k))'
  BY <1>1 DEF OneWrongRoom
<1>3. party # "referee" \/ ~slipped => \A k \in Kinds : AllRight(k)'
  BY <1>1 DEF OneWrongRoom
<1> QED
  BY <1>2, <1>3 DEF OneWrongRoom

(* The seed is the first record of the price room.                          *)
LEMMA SeedKeeps ==
  ASSUME CallInv, PostSeed
  PROVE  CallInv'
<1>1. CallTypeOK /\ OneWrongRoom /\ RoomsInOrder
  BY DEF CallInv
<1>2. "price" \in Kinds /\ Seed \in Records("price") /\ Seed.t = "seed"
  BY CloseCallAssumption, RightRecords
<1>3. CallTypeOK' /\ Untouched' /\ ExportsPosted' /\ ReportFaithful' /\ ReportsRight'
  <2>1. swept \in [Kinds -> 0..MaxSweeps] /\ slipped \in BOOLEAN
    BY <1>1 DEF CallTypeOK
  <2> QED
    BY <1>2, <2>1, PostKeeps DEF PostSeed
<1>4. OneWrongRoom'
  BY <1>1, <1>2, PostRight DEF PostSeed
<1>5. RoomsInOrder'
  <2> SUFFICES ASSUME party # "referee"  PROVE RoomsInOrder'
    BY DEF RoomsInOrder, PostSeed
  <2>1. /\ rooms["price"] = <<>> /\ \A k \in Kinds : swept[k] = 0
        /\ \A k \in Kinds \ {"price"} : Len(rooms[k]) = swept[k]
    <3>1. rooms["price"] = <<>> /\ PriceRoom
      BY <1>1 DEF RoomsInOrder, PostSeed, Seeded
    <3>2. swept["price"] \in Nat
      BY <1>1, <1>2, CloseCallAssumption DEF CallTypeOK
    <3>3. Len(rooms["price"]) \notin {swept["price"] + 1, swept["price"] + 2}
      BY <3>1, <3>2
    <3> QED
      BY <1>1, <3>1, <3>3 DEF RoomsInOrder, PriceRoom
  <2>2. /\ \A k \in Kinds \ {"price"} : rooms'[k] = rooms[k]
        /\ Len(rooms'["price"]) = 1 /\ rooms'["price"][1] = Seed
    <3>1. Len(rooms["price"]) = 0
      BY <2>1
    <3>2. /\ \A k \in Kinds \ {"price"} : rooms'[k] = rooms[k]
          /\ Len(rooms'["price"]) = Len(rooms["price"]) + 1
          /\ rooms'["price"][Len(rooms["price"]) + 1] = Seed
      BY <1>1, <1>2, PostedLast DEF PostSeed
    <3> QED
      BY <3>1, <3>2
  <2>3. \A k \in Kinds : swept'[k] = 0
    BY <2>1 DEF PostSeed
  <2>4. PriceRoom'
    BY <1>2, <2>2, <2>3 DEF PriceRoom
  <2> QED
    BY <2>1, <2>2, <2>3, <2>4 DEF RoomsInOrder
<1> QED
  BY <1>3, <1>4, <1>5 DEF CallInv

(* The next sweep of a room.                                                *)
LEMMA SweepKeeps ==
  ASSUME CallInv, NEW kind \in Kinds, PostSweep(kind)
  PROVE  CallInv'
<1> DEFINE n == swept[kind] + 1
           e == Right(kind, n)
<1>1. CallTypeOK /\ OneWrongRoom /\ RoomsInOrder
  BY DEF CallInv
<1>2. /\ swept \in [Kinds -> 0..MaxSweeps] /\ slipped \in BOOLEAN /\ MaxSweeps \in Nat
      /\ swept[kind] \in Nat /\ n \in Nat
  BY <1>1, CloseCallAssumption DEF CallTypeOK
<1>3. /\ e \in Records(kind) /\ e.t = kind /\ e.n = n /\ e.file = SweepFile(n)
      /\ kind \notin {"seed", "final"}
  BY <1>2, RightRecords
<1>4. /\ Posted(kind, e) /\ swept' = [swept EXCEPT ![kind] = n] /\ n <= MaxSweeps
      /\ UNCHANGED <<party, slipped, evicted, exports, package, reports>>
  BY <1>2 DEF PostSweep, Right
<1> HIDE DEF e, n
<1>5. swept' \in [Kinds -> 0..MaxSweeps]
  BY <1>2, <1>4
<1>6. CallTypeOK' /\ Untouched' /\ ExportsPosted' /\ ReportFaithful' /\ ReportsRight'
  BY <1>2, <1>3, <1>4, <1>5, PostKeeps
<1>7. OneWrongRoom'
  BY <1>1, <1>3, <1>4, PostRight
<1>8. RoomsInOrder'
  <2> SUFFICES ASSUME party # "referee"  PROVE PriceRoom' /\ \A k \in Kinds \ {"price"} :
                 (Len(rooms[k]) = swept[k] /\ \A x \in 1..swept[k] : rooms[k][x] = Right(k, x))'
    BY <1>4 DEF RoomsInOrder
  <2>1. /\ PriceRoom /\ rooms["price"] # <<>> /\ ~Closed
        /\ \A k \in Kinds \ {"price"} :
             Len(rooms[k]) = swept[k] /\ \A x \in 1..swept[k] : rooms[k][x] = Right(k, x)
    BY <1>1 DEF RoomsInOrder, PostSweep, Seeded
  <2>2. /\ Len(rooms'[kind]) = Len(rooms[kind]) + 1
        /\ rooms'[kind][Len(rooms[kind]) + 1] = e
        /\ \A i \in 1..Len(rooms[kind]) : rooms'[kind][i] = rooms[kind][i]
        /\ \A k \in Kinds \ {kind} : rooms'[k] = rooms[k]
    BY <1>1, <1>3, <1>4, PostedLast
  <2>3. swept'[kind] = n /\ \A k \in Kinds \ {kind} : swept'[k] = swept[k]
    BY <1>2, <1>4
  <2>4. "price" \in Kinds
    BY CloseCallAssumption
  <2>5. ASSUME NEW k \in Kinds \ {"price"}
        PROVE  (Len(rooms[k]) = swept[k] /\ \A x \in 1..swept[k] : rooms[k][x] = Right(k, x))'
    <3>1. CASE k # kind
      BY <2>1, <2>2, <2>3, <3>1 DEF Right, Sweep, Record
    <3>2. CASE k = kind
      <4>1. /\ Len(rooms[kind]) = swept[kind]
            /\ \A x \in 1..swept[kind] : rooms[kind][x] = Right(kind, x)
        BY <2>1, <3>2
      <4>2. ASSUME NEW x \in 1..n  PROVE rooms'[kind][x] = Right(kind, x)
        BY <1>2, <2>2, <4>1 DEF e, n
      <4>3. Len(rooms'[kind]) = n /\ \A x \in 1..swept'[kind] : rooms'[kind][x] = Right(kind, x)
        BY <1>2, <2>2, <2>3, <4>1, <4>2 DEF n
      <4> QED
        BY <2>3, <3>2, <4>3 DEF Right, Sweep, Record
    <3> QED
      BY <3>1, <3>2
  <2>6. PriceRoom'
    <3> DEFINE price == rooms["price"]
               m == swept["price"]
    <3>1. rooms["price"] \in Seq(Records("price")) /\ m \in Nat
      BY <1>1, <1>2, <2>4 DEF CallTypeOK
    <3>2. /\ Len(price) = m + 1 /\ price[1] = Seed
          /\ \A x \in 1..m : price[x + 1] = Right("price", x)
      <4>1. Len(price) # m + 2
        BY <2>1, <2>4, <3>1, RightRecords DEF PriceRoom, Closed
      <4> QED
        BY <2>1, <4>1 DEF PriceRoom
    <3>3. CASE kind # "price"
      <4>1. rooms'["price"] = rooms["price"] /\ swept'["price"] = m
        BY <2>2, <2>3, <2>4, <3>3
      <4>2. Len(price) # m + 2
        BY <3>1, <3>2
      <4> QED
        BY <3>2, <4>1, <4>2 DEF PriceRoom, Seed, Right, Sweep, Record
    <3>4. CASE kind = "price"
      <4>1. /\ Len(rooms'["price"]) = n + 1 /\ rooms'["price"][1] = Seed
            /\ rooms'["price"][n + 1] = Right("price", n) /\ swept'["price"] = n
        BY <1>2, <2>2, <2>3, <3>1, <3>2, <3>4 DEF n, e
      <4>2. ASSUME NEW x \in 1..n  PROVE rooms'["price"][x + 1] = Right("price", x)
        <5>1. m = swept[kind] /\ n = m + 1 /\ Len(rooms[kind]) = n
          BY <1>2, <3>1, <3>2, <3>4 DEF n
        <5>2. CASE x = n
          BY <4>1, <5>2
        <5>3. CASE x \in 1..m
          <6>1. x + 1 \in 1..n
            BY <3>1, <5>1, <5>3
          <6>2. rooms'["price"][x + 1] = price[x + 1]
            BY <2>2, <3>4, <5>1, <6>1
          <6> QED
            BY <3>2, <5>3, <6>2
        <5> QED
          BY <3>1, <5>1, <5>2, <5>3
      <4>3. Len(rooms'["price"]) # n + 2 /\ rooms'["price"] # <<>>
        BY <1>2, <4>1
      <4> QED
        BY <4>1, <4>2, <4>3 DEF PriceRoom, Seed, Right, Sweep, Record
    <3> QED
      BY <3>3, <3>4
  <2> QED
    BY <2>5, <2>6
<1> QED
  BY <1>6, <1>7, <1>8 DEF CallInv

(* The final record ends the price room.                                    *)
LEMMA FinalKeeps ==
  ASSUME CallInv, PostFinal
  PROVE  CallInv'
<1>1. CallTypeOK /\ OneWrongRoom /\ RoomsInOrder
  BY DEF CallInv
<1>2. "price" \in Kinds /\ Final \in Records("price") /\ Final.t = "final"
  BY CloseCallAssumption, RightRecords
<1>3. CallTypeOK' /\ Untouched' /\ ExportsPosted' /\ ReportFaithful' /\ ReportsRight'
  <2>1. swept \in [Kinds -> 0..MaxSweeps] /\ slipped \in BOOLEAN
    BY <1>1 DEF CallTypeOK
  <2> QED
    BY <1>2, <2>1, PostKeeps DEF PostFinal
<1>4. OneWrongRoom'
  BY <1>1, <1>2, PostRight DEF PostFinal
<1>5. RoomsInOrder'
  <2> SUFFICES ASSUME party # "referee"  PROVE RoomsInOrder'
    BY DEF RoomsInOrder, PostFinal
  <2> DEFINE price == rooms["price"]
             m == swept["price"]
  <2>1. rooms["price"] \in Seq(Records("price")) /\ m \in Nat
    BY <1>1, <1>2, CloseCallAssumption DEF CallTypeOK
  <2>2. /\ Len(price) = m + 1 /\ price[1] = Seed
        /\ \A x \in 1..m : price[x + 1] = Right("price", x)
    <3>1. ~Closed /\ PriceRoom /\ price # <<>>
      BY <1>1 DEF RoomsInOrder, PostFinal, Seeded
    <3>2. Len(price) # m + 2
      BY <1>2, <2>1, <3>1 DEF PriceRoom, Closed
    <3> QED
      BY <3>1, <3>2 DEF PriceRoom
  <2>3. /\ Len(rooms'["price"]) = m + 2 /\ rooms'["price"][m + 2] = Final
        /\ \A x \in 1..(m + 1) : rooms'["price"][x] = price[x]
        /\ \A k \in Kinds \ {"price"} : rooms'[k] = rooms[k]
    BY <1>1, <1>2, <2>1, <2>2, PostedLast DEF PostFinal
  <2>4. swept' = swept
    BY DEF PostFinal
  <2>5. PriceRoom'
    <3>1. /\ rooms'["price"] # <<>> /\ rooms'["price"][1] = Seed
          /\ \A x \in 1..m : rooms'["price"][x + 1] = Right("price", x)
      <4>1. 1 \in 1..(m + 1) /\ \A x \in 1..m : x + 1 \in 1..(m + 1)
        BY <2>1
      <4>2. rooms'["price"] # <<>>
        BY <2>1, <2>3
      <4> QED
        BY <2>2, <2>3, <4>1, <4>2
    <3> QED
      BY <2>3, <2>4, <3>1 DEF PriceRoom, Seed, Right, Final, Sweep, Record
  <2> QED
    BY <1>1, <2>3, <2>4, <2>5 DEF RoomsInOrder
<1> QED
  BY <1>3, <1>4, <1>5 DEF CallInv

(* A wrong record, the first one, makes its room the wrong one.             *)
LEMMA WrongKeeps ==
  ASSUME CallInv, NEW kind \in Kinds, NEW r \in WrongRecords(kind), PostWrong(kind, r)
  PROVE  CallInv'
<1>1. CallTypeOK /\ OneWrongRoom
  BY DEF CallInv
<1>2. r \in Records(kind)
  BY <1>1, WrongTyped
<1>3. /\ swept \in [Kinds -> 0..MaxSweeps] /\ MaxSweeps \in Nat
      /\ party = "referee" /\ ~slipped /\ slipped' = TRUE /\ Posted(kind, r)
      /\ UNCHANGED <<party, evicted, exports, package, reports>>
  BY <1>1, CloseCallAssumption DEF CallTypeOK, PostWrong
<1>4. swept' \in [Kinds -> 0..MaxSweeps]
  <2>1. CASE swept' = swept
    BY <1>3, <2>1
  <2>2. CASE swept' = [swept EXCEPT ![kind] = @ + 1]
    <3>1. swept'[kind] = swept[kind] + 1 /\ swept[kind] \in Nat /\ swept'[kind] <= MaxSweeps
      BY <1>3, <2>2 DEF PostWrong
    <3> QED
      BY <1>3, <2>2, <3>1
  <2> QED
    BY <2>1, <2>2 DEF PostWrong
<1>5. CallTypeOK' /\ Untouched' /\ ExportsPosted' /\ ReportFaithful' /\ ReportsRight'
  BY <1>2, <1>3, <1>4, PostKeeps
<1>6. OneWrongRoom'
  <2>1. \A k \in Kinds \ {kind} : rooms'[k] = rooms[k] /\ AllRight(k)
    BY <1>1, <1>2, <1>3, PostedLast DEF OneWrongRoom
  <2>2. \A k \in Kinds \ {kind} : AllRight(k)'
    BY <2>1 DEF AllRight
  <2> QED
    BY <1>3, <2>2 DEF OneWrongRoom
<1>7. RoomsInOrder'
  BY <1>3 DEF RoomsInOrder
<1> QED
  BY <1>5, <1>6, <1>7 DEF CallInv

-----------------------------------------------------------------------------
(* Records that go, exports and files                                       *)

(* What is evicted is gone from later exports only.                         *)
LEMMA EvictKeeps ==
  ASSUME CallInv, NEW kind \in Kinds, Evict(kind)
  PROVE  CallInv'
<1>1. CallTypeOK /\ OneWrongRoom /\ RoomsInOrder /\ ExportsPosted /\ ReportFaithful /\ ReportsRight
  BY DEF CallInv
<1>2. /\ party = "server" /\ slipped' = TRUE /\ evicted' = [evicted EXCEPT ![kind] = 1]
      /\ rooms[kind] # <<>> /\ UNCHANGED <<rooms, swept, party, exports, package, reports>>
  BY DEF Evict
<1>3. CallTypeOK'
  <2>1. evicted' \in [Kinds -> {0, 1}]
    BY <1>1, <1>2 DEF CallTypeOK
  <2>2. \A k \in Kinds : evicted'[k] <= Len(rooms[k])
    <3>1. rooms[kind] \in Seq(Records(kind)) /\ evicted \in [Kinds -> {0, 1}]
      BY <1>1 DEF CallTypeOK
    <3>2. Len(rooms[kind]) >= 1 /\ evicted'[kind] = 1
      BY <1>2, <3>1
    <3> QED
      BY <1>1, <1>2, <3>1, <3>2 DEF CallTypeOK
  <2> QED
    BY <1>1, <1>2, <2>1, <2>2 DEF CallTypeOK
<1>4. OneWrongRoom' /\ RoomsInOrder'
  BY <1>1, <1>2 DEF OneWrongRoom, AllRight, RoomsInOrder, PriceRoom
<1>5. Untouched'
  BY <1>2 DEF Untouched
<1>6. Grows
  BY <1>1, <1>2, SameRooms
<1> QED
  BY <1>1, <1>2, <1>3, <1>4, <1>5, <1>6, ExportsStay, FaithfulStays, ReportsStay DEF CallInv

(* What is saved of a room was posted in it, and with its number.           *)
LEMMA CaptureKeeps ==
  ASSUME CallInv, NEW kind \in Kinds, Capture(kind)
  PROVE  CallInv'
<1>1. /\ CallTypeOK /\ OneWrongRoom /\ RoomsInOrder /\ Untouched
      /\ ExportsPosted /\ ReportFaithful /\ ReportsRight
  BY DEF CallInv
<1>2. /\ exports' = [exports EXCEPT ![kind] = Export(kind)]
      /\ UNCHANGED <<rooms, swept, evicted, party, slipped, package, reports>>
  BY DEF Capture, env
<1>3. CallTypeOK'
  BY <1>1, <1>2, Exported DEF CallTypeOK
<1>4. OneWrongRoom' /\ RoomsInOrder' /\ Untouched'
  BY <1>1, <1>2 DEF OneWrongRoom, AllRight, RoomsInOrder, PriceRoom, Untouched
<1>5. ExportsPosted'
  <2>1. exports \in [Kinds -> Seq(Lines)]
    BY <1>1 DEF CallTypeOK
  <2>2. ASSUME NEW i \in DOMAIN Export(kind)
        PROVE  LET line == Export(kind)[i]
               IN  /\ \E l \in Kinds : \E j \in DOMAIN rooms[l] : line.record = rooms[l][j]
                   /\ line.seq \in DOMAIN rooms[kind] /\ line.record = rooms[kind][line.seq]
                   /\ party = "referee" => line.seq = i
    <3>1. /\ i + evicted[kind] \in DOMAIN rooms[kind]
          /\ Export(kind)[i] =
               [seq |-> i + evicted[kind], record |-> rooms[kind][i + evicted[kind]]]
      BY <1>1, Exported
    <3>2. party = "referee" => evicted[kind] = 0
      BY <1>1 DEF Untouched
    <3>3. i \in Int
      BY <1>1, Exported
    <3> QED
      BY <3>1, <3>2, <3>3
  <2>3. exports'[kind] = Export(kind) /\ \A k \in Kinds \ {kind} : exports'[k] = exports[k]
    BY <1>2, <2>1
  <2> SUFFICES ASSUME NEW k \in Kinds, NEW i \in DOMAIN exports'[k]
               PROVE  LET line == exports'[k][i]
                      IN  /\ \E l \in Kinds : \E j \in DOMAIN rooms[l] : line.record = rooms[l][j]
                          /\ party # "relay" => /\ line.seq \in DOMAIN rooms[k]
                                                /\ line.record = rooms[k][line.seq]
                          /\ party = "referee" => line.seq = i
    BY <1>2 DEF ExportsPosted
  <2>4. CASE k = kind
    BY <2>2, <2>3, <2>4
  <2>5. CASE k # kind
    BY <1>1, <2>3, <2>5 DEF ExportsPosted
  <2> QED
    BY <2>4, <2>5
<1>6. Grows
  BY <1>1, <1>2, SameRooms
<1> QED
  BY <1>1, <1>2, <1>3, <1>4, <1>5, <1>6, FaithfulStays, ReportsStay DEF CallInv

(* What a relay serves was posted in some room.                             *)
LEMMA CaptureWrongKeeps ==
  ASSUME CallInv, NEW kind \in Kinds, NEW file \in Served(kind), CaptureWrong(kind, file)
  PROVE  CallInv'
<1>1. /\ CallTypeOK /\ OneWrongRoom /\ RoomsInOrder /\ Untouched
      /\ ExportsPosted /\ ReportFaithful /\ ReportsRight
  BY DEF CallInv
<1>2. /\ exports' = [exports EXCEPT ![kind] = file] /\ party = "relay" /\ slipped' = TRUE
      /\ UNCHANGED <<rooms, swept, evicted, party, package, reports>>
  BY DEF CaptureWrong, env
<1>3. CallTypeOK'
  BY <1>1, <1>2, ServedPosted DEF CallTypeOK
<1>4. OneWrongRoom' /\ RoomsInOrder' /\ Untouched'
  BY <1>1, <1>2 DEF OneWrongRoom, AllRight, RoomsInOrder, PriceRoom, Untouched
<1>5. ExportsPosted'
  <2>1. exports'[kind] = file /\ \A k \in Kinds \ {kind} : exports'[k] = exports[k]
    BY <1>1, <1>2 DEF CallTypeOK
  <2>2. \A i \in DOMAIN file : \E l \in Kinds : \E j \in DOMAIN rooms[l] :
          file[i].record = rooms[l][j]
    BY <1>1, ServedPosted
  <2>3. ASSUME NEW k \in Kinds, NEW i \in DOMAIN exports'[k]
        PROVE  \E l \in Kinds : \E j \in DOMAIN rooms[l] : exports'[k][i].record = rooms[l][j]
    BY <1>1, <2>1, <2>2 DEF ExportsPosted
  <2> QED
    BY <1>2, <2>3 DEF ExportsPosted
<1>6. Grows
  BY <1>1, <1>2, SameRooms
<1> QED
  BY <1>1, <1>2, <1>3, <1>4, <1>5, <1>6, FaithfulStays, ReportsStay DEF CallInv

(* Files of the package matter to later runs only.                          *)
LEMMA EditKeeps ==
  ASSUME CallInv, NEW a \in Artifacts, NEW follow \in BOOLEAN, EditPackage(a, follow)
  PROVE  CallInv'
<1>1. /\ CallTypeOK /\ OneWrongRoom /\ RoomsInOrder /\ Untouched
      /\ ExportsPosted /\ ReportFaithful /\ ReportsRight
  BY DEF CallInv
<1>2. /\ party = "keeper" /\ slipped' = TRUE
      /\ UNCHANGED <<rooms, swept, evicted, party, exports, reports>>
  BY DEF EditPackage, env
<1>3. CallTypeOK'
  <2>1. package' \in [manifest : PackageFiles, files : PackageFiles]
    BY <1>1 DEF CallTypeOK, EditPackage, PackageFiles
  <2> QED
    BY <1>1, <1>2, <2>1 DEF CallTypeOK
<1>4. OneWrongRoom' /\ RoomsInOrder' /\ Untouched'
  BY <1>1, <1>2 DEF OneWrongRoom, AllRight, RoomsInOrder, PriceRoom, Untouched
<1>5. Grows
  BY <1>1, <1>2, SameRooms
<1> QED
  BY <1>1, <1>2, <1>3, <1>4, <1>5, ExportsStay, FaithfulStays, ReportsStay DEF CallInv

-----------------------------------------------------------------------------
(* A report                                                                 *)

(* Every line of an accepted export was posted in that room, by the         *)
(* referee.                                                                 *)
LEMMA AcceptedLines ==
  ASSUME CallInv, ExportsOk, NEW k \in Kinds, NEW i \in DOMAIN exports[k]
  PROVE  /\ \E j \in DOMAIN rooms[k] : exports[k][i].record = rooms[k][j]
         /\ exports[k][i].record \in Records(k) /\ exports[k][i].record.from = Referee
         /\ exports[k][i].seq = i
         /\ party # "relay" => i \in DOMAIN rooms[k] /\ exports[k][i].record = rooms[k][i]
<1>1. CallTypeOK /\ ExportsPosted
  BY DEF CallInv
<1>2. ASSUME NEW l \in Kinds, NEW x \in DOMAIN exports[l]
      PROVE  /\ \E j \in DOMAIN rooms[l] : exports[l][x].record = rooms[l][j]
             /\ exports[l][x].record \in Records(l)
  <2>1. exports[l][x].record.room = l
    BY DEF ExportsOk, SignedFor
  <2>2. PICK h \in Kinds : \E j \in DOMAIN rooms[h] : exports[l][x].record = rooms[h][j]
    BY <1>1 DEF ExportsPosted
  <2>3. exports[l][x].record \in Records(h)
    BY <1>1, <2>2 DEF CallTypeOK
  <2>4. h = l
    BY <2>1, <2>3 DEF Records, SweepRecords, MarkRecords
  <2> QED
    BY <2>2, <2>3, <2>4
<1>3. "price" \in Kinds /\ 1 \in DOMAIN exports["price"] /\ exports["price"][1].record.t = "seed"
  <2>1. "price" \in Kinds
    BY CloseCallAssumption
  <2>2. exports["price"] \in Seq(Lines) /\ exports["price"] # <<>>
    BY <1>1, <2>1 DEF CallTypeOK, ExportsOk, Complete
  <2> QED
    BY <2>1, <2>2 DEF ExportsOk
<1>4. exports["price"][1].record.from = Referee
  BY <1>2, <1>3 DEF Records, SweepRecords, MarkRecords
<1>5. exports[k][i].record.from = Referee
  BY <1>3, <1>4 DEF ExportsOk, OneSigner
<1>6. exports[k][i].seq = i
  BY DEF ExportsOk, Complete
<1>7. party # "relay" => i \in DOMAIN rooms[k] /\ exports[k][i].record = rooms[k][i]
  BY <1>1, <1>6 DEF ExportsPosted
<1> QED
  BY <1>2, <1>5, <1>6, <1>7

(* A sweep of an accepted export, as it was signed.                         *)
LEMMA AcceptedSweeps ==
  ASSUME CallInv, ExportsOk, NEW k \in Kinds, NEW l \in Kinds,
         NEW n \in 1..Len(Commitments(exports[k]))
  PROVE  LET file == Commitments(exports[k])[n]
         IN  /\ Commitments(exports[k]) = Commitments(exports[l])
             /\ n + Before(l) \in DOMAIN exports[l]
             /\ exports[l][n + Before(l)].record = Sweep(l, Referee, n, file)
             /\ file \in Files
             /\ \E j \in DOMAIN rooms[l] : rooms[l][j] = Sweep(l, Referee, n, file)
<1> DEFINE C == Commitments(exports[k])
           m == Len(C)
           i == n + Before(l)
           r == exports[l][i].record
<1>1. CallTypeOK
  BY DEF CallInv
<1>2. C = Commitments(exports[l])
  BY DEF ExportsOk, Agree
<1>3. Taken(l, m)
  BY <1>1, <1>2, Accepted
<1>4. /\ m \in Nat /\ m + Before(l) <= Len(exports[l]) /\ Before(l) \in Nat
      /\ C = [x \in 1..m |-> exports[l][x + Before(l)].record.file]
      /\ r.room = l /\ r.t = l /\ r.n = n
  BY <1>2, <1>3 DEF Taken, Before
<1>5. i \in DOMAIN exports[l]
  <2>1. exports[l] \in Seq(Lines)
    BY <1>1 DEF CallTypeOK
  <2> QED
    BY <1>4, <2>1
<1>6. /\ \E j \in DOMAIN rooms[l] : r = rooms[l][j]
      /\ r \in Records(l) /\ r.from = Referee
  BY <1>5, AcceptedLines
<1>7. C[n] = r.file
  BY <1>4
<1> HIDE DEF C, r, i
<1>8. r \in SweepRecords(l)
  BY <1>4, <1>6, CloseCallAssumption DEF Records, MarkRecords
<1>9. r = Sweep(l, Referee, n, C[n]) /\ C[n] \in Files
  BY <1>4, <1>6, <1>7, <1>8 DEF SweepRecords, Sweep, Record
<1> QED
  BY <1>2, <1>5, <1>6, <1>9 DEF C, r, i

(* With one wrong room at most, what all rooms say is right.                *)
LEMMA AcceptedRight ==
  ASSUME CallInv, ExportsOk, NEW k \in Kinds, NEW n \in 1..Len(Commitments(exports[k]))
  PROVE  Commitments(exports[k])[n] = SweepFile(n)
<1>1. PICK w \in Kinds : \A l \in Kinds \ {w} : AllRight(l)
  BY DEF CallInv, OneWrongRoom
<1>2. PICK l \in Kinds : AllRight(l)
  BY <1>1, CloseCallAssumption
<1>3. PICK j \in DOMAIN rooms[l] :
        rooms[l][j] = Sweep(l, Referee, n, Commitments(exports[k])[n])
  BY AcceptedSweeps
<1> QED
  BY <1>2, <1>3 DEF AllRight, Sweep, Record

(* The lines of the price room and of the flow room that a report is about. *)
LEMMA AcceptedPlaced ==
  ASSUME CallInv, ExportsOk, NEW k \in Kinds, party # "relay"
  PROVE  ReportPlaced(Report(k))
<1> DEFINE C == Commitments(exports[k])
           m == Len(C)
           price == exports["price"]
<1>1. CallTypeOK /\ "price" \in Kinds /\ "flow" \in Kinds
  BY CloseCallAssumption DEF CallInv
<1>2. C = Commitments(price) /\ C = Commitments(exports["flow"])
  BY <1>1 DEF ExportsOk, Agree
<1>3. Taken("price", m) /\ Taken("flow", m)
  BY <1>1, <1>2, Accepted
<1>4. /\ price \in Seq(Lines) /\ exports["flow"] \in Seq(Lines)
      /\ rooms["price"] \in Seq(Records("price")) /\ rooms["flow"] \in Seq(Records("flow"))
  BY <1>1 DEF CallTypeOK
<1>5. /\ m \in Nat /\ m + 1 <= Len(price) /\ m <= Len(exports["flow"])
      /\ \A n \in 1..m : price[n + 1].record.t = "price"
      /\ \A n \in 1..m : C[n] = exports["flow"][n].record.file
      /\ Last(price).record.t = "final" => Len(price) = m + 2
  <2>1. Before("price") = 1 /\ Before("flow") = 0
    BY DEF Before
  <2>2. /\ m \in Nat /\ m + 1 <= Len(price)
        /\ \A n \in 1..m : price[n + 1].record.t = "price"
        /\ Last(price).record.t = "final" => Len(price) = m + 2
    <3> HIDE DEF C
    <3> QED
      BY <1>3, <2>1 DEF Taken
  <2>3. m + 0 <= Len(exports["flow"])
    <3> HIDE DEF C
    <3> QED
      BY <1>3, <2>1 DEF Taken
  <2>4. ASSUME NEW n \in 1..m  PROVE C[n] = exports["flow"][n].record.file
    <3>1. Commitments(exports["flow"]) = [x \in 1..m |-> exports["flow"][x + 0].record.file]
      BY <1>3, <2>1, Zenon DEF Taken
    <3>2. C[n] = exports["flow"][n + 0].record.file
      <4> HIDE DEF m, C
      <4> QED
        BY <1>2, <3>1
    <3> QED
      BY <2>2, <3>2
  <2> HIDE DEF C
  <2> QED
    BY <1>4, <2>2, <2>3, <2>4
<1>6. /\ \A i \in 1..Len(price) : i \in DOMAIN rooms["price"] /\ rooms["price"][i] = price[i].record
      /\ \A i \in 1..Len(exports["flow"]) :
           i \in DOMAIN rooms["flow"] /\ rooms["flow"][i] = exports["flow"][i].record
  BY <1>1, <1>4, AcceptedLines
<1>7. Report(k).files = C /\ (Report(k).final <=> Last(price).record.t = "final")
  BY DEF Report
<1> HIDE DEF C, price
<1>8. Len(rooms["price"]) > m
  BY <1>4, <1>5, <1>6
<1>9. ASSUME NEW i \in 2..(m + 1)  PROVE rooms["price"][i].t # "final"
  <2>1. i - 1 \in 1..m /\ i = (i - 1) + 1 /\ i \in 1..Len(price)
    BY <1>4, <1>5
  <2>2. price[i].record.t = "price"
    BY <1>5, <2>1
  <2> QED
    BY <1>6, <2>1, <2>2
<1>10. ASSUME Last(price).record.t = "final"
       PROVE  Len(rooms["price"]) > m + 1 /\ rooms["price"][m + 2].t = "final"
  <2>1. Len(price) = m + 2 /\ m + 2 \in 1..Len(price)
    BY <1>5, <1>10
  <2>2. price[m + 2].record.t = "final"
    BY <1>10, <2>1 DEF Last
  <2> QED
    BY <1>4, <1>5, <1>6, <2>1, <2>2
<1>11. ASSUME NEW n \in 1..m
       PROVE  n \in DOMAIN rooms["flow"] /\ rooms["flow"][n].file = C[n]
  <2>1. n \in 1..Len(exports["flow"])
    BY <1>4, <1>5
  <2> QED
    BY <1>5, <1>6, <2>1
<1> QED
  BY <1>7, <1>8, <1>9, <1>10, <1>11 DEF ReportPlaced

(* A report is faithful when it is made.                                    *)
LEMMA VerifyKeeps ==
  ASSUME CallInv, Verify
  PROVE  CallInv'
<1>1. /\ CallTypeOK /\ OneWrongRoom /\ RoomsInOrder /\ Untouched
      /\ ExportsPosted /\ ReportFaithful /\ ReportsRight
  BY DEF CallInv
<1>2. PICK k \in Kinds : reports' = reports \cup {Report(k)}
  BY DEF Verify
<1>3. /\ PackageOk /\ ExportsOk
      /\ UNCHANGED <<rooms, swept, evicted, party, slipped, exports, package>>
  BY DEF Verify, env
<1> DEFINE r == Report(k)
           C == Commitments(exports[k])
<1>4. /\ exports[k] \in Seq(Lines) /\ 1 \in DOMAIN exports[k]
      /\ exports["price"] \in Seq(Lines) /\ exports["price"] # <<>> /\ "price" \in Kinds
  BY <1>1, <1>3, CloseCallAssumption DEF CallTypeOK, ExportsOk, Complete
<1>5. /\ r.referee = Referee /\ r.files = C /\ r.package = Reviewed
      /\ r.final <=> Last(exports["price"]).record.t = "final"
  BY <1>3, <1>4, AcceptedLines DEF Report, PackageOk
<1>6. C \in Seq(Files)
  <2>1. Len(C) \in Nat /\ C = [n \in 1..Len(C) |-> C[n]]
    BY <1>1, <1>3, Accepted DEF Taken
  <2>2. \A n \in 1..Len(C) : C[n] \in Files
    BY <1>3, AcceptedSweeps
  <2> QED
    BY <2>1, <2>2
<1>7. r.final => Closed
  <2>1. Len(exports["price"]) \in DOMAIN exports["price"]
    BY <1>4
  <2> QED
    BY <1>3, <1>4, <1>5, <2>1, AcceptedLines DEF Closed, Last
<1>8. r \in Reports
  <2>1. r = [referee |-> r.referee, files |-> r.files, final |-> r.final, package |-> r.package]
    BY DEF Report
  <2>2. r.final \in BOOLEAN /\ r.package \in PackageFiles
    BY <1>1 DEF Report, CallTypeOK
  <2> QED
    BY <1>5, <1>6, <2>1, <2>2 DEF Reports, Signers
<1>9. CallTypeOK'
  BY <1>1, <1>2, <1>3, <1>8 DEF CallTypeOK
<1>10. OneWrongRoom' /\ RoomsInOrder' /\ Untouched'
  BY <1>1, <1>3 DEF OneWrongRoom, AllRight, RoomsInOrder, PriceRoom, Untouched
<1>11. DOMAIN C = 1..Len(C)
  BY <1>6
<1>12. ReportFaithful'
  <2>1. ASSUME NEW l \in Kinds, NEW n \in DOMAIN r.files
        PROVE  \E i \in DOMAIN rooms[l] : rooms[l][i] = Sweep(l, Referee, n, r.files[n])
    BY <1>3, <1>5, <1>11, AcceptedSweeps
  <2>2. Closed' <=> Closed
    BY <1>3 DEF Closed
  <2> HIDE DEF r
  <2> QED
    BY <1>1, <1>2, <1>3, <1>5, <1>7, <2>1, <2>2 DEF ReportFaithful, r
<1>13. ReportsRight'
  <2>1. \A n \in DOMAIN r.files : r.files[n] = SweepFile(n)
    BY <1>3, <1>5, <1>11, AcceptedRight
  <2>2. party # "relay" => ReportPlaced(r)
    BY <1>3, AcceptedPlaced
  <2>3. Grows
    BY <1>1, <1>3, SameRooms
  <2>4. \A s \in Reports : ReportPlaced(s) => ReportPlaced(s)'
    BY <1>1, <2>3, PlacedStays
  <2>5. \A s \in reports : s \in Reports
    BY <1>1 DEF CallTypeOK
  <2> HIDE DEF r
  <2>6. \A s \in reports' : s \in Reports /\ (party # "relay" => ReportPlaced(s)')
    BY <1>1, <1>2, <1>8, <2>2, <2>4, <2>5 DEF ReportsRight, r
  <2>7. \A s \in reports' : \A n \in DOMAIN s.files : s.files[n] = SweepFile(n)
    BY <1>1, <1>2, <2>1 DEF ReportsRight, r
  <2> QED
    BY <1>3, <2>6, <2>7 DEF ReportsRight, SweepFile
<1>14. ExportsPosted'
  BY <1>1, <1>3 DEF ExportsPosted
<1> QED
  BY <1>9, <1>10, <1>12, <1>13, <1>14 DEF CallInv

-----------------------------------------------------------------------------
(* The invariant and what follows from it                                   *)

(* A step of the referee, its rooms or the operator.                        *)
LEMMA CallStep ==
  ASSUME CallInv, CallNext
  PROVE  CallInv'
  BY SeedKeeps, SweepKeeps, FinalKeeps, WrongKeeps, EvictKeeps, CaptureKeeps, CaptureWrongKeeps,
     EditKeeps, VerifyKeeps
     DEF CallNext

(* Steps of the archive, and of nothing else.                               *)
LEMMA CallStutters ==
  ASSUME CallInv, UNCHANGED <<env, party, exports, package, reports>>,
         slipped' \in BOOLEAN, slipped => slipped'
  PROVE  CallInv'
<1>1. /\ CallTypeOK /\ OneWrongRoom /\ RoomsInOrder /\ Untouched
      /\ ExportsPosted /\ ReportFaithful /\ ReportsRight
  BY DEF CallInv
<1>2. UNCHANGED <<rooms, swept, evicted>>
  BY DEF env
<1>3. CallTypeOK' /\ OneWrongRoom' /\ RoomsInOrder' /\ Untouched'
  BY <1>1, <1>2 DEF CallTypeOK, OneWrongRoom, AllRight, RoomsInOrder, PriceRoom, Untouched
<1>4. Grows
  BY <1>1, <1>2, SameRooms
<1> QED
  BY <1>1, <1>3, <1>4, ExportsStay, FaithfulStays, ReportsStay DEF CallInv

(* At first nothing is posted, saved or reported.                           *)
LEMMA CallStarts ==
  ASSUME CallInit
  PROVE  CallInv
<1>1. /\ party \in Parties /\ slipped = FALSE /\ rooms = [k \in Kinds |-> <<>>]
      /\ swept = [k \in Kinds |-> 0] /\ evicted = [k \in Kinds |-> 0]
      /\ exports = [k \in Kinds |-> <<>>]
      /\ package = [manifest |-> Reviewed, files |-> Reviewed] /\ reports = {}
  BY DEF CallInit, Parties
<1>2. "price" \in Kinds /\ MaxSweeps \in Nat
  BY CloseCallAssumption
<1>3. Reviewed \in PackageFiles
  BY DEF Reviewed, PackageFiles
<1>4. CallTypeOK
  <2>1. /\ \A k \in Kinds : rooms[k] \in Seq(Records(k)) /\ evicted[k] <= Len(rooms[k])
        /\ swept \in [Kinds -> 0..MaxSweeps] /\ evicted \in [Kinds -> {0, 1}]
        /\ exports \in [Kinds -> Seq(Lines)] /\ DOMAIN rooms = Kinds
    BY <1>1, <1>2
  <2> QED
    BY <1>1, <1>3, <2>1 DEF CallTypeOK
<1>5. OneWrongRoom /\ RoomsInOrder
  BY <1>1, <1>2 DEF OneWrongRoom, AllRight, RoomsInOrder, PriceRoom
<1>6. Untouched /\ ExportsPosted /\ ReportFaithful /\ ReportsRight
  BY <1>1 DEF Untouched, ExportsPosted, ReportFaithful, ReportsRight
<1> QED
  BY <1>4, <1>5, <1>6 DEF CallInv

(* The archive verifier takes the flow records by their numbers: the file   *)
(* is the one that was posted under the number, or at that line of the      *)
(* room.                                                                    *)
LEMMA CommittedPosted ==
  ASSUME CallInv, NEW entry, Committed(entry)
  PROVE  /\ \E i \in DOMAIN rooms["flow"] :
              rooms["flow"][i].n = entry.n /\ rooms["flow"][i].file = entry.file
         /\ party # "referee" => entry.file = SweepFile(entry.n)
         /\ party = "referee" => /\ entry.n \in DOMAIN rooms["flow"]
                                 /\ rooms["flow"][entry.n].file = entry.file
<1> DEFINE n == entry.n
           line == exports["flow"][n]
<1>1. "flow" \in Kinds /\ CallTypeOK /\ ExportsPosted /\ OneWrongRoom
  BY CloseCallAssumption DEF CallInv
<1>2. /\ n \in DOMAIN exports["flow"] /\ line.record.room = "flow" /\ line.record.t = "flow"
      /\ line.record.n = n /\ line.record.file = entry.file
  BY DEF Committed
<1> HIDE DEF n
<1>3. PICK l \in Kinds : \E j \in DOMAIN rooms[l] : line.record = rooms[l][j]
  BY <1>1, <1>2 DEF ExportsPosted
<1>4. PICK j \in DOMAIN rooms[l] : line.record = rooms[l][j]
  BY <1>3
<1>5. l = "flow"
  <2>1. rooms[l][j] \in Records(l)
    BY <1>1 DEF CallTypeOK
  <2> QED
    BY <1>2, <1>4, <2>1 DEF Records, SweepRecords, MarkRecords
<1>6. party # "referee" => line.record.file = SweepFile(line.record.n)
  BY <1>1, <1>2, <1>4, <1>5 DEF OneWrongRoom, AllRight
<1>7. party = "referee" => /\ n \in DOMAIN rooms["flow"]
                           /\ rooms["flow"][n].file = line.record.file
  BY <1>1, <1>2 DEF ExportsPosted
<1> QED
  BY <1>2, <1>4, <1>5, <1>6, <1>7 DEF n

(* The archive is published, edited and verified.                           *)
LEMMA PublishKeeps ==
  ASSUME ArchiveInv, NEW redacted \in SUBSET (1..MaxSweeps), Publish(redacted)
  PROVE  ArchiveInv'
<1>1. CallInv /\ CallTypeOK /\ VerifiedRight /\ RecordsGenuine
  BY DEF ArchiveInv, CallInv
<1>2. UNCHANGED callVars /\ verified' = verified
  BY DEF Publish
<1>3. CallInv'
  <2>1. UNCHANGED <<env, party, exports, package, reports>> /\ slipped' \in BOOLEAN
        /\ (slipped => slipped')
    BY <1>1, <1>2 DEF callVars, env, CallTypeOK
  <2> QED
    BY <1>1, <2>1, CallStutters
<1>4. ArchiveTypeOK'
  <2> DEFINE n == swept["flow"]
             entries == [i \in 1..n |-> IF i \in redacted
                           THEN RedactedEntry(i, SweepFile(i), Redaction(i))
                           ELSE FullEntry(i, SweepFile(i))]
  <2>1. n \in Nat
    BY <1>1, CloseCallAssumption DEF CallTypeOK
  <2>2. index' = entries
    BY DEF Publish
  <2>3. \A i \in 1..n : entries[i].status \in {"full", "redacted"}
    BY DEF RedactedEntry, FullEntry
  <2>4. Len(entries) = n /\ DOMAIN entries = 1..n
    BY <2>1
  <2> HIDE DEF entries
  <2> QED
    BY <2>1, <2>2, <2>3, <2>4 DEF ArchiveTypeOK
<1>5. VerifiedRight' /\ RecordsGenuine'
  <2>1. Grows
    BY <1>1, <1>2, SameRooms DEF callVars
  <2> QED
    BY <1>1, <1>2, <2>1, VerifiedStays DEF callVars
<1> QED
  BY <1>3, <1>4, <1>5 DEF ArchiveInv

LEMMA EditArchiveKeeps ==
  ASSUME ArchiveInv, NEW i \in DOMAIN index, NEW e \in WrongEntries(i), NEW c \in Versions(i),
         EditArchive(i, e, c)
  PROVE  ArchiveInv'
<1>1. CallInv /\ CallTypeOK /\ ArchiveTypeOK /\ VerifiedRight /\ RecordsGenuine
  BY DEF ArchiveInv, CallInv
<1>2. /\ index' = [index EXCEPT ![i] = e] /\ slipped' = TRUE
      /\ UNCHANGED <<env, party, exports, package, reports, verified>>
  BY DEF EditArchive
<1>3. CallInv'
  BY <1>1, <1>2, CallStutters
<1>4. ArchiveTypeOK'
  <2>1. e.status \in {"full", "redacted"}
    BY DEF WrongEntries, FullEntry, RedactedEntry
  <2>2. /\ DOMAIN index' = 1..Len(index)
        /\ \A x \in DOMAIN index' : index'[x].status \in {"full", "redacted"}
    BY <1>1, <1>2, <2>1 DEF ArchiveTypeOK
  <2>3. Len(index') = Len(index)
    BY <1>1, <1>2 DEF ArchiveTypeOK
  <2> QED
    BY <1>1, <2>2, <2>3 DEF ArchiveTypeOK
<1>5. VerifiedRight' /\ RecordsGenuine'
  <2>1. Grows
    BY <1>1, <1>2, SameRooms DEF env
  <2> QED
    BY <1>1, <1>2, <2>1, VerifiedStays
<1> QED
  BY <1>3, <1>4, <1>5 DEF ArchiveInv

LEMMA VerifyArchiveKeeps ==
  ASSUME ArchiveInv, NEW sweeps \in SUBSET (1..MaxSweeps), VerifyArchive(sweeps)
  PROVE  ArchiveInv'
<1>1. CallInv /\ CallTypeOK /\ ArchiveTypeOK
  BY DEF ArchiveInv, CallInv
<1>2. /\ UNCHANGED callVars /\ UNCHANGED index
      /\ verified' = [files   |-> [i \in DOMAIN index |-> index[i].file],
                      details |-> {[n |-> n, status |-> index[n].status, record |-> store[n]] :
                                     n \in sweeps}]
  BY DEF VerifyArchive
<1>3. CallInv' /\ ArchiveTypeOK'
  <2>1. UNCHANGED <<env, party, exports, package, reports>> /\ slipped' \in BOOLEAN
        /\ (slipped => slipped')
    BY <1>1, <1>2 DEF callVars, env, CallTypeOK
  <2> QED
    BY <1>1, <1>2, <2>1, CallStutters DEF ArchiveTypeOK
<1>4. UNCHANGED <<rooms, party>>
  BY <1>2 DEF callVars
<1>5. \A i \in DOMAIN index : Committed(index[i]) /\ index[i].n = i
  BY DEF VerifyArchive, IndexOk
<1>6. \A i \in DOMAIN index :
        /\ \E j \in DOMAIN rooms["flow"] :
             rooms["flow"][j].n = i /\ rooms["flow"][j].file = index[i].file
        /\ party # "referee" => index[i].file = SweepFile(i)
        /\ party = "referee" => /\ i \in DOMAIN rooms["flow"]
                                /\ rooms["flow"][i].file = index[i].file
  BY <1>1, <1>5, CommittedPosted
<1>7. VerifiedRight'
  BY <1>2, <1>4, <1>6 DEF VerifiedRight, SweepFile
<1>8. RecordsGenuine'
  <2>1. ASSUME NEW n \in sweeps, index[n].status = "full"
        PROVE  \E j \in DOMAIN rooms["flow"] :
                 rooms["flow"][j].n = n /\ rooms["flow"][j].file = store[n]
    <3>1. n \in DOMAIN index
      BY <1>1 DEF VerifyArchive, RecordsOk, ArchiveTypeOK
    <3>2. store[n] = index[n].file
      BY <2>1 DEF VerifyArchive, RecordsOk, Expected
    <3> QED
      BY <1>6, <3>1, <3>2
  <2>2. ASSUME NEW d \in verified'.details, d.status = "full"
        PROVE  \E j \in DOMAIN rooms["flow"] :
                 rooms["flow"][j].n = d.n /\ rooms["flow"][j].file = d.record
    <3>1. PICK n \in sweeps : d = [n |-> n, status |-> index[n].status, record |-> store[n]]
      BY <1>2
    <3> QED
      BY <2>1, <2>2, <3>1
  <2> QED
    BY <1>4, <2>2 DEF RecordsGenuine
<1> QED
  BY <1>3, <1>7, <1>8 DEF ArchiveInv

(* A step of the rooms, beside the archive.                                 *)
LEMMA RoomsBesideArchive ==
  ASSUME ArchiveInv, CallNext, UNCHANGED <<index, store, verified>>
  PROVE  ArchiveInv'
<1>1. CallInv /\ CallTypeOK /\ ArchiveTypeOK /\ VerifiedRight /\ RecordsGenuine
  BY DEF ArchiveInv, CallInv
<1>2. CallInv'
  BY <1>1, CallStep
<1>3. Grows /\ party' = party
  <2>1. party' = party
    BY DEF CallNext, PostSeed, PostSweep, PostFinal, PostWrong, Evict, Capture, CaptureWrong,
           EditPackage, Verify
  <2>2. CASE rooms' = rooms
    BY <1>1, <2>1, <2>2, SameRooms
  <2>3. ASSUME NEW k \in Kinds, NEW e \in Records(k), Posted(k, e)
        PROVE  Grows
    BY <1>1, <2>3, PostedLast
  <2>4. CASE PostSeed
    BY <2>1, <2>3, <2>4, RightRecords, CloseCallAssumption DEF PostSeed
  <2>5. ASSUME NEW k \in Kinds, PostSweep(k)
        PROVE  Grows
    <3>1. swept[k] + 1 \in Nat
      BY <1>1, CloseCallAssumption DEF CallTypeOK
    <3>2. Right(k, swept[k] + 1) \in Records(k) /\ Posted(k, Right(k, swept[k] + 1))
      BY <2>5, <3>1, RightRecords DEF PostSweep, Right
    <3> QED
      BY <2>3, <3>2
  <2>6. CASE PostFinal
    BY <2>1, <2>3, <2>6, RightRecords, CloseCallAssumption DEF PostFinal
  <2>7. ASSUME NEW k \in Kinds, NEW r \in WrongRecords(k), PostWrong(k, r)
        PROVE  Grows
    BY <1>1, <2>3, <2>7, WrongTyped DEF PostWrong
  <2>8. CASE \/ \E k \in Kinds : Evict(k) \/ Capture(k)
             \/ \E k \in Kinds : \E file \in Served(k) : CaptureWrong(k, file)
             \/ \E a \in Artifacts, follow \in BOOLEAN : EditPackage(a, follow)
             \/ Verify
    BY <2>2, <2>8 DEF Evict, Capture, CaptureWrong, EditPackage, Verify, env
  <2> QED
    BY <2>1, <2>4, <2>5, <2>6, <2>7, <2>8 DEF CallNext
<1>4. VerifiedRight' /\ RecordsGenuine'
  BY <1>1, <1>3, VerifiedStays
<1>5. ArchiveTypeOK'
  BY <1>1 DEF ArchiveTypeOK
<1> QED
  BY <1>2, <1>4, <1>5 DEF ArchiveInv

(* The invariant of both verifiers holds in every reachable state, whoever  *)
(* departs from its part.                                                   *)
THEOREM CloseCallInvariant == Spec => []ArchiveInv
<1>1. ASSUME Init  PROVE ArchiveInv
  <2>1. CallInit /\ index = <<>> /\ verified = None
    BY <1>1 DEF Init
  <2>2. CallInv
    BY <2>1, CallStarts
  <2>3. ArchiveTypeOK /\ VerifiedRight /\ RecordsGenuine
    BY <2>1 DEF ArchiveTypeOK, VerifiedRight, RecordsGenuine
  <2> QED
    BY <2>2, <2>3 DEF ArchiveInv
<1>2. ASSUME ArchiveInv, [Next]_archiveVars  PROVE ArchiveInv'
  <2>1. CASE UNCHANGED archiveVars
    <3>1. /\ CallInv /\ ArchiveTypeOK /\ VerifiedRight /\ RecordsGenuine /\ CallTypeOK
      BY <1>2 DEF ArchiveInv, CallInv
    <3>2. /\ UNCHANGED <<env, party, exports, package, reports>> /\ slipped' \in BOOLEAN
          /\ (slipped => slipped') /\ UNCHANGED <<index, verified, rooms>>
      BY <2>1, <3>1 DEF archiveVars, callVars, env, CallTypeOK
    <3>3. Grows
      BY <3>1, <3>2, SameRooms
    <3> QED
      BY <3>1, <3>2, <3>3, CallStutters, VerifiedStays DEF ArchiveInv, ArchiveTypeOK
  <2> QED
    BY <1>2, <2>1, RoomsBesideArchive, PublishKeeps, EditArchiveKeeps, VerifyArchiveKeeps DEF Next
<1> QED
  BY <1>1, <1>2, PTL DEF Spec

-----------------------------------------------------------------------------
(* What the rooms hold when everybody does its part, and all is saved at    *)
(* the end of a sweep.                                                      *)
Honest ==
  /\ party # "referee" /\ ~slipped
  /\ \A k \in Kinds : swept[k] = swept["price"] /\ swept[k] > 0
  /\ \A k \in Kinds : exports[k] = Export(k)

LEMMA HonestLines ==
  ASSUME CallInv, Honest, NEW k \in Kinds
  PROVE  LET m == swept["price"]
             file == exports[k]
         IN  /\ m \in Nat /\ m > 0 /\ Len(file) \in Nat
             /\ \A i \in 1..Len(file) : file[i].seq = i
             /\ \/ Len(file) = m + Before(k)
                \/ k = "price" /\ Len(file) = m + 2
             /\ \A n \in 1..m : file[n + Before(k)].record = Right(k, n)
             /\ k = "price" => file[1].record = Seed
             /\ k = "price" => (Len(file) = m + 2 => file[m + 2].record = Final)
<1> DEFINE m == swept["price"]
           file == exports[k]
           room == rooms[k]
           len == Len(room)
<1>1. CallTypeOK /\ RoomsInOrder /\ Untouched /\ "price" \in Kinds
  BY CloseCallAssumption DEF CallInv
<1>2. m \in Nat /\ m > 0 /\ swept[k] = m
  BY <1>1, CloseCallAssumption DEF CallTypeOK, Honest
<1>3. evicted[k] = 0 /\ len \in Nat
  BY <1>1 DEF Untouched, Honest, CallTypeOK
<1>4. file = [i \in 1..len |-> [seq |-> i, record |-> room[i]]]
  <2>1. \A i \in 1..(len - evicted[k]) : i + evicted[k] = i
    BY <1>3
  <2>2. len - evicted[k] = len
    BY <1>3
  <2> QED
    BY <2>1, <2>2 DEF Honest, Export
<1> HIDE DEF len, file, room
<1>5. Len(file) = len
  BY <1>3, <1>4
<1>6. \A i \in 1..len : file[i].seq = i /\ file[i].record = room[i]
  BY <1>4
<1>7. \A i \in 1..Len(file) : file[i].seq = i
  BY <1>3, <1>5, <1>6
<1>8. CASE k # "price"
  <2>1. len = m /\ \A n \in 1..m : room[n] = Right(k, n)
    BY <1>1, <1>2, <1>8 DEF RoomsInOrder, Honest, len, room
  <2>2. Before(k) = 0
    BY <1>8 DEF Before
  <2> HIDE DEF m
  <2>3. Len(file) = m + Before(k)
    BY <1>2, <1>5, <2>1, <2>2
  <2>4. \A n \in 1..m : file[n + Before(k)].record = Right(k, n)
    BY <1>2, <1>6, <2>1, <2>2
  <2> QED
    BY <1>2, <1>3, <1>5, <1>7, <1>8, <2>3, <2>4 DEF m, file
<1>9. CASE k = "price"
  <2>1. /\ len = m + 1 \/ len = m + 2
        /\ room[1] = Seed /\ \A n \in 1..m : room[n + 1] = Right(k, n)
        /\ len = m + 2 => room[m + 2] = Final
    <3>1. PriceRoom /\ ~(\A l \in Kinds : swept[l] = 0)
      BY <1>1, <1>2 DEF RoomsInOrder, Honest
    <3> QED
      BY <1>9, <3>1 DEF PriceRoom, len, room
  <2>2. Before(k) = 1
    BY <1>9 DEF Before
  <2> HIDE DEF m
  <2>3. Len(file) = m + Before(k) \/ Len(file) = m + 2
    BY <1>5, <2>1, <2>2
  <2>4. ASSUME NEW n \in 1..m  PROVE file[n + Before(k)].record = Right(k, n)
    <3>1. n + 1 \in 1..len
      BY <1>2, <2>1
    <3> QED
      BY <1>6, <2>1, <2>2, <3>1
  <2>5. file[1].record = Seed
    <3>1. 1 \in 1..len
      BY <1>2, <2>1
    <3> QED
      BY <1>6, <2>1, <3>1
  <2>6. ASSUME Len(file) = m + 2  PROVE file[m + 2].record = Final
    <3>1. m + 2 \in 1..len /\ len = m + 2
      BY <1>2, <1>5, <2>6
    <3> QED
      BY <1>6, <2>1, <3>1
  <2> QED
    BY <1>2, <1>3, <1>5, <1>7, <1>9, <2>3, <2>4, <2>5, <2>6 DEF m, file
<1> QED
  BY <1>8, <1>9

(* Such an export passes by itself.                                         *)
LEMMA HonestPasses ==
  ASSUME CallInv, Honest, NEW k \in Kinds
  PROVE  /\ Complete(exports[k]) /\ SignedFor(k, exports[k]) /\ SeedFirst(k, exports[k])
         /\ FinalLast(k, exports[k]) /\ Numbered(exports[k])
         /\ Commitments(exports[k]) = [n \in 1..swept["price"] |-> SweepFile(n)]
         /\ \A i \in DOMAIN exports[k] : exports[k][i].record.from = Referee
<1> DEFINE m == swept["price"]
           file == exports[k]
           a == Before(k) + 1
           b == m + Before(k)
<1>1. /\ m \in Nat /\ m > 0 /\ Len(file) \in Nat
      /\ \/ Len(file) = m + Before(k)
         \/ k = "price" /\ Len(file) = m + 2
      /\ \A n \in 1..m : file[n + Before(k)].record = Right(k, n)
      /\ k = "price" => file[1].record = Seed
      /\ k = "price" => (Len(file) = m + 2 => file[m + 2].record = Final)
  BY HonestLines
<1>2. \A i \in 1..Len(file) : file[i].seq = i
  BY HonestLines
<1>3. file \in Seq(Lines)
  BY DEF CallInv, CallTypeOK
<1>4. DOMAIN file = 1..Len(file)
  BY <1>3
<1> HIDE DEF m, file
<1>5. /\ Before(k) \in {0, 1} /\ (k = "price" <=> Before(k) = 1)
      /\ k \notin {"seed", "final"}
  BY CloseCallAssumption DEF Before
<1>6. /\ Seed.t = "seed" /\ Seed.room = "price" /\ Seed.from = Referee /\ Seed.binds = TRUE
      /\ Final.t = "final" /\ Final.room = "price" /\ Final.from = Referee
      /\ \A n \in 1..m : /\ Right(k, n).t = k /\ Right(k, n).room = k /\ Right(k, n).n = n
                         /\ Right(k, n).from = Referee /\ Right(k, n).file = SweepFile(n)
  BY DEF Seed, Final, Right, Sweep, Record
<1>7. ASSUME NEW i \in 1..Len(file)
      PROVE  \/ i \in a..b /\ file[i].record = Right(k, i - Before(k)) /\ i - Before(k) \in 1..m
             \/ k = "price" /\ i = 1 /\ file[i].record = Seed
             \/ k = "price" /\ i = Len(file) /\ i = m + 2 /\ file[i].record = Final
  <2>1. CASE i \in a..b
    <3>1. i - Before(k) \in 1..m /\ i = (i - Before(k)) + Before(k)
      BY <1>1, <1>5, <2>1
    <3> QED
      BY <1>1, <2>1, <3>1
  <2>2. CASE i \notin a..b
    <3>1. k = "price" /\ (i = 1 \/ (i = Len(file) /\ i = m + 2))
      BY <1>1, <1>5, <2>2
    <3> QED
      BY <1>1, <3>1
  <2> QED
    BY <2>1, <2>2
<1>8. SweepLines(file) = a..b
  <2>1. a..b \subseteq 1..Len(file)
    BY <1>1, <1>5
  <2>2. ASSUME NEW i \in 1..Len(file)
        PROVE  file[i].record.t \notin {"seed", "final"} <=> i \in a..b
    <3>1. CASE i \in a..b
      <4>1. ~(i = 1 /\ k = "price") /\ ~(i = m + 2)
        BY <1>1, <1>5, <3>1
      <4> QED
        BY <1>5, <1>6, <1>7, <3>1, <4>1
    <3>2. CASE i \notin a..b
      BY <1>6, <1>7, <3>2
    <3> QED
      BY <3>1, <3>2
  <2> QED
    BY <1>1, <1>4, <2>1, <2>2 DEF SweepLines
<1>9. a \in {1, 2} /\ b \in Nat /\ a <= b + 1 /\ b + 1 - a = m
  BY <1>1, <1>5
<1>10. \A n \in 1..m : n + Before(k) \in 1..Len(file) /\ n + a - 1 = n + Before(k)
  BY <1>1, <1>5
<1>11. \A i \in a..b : file[i].record.n = i + 1 - a
  <2> SUFFICES ASSUME NEW i \in a..b  PROVE file[i].record.n = i + 1 - a
    OBVIOUS
  <2>1. i - Before(k) \in 1..m /\ i = (i - Before(k)) + Before(k) /\ i - Before(k) = i + 1 - a
    BY <1>1, <1>5
  <2> QED
    BY <1>1, <1>6, <2>1
<1> HIDE DEF a, b
<1>12. Numbered(file)
  BY <1>3, <1>8, <1>9, <1>11, SweepNumbers
<1>13. Commitments(file) = [n \in 1..m |-> SweepFile(n)]
  <2>1. Commitments(file) = [n \in 1..(b + 1 - a) |-> file[n + a - 1].record.file]
    BY <1>3, <1>8, <1>9, <1>12, SweepNumbers
  <2>2. \A n \in 1..m : file[n + a - 1].record.file = SweepFile(n)
    BY <1>1, <1>6, <1>10
  <2>3. b + 1 - a = m
    BY <1>9
  <2> QED
    BY <2>1, <2>2, <2>3
<1>14. Complete(file)
  <2>1. file # <<>>
    BY <1>1, <1>5
  <2> QED
    BY <1>2, <1>4, <2>1 DEF Complete
<1>15. SignedFor(k, file)
  <2>1. \A i \in 1..Len(file) : file[i].record.room = k
    BY <1>6, <1>7
  <2>2. \A i \in 1..Len(file) : file[i].record.t \in RoomTypes(k)
    BY <1>6, <1>7 DEF RoomTypes
  <2> QED
    BY <1>4, <2>1, <2>2 DEF SignedFor
<1>16. SeedFirst(k, file) /\ FinalLast(k, file)
  <2>1. ASSUME NEW i \in 1..Len(file), file[i].record.t = "seed"
        PROVE  k = "price" /\ i = 1 /\ file[i].record.binds
    BY <1>5, <1>6, <1>7, <2>1
  <2>2. ASSUME NEW i \in 1..Len(file), file[i].record.t = "final"
        PROVE  k = "price" /\ i = Len(file)
    BY <1>5, <1>6, <1>7, <2>2
  <2> QED
    BY <1>4, <2>1, <2>2 DEF SeedFirst, FinalLast
<1>17. \A i \in 1..Len(file) : file[i].record.from = Referee
  BY <1>6, <1>7
<1> QED
  BY <1>4, <1>12, <1>13, <1>14, <1>15, <1>16, <1>17 DEF file, m

(* What everybody does right is not refused.                                *)
THEOREM HonestIsAccepted == Spec => []HonestAccepted
<1>1. ASSUME CallInv, Honest  PROVE PackageOk /\ ExportsOk
  <2>1. PackageOk
    BY <1>1 DEF PackageOk, CallInv, Untouched, Honest
  <2>2. OneSigner
    BY <1>1, HonestPasses DEF OneSigner
  <2>3. "price" \in Kinds /\ exports["price"][1].record.t = "seed"
    BY <1>1, HonestLines, CloseCallAssumption DEF Seed, Record
  <2>4. Agree
    BY <1>1, HonestPasses DEF Agree
  <2> QED
    BY <1>1, <2>1, <2>2, <2>3, <2>4, HonestPasses DEF ExportsOk
<1>2. ArchiveInv => HonestAccepted
  BY <1>1 DEF ArchiveInv, HonestAccepted, Honest
<1> QED
  BY <1>2, CloseCallInvariant, PTL

(* A report says what the referee signed in every one of its rooms.         *)
THEOREM ReportsAreFaithful == Spec => []ReportFaithful
<1>1. ArchiveInv => ReportFaithful
  BY DEF ArchiveInv, CallInv
<1> QED
  BY <1>1, CloseCallInvariant, PTL

(* Any two reports agree on the files of the sweeps that both have, for     *)
(* each rests on a room that is right.                                      *)
THEOREM ReportsTellOneStory == Spec => []ReportsExtend
<1>1. ArchiveInv => ReportsExtend
  BY DEF ArchiveInv, CallInv, ReportsRight, ReportsExtend
<1> QED
  BY <1>1, CloseCallInvariant, PTL

(* After a report with a final record no report has further sweeps.         *)
THEOREM FinalReportsAreFinal == Spec => []FinalIsFinal
<1>1. ASSUME CallInv, party # "relay", NEW r \in reports, NEW s \in reports, r.final
      PROVE  Len(s.files) <= Len(r.files)
  <2>1. Len(r.files) \in Nat /\ Len(s.files) \in Nat
    BY <1>1 DEF CallInv, CallTypeOK, Reports
  <2>2. rooms["price"][Len(r.files) + 2].t = "final"
    BY <1>1 DEF CallInv, ReportsRight, ReportPlaced
  <2>3. \A i \in 2..(Len(s.files) + 1) : rooms["price"][i].t # "final"
    BY <1>1 DEF CallInv, ReportsRight, ReportPlaced
  <2>4. Len(r.files) + 2 \notin 2..(Len(s.files) + 1)
    BY <2>2, <2>3
  <2> QED
    BY <2>1, <2>4
<1>2. ArchiveInv => FinalIsFinal
  BY <1>1 DEF ArchiveInv, FinalIsFinal
<1> QED
  BY <1>2, CloseCallInvariant, PTL

(* The archive verifier's commitments are those of every report.            *)
THEOREM ArchiveAgreesWithReports == Spec => []ArchiveAgrees
<1>1. ASSUME ArchiveInv, verified # None, NEW r \in reports,
             NEW n \in DOMAIN r.files \cap DOMAIN verified.files
      PROVE  verified.files[n] = r.files[n]
  <2>1. r.files \in Seq(Files)
    BY <1>1 DEF ArchiveInv, CallInv, CallTypeOK, Reports
  <2>2. r.files[n] = SweepFile(n)
    BY <1>1 DEF ArchiveInv, CallInv, ReportsRight
  <2>3. CASE party = "referee"
    <3>1. rooms["flow"][n].file = r.files[n]
      BY <1>1, <2>1, <2>3 DEF ArchiveInv, CallInv, ReportsRight, ReportPlaced
    <3>2. rooms["flow"][n].file = verified.files[n]
      BY <1>1, <2>3 DEF ArchiveInv, VerifiedRight
    <3> QED
      BY <3>1, <3>2
  <2>4. CASE party # "referee"
    BY <1>1, <2>2, <2>4 DEF ArchiveInv, VerifiedRight
  <2> QED
    BY <2>3, <2>4
<1>2. ArchiveInv => ArchiveAgrees
  BY <1>1 DEF ArchiveAgrees
<1> QED
  BY <1>2, CloseCallInvariant, PTL

(* A record that is called full is the file of a signed flow record under   *)
(* its own number.                                                          *)
THEOREM RecordsAreGenuine == Spec => []RecordsGenuine
<1>1. ArchiveInv => RecordsGenuine
  BY DEF ArchiveInv
<1> QED
  BY <1>1, CloseCallInvariant, PTL
=============================================================================
