------------------------------ MODULE CloseCall ------------------------------
(***************************************************************************)
(* scripts/verify-close-call.py: the referee of a contest posts a launch    *)
(* seed, a record per sweep in every one of its rooms and a final record;   *)
(* an operator saves the export of each room at a time of its own and runs  *)
(* the verifier on a reviewed package and the saved exports.                *)
(*                                                                          *)
(* One party departs from its part in a behaviour, and once: the server,    *)
(* which drops a record, the referee, a relay that serves exports, or who   *)
(* keeps the files of the contest.  A digest is injective, so a file's      *)
(* digest is the file.                                                      *)
(***************************************************************************)
EXTENDS Integers, Sequences, FiniteSets, SequencesExt

CONSTANTS
  Kinds,     \* the referee's rooms by kind, "price" among them
  Referee,   \* the DID that signs for the referee
  Stranger,  \* another DID
  Artifacts, \* files of the package, contest.json among them
  MaxSweeps, \* bound: sweeps of the contest
  None       \* no file

ASSUME CloseCallAssumption ==
  /\ {"price", "flow"} \subseteq Kinds /\ Kinds \cap {"seed", "final"} = {}
  /\ MaxSweeps \in Nat /\ Referee # Stranger

VARIABLES
  party,   \* who may depart from its part
  slipped, \* it has
  rooms,   \* records of each room, evicted ones included (ghost)
  swept,   \* sweeps the referee has posted, by room
  evicted, \* oldest records of each room that are gone
  exports, \* --room-export: saved export of each room, <<>> before
  package, \* manifest and files of the package
  reports  \* all reports of the verifier (ghost)

env == <<rooms, swept, evicted>>
callVars == <<party, slipped, rooms, swept, evicted, exports, package, reports>>

(* The file of a sweep: as it is signed for, redacted, or another one.      *)
SweepFile(n) == [n |-> n, version |-> "full"]

(* A signed envelope is bound to the room it was posted in.                 *)
Record(kind, who, type, n, file, binds) ==
  [room |-> kind, from |-> who, t |-> type, n |-> n, file |-> file, binds |-> binds]
Sweep(kind, who, n, file) == Record(kind, who, kind, n, file, FALSE)
Seed == Record("price", Referee, "seed", 0, None, TRUE)
Final == Record("price", Referee, "final", 0, None, FALSE)

RoomTypes(kind) == IF kind = "price" THEN {"seed", "price", "final"} ELSE {kind}

(* GET of an export: what the room still holds, with its numbers.           *)
Export(kind) ==
  [i \in 1..(Len(rooms[kind]) - evicted[kind]) |->
     [seq |-> i + evicted[kind], record |-> rooms[kind][i + evicted[kind]]]]

Reviewed == [a \in Artifacts |-> "reviewed"]

-----------------------------------------------------------------------------
(* The referee and its rooms.                                               *)
Posted(kind, record) == rooms' = [rooms EXCEPT ![kind] = Append(@, record)]

Seeded == rooms["price"] # <<>>
Closed == \E i \in DOMAIN rooms["price"] : rooms["price"][i].t = "final"
Behind(kind) == \A k \in Kinds : swept[kind] <= swept[k]

PostSeed ==
  /\ ~Seeded
  /\ Posted("price", Seed)
  /\ UNCHANGED <<swept, evicted, party, slipped, exports, package, reports>>

PostSweep(kind) ==
  /\ Seeded /\ Behind(kind) /\ swept[kind] < MaxSweeps
  /\ Closed => party = "referee"
  /\ Posted(kind, Sweep(kind, Referee, swept[kind] + 1, SweepFile(swept[kind] + 1)))
  /\ swept' = [swept EXCEPT ![kind] = @ + 1]
  /\ UNCHANGED <<evicted, party, slipped, exports, package, reports>>

PostFinal ==
  /\ Seeded /\ ~Closed /\ \A k \in Kinds : Behind(k)
  /\ Posted("price", Final)
  /\ UNCHANGED <<swept, evicted, party, slipped, exports, package, reports>>

(* A wrong record, beside the one that is due or in its place.              *)
PostWrong(kind, record) ==
  /\ party = "referee" /\ ~slipped /\ slipped' = TRUE
  /\ Posted(kind, record)
  /\ swept' \in {swept, [swept EXCEPT ![kind] = @ + 1]}
  /\ swept'[kind] <= MaxSweeps
  /\ UNCHANGED <<evicted, party, exports, package, reports>>

WrongRecords(kind) ==
  {Sweep(kind, who, swept[kind] + d, [n |-> swept[kind] + d, version |-> v]) :
     who \in {Referee, Stranger}, d \in {1, 2} \cap 1..(MaxSweeps + 1 - swept[kind]),
     v \in {"full", "other"}}
  \cup {Record(kind, Referee, t, 0, None, b) : t \in {"seed", "final"}, b \in BOOLEAN}

(* A room keeps a bounded number of records.                                *)
Evict(kind) ==
  /\ party = "server" /\ ~slipped /\ slipped' = TRUE
  /\ rooms[kind] # <<>>
  /\ evicted' = [evicted EXCEPT ![kind] = 1]
  /\ UNCHANGED <<rooms, swept, party, exports, package, reports>>

-----------------------------------------------------------------------------
(* The operator saves an export; an empty one is as good as none.           *)
Capture(kind) ==
  /\ Export(kind) # <<>>
  /\ exports' = [exports EXCEPT ![kind] = Export(kind)]
  /\ UNCHANGED <<env, party, slipped, package, reports>>

(* The signature does not cover the number of a record: a relay can serve   *)
(* any of a room's records, or another room's, under numbers that fit.      *)
Served(kind) ==
  LET genuine == rooms[kind]
      pick == {RemoveAt(genuine, i) : i \in DOMAIN genuine}
              \cup {InsertAt(genuine, i, genuine[i]) : i \in DOMAIN genuine}
              \cup {Append(genuine, Last(rooms[k])) : k \in {k \in Kinds : rooms[k] # <<>>}}
  IN  {[i \in DOMAIN s |-> [seq |-> i, record |-> s[i]]] : s \in pick}

CaptureWrong(kind, file) ==
  /\ party = "relay" /\ ~slipped /\ slipped' = TRUE
  /\ exports' = [exports EXCEPT ![kind] = file]
  /\ UNCHANGED <<env, party, package, reports>>

(* Files of the package are edited, and the manifest after them or not.     *)
EditPackage(a, follow) ==
  /\ party = "keeper" /\ ~slipped /\ slipped' = TRUE
  /\ package' = [files |-> [package.files EXCEPT ![a] = "edited"],
                 manifest |-> IF follow THEN [package.manifest EXCEPT ![a] = "edited"]
                              ELSE package.manifest]
  /\ UNCHANGED <<env, party, exports, reports>>

-----------------------------------------------------------------------------
(* A slip: a package whose manifest fits its files will do.                 *)
PackageOkUnpinned == package.files = package.manifest

(* verify_package: the manifest is the reviewed one, the files are its.     *)
PackageOk == package.manifest = Reviewed /\ package.files = package.manifest

(* What is asked of an export by itself, records being signed for the room. *)
Complete(file) == file # <<>> /\ \A i \in DOMAIN file : file[i].seq = i

SignedFor(kind, file) ==
  \A i \in DOMAIN file : file[i].record.room = kind /\ file[i].record.t \in RoomTypes(kind)

SeedFirst(kind, file) ==
  \A i \in DOMAIN file : file[i].record.t = "seed" =>
    kind = "price" /\ i = 1 /\ file[i].record.binds

(* A slip: records may follow the final one.                                *)
FinalAnywhere(kind, file) ==
  \A i \in DOMAIN file : file[i].record.t = "final" => kind = "price"

FinalLast(kind, file) ==
  \A i \in DOMAIN file : file[i].record.t = "final" => kind = "price" /\ i = Len(file)

SweepLines(file) == {i \in DOMAIN file : file[i].record.t \notin {"seed", "final"}}

(* A slip: sweeps are numbered by their lines.                              *)
NumberedByLine(file) == \A i \in SweepLines(file) : file[i].record.n = i

Numbered(file) ==
  \A i \in SweepLines(file) : file[i].record.n = Cardinality(SweepLines(file) \cap 1..i)

(* The file that a room commits to at each of its sweeps.                   *)
Commitments(file) ==
  [n \in 1..Cardinality(SweepLines(file)) |->
     file[CHOOSE i \in SweepLines(file) : file[i].record.n = n].record.file]

(* A slip: only the number of sweeps is compared between rooms.             *)
AgreeOnNumber ==
  \A k, l \in Kinds :
    Cardinality(SweepLines(exports[k])) = Cardinality(SweepLines(exports[l]))

(* Across the rooms: one signer, a seed, the same files at the same sweeps. *)
Agree == \A k, l \in Kinds : Commitments(exports[k]) = Commitments(exports[l])

(* A slip: each room has a signer of its own.                               *)
OneSignerPerRoom ==
  \A k \in Kinds : \E who \in {Referee, Stranger} :
    \A i \in DOMAIN exports[k] : exports[k][i].record.from = who

OneSigner ==
  \E who \in {Referee, Stranger} : \A k \in Kinds :
    \A i \in DOMAIN exports[k] : exports[k][i].record.from = who

ExportsOk ==
  /\ \A k \in Kinds :
       /\ Complete(exports[k]) /\ SignedFor(k, exports[k])
       /\ SeedFirst(k, exports[k]) /\ FinalLast(k, exports[k]) /\ Numbered(exports[k])
  /\ OneSigner
  /\ exports["price"][1].record.t = "seed"
  /\ Agree

(* latest_sweep stands for the files up to it, as they are in any room.     *)
Report(kind) ==
  [referee |-> exports[kind][1].record.from,
   files   |-> Commitments(exports[kind]),
   final   |-> Last(exports["price"]).record.t = "final",
   package |-> package.files]

(* A run that refuses its input changes nothing.                            *)
Verify ==
  /\ PackageOk /\ ExportsOk
  /\ \E k \in Kinds : reports' = reports \cup {Report(k)}
  /\ UNCHANGED <<env, party, slipped, exports, package>>

-----------------------------------------------------------------------------
CallInit ==
  /\ party \in {"server", "referee", "relay", "keeper"} /\ slipped = FALSE
  /\ rooms = [k \in Kinds |-> <<>>] /\ swept = [k \in Kinds |-> 0]
  /\ evicted = [k \in Kinds |-> 0] /\ exports = [k \in Kinds |-> <<>>]
  /\ package = [manifest |-> Reviewed, files |-> Reviewed]
  /\ reports = {}

CallNext ==
  \/ PostSeed
  \/ \E k \in Kinds : PostSweep(k)
  \/ PostFinal
  \/ \E k \in Kinds : \E r \in WrongRecords(k) : PostWrong(k, r)
  \/ \E k \in Kinds : Evict(k)
  \/ \E k \in Kinds : Capture(k)
  \/ \E k \in Kinds : \E file \in Served(k) : CaptureWrong(k, file)
  \/ \E a \in Artifacts, follow \in BOOLEAN : EditPackage(a, follow)
  \/ Verify

-----------------------------------------------------------------------------
(* What everybody does right is not refused: exports of all rooms at the    *)
(* end of a sweep, wherever else the rooms were saved before.               *)
HonestAccepted ==
  /\ party # "referee" /\ ~slipped
  /\ \A k \in Kinds : swept[k] = swept["price"] /\ swept[k] > 0
  /\ \A k \in Kinds : exports[k] = Export(k)
  => PackageOk /\ ExportsOk

(* A report says what the referee signed: the file of every sweep is in     *)
(* every one of its rooms under that number, a final record was posted when *)
(* it says so, and the package was the reviewed one.                        *)
ReportFaithful ==
  \A r \in reports :
    /\ r.referee = Referee /\ r.package = Reviewed
    /\ \A k \in Kinds, n \in DOMAIN r.files :
         \E i \in DOMAIN rooms[k] : rooms[k][i] = Sweep(k, Referee, n, r.files[n])
    /\ r.final => Closed

(* Reports on exports saved at different times tell one story: the sweeps   *)
(* of one continue those of the other.                                      *)
ReportsExtend ==
  \A r, s \in reports :
    \A n \in DOMAIN r.files \cap DOMAIN s.files : r.files[n] = s.files[n]

(* After a report with a final record no report has further sweeps, even if *)
(* the referee goes on: unless a relay renumbers a room, for the final      *)
(* record does not say how many sweeps it ends.                             *)
FinalIsFinal ==
  party # "relay" => \A r, s \in reports : r.final => Len(s.files) <= Len(r.files)
=============================================================================
