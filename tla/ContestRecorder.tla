--------------------------- MODULE ContestRecorder ---------------------------
(***************************************************************************)
(* scripts/record-contest-room.py: every run appends one snapshot of a      *)
(* room's export to a private archive.  A snapshot is staged under another  *)
(* name and renamed when complete; its manifest holds the hash of its       *)
(* predecessor's and the coverage of all observations so far.               *)
(*                                                                          *)
(* A name is safe from a power loss once its directory was synced.  Changes *)
(* to one directory reach the disk in their order, those to two directories *)
(* in any.  The recorder makes its root and never syncs the root's parent.  *)
(*                                                                          *)
(* A digest is injective: it stands for the manifest it was taken of.       *)
(***************************************************************************)
EXTENDS Integers, Sequences, FiniteSets, SequencesExt

CONSTANTS
  Proc,         \* processes that run the recorder
  Null,         \* no value
  Configs,      \* configurations a run may be given: [generation, after]
  MaxSeq,       \* bound: sequence numbers in exports
  Forged,       \* sequence numbers whose signature does not verify
  Receipts,     \* sequence numbers that carry a matching receipt
  MaxSnapshots, \* MAX_SNAPSHOTS
  Budget,       \* MAX_STORAGE, in units of one line of an export
  MaxFaults,    \* bound: kills, power losses and I/O errors
  MaxDamage     \* bound: hand-made changes of the archive

ASSUME RecorderAssumption ==
  /\ MaxSnapshots \in Nat /\ Budget \in Nat /\ MaxSeq \in Nat
  /\ Configs \subseteq [generation : Nat, after : Nat]
  /\ Null \notin Proc /\ Null \notin Nat

VARIABLES
  archive,  \* the snapshots of the directory, in the order of their names
  durable,  \* how many of them a power loss cannot take
  bytes,    \* what storage_size finds: snapshots and remnants
  lock,     \* holder of the flock, or Null
  pc,       \* where each run is
  config,   \* command line of each run
  scan,     \* what each run has read under the lock
  capture,  \* what each run is about to append
  written,  \* files it has staged
  root,     \* the archive directory: "absent", "new" while a power loss may take
            \* its own name, "kept" when that is on disk
  reports,  \* ghost: results printed of this directory's snapshots
  lost,     \* ghost: results with kept that a power loss has taken
  faults,   \* bound counter
  damage    \* bound counter

vars == <<archive, durable, bytes, lock, pc, config, scan, capture, written,
          root, reports, lost, faults, damage>>

Seqs == 1 .. MaxSeq
Files == 4                        \* export, transport, receipts, manifest

Digest(s) == <<s.number, s.edited>>

Goto(p, l) == pc' = [pc EXCEPT ![p] = l]

-----------------------------------------------------------------------------
(* Intervals are taken in the order of their bounds, as from a sorted list. *)
Latest(ranges) ==
  CHOOSE r \in ranges : \A s \in ranges : s[1] < r[1] \/ (s[1] = r[1] /\ s[2] <= r[2])

(* A slip: intervals that touch are joined one number too far.              *)
TouchesOverHole(r, result) == result # <<>> /\ r[1] <= Last(result)[2] + 2

(* The next interval starts in the last one so far, or right after it.      *)
Touches(r, result) == result # <<>> /\ r[1] <= Last(result)[2] + 1

Join(r, result) ==
  IF Touches(r, result)
  THEN [result EXCEPT ![Len(result)][2] = IF r[2] > @ THEN r[2] ELSE @]
  ELSE Append(result, r)

(* Sorted intervals, merged where they touch.                               *)
Merge(ranges) == MapThenFoldSet(Join, <<>>, LAMBDA r : r, Latest, ranges)

(* One interval of the loop that looks for holes.                           *)
Pass(acc, r) ==
  [cursor |-> IF r[2] + 1 > acc.cursor THEN r[2] + 1 ELSE acc.cursor,
   found  |-> IF r[1] > acc.cursor
              THEN Append(acc.found, <<acc.cursor, r[1] - 1>>) ELSE acc.found]

(* A slip: the hole before the first interval starts at after itself.       *)
HolesFromAfter(ranges, after) ==
  FoldLeft(Pass, [cursor |-> after, found |-> <<>>], ranges).found

(* The intervals between after and the end of the coverage that it lacks.   *)
Holes(ranges, after) ==
  FoldLeft(Pass, [cursor |-> after + 1, found |-> <<>>], ranges).found

-----------------------------------------------------------------------------
(* What a run makes of an export: the numbers of its lines, the generation  *)
(* header, and whether the lines parse in increasing order.                 *)

(* A slip: coverage advances whatever the generation.                       *)
CreditedAnyGeneration(p, generation, valid) == valid

(* An invalid export, or one of another generation, is kept and not counted.*)
Credited(p, generation, valid) == valid /\ generation = config[p].generation

(* A slip: only an empty window is reported.                                *)
RegressedWhenEmpty(before, observed) == before # <<>> /\ observed = <<>>

(* The window stops short of what was seen before.                          *)
Regressed(before, observed) ==
  /\ before # <<>>
  /\ observed = <<>> \/ Last(observed)[2] < Last(before)[2]

(* The fields of the manifest that are checked or carried on; files counts  *)
(* the artifacts that are there and have their recorded hash, and shown is  *)
(* a ghost: the numbers that count as observed by this snapshot alone.      *)
Capture(p, lines, generation, valid) ==
  LET c == config[p]
      credited == Credited(p, generation, valid)
      seqs     == {s \in lines : s > c.after}
      observed == Merge({<<s, s>> : s \in seqs})
      before   == scan[p].coverage
      coverage == IF credited THEN Merge(ToSet(before) \cup ToSet(observed)) ELSE before
      missing  == Holes(coverage, c.after)
  IN  [number |-> scan[p].count + 1, previous |-> scan[p].previous, config |-> c,
       coverage |-> coverage, missing |-> missing,
       receipts |-> IF credited THEN (lines \cap Receipts) \ Forged ELSE {},
       warned |-> \/ ~credited \/ Regressed(before, observed)
                  \/ lines \cap Forged # {} \/ missing # <<>>,
       files |-> Files, synced |-> FALSE, edited |-> FALSE,
       shown |-> IF valid /\ generation = c.generation THEN seqs ELSE {}]

(* Size of a staged file: the export's lines, and one unit for the others.  *)
FileSize(lines, file) == IF file = 1 THEN Cardinality(lines) ELSE 1
TotalSize(lines) == Cardinality(lines) + Files - 1

-----------------------------------------------------------------------------
(* A run that ends, by itself or not, forgets all and lets the lock go.     *)
Exit(p) ==
  /\ Goto(p, "idle")
  /\ lock' = IF lock = p THEN Null ELSE lock
  /\ config' = [config EXCEPT ![p] = Null]
  /\ scan' = [scan EXCEPT ![p] = Null]
  /\ capture' = [capture EXCEPT ![p] = Null]
  /\ written' = [written EXCEPT ![p] = 0]

Start(p) ==
  /\ pc[p] = "idle"
  /\ \E c \in Configs : config' = [config EXCEPT ![p] = c]
  /\ Goto(p, "lock")
  /\ UNCHANGED <<archive, durable, bytes, lock, scan, capture, written, reports,
                 faults, damage, root, lost>>

(* The directory is made if it is missing; nothing syncs its parent.        *)
MakeRoot == root' = IF root = "absent" THEN "new" ELSE root

(* A slip: the lock file is opened and not locked.                          *)
LockIgnored(p) ==
  /\ pc[p] = "lock"
  /\ MakeRoot
  /\ Goto(p, "scan")
  /\ UNCHANGED <<archive, durable, bytes, lock, config, scan, capture, written,
                 reports, faults, damage, lost>>

(* LOCK_NB: a run that finds the lock taken ends with an error.             *)
Lock(p) ==
  /\ pc[p] = "lock"
  /\ MakeRoot
  /\ \/ lock = Null /\ lock' = p /\ Goto(p, "scan")
        /\ UNCHANGED <<config, scan, capture, written>>
     \/ lock # Null /\ Exit(p)
  /\ UNCHANGED <<archive, durable, bytes, reports, faults, damage, lost>>

(* The checks of every snapshot: number, link, configuration, artifacts.    *)
Verifies(chain, c) ==
  \A i \in DOMAIN chain :
    /\ chain[i].number = i
    /\ chain[i].previous = IF i = 1 THEN Null ELSE Digest(chain[i - 1])
    /\ chain[i].config = c
    /\ chain[i].files = Files

Scan(p) ==
  /\ pc[p] = "scan"
  /\ IF Len(archive) < MaxSnapshots /\ bytes < Budget /\ Verifies(archive, config[p])
     THEN /\ scan' = [scan EXCEPT ![p] =
               [used |-> bytes, count |-> Len(archive),
                previous |-> IF archive = <<>> THEN Null ELSE Digest(Last(archive)),
                coverage |-> IF archive = <<>> THEN <<>> ELSE Last(archive).coverage]]
          /\ Goto(p, "fetch")
          /\ UNCHANGED <<lock, config, capture, written>>
     ELSE Exit(p)
  /\ UNCHANGED <<archive, durable, bytes, reports, faults, damage, root, lost>>

(* The request fails, or is answered by any export.  A capture beyond the   *)
(* budget is given up.                                                      *)
FetchFails(p) ==
  /\ pc[p] = "fetch"
  /\ Exit(p)
  /\ UNCHANGED <<archive, durable, bytes, reports, faults, damage, root, lost>>

(* A slip: the capture itself is not counted.                               *)
FitsAlready(p, lines) == scan[p].used <= Budget

Fits(p, lines) == scan[p].used + TotalSize(lines) <= Budget

Fetch(p) ==
  /\ pc[p] = "fetch"
  /\ \E lines \in SUBSET Seqs, valid \in BOOLEAN,
        generation \in {c.generation : c \in Configs} :
       IF Fits(p, lines)
       THEN /\ capture' = [capture EXCEPT ![p] =
                 [snapshot |-> Capture(p, lines, generation, valid), lines |-> lines]]
            /\ written' = [written EXCEPT ![p] = 0]
            /\ Goto(p, "write")
            /\ UNCHANGED <<lock, config, scan>>
       ELSE Exit(p)
  /\ UNCHANGED <<archive, durable, bytes, reports, faults, damage, root, lost>>

(* write_new, four times, then sync_dir of the staging directory.           *)
Write(p) ==
  /\ pc[p] = "write" /\ written[p] < Files
  /\ written' = [written EXCEPT ![p] = @ + 1]
  /\ bytes' = bytes + FileSize(capture[p].lines, written[p] + 1)
  /\ UNCHANGED <<archive, durable, lock, pc, config, scan, capture, reports, faults,
                 damage, root, lost>>

SyncStaging(p) ==
  /\ pc[p] = "write" /\ written[p] = Files
  /\ capture' = [capture EXCEPT ![p].snapshot.synced = TRUE]
  /\ Goto(p, "rename")
  /\ UNCHANGED <<archive, durable, bytes, lock, config, scan, written, reports,
                 faults, damage, root, lost>>

(* A slip: the directory gets its final name before its files are synced.   *)
RenameUnsynced(p) ==
  /\ pc[p] = "rename"
  /\ archive' = Append(archive, [capture[p].snapshot EXCEPT !.synced = FALSE])
  /\ Goto(p, "sync")
  /\ UNCHANGED <<durable, bytes, lock, config, scan, capture, written, reports,
                 faults, damage, root, lost>>

Rename(p) ==
  /\ pc[p] = "rename"
  /\ archive' = Append(archive, capture[p].snapshot)
  /\ Goto(p, "sync")
  /\ UNCHANGED <<durable, bytes, lock, config, scan, capture, written, reports,
                 faults, damage, root, lost>>

(* A slip: the root directory is not synced before the report.              *)
SyncRootNot(p) ==
  /\ pc[p] = "sync"
  /\ lock' = Null
  /\ Goto(p, "report")
  /\ UNCHANGED <<archive, durable, bytes, config, scan, capture, written, reports,
                 faults, damage, root, lost>>

(* sync_dir(root); the return of record() closes the lock file.             *)
SyncRoot(p) ==
  /\ pc[p] = "sync"
  /\ durable' = Len(archive)
  /\ lock' = Null
  /\ Goto(p, "report")
  /\ UNCHANGED <<archive, bytes, config, scan, capture, written, reports, faults,
                 damage, root, lost>>

(* main prints the result; exit status 2 with warnings, otherwise 0.  kept  *)
(* is a ghost: the directory's own name was on disk.                        *)
Report(p) ==
  /\ pc[p] = "report"
  /\ reports' = reports \cup {[number |-> capture[p].snapshot.number,
                               status |-> IF capture[p].snapshot.warned THEN 2 ELSE 0,
                               kept   |-> root = "kept"]}
  /\ Exit(p)
  /\ UNCHANGED <<archive, durable, bytes, faults, damage, root, lost>>

-----------------------------------------------------------------------------
(* A kill, or an I/O error, at any point; a file may be written in part.    *)
Kill(p) ==
  /\ pc[p] # "idle" /\ faults < MaxFaults
  /\ faults' = faults + 1
  /\ IF pc[p] = "write" /\ written[p] < Files
     THEN \E part \in 0 .. FileSize(capture[p].lines, written[p] + 1) :
            bytes' = bytes + part
     ELSE UNCHANGED bytes
  /\ Exit(p)
  /\ UNCHANGED <<archive, durable, reports, damage, root, lost>>

(* No run is under way.                                                      *)
Quiet(pcs, holder, configs, scans, captures, counts) ==
  /\ pcs = [p \in Proc |-> "idle"]
  /\ holder = Null
  /\ configs = [p \in Proc |-> Null]
  /\ scans = [p \in Proc |-> Null]
  /\ captures = [p \in Proc |-> Null]
  /\ counts = [p \in Proc |-> 0]

(* The directory is still there.  Renames that were not synced may be lost, *)
(* the last ones first, and leave the staging directory; so may the names   *)
(* of files in a directory that was not synced.                             *)
RootSurvives ==
  /\ root' = IF root = "new" THEN "kept" ELSE root
  /\ \E n \in durable .. Len(archive), names \in {0, Files} :
       /\ archive' = [i \in 1 .. n |->
                        IF archive[i].synced THEN archive[i]
                        ELSE [archive[i] EXCEPT !.files = names]]
       /\ durable' = n
  /\ UNCHANGED <<bytes, reports, lost>>

(* A directory whose own name was not on disk is gone with all it held.     *)
RootVanishes ==
  /\ root = "new" /\ root' = "absent"
  /\ archive' = <<>> /\ durable' = 0 /\ bytes' = 0
  /\ reports' = {} /\ lost' = lost \cup {r \in reports : r.kept}

(* A power loss ends every run.                                             *)
PowerLoss ==
  /\ faults < MaxFaults
  /\ faults' = faults + 1
  /\ RootSurvives \/ RootVanishes
  /\ Quiet(pc', lock', config', scan', capture', written')
  /\ UNCHANGED damage

(* While no run is under way somebody changes an artifact, rewrites a       *)
(* manifest or takes a snapshot away.                                       *)
Damage ==
  /\ damage < MaxDamage
  /\ \A p \in Proc : pc[p] \in {"idle", "lock"}
  /\ damage' = damage + 1
  /\ \E i \in DOMAIN archive :
       \/ archive' = [archive EXCEPT ![i].files = Files - 1] /\ UNCHANGED durable
       \/ archive' = [archive EXCEPT ![i].edited = TRUE] /\ UNCHANGED durable
       \/ archive' = RemoveAt(archive, i) /\ durable' = Len(archive) - 1
  /\ UNCHANGED <<bytes, lock, pc, config, scan, capture, written, reports, faults,
                 root, lost>>

-----------------------------------------------------------------------------
Step(p) ==
  \/ Lock(p) \/ Scan(p) \/ FetchFails(p) \/ Fetch(p) \/ Write(p)
  \/ SyncStaging(p) \/ Rename(p) \/ SyncRoot(p) \/ Report(p)

Init ==
  /\ archive = <<>> /\ durable = 0 /\ bytes = 0
  /\ root \in {"absent", "kept"}
  /\ Quiet(pc, lock, config, scan, capture, written)
  /\ reports = {} /\ lost = {} /\ faults = 0 /\ damage = 0

Next ==
  \/ \E p \in Proc : Start(p) \/ Step(p) \/ Kill(p)
  \/ PowerLoss
  \/ Damage

Spec == Init /\ [][Next]_vars

-----------------------------------------------------------------------------
(* As long as nobody has changed the archive by hand, it is a chain that    *)
(* the next run accepts: kills at any point, power losses and concurrent    *)
(* runs leave no snapshot half written, unlinked or numbered twice.         *)
ChainIntact ==
  damage = 0 => \A c \in Configs :
                  archive # <<>> /\ archive[1].config = c => Verifies(archive, c)

(* The archive and the remnants of interrupted captures stay within the     *)
(* budget and the number of snapshots.                                      *)
StorageBounded == bytes <= Budget /\ Len(archive) <= MaxSnapshots

ShownUpTo(i) == UNION {archive[j].shown : j \in 1 .. i}

Covered(ranges) == UNION {r[1] .. r[2] : r \in ToSet(ranges)}

(* The coverage of each snapshot is what the right-generation, well-formed  *)
(* exports up to it have shown, its missing ranges are exactly the rest up  *)
(* to the newest number shown, both are sorted and apart, and its receipts  *)
(* are verified lines of an export that counts.                             *)
CoverageExact ==
  damage = 0 => \A i \in DOMAIN archive :
    LET s == archive[i]
        shown == ShownUpTo(i)
        top == IF shown = {} THEN s.config.after ELSE Max(shown)
    IN  /\ Covered(s.coverage) = shown
        /\ Covered(s.missing) = (s.config.after + 1 .. top) \ shown
        /\ \A ranges \in {s.coverage, s.missing} :
             \A k \in 1 .. Len(ranges) - 1 : ranges[k][2] + 1 < ranges[k + 1][1]
        /\ \A r \in s.receipts :
             r \notin Forged /\ (r > s.config.after => r \in s.shown)

(* What a run has reported stays in the archive, whole, through kills and   *)
(* power losses, until somebody takes it away.  The exception is a power    *)
(* loss that takes the directory itself: it is one that a run has made, its *)
(* own name was not on disk at the time of the report, and everything in it *)
(* goes.                                                                    *)
ReportedKept ==
  damage = 0 =>
    /\ \A r \in reports : r.number \in DOMAIN archive /\ archive[r.number].files = Files
    /\ lost = {}

(* Exit status 0 promises no gap: everything from the starting point to the *)
(* newest number any capture has shown was observed, and the last capture   *)
(* has seen up to there.                                                    *)
CleanExit ==
  damage = 0 => \A r \in reports :
    r.status = 0 /\ r.number \in DOMAIN archive =>
      LET shown == ShownUpTo(r.number)
      IN  shown # {} => /\ shown = archive[r.number].config.after + 1 .. Max(shown)
                        /\ Max(shown) \in archive[r.number].shown

(* No snapshot is appended to an archive in which an artifact, a link or a  *)
(* number is wrong, or which was made with another configuration.           *)
ExtendsVerified ==
  [][Len(archive') > Len(archive) => Verifies(archive, Last(archive').config)]_archive
=============================================================================
