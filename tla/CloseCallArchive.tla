--------------------------- MODULE CloseCallArchive ---------------------------
(***************************************************************************)
(* scripts/verify-close-call-archive.py: the organizer publishes an index   *)
(* of the sweep files, some of them redacted; an operator saves it with     *)
(* some records and checks them against the signed records of the flow room *)
(* that verify-close-call.py is given.                                      *)
(***************************************************************************)
EXTENDS CloseCall

VARIABLES
  index,   \* sweeps of index.json
  store,   \* the organizer's records, as they can be saved
  verified \* the last report of the archive verifier, None before one

archiveVars == <<callVars, index, store, verified>>

Redaction(n) == [n |-> n, version |-> "redacted"]
FullEntry(n, file) == [n |-> n, status |-> "full", file |-> file, sha256 |-> None]
RedactedEntry(n, file, sha256) ==
  [n |-> n, status |-> "redacted", file |-> file, sha256 |-> sha256]

-----------------------------------------------------------------------------
(* The organizer publishes every sweep, some of them redacted.              *)
Publish(redacted) ==
  /\ index = <<>> /\ Closed
  /\ LET n == swept["flow"]
     IN  /\ redacted \subseteq 1..n
         /\ index' = [i \in 1..n |-> IF i \in redacted
                        THEN RedactedEntry(i, SweepFile(i), Redaction(i))
                        ELSE FullEntry(i, SweepFile(i))]
         /\ store' = [i \in 1..n |-> IF i \in redacted THEN Redaction(i) ELSE SweepFile(i)]
  /\ UNCHANGED <<callVars, verified>>

(* An entry and its record as they should not be.                           *)
Versions(n) == {[n |-> n, version |-> v] : v \in {"full", "redacted", "other"}}

WrongEntries(n) ==
  {FullEntry(m, f) : m \in {n, n + 1} \cap 1..MaxSweeps, f \in Versions(n)}
  \cup {RedactedEntry(n, f, s) : f \in Versions(n), s \in Versions(n)}

EditArchive(i, entry, record) ==
  /\ party = "keeper" /\ ~slipped /\ slipped' = TRUE
  /\ index' = [index EXCEPT ![i] = entry]
  /\ store' = [store EXCEPT ![i] = record]
  /\ UNCHANGED <<env, party, exports, package, reports, verified>>

-----------------------------------------------------------------------------
(* validate_index: sweeps in order, from the first on.                      *)
IndexOk == \A i \in DOMAIN index : index[i].n = i

(* A slip: the entry is not compared with what the referee signed.          *)
CommittedAnyFile(entry) ==
  LET flow == exports["flow"]
  IN  /\ entry.n \in DOMAIN flow
      /\ flow[entry.n].record.room = "flow"
      /\ flow[entry.n].record.t = "flow" /\ flow[entry.n].record.n = entry.n

(* verify_commitments: the flow record of the sweep, whoever signed it.     *)
Committed(entry) ==
  LET flow == exports["flow"]
  IN  /\ entry.n \in DOMAIN flow
      /\ flow[entry.n].record.room = "flow"
      /\ flow[entry.n].record.t = "flow" /\ flow[entry.n].record.n = entry.n
      /\ flow[entry.n].record.file = entry.file

(* A slip: only the bytes of redacted records are compared.                 *)
ExpectedOfRedacted(entry) == IF entry.sha256 = None THEN store[entry.n] ELSE entry.sha256

(* What the bytes of a record have to hash to.                              *)
Expected(entry) == IF entry.status = "full" THEN entry.file ELSE entry.sha256

(* verify_records, for the sweeps on the command line.                      *)
RecordsOk(sweeps) ==
  \A n \in sweeps :
    /\ n <= Len(index)
    /\ store[n] = Expected(index[n]) /\ store[n].n = n

VerifyArchive(sweeps) ==
  /\ IndexOk /\ (\A i \in DOMAIN index : Committed(index[i])) /\ RecordsOk(sweeps)
  /\ verified' = [files   |-> [i \in DOMAIN index |-> index[i].file],
                  details |-> {[n |-> n, status |-> index[n].status, record |-> store[n]] :
                                 n \in sweeps}]
  /\ UNCHANGED <<callVars, index, store>>

Init == CallInit /\ index = <<>> /\ store = <<>> /\ verified = None

Next ==
  \/ CallNext /\ UNCHANGED <<index, store, verified>>
  \/ \E redacted \in SUBSET (1..MaxSweeps) : Publish(redacted)
  \/ \E i \in DOMAIN index : \E e \in WrongEntries(i), c \in Versions(i) : EditArchive(i, e, c)
  \/ \E sweeps \in SUBSET (1..MaxSweeps) : VerifyArchive(sweeps)

Spec == Init /\ [][Next]_archiveVars

-----------------------------------------------------------------------------
(* The two verifiers agree: the archive's commitments are those that any    *)
(* report on the rooms has for the same sweeps, before or after.            *)
ArchiveAgrees ==
  verified # None =>
    \A r \in reports : \A n \in DOMAIN r.files \cap DOMAIN verified.files :
      verified.files[n] = r.files[n]

(* A record that is called full is the very file that a signed record of    *)
(* the flow room commits to, under its own number; a redaction never is.    *)
RecordsGenuine ==
  verified # None =>
    \A d \in verified.details : d.status = "full" =>
      \E i \in DOMAIN rooms["flow"] :
        rooms["flow"][i].n = d.n /\ rooms["flow"][i].file = d.record
=============================================================================
