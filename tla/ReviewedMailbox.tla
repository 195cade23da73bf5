--------------------------- MODULE ReviewedMailbox ---------------------------
(***************************************************************************)
(* The reviewed workflow around the two scripts of Mailbox:                 *)
(*   fetch-mailbox-once.py    the timer's job: poll, save one batch, pause  *)
(*   review-mailbox.sh        poll if no batch is saved, review the batch   *)
(*   review-mailbox-batch.py  the reviewer both wrappers call               *)
(*   ack-reviewed-mailbox.sh  review again, acknowledge, archive, clean up  *)
(*                                                                          *)
(* A process runs one of these as its job and, inside the job, a script of  *)
(* Mailbox.  Every file operation of a job is a step; the variables of      *)
(* Mailbox move only by its own actions.                                    *)
(***************************************************************************)
EXTENDS Mailbox

CONSTANTS
  Timer,     \* processes of the systemd timer, which run the fetch
  Operator,  \* processes of the operator, which run the other two jobs
  Killable,  \* places in a job where a kill is considered
  MaxKills   \* bound: jobs and scripts killed in a behaviour

ASSUME RolesAssumption == Timer \cup Operator = Proc /\ MaxKills \in Nat

VARIABLES
  job,         \* where each process is in its job
  work,        \* the batch or receipt a job holds in memory, or Null
  batchFile,   \* mailbox.batch.json, or Null
  receiptFile, \* mailbox.review.json: the batch it certifies, or Null
  archive,     \* reviewed-batches: receipts under their generation and cursor
  halted,      \* mailbox.fetch.halted exists
  fetchLock,   \* holder of mailbox.fetch.lock, or Null
  forged,      \* messages the reviewer rejects on their own
  replayed,    \* messages that carry the signature of the one before
  kills,       \* kills so far
  acked        \* ghost: batches whose acknowledgement moved the cursor

savedFiles == <<batchFile, receiptFile, archive, halted>>
mischief   == <<forged, replayed>>
mailbox    == vars
reviewVars == <<room, cursorFile, pendingFile, lock, pc, status, reg, page, offer,
                job, work, batchFile, receiptFile, archive, halted, fetchLock,
                forged, replayed, kills, acked>>

ReviewJobs == {"rPoll", "rSave", "rLoad", "rJudge", "rCount", "rRemove"}
AckJobs    == {"kLoad", "kJudge", "kRead", "kAck", "kArchive", "kRemove"}
FetchJobs  == {"fHalt", "fPoll", "fLink"}
Jobs       == ReviewJobs \cup AckJobs \cup FetchJobs \cup {"none"}

Jobless(p) == job[p] = "none" /\ Idle(p)

Step(p, j) == job' = [job EXCEPT ![p] = j]

(* The job ends; a fetch gives its own lock back.                           *)
Leave(p) ==
  /\ Step(p, "none")
  /\ work' = [work EXCEPT ![p] = Null]
  /\ fetchLock' = IF fetchLock = p THEN Null ELSE fetchLock

-----------------------------------------------------------------------------
(* review-mailbox-batch.py                                                  *)

(* The messages of a batch run without a gap to the cursor it proposes; the *)
(* first one follows the starting cursor, unless that is 0.                 *)
Contiguous(b) ==
  IF b.seqs = {} THEN b.last = b.start
  ELSE /\ b.last \in b.seqs
       /\ \A s \in b.seqs : s > b.start /\ s <= b.last
       /\ \A s \in b.seqs : s - 1 \in b.seqs \/ s = b.start + 1
                            \/ (b.start = 0 /\ \A t \in b.seqs : s <= t)

SameSignature(s, t) ==
  \/ s \in replayed /\ t = s - 1
  \/ t \in replayed /\ s = t - 1

(* No signature of the batch is in it twice, or in an archived receipt of   *)
(* the same generation under another sequence number.                       *)
Fresh(b) ==
  /\ \A s, t \in b.seqs : ~SameSignature(s, t)
  /\ \A a \in archive : a.receipt.gen = b.gen =>
       \A s \in b.seqs, t \in a.receipt.seqs : ~SameSignature(s, t)

(* A slip: only the batch itself is searched for repeated signatures.       *)
ReviewableWithoutHistory(b) ==
  /\ b.gen # Null
  /\ Contiguous(b)
  /\ b.seqs \cap forged = {}
  /\ \A s, t \in b.seqs : ~SameSignature(s, t)

(* A slip: signatures are not verified.                                     *)
ReviewableUnsigned(b) == b.gen # Null /\ Contiguous(b) /\ Fresh(b)

Reviewable(b) ==
  /\ b.gen # Null
  /\ Contiguous(b)
  /\ b.seqs \cap forged = {}
  /\ Fresh(b)

(* The reviewer reads the saved batch, if there is one.                     *)
ReviewerLoad(p, from, to) ==
  /\ job[p] = from
  /\ IF batchFile = Null
     THEN Leave(p)
     ELSE /\ work' = [work EXCEPT ![p] = batchFile]
          /\ Step(p, to)
          /\ UNCHANGED fetchLock
  /\ UNCHANGED <<mailbox, savedFiles, mischief, kills, acked>>

(* It writes the receipt of a batch it accepts, or finds the same receipt   *)
(* in place; a different receipt in place is an error.                      *)
ReviewerJudge(p, from, to) ==
  /\ job[p] = from
  /\ IF Reviewable(work[p]) /\ receiptFile \in {Null, work[p]}
     THEN /\ receiptFile' = work[p]
          /\ work' = [work EXCEPT ![p] = Null]
          /\ Step(p, to)
          /\ UNCHANGED fetchLock
     ELSE Leave(p) /\ UNCHANGED receiptFile
  /\ UNCHANGED <<mailbox, batchFile, archive, halted, mischief, kills, acked>>

-----------------------------------------------------------------------------
(* review-mailbox.sh.  A start that finds a marker but no batch is an error *)
(* and leaves everything as it is.                                          *)

StartReviewSaved(p) ==
  /\ Jobless(p)
  /\ batchFile # Null
  /\ Step(p, "rLoad")
  /\ UNCHANGED <<mailbox, work, savedFiles, fetchLock, mischief, kills, acked>>

StartReviewPoll(p) ==
  /\ Jobless(p)
  /\ batchFile = Null
  /\ pendingFile = Null
  /\ StartPoll(p)
  /\ Step(p, "rPoll")
  /\ UNCHANGED <<work, savedFiles, fetchLock, mischief, kills, acked>>

(* The poll has ended: its stdout is kept only if its status is 0.          *)
ReviewPolled(p) ==
  /\ job[p] = "rPoll"
  /\ Idle(p)
  /\ IF status[p] = 0
     THEN Step(p, "rSave") /\ UNCHANGED <<work, fetchLock>>
     ELSE Leave(p)
  /\ UNCHANGED <<mailbox, savedFiles, mischief, kills, acked>>

(* mv -f onto mailbox.batch.json.                                           *)
ReviewSave(p) ==
  /\ job[p] = "rSave"
  /\ batchFile' = page[p]
  /\ Step(p, "rLoad")
  /\ UNCHANGED <<mailbox, work, receiptFile, archive, halted, fetchLock, mischief,
                 kills, acked>>

(* A receipt of no messages needs no acknowledgement: rm -f batch receipt,  *)
(* in that order.  Otherwise the marker must be there; either way the job   *)
(* ends without a change.                                                   *)
ReviewCount(p) ==
  /\ job[p] = "rCount"
  /\ IF receiptFile # Null /\ receiptFile.seqs = {}
     THEN /\ batchFile' = Null
          /\ Step(p, "rRemove")
          /\ UNCHANGED <<work, fetchLock>>
     ELSE Leave(p) /\ UNCHANGED batchFile
  /\ UNCHANGED <<mailbox, receiptFile, archive, halted, mischief, kills, acked>>

ReviewRemove(p) ==
  /\ job[p] = "rRemove"
  /\ receiptFile' = Null
  /\ Leave(p)
  /\ UNCHANGED <<mailbox, batchFile, archive, halted, mischief, kills, acked>>

-----------------------------------------------------------------------------
(* ack-reviewed-mailbox.sh --confirm-reviewed                               *)

StartAckReviewed(p) ==
  /\ Jobless(p)
  /\ batchFile # Null
  /\ receiptFile # Null
  /\ Step(p, "kLoad")
  /\ UNCHANGED <<mailbox, work, savedFiles, fetchLock, mischief, kills, acked>>

ArchivedAs(b) == {a \in archive : a.gen = b.gen /\ a.cursor = b.last}

(* The receipt just confirmed gives the cursor to acknowledge and the name  *)
(* to archive it under; a conflicting archived receipt stops the job.       *)
AckReadReceipt(p) ==
  /\ job[p] = "kRead"
  /\ IF /\ receiptFile # Null
        /\ receiptFile.seqs # {}
        /\ \A a \in ArchivedAs(receiptFile) : a.receipt = receiptFile
     THEN /\ StartAck(p, receiptFile.last)
          /\ work' = [work EXCEPT ![p] = receiptFile]
          /\ Step(p, "kAck")
          /\ UNCHANGED fetchLock
     ELSE Leave(p) /\ UNCHANGED mailbox
  /\ UNCHANGED <<savedFiles, mischief, kills, acked>>

(* A slip: the exit status of ack-mailbox.sh is not looked at.              *)
AckReturnedUnchecked(p) ==
  /\ job[p] = "kAck"
  /\ Idle(p)
  /\ Step(p, "kArchive")
  /\ UNCHANGED <<mailbox, work, fetchLock, savedFiles, mischief, kills, acked>>

AckReturned(p) ==
  /\ job[p] = "kAck"
  /\ Idle(p)
  /\ IF status[p] = 0
     THEN Step(p, "kArchive") /\ UNCHANGED <<work, fetchLock>>
     ELSE Leave(p)
  /\ UNCHANGED <<mailbox, savedFiles, mischief, kills, acked>>

(* A slip: the receipt is deleted together with the batch.                  *)
AckDiscardReceipt(p) ==
  /\ job[p] = "kArchive"
  /\ receiptFile' = Null
  /\ Step(p, "kRemove")
  /\ UNCHANGED <<mailbox, work, batchFile, archive, halted, fetchLock, mischief, kills, acked>>

(* The receipt moves to the archive, unless it is there already.            *)
AckArchive(p) ==
  /\ job[p] = "kArchive"
  /\ IF ArchivedAs(work[p]) # {}
     THEN /\ receiptFile' = Null
          /\ Step(p, "kRemove")
          /\ UNCHANGED <<archive, work, fetchLock>>
     ELSE IF receiptFile # Null
     THEN /\ archive' = archive \cup {[gen |-> work[p].gen, cursor |-> work[p].last,
                                       receipt |-> receiptFile]}
          /\ receiptFile' = Null
          /\ Step(p, "kRemove")
          /\ UNCHANGED <<work, fetchLock>>
     ELSE Leave(p) /\ UNCHANGED <<archive, receiptFile>>
  /\ UNCHANGED <<mailbox, batchFile, halted, mischief, kills, acked>>

(* A slip: the raw batch stays behind.                                      *)
AckRemoveNothing(p) ==
  /\ job[p] = "kRemove"
  /\ Leave(p)
  /\ UNCHANGED <<mailbox, savedFiles, mischief, kills, acked>>

AckRemove(p) ==
  /\ job[p] = "kRemove"
  /\ batchFile' = Null
  /\ Leave(p)
  /\ UNCHANGED <<mailbox, receiptFile, archive, halted, mischief, kills, acked>>

-----------------------------------------------------------------------------
(* fetch-mailbox-once.py, started by the timer                              *)

(* Nothing is paused, saved or pending, and no other fetch runs.            *)
StartFetch(p) ==
  /\ Jobless(p)
  /\ fetchLock = Null
  /\ ~halted /\ batchFile = Null /\ pendingFile = Null
  /\ fetchLock' = p
  /\ Step(p, "fHalt")
  /\ UNCHANGED <<mailbox, work, savedFiles, mischief, kills, acked>>

(* The pause is on disk before the poll starts.                             *)
FetchHalt(p) ==
  /\ job[p] = "fHalt"
  /\ halted' = TRUE
  /\ StartPoll(p)
  /\ Step(p, "fPoll")
  /\ UNCHANGED <<work, batchFile, receiptFile, archive, fetchLock, mischief, kills, acked>>

(* Nothing came of this poll, and no marker says otherwise: the pause is    *)
(* lifted for the next interval.                                            *)
NothingFetched(p) ==
  /\ pendingFile = Null
  /\ status[p] = 75 \/ (status[p] = 0 /\ page[p].seqs = {})

FetchNothing(p) ==
  /\ job[p] = "fPoll"
  /\ Idle(p)
  /\ NothingFetched(p)
  /\ halted' = FALSE
  /\ Leave(p)
  /\ UNCHANGED <<mailbox, batchFile, receiptFile, archive, mischief, kills, acked>>

(* Any other failure, the time limit included, leaves the pause.            *)
FetchFail(p) ==
  /\ job[p] = "fPoll"
  /\ Idle(p)
  /\ status[p] # 0
  /\ ~NothingFetched(p)
  /\ Leave(p)
  /\ UNCHANGED <<mailbox, savedFiles, mischief, kills, acked>>

FetchBatch(p) ==
  /\ job[p] = "fPoll"
  /\ Idle(p)
  /\ status[p] = 0
  /\ ~NothingFetched(p)
  /\ Step(p, "fLink")
  /\ UNCHANGED <<mailbox, work, savedFiles, fetchLock, mischief, kills, acked>>

(* link(2) does not replace a batch saved meanwhile.                        *)
FetchLink(p) ==
  /\ job[p] = "fLink"
  /\ batchFile' = IF batchFile = Null THEN page[p] ELSE batchFile
  /\ Leave(p)
  /\ UNCHANGED <<mailbox, receiptFile, archive, halted, mischief, kills, acked>>

-----------------------------------------------------------------------------
(* The operator, kills, and the scripts inside the jobs                     *)

Quiet == \A p \in Proc : Jobless(p)

(* test ! -e pending && test ! -e batch && rm halted, the timer stopped.    *)
Resume ==
  /\ Quiet
  /\ halted /\ batchFile = Null /\ pendingFile = Null
  /\ halted' = FALSE
  /\ UNCHANGED <<mailbox, job, work, batchFile, receiptFile, archive, fetchLock,
                 mischief, kills, acked>>

(* The batch was lost: the operator chooses duplicate delivery.             *)
Recover ==
  /\ Quiet
  /\ batchFile = Null
  /\ DropPending
  /\ UNCHANGED <<job, work, savedFiles, fetchLock, mischief, kills, acked>>

(* A job is killed with the script it runs, if it runs one.                 *)
KillJob(p) ==
  /\ kills < MaxKills
  /\ job[p] \in Killable
  /\ kills' = kills + 1
  /\ Leave(p)
  /\ IF Idle(p) THEN UNCHANGED mailbox ELSE Crash(p)
  /\ UNCHANGED <<savedFiles, mischief, acked>>

(* Only the script is killed, by the fetch's time limit for instance.       *)
KillScript(p) ==
  /\ kills < MaxKills
  /\ job[p] \in Killable
  /\ kills' = kills + 1
  /\ Crash(p)
  /\ UNCHANGED <<job, work, savedFiles, fetchLock, mischief, acked>>

(* A script inside a job goes on.                                           *)
Inside(p) ==
  /\ LockStep(p) \/ ScriptStep(p)
  /\ acked' = IF cursorFile'.cursor > cursorFile.cursor THEN acked \cup {offer} ELSE acked
  /\ UNCHANGED <<job, work, savedFiles, fetchLock, mischief, kills>>

Outside ==
  /\ RoomStep \/ CurlTimeout
  /\ UNCHANGED <<job, work, savedFiles, fetchLock, mischief, kills, acked>>

ReviewStep(p) ==
  \/ ReviewPolled(p) \/ ReviewSave(p)
  \/ ReviewerLoad(p, "rLoad", "rJudge") \/ ReviewerJudge(p, "rJudge", "rCount")
  \/ ReviewCount(p) \/ ReviewRemove(p)

AckReviewedStep(p) ==
  \/ ReviewerLoad(p, "kLoad", "kJudge") \/ ReviewerJudge(p, "kJudge", "kRead")
  \/ AckReadReceipt(p) \/ AckReturned(p) \/ AckArchive(p) \/ AckRemove(p)

FetchStep(p) ==
  \/ FetchHalt(p) \/ FetchNothing(p) \/ FetchFail(p) \/ FetchBatch(p) \/ FetchLink(p)

JobStep(p) == ReviewStep(p) \/ AckReviewedStep(p) \/ FetchStep(p)
StartReview(p) == StartReviewSaved(p) \/ StartReviewPoll(p)

ReviewInit ==
  /\ Init
  /\ job = [p \in Proc |-> "none"]
  /\ work = [p \in Proc |-> Null]
  /\ batchFile = Null /\ receiptFile = Null
  /\ archive = {} /\ acked = {}
  /\ halted = FALSE
  /\ fetchLock = Null
  /\ kills = 0
  /\ \/ forged = {} /\ replayed \in {{}} \cup {{s} : s \in Seqs \ {1}}
     \/ forged \in {{s} : s \in Seqs} /\ replayed = {}

ReviewNext ==
  \/ Outside \/ Resume \/ Recover
  \/ \E p \in Proc :
       \/ Inside(p) \/ JobStep(p) \/ KillJob(p) \/ KillScript(p)
       \/ p \in Operator /\ (StartReview(p) \/ StartAckReviewed(p))
       \/ p \in Timer /\ StartFetch(p)

ReviewSpec == ReviewInit /\ [][ReviewNext]_reviewVars

(* The jobs go on, the timer fires again and again, and the operator keeps  *)
(* reviewing, acknowledging what was reviewed and lifting the pause.  The   *)
(* configuration and the room's answers are usable again and again.         *)
Attended ==
  /\ WF_reviewVars(CurlTimeout /\ Outside)
  /\ WF_reviewVars(Resume)
  /\ WF_reviewVars(Recover)
  /\ \A p \in Proc :
       /\ WF_reviewVars(JobStep(p))
       /\ WF_reviewVars(Inside(p) /\ ScriptStep(p))
       /\ SF_reviewVars(Inside(p) /\ LockStep(p))
       /\ SF_reviewVars(Inside(p) /\ PollRead(p))
       /\ SF_reviewVars(Inside(p) /\ PollPrint(p))
  /\ \A p \in Operator : SF_reviewVars(StartReview(p)) /\ SF_reviewVars(StartAckReviewed(p))
  /\ \A p \in Timer : SF_reviewVars(StartFetch(p))

AttendedSpec == ReviewSpec /\ Attended

-----------------------------------------------------------------------------
Archived == [gen : Generations, cursor : Cursors, receipt : Batch]

(* Types of the variables this module adds.                                 *)
ReviewTypeOK ==
  /\ job \in [Proc -> Jobs]
  /\ work \in [Proc -> Batch \cup {Null}]
  /\ batchFile \in Batch \cup {Null}
  /\ receiptFile \in Batch \cup {Null}
  /\ archive \subseteq Archived
  /\ halted \in BOOLEAN
  /\ fetchLock \in Proc \cup {Null}
  /\ forged \subseteq Seqs /\ replayed \subseteq Seqs
  /\ kills \in 0 .. MaxKills
  /\ acked \subseteq Batch

(* "A cursor advances only after complete successful processing": no        *)
(* message passed by the cursor failed its review, also when two jobs       *)
(* overlap and batches, receipts and markers come from different polls.     *)
AdvanceIsReviewed ==
  [][cursorFile'.cursor > cursorFile.cursor =>
       /\ offer.seqs # {}
       /\ offer.seqs \cap forged = {}
       /\ receiptFile = offer]_cursorFile

(* The receipt of an acknowledged batch is never lost: until it is in the   *)
(* archive it is on disk, whatever is killed between the two writes of the  *)
(* acknowledgement, the move of the receipt and the removal of the batch.   *)
EvidenceKept ==
  \A b \in acked : \/ \E a \in archive : a.receipt = b
                   \/ receiptFile = b

(* No signature is acknowledged twice under two sequence numbers of one     *)
(* generation: the history that detects it survives every kill.             *)
NoReplayAcknowledged ==
  \A b, c \in acked : b.gen = c.gen =>
    \A s \in b.seqs, t \in c.seqs : ~SameSignature(s, t)

(* "Keep the single unacknowledged batch until deliberately processed": a   *)
(* saved batch leaves the disk only when it is empty or acknowledged, and   *)
(* is never replaced by another one.                                        *)
SavedBatchKept ==
  [][batchFile # Null =>
       /\ batchFile' = Null
       /\ batchFile.seqs = {} \/ batchFile \in acked]_batchFile

(* Every message of a room that reports its generation and carries no       *)
(* mischief is acknowledged in the end, by the timer and an operator who    *)
(* keeps reviewing and resuming, whatever transient failure and whatever    *)
(* kill comes in between.                                                   *)
EveryMessageHandled ==
  [](room.reports /\ forged = {} /\ replayed = {}) =>
    \A s \in Seqs : (room.head >= s ~> cursorFile.cursor >= s)

(* docs/ubuntu-agent-operations.md: "After a successful acknowledgement,    *)
(* the raw batch is deleted and the redacted receipt is moved to" the       *)
(* archive: again and again every acknowledged batch is archived and gone.  *)
AcknowledgedArchived ==
  [](room.reports /\ forged = {} /\ replayed = {}) =>
    []<>(\A b \in acked : batchFile # b /\ \E a \in archive : a.receipt = b)
=============================================================================
