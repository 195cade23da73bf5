----------------------- MODULE ReviewedMailbox_proofs -----------------------
(***************************************************************************)
(* Proofs about ReviewedMailbox: the jobs run the two scripts and nothing   *)
(* but the scripts touches their state, so what Mailbox_proofs shows of any *)
(* number of scripts holds of the reviewed workflow.                        *)
(***************************************************************************)
EXTENDS ReviewedMailbox, Mailbox_proofs

(* A job that is to acknowledge or to archive holds the receipt it read.    *)
WorkHeld == \A p \in Proc : job[p] \in {"kAck", "kArchive"} => work[p] # Null

ReviewInv == IInv /\ ReviewTypeOK /\ WorkHeld

-----------------------------------------------------------------------------
(* A step of the workflow is a step of the scripts or leaves them alone.    *)
LEMMA ReviewStepIsMailboxStep ==
  ASSUME ReviewTypeOK, [ReviewNext]_reviewVars
  PROVE  [Next]_vars
<1>1. CASE Outside
  BY <1>1 DEF Outside, Next
<1>2. CASE Recover
  BY <1>2 DEF Recover, Next
<1>3. ASSUME NEW p \in Proc, Inside(p)
      PROVE  [Next]_vars
  BY <1>3 DEF Inside, Next
<1>4. ASSUME NEW p \in Proc, KillJob(p) \/ KillScript(p)
      PROVE  [Next]_vars
  BY <1>4 DEF KillJob, KillScript, Next, mailbox
<1>5. ASSUME NEW p \in Proc, AckReadReceipt(p)
      PROVE  [Next]_vars
  <2>1. CASE UNCHANGED mailbox
    BY <2>1 DEF mailbox
  <2>2. CASE receiptFile # Null /\ StartAck(p, receiptFile.last)
    <3>1. receiptFile.last \in Cursors
      BY <2>2 DEF ReviewTypeOK, Batch
    <3> QED
      BY <2>2, <3>1 DEF Next, Launch
  <2> QED
    BY <1>5, <2>1, <2>2 DEF AckReadReceipt
<1>6. ASSUME NEW p \in Proc, StartReviewPoll(p) \/ FetchHalt(p)
      PROVE  [Next]_vars
  BY <1>6 DEF StartReviewPoll, FetchHalt, Next, Launch
<1>7. ASSUME NEW p \in Proc,
             \/ StartReviewSaved(p) \/ StartAckReviewed(p) \/ StartFetch(p)
             \/ ReviewStep(p) \/ FetchNothing(p) \/ FetchFail(p)
             \/ FetchBatch(p) \/ FetchLink(p)
             \/ ReviewerLoad(p, "kLoad", "kJudge") \/ ReviewerJudge(p, "kJudge", "kRead")
             \/ AckReturned(p) \/ AckArchive(p) \/ AckRemove(p)
      PROVE  UNCHANGED vars
  BY <1>7 DEF StartReviewSaved, StartAckReviewed, StartFetch, ReviewStep, ReviewPolled,
     ReviewSave, ReviewerLoad, ReviewerJudge, ReviewCount, ReviewRemove, FetchNothing,
     FetchFail, FetchBatch, FetchLink, AckReturned, AckArchive, AckRemove, mailbox
<1>8. CASE Resume \/ UNCHANGED reviewVars
  BY <1>8 DEF Resume, mailbox, reviewVars, vars
<1> QED
  BY <1>1, <1>2, <1>3, <1>4, <1>5, <1>6, <1>7, <1>8
     DEF ReviewNext, JobStep, StartReview, AckReviewedStep, FetchStep

(* The workflow starts in a state of the scripts.                           *)
LEMMA ReviewInitInv == ReviewInit => ReviewInv
<1> SUFFICES ASSUME ReviewInit PROVE ReviewInv
  OBVIOUS
<1>1. IInv
  BY InitInv DEF ReviewInit
<1>2. forged \subseteq Seqs /\ replayed \subseteq Seqs
  BY DEF ReviewInit
<1>3. kills \in 0 .. MaxKills
  BY RolesAssumption DEF ReviewInit
<1> QED
  BY <1>1, <1>2, <1>3 DEF ReviewInit, ReviewInv, ReviewTypeOK, WorkHeld, Jobs

(* The workflow moves the cursor forward only over an offer.                *)
LEMMA InsideAdvances ==
  ASSUME IInv, [Next]_vars, cursorFile'.cursor > cursorFile.cursor
  PROVE  offer # Null
<1>1. cursorFile' # cursorFile /\ cursorFile.cursor \in Nat
  BY ConstantsAssumption DEF IInv, TypeOK, CursorState, Cursors
<1> QED
  BY <1>1, CursorSteps, ConstantsAssumption

-----------------------------------------------------------------------------
(* A process that goes to another place of its job or leaves it.            *)
LEMMA JobMoves ==
  ASSUME ReviewTypeOK, NEW p \in Proc,
         \/ /\ \E j \in Jobs : Step(p, j)
            /\ \E w \in Batch \cup {Null} : work' = [work EXCEPT ![p] = w]
            /\ fetchLock' \in {fetchLock, p}
         \/ Leave(p)
  PROVE  /\ job' \in [Proc -> Jobs]
         /\ work' \in [Proc -> Batch \cup {Null}]
         /\ fetchLock' \in Proc \cup {Null}
<1>1. "none" \in Jobs
  BY DEF Jobs
<1> QED
  BY <1>1 DEF ReviewTypeOK, Step, Leave

(* What is archived has the type of the archive.                            *)
LEMMA ArchivedType ==
  ASSUME NEW b \in Batch, NEW r \in Batch
  PROVE  [gen |-> b.gen, cursor |-> b.last, receipt |-> r] \in Archived
BY DEF Archived, Batch

(* The workflow keeps its own types, and what a job holds.                  *)
LEMMA ReviewNextInv == ReviewInv /\ [ReviewNext]_reviewVars => ReviewInv'
<1> SUFFICES ASSUME ReviewInv, [ReviewNext]_reviewVars
             PROVE  ReviewInv'
  OBVIOUS
<1> USE DEF ReviewInv
<1> DEFINE Goal == ReviewTypeOK' /\ WorkHeld'
<1>0. IInv'
  BY ReviewStepIsMailboxStep, NextInv
<1>1. page \in [Proc -> Batch \cup {Null}]
  BY DEF IInv, TypeOK
<1>2. CASE Outside \/ Resume \/ Recover \/ UNCHANGED reviewVars
  BY <1>0, <1>2 DEF Outside, Resume, Recover, reviewVars, savedFiles, mischief, ReviewTypeOK, WorkHeld
<1>3. ASSUME NEW p \in Proc, Inside(p)
      PROVE  Goal
  <2>1. acked' \subseteq Batch
    <3>1. CASE cursorFile'.cursor > cursorFile.cursor
      <4>1. offer # Null
        BY <3>1, ReviewStepIsMailboxStep, InsideAdvances
      <4> QED
        BY <1>3, <3>1, <4>1 DEF Inside, IInv, TypeOK, ReviewTypeOK
    <3> QED
      BY <1>3, <3>1 DEF Inside, ReviewTypeOK
  <2> QED
    BY <1>3, <2>1 DEF Inside, savedFiles, mischief, ReviewTypeOK, WorkHeld
<1>4. ASSUME NEW p \in Proc, KillJob(p) \/ KillScript(p)
      PROVE  Goal
  <2>1. kills' \in 0 .. MaxKills
    BY <1>4, RolesAssumption DEF KillJob, KillScript, ReviewTypeOK
  <2>2. CASE KillJob(p)
    <3>1. WorkHeld'
      BY <2>2 DEF KillJob, Leave, Step, WorkHeld, ReviewTypeOK
    <3> QED
      BY <2>1, <2>2, <3>1, JobMoves DEF KillJob, savedFiles, mischief, ReviewTypeOK
  <2> QED
    BY <1>4, <2>1, <2>2 DEF KillScript, savedFiles, mischief, ReviewTypeOK, WorkHeld
<1>5. ASSUME NEW p \in Proc, StartReviewSaved(p) \/ StartReviewPoll(p)
      PROVE  Goal
  <2>1. \E j \in Jobs \ {"kAck", "kArchive"} : Step(p, j)
    BY <1>5 DEF StartReviewSaved, StartReviewPoll, Jobs, ReviewJobs
  <2> QED
    BY <1>5, <2>1 DEF StartReviewSaved, StartReviewPoll, savedFiles, mischief, Step,
       ReviewTypeOK, WorkHeld
<1>6. ASSUME NEW p \in Proc, StartAckReviewed(p) \/ StartFetch(p) \/ FetchHalt(p)
      PROVE  Goal
  <2>1. \E j \in Jobs \ {"kAck", "kArchive"} : Step(p, j)
    BY <1>6 DEF StartAckReviewed, StartFetch, FetchHalt, Jobs, AckJobs, FetchJobs
  <2> QED
    BY <1>6, <2>1 DEF StartAckReviewed, StartFetch, FetchHalt, savedFiles, mischief, Step,
       ReviewTypeOK, WorkHeld
<1>7. ASSUME NEW p \in Proc, Leave(p), UNCHANGED <<mischief, kills, acked, archive>>,
             batchFile' \in Batch \cup {Null}, receiptFile' \in Batch \cup {Null},
             halted' \in BOOLEAN
      PROVE  Goal
  <2>1. WorkHeld'
    BY <1>7 DEF Leave, Step, WorkHeld, ReviewTypeOK
  <2> QED
    BY <1>7, <2>1, JobMoves DEF mischief, ReviewTypeOK
<1>8. ASSUME NEW p \in Proc, NEW j \in Jobs, Step(p, j),
             NEW w \in Batch \cup {Null}, work' = [work EXCEPT ![p] = w],
             j \in {"kAck", "kArchive"} => w # Null,
             UNCHANGED <<fetchLock, mischief, kills, acked>>,
             batchFile' \in Batch \cup {Null}, receiptFile' \in Batch \cup {Null},
             archive' \subseteq Archived, UNCHANGED halted
      PROVE  Goal
  <2>1. WorkHeld'
    BY <1>8 DEF Step, WorkHeld, ReviewTypeOK
  <2> QED
    BY <1>8, <2>1, JobMoves DEF mischief, ReviewTypeOK
<1> USE DEF Jobs, ReviewJobs, AckJobs, FetchJobs
<1> DEFINE Stay(p) == work' = [work EXCEPT ![p] = work[p]]
<1>9. ASSUME NEW p \in Proc, UNCHANGED work
      PROVE  Stay(p) /\ work[p] \in Batch \cup {Null}
  BY <1>9 DEF ReviewTypeOK
<1>10. ASSUME NEW p \in Proc, ReviewPolled(p) \/ AckReturned(p) \/ FetchBatch(p)
       PROVE  Goal
  BY <1>10, <1>7, <1>8, <1>9 DEF ReviewPolled, AckReturned, FetchBatch, savedFiles,
     ReviewTypeOK, WorkHeld
<1>11. ASSUME NEW p \in Proc,
              \/ ReviewSave(p) \/ ReviewRemove(p) \/ AckRemove(p)
              \/ FetchNothing(p) \/ FetchFail(p) \/ FetchLink(p)
       PROVE  Goal
  <2>1. CASE ReviewSave(p)
    BY <2>1, <1>1, <1>8, <1>9 DEF ReviewSave, ReviewTypeOK
  <2>2. CASE ReviewRemove(p) \/ AckRemove(p)
    BY <2>2, <1>7 DEF ReviewRemove, AckRemove, ReviewTypeOK
  <2>3. CASE FetchNothing(p) \/ FetchFail(p) \/ FetchLink(p)
    BY <2>3, <1>1, <1>7 DEF FetchNothing, FetchFail, FetchLink, savedFiles, ReviewTypeOK
  <2> QED
    BY <1>11, <2>1, <2>2, <2>3
<1>12. ASSUME NEW p \in Proc, ReviewCount(p)
       PROVE  Goal
  BY <1>12, <1>7, <1>8, <1>9 DEF ReviewCount, ReviewTypeOK
<1>13. ASSUME NEW p \in Proc,
              ReviewerLoad(p, "rLoad", "rJudge") \/ ReviewerLoad(p, "kLoad", "kJudge")
       PROVE  Goal
  BY <1>13, <1>7, <1>8 DEF ReviewerLoad, savedFiles, ReviewTypeOK
<1>14. ASSUME NEW p \in Proc,
              ReviewerJudge(p, "rJudge", "rCount") \/ ReviewerJudge(p, "kJudge", "kRead")
       PROVE  Goal
  BY <1>14, <1>7, <1>8 DEF ReviewerJudge, savedFiles, ReviewTypeOK
<1>15. ASSUME NEW p \in Proc, AckReadReceipt(p)
       PROVE  Goal
  BY <1>15, <1>7, <1>8 DEF AckReadReceipt, savedFiles, ReviewTypeOK
<1>16. ASSUME NEW p \in Proc, AckArchive(p)
       PROVE  Goal
  <2>1. work[p] \in Batch
    BY <1>16 DEF AckArchive, WorkHeld, ReviewTypeOK
  <2>2. CASE ArchivedAs(work[p]) # {}
    BY <1>16, <2>2, <1>8, <1>9 DEF AckArchive, ReviewTypeOK
  <2>3. CASE ArchivedAs(work[p]) = {} /\ receiptFile # Null
    <3>1. receiptFile \in Batch
      BY <2>3 DEF ReviewTypeOK
    <3>2. archive' \subseteq Archived
      BY <1>16, <2>1, <2>3, <3>1, ArchivedType DEF AckArchive, ReviewTypeOK
    <3> QED
      BY <1>16, <2>3, <3>2, <1>8, <1>9 DEF AckArchive, ReviewTypeOK
  <2>4. CASE ArchivedAs(work[p]) = {} /\ receiptFile = Null
    BY <1>16, <2>4, <1>7 DEF AckArchive, ReviewTypeOK
  <2> QED
    BY <2>2, <2>3, <2>4
<1>17. CASE \E p \in Proc : \/ Inside(p) \/ KillJob(p) \/ KillScript(p)
                            \/ StartReview(p) \/ StartAckReviewed(p) \/ StartFetch(p)
  BY <1>0, <1>17, <1>3, <1>4, <1>5, <1>6 DEF StartReview
<1>18. CASE \E p \in Proc : JobStep(p)
  BY <1>0, <1>18, <1>6, <1>10, <1>11, <1>12, <1>13, <1>14, <1>15, <1>16
     DEF JobStep, ReviewStep, AckReviewedStep, FetchStep
<1> QED
  BY <1>2, <1>17, <1>18 DEF ReviewNext

-----------------------------------------------------------------------------
(* The jobs, their kills and the operator's recoveries are a behaviour of   *)
(* the two scripts: nothing in the workflow goes around them.               *)
THEOREM WorkflowRunsTheScripts == ReviewSpec => Spec /\ []ReviewInv
<1>1. ReviewInv /\ [ReviewNext]_reviewVars => [Next]_vars
  BY ReviewStepIsMailboxStep DEF ReviewInv
<1>2. ReviewInit => Init
  BY DEF ReviewInit
<1> QED
  BY <1>1, <1>2, ReviewInitInv, ReviewNextInv, PTL DEF ReviewSpec, Spec

(* Every variable of the workflow keeps its type, for any number of         *)
(* processes in any role and any number of kills.                           *)
THEOREM ReviewTypeCorrect == ReviewSpec => []ReviewTypeOK
<1>1. ReviewInv => ReviewTypeOK
  BY DEF ReviewInv
<1> QED
  BY <1>1, WorkflowRunsTheScripts, PTL

(* Under the whole workflow, with overlapping jobs and kills anywhere, the  *)
(* cursor never moves back and moves only over a batch that was offered     *)
(* from where it stood, one that holds every message in between; no marker  *)
(* is replaced, and the one on disk can always be acknowledged.             *)
THEOREM WorkflowKeepsTheLedger ==
  ReviewSpec => /\ CursorNeverRegresses
                /\ PendingNeverReplaced
                /\ AdvanceIsOffered
                /\ AdvanceCoversRange
                /\ []PendingConsistent
                /\ ImplementsLedger
BY WorkflowRunsTheScripts, CursorIsMonotone, MarkersAreNotReplaced, AdvancesAreOffered,
   AdvancesCoverTheirRange, PendingIsConsistent, ScriptsImplementLedger
-----------------------------------------------------------------------------
(* What one operator's reviews and acknowledgements rest on, beside any     *)
(* number of timers.                                                        *)

(* The operator's scripts are run by hand, one at a time: of two at once,   *)
(* one may remove the receipt that the other has just written.              *)
OneOperator == \A p, q \in Operator : p = q

DeskJobs == ReviewJobs \cup AckJobs

(* A batch kept in memory or on disk is the one the marker stands for, or   *)
(* it has been acknowledged, or there is nothing in it.                     *)
Promised(b) == b.seqs = {} \/ (pendingFile # Null /\ offer = b) \/ b \in acked

(* What the reviewer found of the receipt on disk.                          *)
Certified(b) ==
  /\ b.gen # Null
  /\ b.seqs \cap forged = {}
  /\ \A s, t \in b.seqs : ~SameSignature(s, t)

NothingToKeep == receiptFile = Null \/ receiptFile.seqs = {}

(* The batch and the receipt on disk.                                       *)
FilesView ==
  /\ batchFile # Null => Promised(batchFile)
  /\ receiptFile # Null => Certified(receiptFile)
  /\ NothingToKeep \/ receiptFile = batchFile

(* What a process of the operator may rely on at each place of its job.     *)
AtDesk(p) ==
  /\ job[p] \in DeskJobs => p \in Operator
  /\ job[p] \in {"rPoll", "rSave", "rRemove"} => NothingToKeep
  /\ job[p] \in {"rJudge", "kJudge"} => work[p] # Null /\ work[p] = batchFile
  /\ job[p] \in {"rCount", "kRead"} => receiptFile # Null /\ receiptFile = batchFile
  /\ job[p] = "kRead" => Fresh(receiptFile)
  /\ job[p] \in {"kAck", "kArchive"} =>
       /\ receiptFile # Null /\ receiptFile = work[p] /\ work[p].seqs # {}
       /\ Fresh(work[p])
       /\ \A a \in ArchivedAs(work[p]) : a.receipt = work[p]
  /\ job[p] = "kArchive" => work[p] \in acked
  /\ job[p] = "kRemove" => receiptFile = Null /\ batchFile \in acked

(* A script runs only inside a job that waits for it, and what a job takes  *)
(* over from its script is what the script left.                            *)
InScript(p) ==
  /\ ~Idle(p) => job[p] \in {"rPoll", "fPoll", "kAck"}
  /\ pc[p] \in {"pLock"} \cup PollPcs => job[p] # "kAck"
  /\ pc[p] \in {"aLock"} \cup AckPcs => job[p] = "kAck"
  /\ pc[p] \in {"pLock", "pCheck", "pHttp"} => page[p] = Null
  /\ pc[p] \in {"aLock", "aCheck", "aWrite"} => reg[p].cursor = work[p].last
  /\ pc[p] \in {"aWrite", "aClear"} => pendingFile # Null
  /\ pc[p] = "aClear" => offer \in acked
  /\ job[p] = "kAck" /\ (pc[p] \in {"aClear", "end"} \/ (Idle(p) /\ status[p] = 0)) =>
       work[p] \in acked
  /\ job[p] \in {"rPoll", "fPoll", "rSave", "fLink"} /\ pc[p] \in {"end", "idle"} =>
       page[p] = Null \/ Promised(page[p])

(* What has been acknowledged is not empty and behind the cursor; a marker  *)
(* whose batch is the cursor is that of an acknowledged batch.              *)
AckedView ==
  /\ \A b \in acked : b.seqs # {} /\ b.last <= cursorFile.cursor
  /\ pendingFile # Null /\ cursorFile = [gen |-> offer.gen, cursor |-> offer.last] =>
       offer \in acked

DeskInv ==
  /\ ReviewInv
  /\ FilesView
  /\ \A p \in Proc : AtDesk(p) /\ InScript(p)
  /\ AckedView
  /\ EvidenceKept
  /\ NoReplayAcknowledged

(* Nothing is on disk and no job runs at first.                             *)
LEMMA DeskInit == ReviewInit => DeskInv
<1> SUFFICES ASSUME ReviewInit PROVE DeskInv
  OBVIOUS
<1>1. ReviewInv
  BY ReviewInitInv
<1>2. /\ batchFile = Null /\ receiptFile = Null /\ acked = {} /\ pendingFile = Null
      /\ \A p \in Proc : pc[p] = "idle" /\ job[p] = "none"
  BY DEF ReviewInit, Init
<1>3. \A p \in Proc : AtDesk(p) /\ InScript(p)
  BY <1>2 DEF AtDesk, InScript, DeskJobs, ReviewJobs, AckJobs, PollPcs, AckPcs, Idle
<1> QED
  BY <1>1, <1>2, <1>3
  DEF DeskInv, FilesView, NothingToKeep, AckedView, EvidenceKept, NoReplayAcknowledged

(* The types used below, process by process.                                *)
LEMMA DeskTypes ==
  ASSUME DeskInv, NEW p \in Proc
  PROVE  /\ cursorFile \in CursorState /\ cursorFile.cursor \in Nat
         /\ batchFile \in Batch \cup {Null} /\ receiptFile \in Batch \cup {Null}
         /\ offer \in Batch \cup {Null} /\ acked \subseteq Batch
         /\ page[p] \in Batch \cup {Null} /\ work[p] \in Batch \cup {Null}
         /\ reg[p] \in CursorState /\ job[p] \in Jobs /\ pc[p] \in Pcs
         /\ \A b \in Batch : b # Null /\ b.last \in Nat /\ b.start \in Nat
BY ConstantsAssumption, NullAssumption
DEF DeskInv, ReviewInv, ReviewTypeOK, IInv, TypeOK, CursorState, Batch, Cursors

-----------------------------------------------------------------------------
(* The advance of the cursor                                                *)

(* The cursor advances over the batch whose receipt is on disk: the batch   *)
(* the operator's job holds is the one the marker stands for, since an      *)
(* acknowledged one does not advance the cursor again.                      *)
LEMMA AdvanceReviewed ==
  ASSUME DeskInv, NEW p \in Proc, AckWrite(p), cursorFile'.cursor > cursorFile.cursor
  PROVE  /\ offer \in Batch /\ receiptFile = offer /\ work[p] = offer
         /\ offer.seqs # {} /\ Certified(offer) /\ Fresh(offer)
<1>1. /\ pc[p] = "aWrite" /\ cursorFile' = reg[p]
      /\ job[p] = "kAck" /\ reg[p].cursor = work[p].last
  BY DEF AckWrite, DeskInv, InScript, AckPcs
<1>2. /\ receiptFile # Null /\ receiptFile = work[p] /\ work[p].seqs # {} /\ Fresh(work[p])
  BY <1>1 DEF DeskInv, AtDesk
<1>3. receiptFile = batchFile /\ Promised(batchFile) /\ Certified(receiptFile)
  BY <1>2 DEF DeskInv, FilesView, NothingToKeep
<1>4. work[p] \in Batch /\ work[p].last \in Nat /\ cursorFile.cursor \in Nat
  BY <1>2, DeskTypes
<1>5. work[p] \notin acked
  BY <1>1, <1>4 DEF DeskInv, AckedView
<1>6. offer = work[p]
  BY <1>2, <1>3, <1>5 DEF Promised
<1> QED
  BY <1>2, <1>3, <1>4, <1>6

(* A step that adds to what has been acknowledged.                          *)
LEMMA AckedSteps ==
  ASSUME DeskInv, [ReviewNext]_reviewVars, acked' # acked
  PROVE  \E p \in Proc : /\ Inside(p) /\ AckWrite(p)
                         /\ cursorFile'.cursor > cursorFile.cursor
                         /\ acked' = acked \cup {offer}
<1>1. PICK p \in Proc : Inside(p)
  BY DEF ReviewNext, reviewVars, Outside, Resume, Recover, KillJob, KillScript, StartReview,
     StartReviewSaved, StartReviewPoll, StartAckReviewed, StartFetch, JobStep, ReviewStep,
     AckReviewedStep, FetchStep, ReviewPolled, ReviewSave, ReviewerLoad, ReviewerJudge,
     ReviewCount, ReviewRemove, AckReadReceipt, AckReturned, AckArchive, AckRemove,
     FetchHalt, FetchNothing, FetchFail, FetchBatch, FetchLink
<1>2. cursorFile'.cursor > cursorFile.cursor /\ acked' = acked \cup {offer}
  BY <1>1 DEF Inside
<1>3. cursorFile' # cursorFile /\ cursorFile.cursor \in Nat
  BY <1>1, <1>2, DeskTypes
<1>4. AckWrite(p)
  <2>1. AckWrite(p) \/ PollSaveGeneration(p)
    BY <1>1, <1>3
    DEF Inside, LockStep, PollLock, AckLock, Acquire, ScriptStep, PollStep, AckStep,
        PollPending, PollRead, PollConfigError, PollUnavailable, PollReject, PollPrint,
        PollSavePending, AckRefuse, AckAccept, AckClear, Finish, fileVars
  <2>2. PollSaveGeneration(p) => cursorFile'.cursor = cursorFile.cursor
    BY DEF PollSaveGeneration, DeskInv, ReviewInv, IInv, PollView
  <2> QED
    BY <1>2, <1>3, <2>1, <2>2
<1> QED
  BY <1>1, <1>2, <1>4

(* Evidence and history survive every step.                                 *)
LEMMA EvidenceNext ==
  ASSUME DeskInv, [ReviewNext]_reviewVars
  PROVE  EvidenceKept'
<1>1. ASSUME acked' # acked
      PROVE  EvidenceKept'
  <2>1. PICK p \in Proc : /\ Inside(p) /\ AckWrite(p)
                          /\ cursorFile'.cursor > cursorFile.cursor
                          /\ acked' = acked \cup {offer}
    BY <1>1, AckedSteps
  <2>2. receiptFile = offer
    BY <2>1, AdvanceReviewed
  <2> QED
    BY <2>1, <2>2 DEF Inside, savedFiles, DeskInv, EvidenceKept
<1>2. ASSUME acked' = acked, archive \subseteq archive',
             \A b \in acked : receiptFile = b =>
               \/ receiptFile' = b
               \/ \E a \in archive' : a.receipt = b
      PROVE  EvidenceKept'
  BY <1>2 DEF DeskInv, EvidenceKept
<1>3. ASSUME acked' = acked, UNCHANGED <<receiptFile, archive>>
      PROVE  EvidenceKept'
  BY <1>2, <1>3
<1>4. ASSUME NEW p \in Proc,
             ReviewerJudge(p, "rJudge", "rCount") \/ ReviewerJudge(p, "kJudge", "kRead")
      PROVE  EvidenceKept'
  <2>1. UNCHANGED <<archive, acked>>
    BY <1>4 DEF ReviewerJudge
  <2>2. receiptFile # Null => receiptFile' = receiptFile
    BY <1>4 DEF ReviewerJudge
  <2>3. \A b \in acked : b # Null
    BY DeskTypes
  <2> QED
    BY <1>2, <2>1, <2>2, <2>3
<1>5. ASSUME NEW p \in Proc, ReviewRemove(p)
      PROVE  EvidenceKept'
  <2>1. NothingToKeep /\ UNCHANGED <<archive, acked>>
    BY <1>5 DEF ReviewRemove, DeskInv, AtDesk
  <2>2. \A b \in acked : b # Null /\ b.seqs # {}
    BY DeskTypes DEF DeskInv, AckedView
  <2> QED
    BY <1>2, <2>1, <2>2 DEF NothingToKeep
<1>6. ASSUME NEW p \in Proc, AckArchive(p)
      PROVE  EvidenceKept'
  <2>1. /\ receiptFile = work[p] /\ receiptFile # Null
        /\ \A a \in ArchivedAs(work[p]) : a.receipt = work[p]
    BY <1>6 DEF AckArchive, DeskInv, AtDesk
  <2>2. CASE ArchivedAs(work[p]) # {}
    <3>1. PICK a \in archive : a.receipt = receiptFile
      BY <2>1, <2>2 DEF ArchivedAs
    <3>2. UNCHANGED <<archive, acked>>
      BY <1>6, <2>2 DEF AckArchive
    <3> QED
      BY <1>2, <3>1, <3>2
  <2>3. CASE ArchivedAs(work[p]) = {}
    <3> DEFINE new == [gen |-> work[p].gen, cursor |-> work[p].last, receipt |-> receiptFile]
    <3>1. archive' = archive \cup {new} /\ UNCHANGED acked
      BY <1>6, <2>1, <2>3 DEF AckArchive
    <3>2. new.receipt = receiptFile /\ new \in archive'
      BY <3>1
    <3> QED
      BY <1>2, <3>1, <3>2
  <2> QED
    BY <2>2, <2>3
<1>7. CASE UNCHANGED <<acked, receiptFile, archive>>
  BY <1>3, <1>7
<1>8. ASSUME NEW p \in Proc, Inside(p)
      PROVE  EvidenceKept'
  BY <1>1, <1>3, <1>8 DEF Inside, savedFiles
<1>9. ASSUME NEW p \in Proc,
             \/ StartReview(p) \/ StartAckReviewed(p) \/ StartFetch(p) \/ FetchStep(p)
             \/ KillJob(p) \/ KillScript(p)
             \/ ReviewPolled(p) \/ ReviewSave(p) \/ ReviewCount(p)
             \/ ReviewerLoad(p, "rLoad", "rJudge") \/ ReviewerLoad(p, "kLoad", "kJudge")
             \/ AckReadReceipt(p) \/ AckReturned(p) \/ AckRemove(p)
      PROVE  UNCHANGED <<acked, receiptFile, archive>>
  BY <1>9 DEF StartReview, StartReviewSaved, StartReviewPoll, StartAckReviewed, StartFetch,
     FetchStep, FetchHalt, FetchNothing, FetchFail, FetchBatch, FetchLink, KillJob, KillScript,
     ReviewPolled, ReviewSave, ReviewCount, ReviewerLoad, AckReadReceipt, AckReturned,
     AckRemove, savedFiles
<1>10. CASE Outside \/ Resume \/ Recover \/ UNCHANGED reviewVars
  BY <1>7, <1>10 DEF Outside, Resume, Recover, reviewVars, savedFiles
<1> QED
  BY <1>4, <1>5, <1>6, <1>7, <1>8, <1>9, <1>10
  DEF ReviewNext, JobStep, ReviewStep, AckReviewedStep

(* What is acknowledged is no replay of what was.                           *)
LEMMA ReplayNext ==
  ASSUME DeskInv, [ReviewNext]_reviewVars
  PROVE  NoReplayAcknowledged'
<1>0. UNCHANGED replayed
  BY DEF ReviewNext, reviewVars, Outside, Resume, Recover, Inside, KillJob, KillScript,
     StartReview, StartReviewSaved, StartReviewPoll, StartAckReviewed, StartFetch, JobStep,
     ReviewStep, AckReviewedStep, FetchStep, ReviewPolled, ReviewSave, ReviewerLoad,
     ReviewerJudge, ReviewCount, ReviewRemove, AckReadReceipt, AckReturned, AckArchive,
     AckRemove, FetchHalt, FetchNothing, FetchFail, FetchBatch, FetchLink, mischief
<1>1. CASE acked' = acked
  BY <1>0, <1>1 DEF DeskInv, NoReplayAcknowledged, SameSignature
<1>2. CASE acked' # acked
  <2>1. PICK p \in Proc : /\ AckWrite(p)
                          /\ cursorFile'.cursor > cursorFile.cursor
                          /\ acked' = acked \cup {offer}
    BY <1>2, AckedSteps
  <2>2. receiptFile = offer /\ Certified(offer) /\ Fresh(offer)
    BY <2>1, AdvanceReviewed
  <2>3. ASSUME NEW c \in acked, c.gen = offer.gen, NEW s \in offer.seqs, NEW t \in c.seqs
        PROVE  ~SameSignature(s, t)
    <3>1. CASE c = offer
      BY <2>2, <2>3, <3>1 DEF Certified
    <3>2. CASE c # offer
      <4>1. PICK a \in archive : a.receipt = c
        BY <2>2, <3>2 DEF DeskInv, EvidenceKept
      <4> QED
        BY <2>2, <2>3, <4>1 DEF Fresh
    <3> QED
      BY <3>1, <3>2
  <2>4. \A s, t \in offer.seqs : ~SameSignature(s, t)
    BY <2>2 DEF Certified
  <2>5. \A s, t : SameSignature(s, t) => SameSignature(t, s)
    BY DEF SameSignature
  <2>6. ASSUME NEW b \in acked', NEW c \in acked', b.gen = c.gen,
               NEW s \in b.seqs, NEW t \in c.seqs
        PROVE  ~SameSignature(s, t)
    <3>1. CASE b \in acked /\ c \in acked
      BY <2>6, <3>1 DEF DeskInv, NoReplayAcknowledged
    <3>2. CASE b = offer /\ c \in acked
      BY <2>3, <2>6, <3>2
    <3>3. CASE b \in acked /\ c = offer
      BY <2>3, <2>5, <2>6, <3>3
    <3>4. CASE b = offer /\ c = offer
      BY <2>4, <2>6, <3>4
    <3> QED
      BY <2>1, <3>1, <3>2, <3>3, <3>4
  <2>7. \A s, t : SameSignature(s, t)' <=> SameSignature(s, t)
    BY <1>0 DEF SameSignature
  <2> QED
    BY <2>6, <2>7 DEF NoReplayAcknowledged
<1> QED
  BY <1>1, <1>2

-----------------------------------------------------------------------------
(* The scripts inside the jobs                                              *)

(* The steps of a script that write a file of the mailbox.                  *)
LEMMA ScriptWrites ==
  ASSUME DeskInv, NEW p \in Proc, Inside(p)
  PROVE  /\ PollSavePending(p) =>
              /\ pendingFile = Null /\ page[p] \in Batch
              /\ offer' = page[p] /\ pendingFile' # Null
              /\ page[p].last > cursorFile.cursor
              /\ UNCHANGED <<cursorFile, acked>>
         /\ PollSaveGeneration(p) =>
              /\ pendingFile = Null /\ page[p] \in Batch /\ page[p].seqs = {}
              /\ cursorFile'.cursor = cursorFile.cursor
              /\ UNCHANGED <<pendingFile, offer, acked>>
         /\ AckWrite(p) =>
              /\ offer \in Batch /\ pendingFile # Null
              /\ cursorFile' = [gen |-> offer.gen, cursor |-> offer.last]
              /\ cursorFile'.cursor >= cursorFile.cursor
              /\ acked' = acked \cup {offer}
              /\ UNCHANGED <<pendingFile, offer>>
         /\ AckClear(p) =>
              /\ pendingFile' = Null /\ offer \in acked
              /\ UNCHANGED <<cursorFile, offer, acked>>
         /\ \/ PollSavePending(p) \/ PollSaveGeneration(p) \/ AckWrite(p) \/ AckClear(p)
            \/ UNCHANGED <<cursorFile, pendingFile, offer, acked>>
<1>1. \/ UNCHANGED <<cursorFile, pendingFile, offer>>
      \/ PollSavePending(p) \/ PollSaveGeneration(p) \/ AckWrite(p) \/ AckClear(p)
  BY DEF Inside, LockStep, PollLock, AckLock, Acquire, ScriptStep, PollStep, AckStep,
     PollPending, PollRead, PollConfigError, PollUnavailable, PollReject, PollPrint,
     AckRefuse, AckAccept, Finish, fileVars
<1>2. cursorFile.cursor \in Nat /\ page[p] \in Batch \cup {Null} /\ offer \in Batch \cup {Null}
  BY DeskTypes
<1>3. ASSUME cursorFile'.cursor = cursorFile.cursor
      PROVE  acked' = acked
  BY <1>2, <1>3 DEF Inside
<1>4. UNCHANGED <<cursorFile, pendingFile, offer>> => UNCHANGED acked
  BY <1>3
<1>5. ASSUME PollSavePending(p)
      PROVE  /\ pendingFile = Null /\ page[p] \in Batch
             /\ offer' = page[p] /\ pendingFile' # Null
             /\ page[p].last > cursorFile.cursor
             /\ UNCHANGED <<cursorFile, acked>>
  <2>1. /\ pendingFile = Null /\ reg[p] = cursorFile /\ page[p] # Null
        /\ offer' = page[p] /\ UNCHANGED cursorFile
        /\ page[p].last > reg[p].cursor
        /\ pendingFile' = [gen |-> page[p].gen, cursor |-> page[p].last]
    BY <1>5 DEF PollSavePending, DeskInv, ReviewInv, IInv, PollView
  <2>2. page[p] \in Batch
    BY <1>2, <2>1
  <2>3. pendingFile' # Null
    BY <2>1, <2>2, NullAssumption DEF Batch, CursorState
  <2> QED
    BY <1>3, <1>5, <2>1, <2>2, <2>3
<1>6. ASSUME PollSaveGeneration(p)
      PROVE  /\ pendingFile = Null /\ page[p] \in Batch /\ page[p].seqs = {}
             /\ cursorFile'.cursor = cursorFile.cursor
             /\ UNCHANGED <<pendingFile, offer, acked>>
  <2>1. /\ pendingFile = Null /\ reg[p] = cursorFile /\ page[p] # Null
        /\ page[p].last <= reg[p].cursor /\ Follows(page[p], cursorFile)
        /\ cursorFile'.cursor = cursorFile.cursor /\ UNCHANGED <<pendingFile, offer>>
    BY <1>6 DEF PollSaveGeneration, DeskInv, ReviewInv, IInv, PollView
  <2>2. page[p] \in Batch
    BY <1>2, <2>1
  <2>3. page[p].last \in Nat /\ page[p].start = cursorFile.cursor
    BY <2>1, <2>2, DeskTypes DEF Follows
  <2>4. page[p].seqs = {}
    BY <1>2, <2>1, <2>3 DEF Follows
  <2> QED
    BY <1>3, <1>6, <2>1, <2>2, <2>4
<1>7. ASSUME AckWrite(p)
      PROVE  /\ offer \in Batch /\ pendingFile # Null
             /\ cursorFile' = [gen |-> offer.gen, cursor |-> offer.last]
             /\ cursorFile'.cursor >= cursorFile.cursor
             /\ acked' = acked \cup {offer}
             /\ UNCHANGED <<pendingFile, offer>>
  <2>1. /\ cursorFile' = [gen |-> offer.gen, cursor |-> offer.last]
        /\ offer # Null /\ OfferStands /\ UNCHANGED <<pendingFile, offer>>
    BY <1>7 DEF AckWrite, DeskInv, ReviewInv, IInv, AckView
  <2>2. pendingFile # Null
    BY <1>7 DEF AckWrite, DeskInv, InScript
  <2>3. offer \in Batch /\ offer.last \in Nat /\ offer.start \in Nat
    BY <1>2, <2>1, DeskTypes
  <2>4. CASE Follows(offer, cursorFile)
    <3>1. cursorFile'.cursor > cursorFile.cursor
      BY <2>1, <2>3, <2>4 DEF OfferStands, Follows
    <3> QED
      BY <1>2, <1>7, <2>1, <2>2, <2>3, <3>1 DEF Inside
  <2>5. CASE cursorFile = [gen |-> offer.gen, cursor |-> offer.last]
    <3>1. offer \in acked
      BY <2>2, <2>5 DEF DeskInv, AckedView
    <3>2. acked' = acked
      BY <1>3, <2>1, <2>5
    <3> QED
      BY <1>2, <1>7, <2>1, <2>2, <2>3, <2>5, <3>1, <3>2
  <2> QED
    BY <2>1, <2>4, <2>5 DEF OfferStands
<1>8. ASSUME AckClear(p)
      PROVE  /\ pendingFile' = Null /\ offer \in acked
             /\ UNCHANGED <<cursorFile, offer, acked>>
  <2>1. offer \in acked
    BY <1>8 DEF AckClear, DeskInv, InScript
  <2> QED
    BY <1>3, <1>8, <2>1 DEF AckClear
<1> QED
  BY <1>1, <1>4, <1>5, <1>6, <1>7, <1>8

(* A promise is kept by every step of a script.                             *)
LEMMA PromisesKept ==
  ASSUME DeskInv, NEW p \in Proc, Inside(p), NEW b, Promised(b)
  PROVE  Promised(b)'
BY ScriptWrites DEF Promised

(* The batches acknowledged stay behind the cursor.                         *)
LEMMA AckedNext ==
  ASSUME DeskInv, [ReviewNext]_reviewVars
  PROVE  AckedView'
<1>1. ASSUME NEW p \in Proc, Inside(p)
      PROVE  AckedView'
  <2>1. /\ cursorFile.cursor \in Nat
        /\ \A b \in acked : b.seqs # {} /\ b.last <= cursorFile.cursor /\ b.last \in Nat
    BY DeskTypes DEF DeskInv, AckedView
  <2>2. CASE UNCHANGED <<cursorFile, pendingFile, offer, acked>>
    BY <2>2 DEF DeskInv, AckedView
  <2>3. CASE PollSavePending(p)
    <3>1. /\ offer' = page[p] /\ page[p] \in Batch /\ page[p].last > cursorFile.cursor
          /\ UNCHANGED <<cursorFile, acked>>
      BY <1>1, <2>3, ScriptWrites
    <3>2. cursorFile.cursor # offer'.last
      BY <2>1, <3>1
    <3> QED
      BY <2>1, <3>1, <3>2 DEF AckedView
  <2>4. CASE PollSaveGeneration(p)
    <3>1. /\ pendingFile = Null /\ cursorFile'.cursor = cursorFile.cursor
          /\ UNCHANGED <<pendingFile, offer, acked>>
      BY <1>1, <2>4, ScriptWrites
    <3> QED
      BY <2>1, <3>1 DEF AckedView
  <2>5. CASE AckWrite(p)
    <3>1. /\ offer \in Batch /\ cursorFile' = [gen |-> offer.gen, cursor |-> offer.last]
          /\ cursorFile'.cursor >= cursorFile.cursor
          /\ acked' = acked \cup {offer}
          /\ UNCHANGED <<pendingFile, offer>>
      BY <1>1, <2>5, ScriptWrites
    <3>2. offer.last \in Nat /\ cursorFile'.cursor = offer.last
      BY <3>1, DeskTypes
    <3>3. offer.seqs # {}
      <4>1. CASE cursorFile'.cursor > cursorFile.cursor
        BY <2>5, <4>1, AdvanceReviewed
      <4>2. CASE ~(cursorFile'.cursor > cursorFile.cursor)
        BY <1>1, <2>1, <3>1, <4>2 DEF Inside
      <4> QED
        BY <4>1, <4>2
    <3> QED
      BY <2>1, <3>1, <3>2, <3>3 DEF AckedView
  <2>6. CASE AckClear(p)
    <3>1. pendingFile' = Null /\ UNCHANGED <<cursorFile, offer, acked>>
      BY <1>1, <2>6, ScriptWrites
    <3> QED
      BY <2>1, <3>1 DEF AckedView
  <2> QED
    BY <1>1, <2>2, <2>3, <2>4, <2>5, <2>6, ScriptWrites
<1>2. ASSUME UNCHANGED <<cursorFile, offer, acked>>, pendingFile' \in {pendingFile, Null}
      PROVE  AckedView'
  BY <1>2 DEF DeskInv, AckedView
<1>3. CASE Outside \/ Resume \/ Recover \/ UNCHANGED reviewVars
  BY <1>2, <1>3 DEF Outside, RoomStep, Post, Recreate, Upgrade, CurlTimeout, Resume, Recover,
     DropPending, reviewVars, mailbox, vars, fileVars
<1>4. ASSUME NEW p \in Proc,
             \/ StartReview(p) \/ StartAckReviewed(p) \/ StartFetch(p) \/ JobStep(p)
             \/ KillJob(p) \/ KillScript(p)
      PROVE  UNCHANGED <<cursorFile, offer, acked, pendingFile>>
  BY <1>4 DEF StartReview, StartReviewSaved, StartReviewPoll, StartAckReviewed, StartFetch,
     JobStep, ReviewStep, AckReviewedStep, FetchStep, FetchHalt, FetchNothing, FetchFail,
     FetchBatch, FetchLink, KillJob, KillScript, ReviewPolled, ReviewSave, ReviewerLoad,
     ReviewerJudge, ReviewCount, ReviewRemove, AckReadReceipt, AckReturned, AckArchive,
     AckRemove, Crash, StartPoll, StartAck, Start, mailbox, vars, fileVars
<1> QED
  BY <1>1, <1>2, <1>3, <1>4 DEF ReviewNext

(* A step of a script is a step of its process only.                        *)
LEMMA ScriptIsLocal ==
  ASSUME TypeOK, NEW p \in Proc, NEW q \in Proc, q # p,
         \/ LockStep(p) \/ ScriptStep(p) \/ Crash(p)
         \/ StartPoll(p) \/ \E c \in Cursors : StartAck(p, c)
  PROVE  pc'[q] = pc[q] /\ status'[q] = status[q] /\ reg'[q] = reg[q] /\ page'[q] = page[q]
<1>1. CASE StartPoll(p) \/ Crash(p) \/ \E c \in Cursors : StartAck(p, c)
  BY <1>1 DEF StartPoll, StartAck, Start, Crash, Goto, TypeOK
<1>2. CASE LockStep(p)
  BY <1>2 DEF LockStep, PollLock, AckLock, Acquire, Goto, TypeOK
<1>3. CASE PollStep(p)
  BY <1>3 DEF PollStep, PollPending, PollRead, PollConfigError, PollUnavailable, PollReject,
     PollPrint, PollSavePending, PollSaveGeneration, Exit, Goto, TypeOK
<1>4. CASE AckStep(p) \/ Finish(p)
  BY <1>4 DEF AckStep, AckRefuse, AckAccept, AckWrite, AckClear, Finish, Exit, Goto, TypeOK
<1> QED
  BY <1>1, <1>2, <1>3, <1>4 DEF ScriptStep

(* The files and the other places of the desk do not notice a script.       *)
LEMMA DeskInside ==
  ASSUME DeskInv, NEW p \in Proc, Inside(p)
  PROVE  FilesView' /\ \A q \in Proc : AtDesk(q)'
<1>1. /\ UNCHANGED <<job, work, batchFile, receiptFile, archive, forged, replayed>>
      /\ acked \subseteq acked'
  BY DEF Inside, savedFiles, mischief
<1>2. batchFile # Null => Promised(batchFile)'
  BY <1>1, PromisesKept DEF DeskInv, FilesView, Promised
<1>3. FilesView'
  BY <1>1, <1>2 DEF DeskInv, FilesView, Certified, NothingToKeep, SameSignature, Promised
<1>4. ASSUME NEW q \in Proc
      PROVE  AtDesk(q)'
  BY <1>1 DEF DeskInv, AtDesk, NothingToKeep, Fresh, SameSignature, ArchivedAs
<1> QED
  BY <1>3, <1>4

(* Nor do the scripts of other processes.                                   *)
LEMMA OthersInside ==
  ASSUME DeskInv, NEW p \in Proc, Inside(p), NEW q \in Proc, q # p
  PROVE  InScript(q)'
<1>1. /\ UNCHANGED <<job, work>> /\ acked \subseteq acked'
      /\ pc'[q] = pc[q] /\ status'[q] = status[q] /\ reg'[q] = reg[q] /\ page'[q] = page[q]
  BY ScriptIsLocal DEF Inside, DeskInv, ReviewInv, IInv
<1>2. InScript(q)
  BY DEF DeskInv
<1>3. Promised(page[q]) => Promised(page[q])'
  BY <1>1, PromisesKept DEF Promised
<1>4. pc[q] \in {"aWrite", "aClear"} => pendingFile' # Null /\ offer' = offer
  <2> SUFFICES ASSUME pc[q] \in {"aWrite", "aClear"}
               PROVE  pendingFile' # Null /\ offer' = offer
    OBVIOUS
  <2>1. Critical(q) /\ pendingFile # Null
    BY <1>2 DEF InScript, Critical, CriticalPcs, AckPcs
  <2>2. ~Critical(p)
    BY <2>1, OnlyHolder DEF DeskInv, ReviewInv, IInv
  <2>3. ~PollSavePending(p) /\ ~AckClear(p)
    BY <2>2 DEF PollSavePending, AckClear, Critical, CriticalPcs, PollPcs, AckPcs
  <2> QED
    BY <2>1, <2>3, ScriptWrites
<1> QED
  BY <1>1, <1>2, <1>3, <1>4 DEF InScript, Idle, Promised

(* The script that moves keeps what its job takes over from it.             *)
LEMMA OneInside ==
  ASSUME DeskInv, NEW p \in Proc, Inside(p)
  PROVE  InScript(p)'
<1>1. /\ UNCHANGED <<job, work>> /\ acked \subseteq acked'
      /\ pc \in [Proc -> Pcs] /\ status \in [Proc -> ExitCodes \cup {Null}]
      /\ reg \in [Proc -> CursorState] /\ page \in [Proc -> Batch \cup {Null}]
  BY DEF Inside, DeskInv, ReviewInv, IInv, TypeOK
<1>2. InScript(p)
  BY DEF DeskInv
<1> USE DEF InScript, Idle, PollPcs, AckPcs
<1>3. CASE PollLock(p) \/ AckLock(p)
  <2>1. /\ pc'[p] = IF pc[p] = "pLock" THEN "pCheck" ELSE "aCheck"
        /\ pc[p] \in {"pLock", "aLock"}
        /\ UNCHANGED <<page, reg>>
    BY <1>1, <1>3 DEF PollLock, AckLock, Acquire, Goto
  <2> QED
    BY <1>1, <1>2, <2>1
<1>4. ASSUME NEW code \in ExitCodes, Exit(p, code), UNCHANGED page,
             \/ pc[p] \in {"pCheck", "pHttp"}
             \/ pc[p] = "aCheck" /\ code # 0
             \/ pc[p] = "end"
      PROVE  InScript(p)'
  <2>1. /\ pc'[p] = "idle" /\ status'[p] = code
    BY <1>1, <1>4 DEF Exit, Goto
  <2>2. Promised(page[p]) => Promised(page[p])'
    BY <1>1, <1>4, PromisesKept DEF Promised
  <2>3. job[p] = "kAck" /\ code = 0 => work[p] \in acked
    BY <1>2, <1>4
  <2>4. job[p] \in {"rPoll", "fPoll", "rSave", "fLink"} => page[p] = Null \/ Promised(page[p])
    BY <1>2, <1>4
  <2>5. job[p] \in {"rPoll", "fPoll", "kAck"}
    BY <1>2, <1>4
  <2> QED
    BY <1>1, <1>4, <2>1, <2>2, <2>3, <2>4, <2>5 DEF Promised
<1>5. CASE PollPending(p) \/ PollConfigError(p) \/ PollUnavailable(p) \/ AckRefuse(p) \/ Finish(p)
  <2>1. PICK code \in {0, 1, 75, 76} : Exit(p, code) /\ (code = 0 => Finish(p))
    BY <1>5 DEF PollPending, PollConfigError, PollUnavailable, AckRefuse, Finish
  <2> QED
    BY <1>4, <1>5, <2>1
    DEF PollPending, PollConfigError, PollUnavailable, AckRefuse, Finish, ExitCodes
<1>6. CASE PollReject(p)
  <2>1. PICK r \in Responses(reg[p].cursor), held \in BOOLEAN :
          Exit(p, Verdict(reg[p], r, held))
    BY <1>6 DEF PollReject
  <2> QED
    BY <1>4, <1>6, <2>1, VerdictType DEF PollReject
<1>7. CASE PollRead(p)
  <2>1. pc'[p] = "pHttp" /\ pc[p] = "pCheck" /\ UNCHANGED page
    BY <1>1, <1>7 DEF PollRead, Goto
  <2> QED
    BY <1>1, <1>2, <2>1
<1>8. CASE PollPrint(p)
  <2>1. pc'[p] = "pSave" /\ pc[p] = "pHttp"
    BY <1>1, <1>8 DEF PollPrint, Goto
  <2> QED
    BY <1>1, <1>2, <2>1
<1>9. CASE PollSavePending(p)
  <2>1. pc'[p] = "end" /\ pc[p] = "pSave" /\ UNCHANGED page
    BY <1>1, <1>9 DEF PollSavePending, Goto
  <2>2. offer' = page[p] /\ pendingFile' # Null
    BY <1>9, ScriptWrites
  <2> QED
    BY <1>1, <1>2, <2>1, <2>2 DEF Promised
<1>10. CASE PollSaveGeneration(p)
  <2>1. pc'[p] = "end" /\ pc[p] = "pSave" /\ UNCHANGED page
    BY <1>1, <1>10 DEF PollSaveGeneration, Goto
  <2>2. page[p].seqs = {}
    BY <1>10, ScriptWrites
  <2> QED
    BY <1>1, <1>2, <2>1, <2>2 DEF Promised
<1>11. CASE AckAccept(p)
  <2>1. /\ pc'[p] = "aWrite" /\ pc[p] = "aCheck" /\ UNCHANGED <<page, pendingFile>>
        /\ reg'[p].cursor = reg[p].cursor /\ pendingFile # Null
    BY <1>1, <1>11 DEF AckAccept, AckAccepts, Goto, fileVars
  <2> QED
    BY <1>1, <1>2, <2>1
<1>12. CASE AckWrite(p)
  <2>1. pc'[p] = "aClear" /\ pc[p] = "aWrite"
    BY <1>1, <1>12 DEF AckWrite, Goto
  <2>2. offer \in acked' /\ offer' = offer /\ pendingFile' # Null
    BY <1>12, ScriptWrites
  <2>3. work[p] \in acked'
    <3>1. /\ receiptFile # Null /\ receiptFile = work[p] /\ work[p].seqs # {}
      BY <1>2, <2>1 DEF DeskInv, AtDesk
    <3>2. Promised(work[p])
      BY <3>1 DEF DeskInv, FilesView, NothingToKeep
    <3> QED
      BY <1>1, <2>2, <3>1, <3>2 DEF Promised
  <2> QED
    BY <1>1, <1>2, <2>1, <2>2, <2>3
<1>13. CASE AckClear(p)
  <2>1. pc'[p] = "end" /\ pc[p] = "aClear"
    BY <1>1, <1>13 DEF AckClear, Goto
  <2> QED
    BY <1>1, <1>2, <2>1
<1> QED
  BY <1>3, <1>5, <1>6, <1>7, <1>8, <1>9, <1>10, <1>11, <1>12, <1>13
  DEF Inside, LockStep, ScriptStep, PollStep, AckStep

-----------------------------------------------------------------------------
(* The jobs around the scripts                                              *)

(* A process moves on in its job: the others stay where they are.           *)
LEMMA JobIsLocal ==
  ASSUME ReviewTypeOK, NEW p \in Proc, NEW q \in Proc, q # p,
         Leave(p) \/ \E j : Step(p, j),
         Leave(p) \/ UNCHANGED work \/ \E w : work' = [work EXCEPT ![p] = w]
  PROVE  job'[q] = job[q] /\ work'[q] = work[q]
BY DEF ReviewTypeOK, Leave, Step

(* Where a process goes.                                                    *)
LEMMA JobMovesTo ==
  ASSUME ReviewTypeOK, NEW p \in Proc
  PROVE  /\ \A j : Step(p, j) => job'[p] = j
         /\ Leave(p) => job'[p] = "none"
         /\ \A w : work' = [work EXCEPT ![p] = w] => work'[p] = w
BY DEF ReviewTypeOK, Leave, Step

(* The files stay as they are.                                              *)
LEMMA FilesStay ==
  ASSUME DeskInv,
         UNCHANGED <<batchFile, receiptFile, forged, replayed, pendingFile, offer, acked>>
  PROVE  FilesView'
BY DEF DeskInv, FilesView, Promised, Certified, NothingToKeep, SameSignature

(* What a process relies on is not touched, or only a batch saved where     *)
(* there was none.                                                          *)
LEMMA DeskStays ==
  ASSUME DeskInv, NEW q \in Proc, job'[q] = job[q], work'[q] = work[q],
         UNCHANGED <<receiptFile, archive, forged, replayed, acked>>,
         batchFile # Null => batchFile' = batchFile
  PROVE  AtDesk(q)'
<1>1. AtDesk(q)
  BY DEF DeskInv
<1>2. Null \notin acked
  BY DeskTypes
<1> QED
  BY <1>1, <1>2 DEF AtDesk, NothingToKeep, Fresh, SameSignature, ArchivedAs

(* While the operator's process is at the desk, no other one is.            *)
LEMMA AloneAtDesk ==
  ASSUME OneOperator, DeskInv, NEW p \in Proc, p \in Operator,
         NEW q \in Proc, q # p, job'[q] = job[q]
  PROVE  AtDesk(q)'
<1>1. job[q] \notin DeskJobs
  BY DEF OneOperator, DeskInv, AtDesk
<1> QED
  BY <1>1 DEF AtDesk, DeskJobs, ReviewJobs, AckJobs

(* A process away from the desk.                                            *)
LEMMA AwayFromDesk ==
  ASSUME NEW p \in Proc, job'[p] \in FetchJobs \cup {"none"}
  PROVE  AtDesk(p)'
BY DEF AtDesk, DeskJobs, ReviewJobs, AckJobs, FetchJobs

(* The script of another process stays where it is.                         *)
LEMMA ScriptStays ==
  ASSUME DeskInv, NEW q \in Proc, job'[q] = job[q], work'[q] = work[q],
         pc'[q] = pc[q], status'[q] = status[q], reg'[q] = reg[q], page'[q] = page[q],
         UNCHANGED <<pendingFile, offer, acked>>
  PROVE  InScript(q)'
BY DEF DeskInv, InScript, Promised, Idle

(* A process whose script has ended goes on with its job.                   *)
LEMMA ScriptIsOver ==
  ASSUME DeskInv, NEW p \in Proc, Idle(p), pc'[p] = pc[p], page'[p] = page[p],
         UNCHANGED <<pendingFile, offer, acked>>,
         job'[p] # "kAck",
         job'[p] \in {"rPoll", "fPoll", "rSave", "fLink"} =>
           job[p] \in {"rPoll", "fPoll", "rSave", "fLink"}
  PROVE  InScript(p)'
BY DEF DeskInv, InScript, Promised, Idle, PollPcs, AckPcs

(* The operator's job moves on: what remains to be shown is its own place   *)
(* and the files.                                                           *)
LEMMA DeskMoves ==
  ASSUME OneOperator, DeskInv, NEW p \in Proc, p \in Operator,
         UNCHANGED <<mailbox, acked>>, Idle(p), job'[p] # "kAck",
         job'[p] \in {"rPoll", "fPoll", "rSave", "fLink"} =>
           job[p] \in {"rPoll", "fPoll", "rSave", "fLink"},
         Leave(p) \/ \E j : Step(p, j),
         Leave(p) \/ UNCHANGED work \/ \E w : work' = [work EXCEPT ![p] = w],
         AtDesk(p)'
  PROVE  \A q \in Proc : AtDesk(q)' /\ InScript(q)'
<1>1. UNCHANGED <<pc, status, reg, page, pendingFile, offer>>
  BY DEF mailbox, vars
<1>2. InScript(p)'
  BY <1>1, ScriptIsOver
<1>3. ASSUME NEW q \in Proc, q # p
      PROVE  AtDesk(q)' /\ InScript(q)'
  <2>1. job'[q] = job[q] /\ work'[q] = work[q]
    BY <1>3, JobIsLocal DEF DeskInv, ReviewInv
  <2> QED
    BY <1>1, <1>3, <2>1, AloneAtDesk, ScriptStays
<1> QED
  BY <1>2, <1>3

Placed == FilesView /\ \A p \in Proc : AtDesk(p) /\ InScript(p)

(* The operator's jobs keep their places.                                   *)
LEMMA StartsNext ==
  ASSUME OneOperator, DeskInv, NEW p \in Proc, p \in Operator,
         StartReview(p) \/ StartAckReviewed(p)
  PROVE  Placed'
<1> USE DEF DeskJobs, ReviewJobs, AckJobs
<1>0. ReviewTypeOK /\ TypeOK
  BY DEF DeskInv, ReviewInv, IInv
<1>1. FilesView'
  BY FilesStay DEF StartReview, StartReviewSaved, StartReviewPoll, StartAckReviewed, StartPoll,
     Start, savedFiles, mischief, mailbox, vars, fileVars
<1>2. CASE StartReviewSaved(p) \/ StartAckReviewed(p)
  <2>1. /\ UNCHANGED <<mailbox, acked>> /\ Idle(p) /\ UNCHANGED work
        /\ \E j \in {"rLoad", "kLoad"} : Step(p, j)
    BY <1>2 DEF StartReviewSaved, StartAckReviewed, Jobless
  <2>2. job'[p] \in {"rLoad", "kLoad"}
    BY <1>0, <2>1, JobMovesTo
  <2>3. AtDesk(p)'
    BY <2>2 DEF AtDesk
  <2> QED
    BY <1>1, <2>1, <2>2, <2>3, DeskMoves DEF Placed
<1>3. CASE StartReviewPoll(p)
  <2>1. /\ StartPoll(p) /\ Step(p, "rPoll") /\ batchFile = Null
        /\ UNCHANGED <<work, batchFile, receiptFile, archive, forged, replayed, acked>>
    BY <1>3 DEF StartReviewPoll, savedFiles, mischief
  <2>2. /\ job'[p] = "rPoll" /\ pc'[p] = "pLock" /\ page'[p] = Null
        /\ UNCHANGED <<pendingFile, offer>>
    BY <1>0, <2>1, JobMovesTo DEF StartPoll, Start, Goto, TypeOK, fileVars
  <2>3. NothingToKeep /\ NothingToKeep'
    BY <2>1 DEF DeskInv, FilesView, NothingToKeep
  <2>4. AtDesk(p)'
    BY <2>2, <2>3 DEF AtDesk
  <2>5. InScript(p)'
    BY <2>2 DEF InScript, Idle, PollPcs, AckPcs
  <2>6. ASSUME NEW q \in Proc, q # p
        PROVE  AtDesk(q)' /\ InScript(q)'
    <3>1. job'[q] = job[q] /\ work'[q] = work[q]
      BY <1>0, <2>1, <2>6, JobIsLocal
    <3>2. pc'[q] = pc[q] /\ status'[q] = status[q] /\ reg'[q] = reg[q] /\ page'[q] = page[q]
      BY <1>0, <2>1, <2>6, ScriptIsLocal
    <3> QED
      BY <2>1, <2>2, <2>6, <3>1, <3>2, AloneAtDesk, ScriptStays
  <2> QED
    BY <1>1, <2>4, <2>5, <2>6 DEF Placed
<1> QED
  BY <1>2, <1>3 DEF StartReview

(* review-mailbox.sh.                                                       *)
LEMMA ReviewNextPlaced ==
  ASSUME OneOperator, DeskInv, NEW p \in Proc, ReviewStep(p)
  PROVE  Placed'
<1> USE DEF DeskJobs, ReviewJobs, AckJobs
<1>0. /\ ReviewTypeOK /\ FilesView /\ AtDesk(p) /\ InScript(p)
      /\ page[p] \in Batch \cup {Null}
  BY DeskTypes DEF DeskInv, ReviewInv
<1>1. /\ job[p] \in ReviewJobs /\ p \in Operator
      /\ UNCHANGED <<mailbox, acked, archive, forged, replayed>>
      /\ job[p] # "rPoll" => Idle(p)
  BY <1>0 DEF ReviewStep, ReviewPolled, ReviewSave, ReviewerLoad, ReviewerJudge, ReviewCount,
     ReviewRemove, savedFiles, mischief, AtDesk, InScript
<1>2. UNCHANGED <<pendingFile, offer>>
  BY <1>1 DEF mailbox, vars
<1>3. CASE ReviewPolled(p)
  <2>1. /\ UNCHANGED <<batchFile, receiptFile>> /\ Idle(p) /\ job[p] = "rPoll"
        /\ Leave(p) \/ (Step(p, "rSave") /\ UNCHANGED work)
    BY <1>3 DEF ReviewPolled, savedFiles
  <2>2. job'[p] \in {"rSave", "none"}
    BY <1>0, <2>1, JobMovesTo
  <2>3. AtDesk(p)'
    BY <1>0, <1>1, <2>1, <2>2 DEF AtDesk, NothingToKeep
  <2> QED
    BY <1>1, <1>2, <2>1, <2>2, <2>3, FilesStay, DeskMoves DEF Placed
<1>4. CASE ReviewSave(p)
  <2>1. /\ batchFile' = page[p] /\ UNCHANGED <<receiptFile, work>> /\ job[p] = "rSave"
        /\ Step(p, "rLoad")
    BY <1>4 DEF ReviewSave
  <2>2. job'[p] = "rLoad"
    BY <1>0, <2>1, JobMovesTo
  <2>3. AtDesk(p)'
    BY <1>1, <2>2 DEF AtDesk
  <2>4. NothingToKeep /\ (page[p] = Null \/ Promised(page[p]))
    BY <1>0, <1>1, <2>1 DEF AtDesk, InScript, Idle
  <2>5. FilesView'
    BY <1>0, <1>1, <1>2, <2>1, <2>4
    DEF FilesView, Promised, Certified, SameSignature, NothingToKeep
  <2> QED
    BY <1>1, <2>1, <2>2, <2>3, <2>5, DeskMoves DEF Placed
<1>5. CASE ReviewerLoad(p, "rLoad", "rJudge")
  <2>1. /\ UNCHANGED <<batchFile, receiptFile>> /\ job[p] = "rLoad"
        /\ \/ Leave(p)
           \/ /\ batchFile # Null /\ Step(p, "rJudge")
              /\ work' = [work EXCEPT ![p] = batchFile]
    BY <1>5 DEF ReviewerLoad, savedFiles
  <2>2. job'[p] = "none" \/ (job'[p] = "rJudge" /\ work'[p] = batchFile /\ batchFile # Null)
    BY <1>0, <2>1, JobMovesTo
  <2>3. AtDesk(p)'
    BY <1>1, <2>1, <2>2 DEF AtDesk
  <2> QED
    BY <1>1, <1>2, <2>1, <2>2, <2>3, FilesStay, DeskMoves DEF Placed
<1>6. CASE ReviewerJudge(p, "rJudge", "rCount")
  <2>1. UNCHANGED batchFile /\ job[p] = "rJudge"
    BY <1>6 DEF ReviewerJudge
  <2>2. work[p] # Null /\ work[p] = batchFile
    BY <1>0, <2>1 DEF AtDesk
  <2>3. CASE Reviewable(work[p]) /\ receiptFile \in {Null, work[p]}
    <3>1. /\ receiptFile' = work[p] /\ work' = [work EXCEPT ![p] = Null] /\ Step(p, "rCount")
      BY <1>6, <2>3 DEF ReviewerJudge
    <3>2. job'[p] = "rCount"
      BY <1>0, <3>1, JobMovesTo
    <3>3. AtDesk(p)'
      BY <1>1, <2>1, <2>2, <3>1, <3>2 DEF AtDesk
    <3>4. Certified(work[p])
      BY <2>3 DEF Certified, Reviewable, Fresh
    <3>5. FilesView'
      BY <1>0, <1>1, <1>2, <2>1, <2>2, <3>1, <3>4
      DEF FilesView, Promised, Certified, SameSignature, NothingToKeep
    <3> QED
      BY <1>1, <2>1, <3>1, <3>2, <3>3, <3>5, DeskMoves DEF Placed
  <2>4. CASE ~(Reviewable(work[p]) /\ receiptFile \in {Null, work[p]})
    <3>1. Leave(p) /\ UNCHANGED receiptFile /\ job'[p] = "none"
      BY <1>0, <1>6, <2>4, JobMovesTo DEF ReviewerJudge
    <3>2. AtDesk(p)'
      BY <3>1, AwayFromDesk
    <3> QED
      BY <1>1, <1>2, <2>1, <3>1, <3>2, FilesStay, DeskMoves DEF Placed
  <2> QED
    BY <2>3, <2>4
<1>7. CASE ReviewCount(p)
  <2>1. /\ job[p] = "rCount" /\ UNCHANGED receiptFile
        /\ \/ /\ NothingToKeep /\ batchFile' = Null
              /\ Step(p, "rRemove") /\ UNCHANGED work
           \/ Leave(p) /\ UNCHANGED batchFile
    BY <1>7 DEF ReviewCount, NothingToKeep
  <2>2. job'[p] = "none" \/ (job'[p] = "rRemove" /\ NothingToKeep)
    BY <1>0, <2>1, JobMovesTo
  <2>3. AtDesk(p)'
    BY <1>1, <2>1, <2>2 DEF AtDesk, NothingToKeep
  <2>4. FilesView'
    BY <1>0, <1>1, <1>2, <2>1
    DEF FilesView, Promised, Certified, SameSignature, NothingToKeep
  <2> QED
    BY <1>1, <2>1, <2>2, <2>3, <2>4, DeskMoves DEF Placed
<1>8. CASE ReviewRemove(p)
  <2>1. /\ receiptFile' = Null /\ Leave(p) /\ UNCHANGED batchFile /\ job[p] = "rRemove"
    BY <1>8 DEF ReviewRemove
  <2>2. job'[p] = "none"
    BY <1>0, <2>1, JobMovesTo
  <2>3. AtDesk(p)'
    BY <2>2, AwayFromDesk
  <2>4. FilesView'
    BY <1>0, <1>1, <1>2, <2>1
    DEF FilesView, Promised, Certified, SameSignature, NothingToKeep
  <2> QED
    BY <1>1, <2>1, <2>2, <2>3, <2>4, DeskMoves DEF Placed
<1> QED
  BY <1>3, <1>4, <1>5, <1>6, <1>7, <1>8 DEF ReviewStep

(* ack-reviewed-mailbox.sh.                                                 *)
LEMMA AckReviewedNextPlaced ==
  ASSUME OneOperator, DeskInv, NEW p \in Proc, AckReviewedStep(p)
  PROVE  Placed'
<1> USE DEF DeskJobs, ReviewJobs, AckJobs
<1>0. /\ ReviewTypeOK /\ FilesView /\ AtDesk(p) /\ InScript(p)
      /\ receiptFile # Null => receiptFile \in Batch
      /\ TypeOK
  BY DeskTypes DEF DeskInv, ReviewInv, IInv
<1>1. /\ job[p] \in AckJobs /\ p \in Operator
      /\ UNCHANGED <<acked, forged, replayed>>
      /\ job[p] # "kAck" => Idle(p)
  BY <1>0 DEF AckReviewedStep, ReviewerLoad, ReviewerJudge, AckReadReceipt, AckReturned,
     AckArchive, AckRemove, mischief, AtDesk, InScript
<1>2. CASE ReviewerLoad(p, "kLoad", "kJudge")
  <2>1. /\ UNCHANGED <<mailbox, batchFile, receiptFile>> /\ job[p] = "kLoad"
        /\ \/ Leave(p)
           \/ /\ batchFile # Null /\ Step(p, "kJudge")
              /\ work' = [work EXCEPT ![p] = batchFile]
    BY <1>2 DEF ReviewerLoad, savedFiles
  <2>2. job'[p] = "none" \/ (job'[p] = "kJudge" /\ work'[p] = batchFile /\ batchFile # Null)
    BY <1>0, <2>1, JobMovesTo
  <2>3. AtDesk(p)'
    BY <1>1, <2>1, <2>2 DEF AtDesk
  <2>4. FilesView'
    BY <1>1, <2>1, FilesStay DEF mailbox, vars
  <2> QED
    BY <1>1, <2>1, <2>2, <2>3, <2>4, DeskMoves DEF Placed
<1>3. CASE ReviewerJudge(p, "kJudge", "kRead")
  <2>1. UNCHANGED <<mailbox, batchFile, archive>> /\ job[p] = "kJudge"
    BY <1>3 DEF ReviewerJudge
  <2>2. work[p] # Null /\ work[p] = batchFile
    BY <1>0, <2>1 DEF AtDesk
  <2>3. CASE Reviewable(work[p]) /\ receiptFile \in {Null, work[p]}
    <3>1. /\ receiptFile' = work[p] /\ work' = [work EXCEPT ![p] = Null] /\ Step(p, "kRead")
      BY <1>3, <2>3 DEF ReviewerJudge
    <3>2. job'[p] = "kRead"
      BY <1>0, <3>1, JobMovesTo
    <3>3. Fresh(receiptFile)'
      BY <1>1, <2>1, <2>3, <3>1 DEF Reviewable, Fresh, SameSignature
    <3>4. AtDesk(p)'
      BY <1>1, <2>1, <2>2, <3>1, <3>2, <3>3 DEF AtDesk
    <3>5. Certified(work[p])
      BY <2>3 DEF Certified, Reviewable, Fresh
    <3>6. FilesView'
      BY <1>0, <1>1, <2>1, <2>2, <3>1, <3>5
      DEF FilesView, Promised, Certified, SameSignature, NothingToKeep, mailbox, vars
    <3> QED
      BY <1>1, <2>1, <3>1, <3>2, <3>4, <3>6, DeskMoves DEF Placed
  <2>4. CASE ~(Reviewable(work[p]) /\ receiptFile \in {Null, work[p]})
    <3>1. Leave(p) /\ UNCHANGED receiptFile /\ job'[p] = "none"
      BY <1>0, <1>3, <2>4, JobMovesTo DEF ReviewerJudge
    <3>2. AtDesk(p)'
      BY <3>1, AwayFromDesk
    <3>3. FilesView'
      BY <1>1, <2>1, <3>1, FilesStay DEF mailbox, vars
    <3> QED
      BY <1>1, <2>1, <3>1, <3>2, <3>3, DeskMoves DEF Placed
  <2> QED
    BY <2>3, <2>4
<1>4. CASE AckReadReceipt(p)
  <2>1. UNCHANGED <<batchFile, receiptFile, archive, halted>> /\ job[p] = "kRead"
    BY <1>4 DEF AckReadReceipt, savedFiles
  <2>2. CASE Leave(p) /\ UNCHANGED mailbox
    <3>1. job'[p] = "none"
      BY <1>0, <2>2, JobMovesTo
    <3>2. AtDesk(p)'
      BY <3>1, AwayFromDesk
    <3>3. FilesView'
      BY <1>1, <2>1, <2>2, FilesStay DEF mailbox, vars
    <3> QED
      BY <1>1, <2>1, <2>2, <3>1, <3>2, <3>3, DeskMoves DEF Placed
  <2>3. CASE ~(Leave(p) /\ UNCHANGED mailbox)
    <3>1. /\ receiptFile # Null /\ receiptFile.seqs # {}
          /\ \A a \in ArchivedAs(receiptFile) : a.receipt = receiptFile
          /\ StartAck(p, receiptFile.last)
          /\ work' = [work EXCEPT ![p] = receiptFile] /\ Step(p, "kAck")
      BY <1>4, <2>3 DEF AckReadReceipt
    <3>2. receiptFile.last \in Cursors
      BY <1>0, <3>1 DEF Batch
    <3>3. /\ job'[p] = "kAck" /\ work'[p] = receiptFile
          /\ pc'[p] = "aLock" /\ page'[p] = Null /\ reg'[p].cursor = receiptFile.last
          /\ UNCHANGED <<pendingFile, offer>>
      BY <1>0, <3>1, JobMovesTo DEF StartAck, Start, Goto, TypeOK, fileVars
    <3>4. Fresh(receiptFile) /\ Fresh(receiptFile)'
      BY <1>0, <1>1, <2>1 DEF AtDesk, Fresh, SameSignature
    <3>5. AtDesk(p)'
      BY <1>1, <2>1, <3>1, <3>3, <3>4 DEF AtDesk, ArchivedAs, Fresh
    <3>6. InScript(p)'
      BY <2>1, <3>3 DEF InScript, Idle, PollPcs, AckPcs
    <3>7. FilesView'
      BY <1>1, <2>1, <3>3, FilesStay
    <3>8. ASSUME NEW q \in Proc, q # p
          PROVE  AtDesk(q)' /\ InScript(q)'
      <4>1. job'[q] = job[q] /\ work'[q] = work[q]
        BY <1>0, <3>1, <3>8, JobIsLocal
      <4>2. pc'[q] = pc[q] /\ status'[q] = status[q] /\ reg'[q] = reg[q] /\ page'[q] = page[q]
        BY <1>0, <3>1, <3>2, <3>8, ScriptIsLocal
      <4> QED
        BY <1>1, <3>3, <3>8, <4>1, <4>2, AloneAtDesk, ScriptStays
    <3> QED
      BY <3>5, <3>6, <3>7, <3>8 DEF Placed
  <2> QED
    BY <2>2, <2>3
<1>5. CASE AckReturned(p)
  <2>1. /\ UNCHANGED <<mailbox, batchFile, receiptFile, archive>> /\ job[p] = "kAck" /\ Idle(p)
        /\ \/ status[p] = 0 /\ Step(p, "kArchive") /\ UNCHANGED work
           \/ Leave(p)
    BY <1>5 DEF AckReturned, savedFiles
  <2>2. CASE status[p] = 0 /\ Step(p, "kArchive") /\ UNCHANGED work
    <3>1. job'[p] = "kArchive" /\ work'[p] = work[p] /\ work[p] \in acked
      BY <1>0, <2>1, <2>2, JobMovesTo DEF InScript
    <3>2. AtDesk(p)'
      BY <1>0, <1>1, <2>1, <3>1 DEF AtDesk, Fresh, SameSignature, ArchivedAs
    <3>3. FilesView'
      BY <1>1, <2>1, FilesStay DEF mailbox, vars
    <3> QED
      BY <1>1, <2>1, <2>2, <3>1, <3>2, <3>3, DeskMoves DEF Placed
  <2>3. CASE Leave(p)
    <3>1. job'[p] = "none"
      BY <1>0, <2>3, JobMovesTo
    <3>2. AtDesk(p)'
      BY <3>1, AwayFromDesk
    <3>3. FilesView'
      BY <1>1, <2>1, FilesStay DEF mailbox, vars
    <3> QED
      BY <1>1, <2>1, <2>3, <3>1, <3>2, <3>3, DeskMoves DEF Placed
  <2> QED
    BY <2>1, <2>2, <2>3
<1>6. CASE AckArchive(p)
  <2>1. /\ receiptFile # Null /\ receiptFile = work[p] /\ work[p].seqs # {} /\ work[p] \in acked
    BY <1>0, <1>6 DEF AckArchive, AtDesk
  <2>2. batchFile = work[p]
    BY <1>0, <2>1 DEF FilesView, NothingToKeep
  <2>3. /\ UNCHANGED <<mailbox, batchFile, work>> /\ job[p] = "kArchive"
        /\ receiptFile' = Null /\ Step(p, "kRemove")
    BY <1>6, <2>1 DEF AckArchive
  <2>4. job'[p] = "kRemove"
    BY <1>0, <2>3, JobMovesTo
  <2>5. AtDesk(p)'
    BY <1>1, <2>1, <2>2, <2>3, <2>4 DEF AtDesk
  <2>6. FilesView'
    BY <1>0, <1>1, <2>3 DEF FilesView, Promised, NothingToKeep, mailbox, vars
  <2> QED
    BY <1>1, <2>3, <2>4, <2>5, <2>6, DeskMoves DEF Placed
<1>7. CASE AckRemove(p)
  <2>1. /\ UNCHANGED <<mailbox, receiptFile>> /\ batchFile' = Null /\ Leave(p)
        /\ job[p] = "kRemove" /\ receiptFile = Null
    BY <1>0, <1>7 DEF AckRemove, AtDesk
  <2>2. job'[p] = "none"
    BY <1>0, <2>1, JobMovesTo
  <2>3. AtDesk(p)'
    BY <2>2, AwayFromDesk
  <2>4. FilesView'
    BY <2>1 DEF FilesView, NothingToKeep
  <2> QED
    BY <1>1, <2>1, <2>2, <2>3, <2>4, DeskMoves DEF Placed
<1> QED
  BY <1>2, <1>3, <1>4, <1>5, <1>6, <1>7 DEF AckReviewedStep

(* fetch-mailbox-once.py, which keeps away from the desk.                   *)
LEMMA FetchNextPlaced ==
  ASSUME DeskInv, NEW p \in Proc, StartFetch(p) \/ FetchStep(p)
  PROVE  Placed'
<1> USE DEF FetchJobs
<1>0. /\ ReviewTypeOK /\ FilesView /\ InScript(p) /\ TypeOK
      /\ UNCHANGED <<receiptFile, archive, forged, replayed, acked>>
  BY DEF DeskInv, ReviewInv, IInv, StartFetch, FetchStep, FetchHalt, FetchNothing, FetchFail,
     FetchBatch, FetchLink, savedFiles, mischief
<1>1. ASSUME UNCHANGED <<mailbox>>, Idle(p), job'[p] \in {"fHalt", "fLink", "none"},
             job'[p] = "fLink" => job[p] = "fPoll",
             Leave(p) \/ \E j : Step(p, j), Leave(p) \/ UNCHANGED work,
             batchFile # Null => batchFile' = batchFile
      PROVE  \A q \in Proc : AtDesk(q)' /\ InScript(q)'
  <2>1. UNCHANGED <<pc, status, reg, page, pendingFile, offer>>
    BY <1>1 DEF mailbox, vars
  <2>2. AtDesk(p)' /\ InScript(p)'
    BY <1>0, <1>1, <2>1, AwayFromDesk, ScriptIsOver
  <2>3. ASSUME NEW q \in Proc, q # p
        PROVE  AtDesk(q)' /\ InScript(q)'
    <3>1. job'[q] = job[q] /\ work'[q] = work[q]
      BY <1>0, <1>1, <2>3, JobIsLocal
    <3> QED
      BY <1>0, <1>1, <2>1, <3>1, DeskStays, ScriptStays
  <2> QED
    BY <2>2, <2>3
<1>2. CASE StartFetch(p) \/ FetchNothing(p) \/ FetchFail(p) \/ FetchBatch(p)
  <2>1. /\ UNCHANGED <<mailbox, batchFile>> /\ Idle(p)
        /\ \/ Leave(p)
           \/ Step(p, "fHalt") /\ UNCHANGED work
           \/ Step(p, "fLink") /\ UNCHANGED work /\ job[p] = "fPoll"
    BY <1>2 DEF StartFetch, FetchNothing, FetchFail, FetchBatch, Jobless, savedFiles
  <2>2. /\ job'[p] \in {"fHalt", "fLink", "none"}
        /\ job'[p] = "fLink" => job[p] = "fPoll"
    BY <1>0, <2>1, JobMovesTo
  <2>3. FilesView'
    BY <1>0, <2>1, FilesStay DEF mailbox, vars
  <2> QED
    BY <1>1, <2>1, <2>2, <2>3 DEF Placed
<1>3. CASE FetchHalt(p)
  <2>1. StartPoll(p) /\ Step(p, "fPoll") /\ UNCHANGED <<work, batchFile>>
    BY <1>3 DEF FetchHalt
  <2>2. /\ job'[p] = "fPoll" /\ pc'[p] = "pLock" /\ page'[p] = Null
        /\ UNCHANGED <<pendingFile, offer>>
    BY <1>0, <2>1, JobMovesTo DEF StartPoll, Start, Goto, TypeOK, fileVars
  <2>3. AtDesk(p)'
    BY <2>2, AwayFromDesk
  <2>4. InScript(p)'
    BY <2>2 DEF InScript, Idle, PollPcs, AckPcs
  <2>5. FilesView'
    BY <1>0, <2>1, <2>2, FilesStay
  <2>6. ASSUME NEW q \in Proc, q # p
        PROVE  AtDesk(q)' /\ InScript(q)'
    <3>1. job'[q] = job[q] /\ work'[q] = work[q]
      BY <1>0, <2>1, <2>6, JobIsLocal
    <3>2. pc'[q] = pc[q] /\ status'[q] = status[q] /\ reg'[q] = reg[q] /\ page'[q] = page[q]
      BY <1>0, <2>1, <2>6, ScriptIsLocal
    <3> QED
      BY <1>0, <2>1, <2>2, <3>1, <3>2, DeskStays, ScriptStays
  <2> QED
    BY <2>3, <2>4, <2>5, <2>6 DEF Placed
<1>4. CASE FetchLink(p)
  <2>1. /\ UNCHANGED mailbox /\ job[p] = "fLink" /\ Leave(p)
        /\ batchFile' = IF batchFile = Null THEN page[p] ELSE batchFile
    BY <1>4 DEF FetchLink
  <2>2. job'[p] = "none" /\ Idle(p)
    BY <1>0, <2>1, JobMovesTo DEF InScript
  <2>3. page[p] = Null \/ Promised(page[p])
    BY <1>0, <2>1, <2>2 DEF InScript, Idle
  <2>4. batchFile = Null => NothingToKeep
    BY <1>0 DEF FilesView, NothingToKeep
  <2>5. UNCHANGED <<pendingFile, offer>>
    BY <2>1 DEF mailbox, vars
  <2>6. FilesView'
    BY <1>0, <2>1, <2>3, <2>4, <2>5
    DEF FilesView, Promised, Certified, SameSignature, NothingToKeep
  <2> QED
    BY <1>1, <2>1, <2>2, <2>6 DEF Placed
<1> QED
  BY <1>2, <1>3, <1>4 DEF FetchStep

(* Kills, of a job with its script or of the script alone.                  *)
LEMMA KillNextPlaced ==
  ASSUME DeskInv, NEW p \in Proc, KillJob(p) \/ KillScript(p)
  PROVE  Placed'
<1>0. /\ ReviewTypeOK /\ FilesView /\ AtDesk(p) /\ InScript(p) /\ TypeOK
      /\ UNCHANGED <<batchFile, receiptFile, archive, forged, replayed, acked>>
  BY DEF DeskInv, ReviewInv, IInv, KillJob, KillScript, savedFiles, mischief
<1>1. /\ Crash(p) \/ (UNCHANGED mailbox /\ Idle(p))
      /\ Leave(p) \/ (UNCHANGED <<job, work>> /\ Crash(p))
  BY DEF KillJob, KillScript
<1>2. UNCHANGED <<pendingFile, offer>>
  BY <1>1 DEF Crash, fileVars, mailbox, vars
<1>3. FilesView'
  BY <1>0, <1>2, FilesStay
<1>4. ASSUME NEW q \in Proc, q # p
      PROVE  AtDesk(q)' /\ InScript(q)'
  <2>1. job'[q] = job[q] /\ work'[q] = work[q]
    BY <1>0, <1>1, <1>4, JobIsLocal
  <2>2. pc'[q] = pc[q] /\ status'[q] = status[q] /\ reg'[q] = reg[q] /\ page'[q] = page[q]
    <3>1. CASE Crash(p)
      BY <1>0, <1>4, <3>1, ScriptIsLocal
    <3>2. CASE UNCHANGED mailbox
      BY <3>2 DEF mailbox, vars
    <3> QED
      BY <1>1, <3>1, <3>2
  <2> QED
    BY <1>0, <1>2, <2>1, <2>2, DeskStays, ScriptStays
<1>5. AtDesk(p)'
  <2>1. CASE Leave(p)
    BY <1>0, <2>1, JobMovesTo, AwayFromDesk
  <2>2. CASE UNCHANGED <<job, work>>
    BY <1>0, <2>2, DeskStays
  <2> QED
    BY <1>1, <2>1, <2>2
<1>6. InScript(p)'
  <2>1. CASE Crash(p)
    <3>1. pc'[p] = "idle" /\ status'[p] = 137 /\ page'[p] = Null
      BY <1>0, <2>1 DEF Crash, Goto, TypeOK
    <3> QED
      BY <3>1 DEF InScript, Idle, PollPcs, AckPcs
  <2>2. CASE UNCHANGED mailbox /\ Idle(p) /\ Leave(p)
    <3>1. job'[p] = "none" /\ UNCHANGED <<pc, page>>
      BY <1>0, <2>2, JobMovesTo DEF mailbox, vars
    <3> QED
      BY <1>0, <1>2, <2>2, <3>1, ScriptIsOver
  <2> QED
    BY <1>1, <2>1, <2>2
<1> QED
  BY <1>3, <1>4, <1>5, <1>6 DEF Placed

(* The operator's recoveries, with nothing running.                         *)
LEMMA QuietNextPlaced ==
  ASSUME DeskInv, Resume \/ Recover \/ Outside \/ UNCHANGED reviewVars
  PROVE  Placed'
<1>0. /\ UNCHANGED <<job, work, pc, status, reg, page, batchFile, receiptFile, archive, forged,
                     replayed, acked, offer>>
      /\ Recover \/ UNCHANGED pendingFile
  BY DEF Resume, Recover, Outside, RoomStep, Post, Recreate, Upgrade, CurlTimeout, DropPending,
     savedFiles, mischief, reviewVars, mailbox, vars, fileVars, procVars
<1>1. \A q \in Proc : AtDesk(q)'
  BY <1>0, DeskStays
<1>2. CASE UNCHANGED pendingFile
  BY <1>0, <1>1, <1>2, FilesStay, ScriptStays DEF Placed
<1>3. CASE Recover
  <2>1. batchFile = Null /\ \A q \in Proc : job[q] = "none" /\ Idle(q)
    BY <1>3 DEF Recover, Quiet, Jobless
  <2>2. FilesView'
    BY <1>0, <2>1 DEF DeskInv, FilesView, Certified, SameSignature, NothingToKeep
  <2>3. \A q \in Proc : InScript(q)'
    BY <1>0, <2>1 DEF InScript, Idle, PollPcs, AckPcs
  <2> QED
    BY <1>1, <2>2, <2>3 DEF Placed
<1> QED
  BY <1>0, <1>2, <1>3

(* The invariant of the desk is kept by every step of the workflow.         *)
LEMMA DeskNext ==
  ASSUME OneOperator, DeskInv, [ReviewNext]_reviewVars
  PROVE  DeskInv'
<1>1. ASSUME NEW p \in Proc, Inside(p)
      PROVE  Placed'
  BY <1>1, DeskInside, OthersInside, OneInside DEF Placed
<1>2. Placed'
  BY <1>1, StartsNext, ReviewNextPlaced, AckReviewedNextPlaced, FetchNextPlaced,
     KillNextPlaced, QuietNextPlaced DEF ReviewNext, JobStep
<1>3. ReviewInv'
  BY ReviewNextInv DEF DeskInv
<1> QED
  BY <1>2, <1>3, AckedNext, EvidenceNext, ReplayNext DEF DeskInv, Placed

-----------------------------------------------------------------------------
(* What one operator can rely on                                            *)

(* The invariant of the desk holds in every reachable state, whatever the   *)
(* timers do meanwhile and whatever is killed.                              *)
THEOREM DeskInvariant == ASSUME OneOperator PROVE ReviewSpec => []DeskInv
<1>1. DeskInv /\ [ReviewNext]_reviewVars => DeskInv'
  BY DeskNext
<1> QED
  BY <1>1, DeskInit, PTL DEF ReviewSpec

(* The receipt of every acknowledged batch is in the archive or on disk, at *)
(* every instant and after a kill anywhere.                                 *)
THEOREM EvidenceIsKept == ASSUME OneOperator PROVE ReviewSpec => []EvidenceKept
<1>1. DeskInv => EvidenceKept
  BY DEF DeskInv
<1> QED
  BY <1>1, DeskInvariant, PTL

(* No signature is acknowledged twice under two sequence numbers of one     *)
(* generation.                                                              *)
THEOREM NoReplayIsAcknowledged ==
  ASSUME OneOperator PROVE ReviewSpec => []NoReplayAcknowledged
<1>1. DeskInv => NoReplayAcknowledged
  BY DEF DeskInv
<1> QED
  BY <1>1, DeskInvariant, PTL

(* The cursor advances only over a batch whose receipt is on disk: one that *)
(* holds messages, all of which passed the review.                          *)
THEOREM AdvancesAreReviewed == ASSUME OneOperator PROVE ReviewSpec => AdvanceIsReviewed
<1>1. ASSUME DeskInv, [ReviewNext]_reviewVars
      PROVE  [cursorFile'.cursor > cursorFile.cursor =>
                /\ offer.seqs # {}
                /\ offer.seqs \cap forged = {}
                /\ receiptFile = offer]_cursorFile
  <2> SUFFICES ASSUME cursorFile' # cursorFile, cursorFile'.cursor > cursorFile.cursor
               PROVE  offer.seqs # {} /\ offer.seqs \cap forged = {} /\ receiptFile = offer
    OBVIOUS
  <2>1. [Next]_vars /\ IInv /\ cursorFile.cursor \in Nat
    BY <1>1, ReviewStepIsMailboxStep, ConstantsAssumption
    DEF DeskInv, ReviewInv, IInv, TypeOK, CursorState, Cursors
  <2>2. PICK p \in Proc : AckWrite(p)
    BY <2>1, CursorWriters
  <2> QED
    BY <1>1, <2>2, AdvanceReviewed DEF Certified
<1> QED
  BY <1>1, DeskInvariant, PTL DEF ReviewSpec, AdvanceIsReviewed

(* With one process that fetches, reviews and acknowledges in turn, a batch *)
(* is saved only where none is.                                             *)
OneProcess == \A p, q \in Proc : p = q

SaveView == \A p \in Proc : job[p] \in {"rPoll", "rSave"} => batchFile = Null

(* Nothing is saved while the only process fetches.                         *)
LEMMA SaveViewNext ==
  ASSUME OneProcess, DeskInv, SaveView, [ReviewNext]_reviewVars
  PROVE  SaveView'
<1>1. ReviewTypeOK
  BY DEF DeskInv, ReviewInv
<1>2. CASE Outside \/ Resume \/ Recover \/ UNCHANGED reviewVars
  BY <1>2 DEF SaveView, Outside, Resume, Recover, savedFiles, reviewVars
<1>3. ASSUME NEW p \in Proc,
             \/ job'[p] \notin {"rPoll", "rSave"}
             \/ job[p] \in {"rPoll", "rSave"} /\ UNCHANGED batchFile
             \/ batchFile' = Null
      PROVE  SaveView'
  <2>1. \A q \in Proc : q = p
    BY DEF OneProcess
  <2> QED
    BY <1>3, <2>1 DEF SaveView
<1>4. ASSUME NEW p \in Proc, Inside(p) \/ KillJob(p) \/ KillScript(p)
      PROVE  SaveView'
  <2>1. UNCHANGED batchFile /\ (Leave(p) \/ UNCHANGED job)
    BY <1>4 DEF Inside, KillJob, KillScript, savedFiles
  <2>2. CASE Leave(p)
    BY <1>1, <1>3, <2>2, JobMovesTo
  <2>3. CASE UNCHANGED job
    BY <2>1, <2>3 DEF SaveView
  <2> QED
    BY <2>1, <2>2, <2>3
<1>5. ASSUME NEW p \in Proc, StartReview(p) \/ StartAckReviewed(p) \/ StartFetch(p)
      PROVE  SaveView'
  <2>1. \/ \E j \in Jobs \ {"rPoll", "rSave"} : Step(p, j)
        \/ batchFile' = Null
    BY <1>5 DEF StartReview, StartReviewSaved, StartReviewPoll, StartAckReviewed, StartFetch,
       savedFiles, Jobs, ReviewJobs, AckJobs, FetchJobs
  <2> QED
    BY <1>1, <1>3, <2>1, JobMovesTo
<1>6. ASSUME NEW p \in Proc, JobStep(p)
      PROVE  SaveView'
  <2>1. \/ Leave(p)
        \/ \E j \in Jobs \ {"rPoll", "rSave"} : Step(p, j)
        \/ job[p] \in {"rPoll", "rSave"} /\ UNCHANGED batchFile
    BY <1>6 DEF JobStep, ReviewStep, AckReviewedStep, FetchStep, ReviewPolled, ReviewSave,
       ReviewerLoad, ReviewerJudge, ReviewCount, ReviewRemove, AckReadReceipt, AckReturned,
       AckArchive, AckRemove, FetchHalt, FetchNothing, FetchFail, FetchBatch, FetchLink,
       savedFiles, Jobs, ReviewJobs, AckJobs, FetchJobs
  <2> QED
    BY <1>1, <1>3, <2>1, JobMovesTo
<1> QED
  BY <1>2, <1>4, <1>5, <1>6 DEF ReviewNext

(* A saved batch leaves the disk only when it is empty or acknowledged, and *)
(* no other batch ever takes its place.                                     *)
THEOREM SavedBatchesAreKept == ASSUME OneProcess PROVE ReviewSpec => SavedBatchKept
<1>1. OneOperator
  BY RolesAssumption DEF OneProcess, OneOperator
<1>2. ReviewInit => SaveView
  BY DEF ReviewInit, SaveView
<1>3. DeskInv /\ SaveView /\ [ReviewNext]_reviewVars => SaveView'
  BY SaveViewNext
<1>4. ASSUME DeskInv, SaveView, [ReviewNext]_reviewVars
      PROVE  [batchFile # Null =>
                /\ batchFile' = Null
                /\ batchFile.seqs = {} \/ batchFile \in acked]_batchFile
  <2> SUFFICES ASSUME batchFile' # batchFile, batchFile # Null
               PROVE  batchFile' = Null /\ (batchFile.seqs = {} \/ batchFile \in acked)
    OBVIOUS
  <2>1. PICK p \in Proc : ReviewSave(p) \/ ReviewCount(p) \/ AckRemove(p) \/ FetchLink(p)
    BY <1>4 DEF ReviewNext, reviewVars, Outside, Resume, Recover, Inside, KillJob, KillScript,
       StartReview, StartReviewSaved, StartReviewPoll, StartAckReviewed, StartFetch, JobStep,
       ReviewStep, AckReviewedStep, FetchStep, ReviewPolled, ReviewerLoad, ReviewerJudge,
       ReviewRemove, AckReadReceipt, AckReturned, AckArchive, FetchHalt, FetchNothing,
       FetchFail, FetchBatch, savedFiles
  <2>2. ~ReviewSave(p) /\ ~FetchLink(p)
    BY <1>4 DEF ReviewSave, SaveView, FetchLink
  <2>3. CASE ReviewCount(p)
    BY <1>4, <2>3 DEF ReviewCount, DeskInv, AtDesk
  <2>4. CASE AckRemove(p)
    BY <1>4, <2>4 DEF AckRemove, DeskInv, AtDesk
  <2> QED
    BY <2>1, <2>2, <2>3, <2>4
<1> QED
  BY <1>1, <1>2, <1>3, <1>4, DeskInvariant, PTL DEF ReviewSpec, SavedBatchKept

=============================================================================
