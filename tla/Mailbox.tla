------------------------------- MODULE Mailbox -------------------------------
(***************************************************************************)
(* scripts/poll-mailbox.sh and scripts/ack-mailbox.sh: any number of        *)
(* processes run either script against one private state directory          *)
(* ($HOME/flop) and one remote Technocore room.                             *)
(*                                                                          *)
(* A script is a process with a program counter.  Everything it does        *)
(* between two accesses to shared state is one step.  Accesses made under   *)
(* the poll lock to files that only lock holders write are merged: the      *)
(* operator's rm of mailbox.pending, the one write made without the lock,   *)
(* commutes with the reads merged here.                                     *)
(*                                                                          *)
(* The room and curl are not code of this repository: they are modelled     *)
(* from what the scripts ask of them and from what docs and tests say they  *)
(* may answer (a bounded ring, pages that hold the newest messages, rooms   *)
(* reaped and recreated under the same name, degraded answers).             *)
(***************************************************************************)
EXTENDS Naturals

CONSTANTS
  Proc,      \* processes, each running one script at a time
  Null,      \* JSON null, an absent file, a free lock
  Curl,      \* lock holder: a curl that outlived the poll that started it
  MaxSeq,    \* bound: the room assigns sequence numbers up to this one
  MaxGen,    \* bound: the room is recreated up to this generation
  RingSize,  \* messages the room retains
  PageSize   \* messages one answer can carry

ASSUME ConstantsAssumption ==
  /\ MaxSeq \in Nat /\ MaxGen \in Nat
  /\ RingSize \in Nat \ {0} /\ PageSize \in Nat \ {0}
  /\ Null \notin Nat /\ Null \notin Proc
  /\ Curl \notin Proc /\ Curl # Null

VARIABLES
  room,        \* the remote room
  cursorFile,  \* mailbox.cursor; absent is [gen |-> Null, cursor |-> 0]
  pendingFile, \* mailbox.pending, or Null
  lock,        \* holder of mailbox.poll.lock: a process, Curl or Null
  pc,          \* where each process is in its script
  status,      \* exit status of each process's last script, Null while it runs
  reg,         \* poll: cursor state read; ack: the argument, then the state to write
  page,        \* poll: the batch printed on stdout, or Null
  offer        \* ghost: the batch that mailbox.pending last stood for

fileVars == <<cursorFile, pendingFile, offer>>
procVars == <<pc, status, reg, page>>
vars     == <<room, cursorFile, pendingFile, lock, pc, status, reg, page, offer>>

-----------------------------------------------------------------------------
(* Data                                                                     *)

Generations == (0 .. MaxGen) \cup {Null}
Seqs        == 1 .. MaxSeq
Cursors     == 0 .. MaxSeq

CursorState == [gen : Generations, cursor : Cursors]
Batch       == [gen : Generations, start : Cursors, seqs : SUBSET Seqs, last : Cursors]
Room        == [gen : 0 .. MaxGen, head : Cursors, low : 1 .. (MaxSeq + 1),
                reports : BOOLEAN, echo : BOOLEAN]

(* Null is none of the records it stands in for.                            *)
ASSUME NullAssumption == Null \notin CursorState /\ Null \notin Batch

(* The registers of a process that runs nothing, and the cursor state of an *)
(* absent file.                                                             *)
Unset == [gen |-> Null, cursor |-> 0]

(* Exit statuses of the two scripts; 137 is a process killed by a signal.   *)
(* Those that are started have a well formed argument (otherwise 2).        *)
ExitCodes == {0, 1, 3, 4, 75, 76, 137}

PollPcs     == {"pCheck", "pHttp", "pSave"}
AckPcs      == {"aCheck", "aWrite", "aClear"}
CriticalPcs == PollPcs \cup AckPcs \cup {"end"}
Pcs         == CriticalPcs \cup {"idle", "pLock", "aLock"}

Critical(p) == pc[p] \in CriticalPcs

-----------------------------------------------------------------------------
(* The remote room.  reports: this server version sends a generation.  echo: *)
(* an answer without messages repeats the cursor asked for as last_seq,      *)
(* otherwise it gives the room's highest sequence number.                    *)

Retain(head) == IF head > RingSize THEN (head - RingSize) + 1 ELSE 1

RoomInit ==
  /\ room \in [gen : {0}, head : Cursors, low : 1 .. (MaxSeq + 1),
               reports : BOOLEAN, echo : BOOLEAN]
  /\ room.low = Retain(room.head)

(* A message arrives; the ring evicts the oldest one when it is full.       *)
Post ==
  /\ room.head < MaxSeq
  /\ LET head == room.head + 1
         kept == Retain(head)
     IN  room' = [room EXCEPT !.head = head,
                              !.low  = IF kept > room.low THEN kept ELSE room.low]
  /\ UNCHANGED <<fileVars, lock, procVars>>

(* The room is reaped and recreated: history is gone, the generation grows, *)
(* sequence numbers go on.                                                  *)
Recreate ==
  /\ room.gen < MaxGen
  /\ room' = [room EXCEPT !.gen = room.gen + 1, !.low = room.head + 1]
  /\ UNCHANGED <<fileVars, lock, procVars>>

(* The service is upgraded to a version that reports generations.           *)
Upgrade ==
  /\ ~room.reports
  /\ room' = [room EXCEPT !.reports = TRUE]
  /\ UNCHANGED <<fileVars, lock, procVars>>

(* The newest page of the retained messages after since.                    *)
TailWindow(since) ==
  {s \in room.low .. room.head : s > since /\ s + PageSize > room.head}

Answer(seqs, since) ==
  [own  |-> TRUE,
   gen  |-> IF room.reports THEN room.gen ELSE Null,
   seqs |-> seqs,
   last |-> IF seqs # {} \/ ~room.echo THEN room.head ELSE since]

(* What a 200 answer may hold: the page asked for, a page that ignores      *)
(* since, and either of them unusable (not JSON, not this room).            *)
Responses(since) ==
  LET good == {Answer(TailWindow(since), since), Answer(TailWindow(0), since)}
  IN  good \cup {[a EXCEPT !.own = FALSE] : a \in good}

-----------------------------------------------------------------------------
(* Starting and leaving a script                                            *)

Idle(p) == pc[p] = "idle"

Goto(p, l) == pc' = [pc EXCEPT ![p] = l]

(* A slip: some child of the script keeps the descriptor open.              *)
ExitKeepingLock(p, code) ==
  /\ Goto(p, "idle")
  /\ status' = [status EXCEPT ![p] = code]
  /\ reg' = [reg EXCEPT ![p] = Unset]
  /\ UNCHANGED lock

(* The process ends: its variables are gone, its descriptor closes and with *)
(* it the lock.                                                             *)
Exit(p, code) ==
  /\ Goto(p, "idle")
  /\ status' = [status EXCEPT ![p] = code]
  /\ reg' = [reg EXCEPT ![p] = Unset]
  /\ lock' = IF lock = p THEN Null ELSE lock

Start(p, l) ==
  /\ Idle(p)
  /\ Goto(p, l)
  /\ status' = [status EXCEPT ![p] = Null]
  /\ page' = [page EXCEPT ![p] = Null]
  /\ UNCHANGED <<room, fileVars, lock>>

StartPoll(p) == Start(p, "pLock") /\ UNCHANGED reg

(* The cursor to acknowledge is on the command line.                        *)
StartAck(p, c) ==
  /\ Start(p, "aLock")
  /\ reg' = [reg EXCEPT ![p] = [gen |-> Null, cursor |-> c]]

(* A slip the properties must notice: the lock file is opened, not locked.  *)
AcquireUnlocked(p, from, to) ==
  /\ pc[p] = from
  /\ Goto(p, to)
  /\ UNCHANGED <<room, fileVars, lock, status, reg, page>>

Acquire(p, from, to) ==
  /\ pc[p] = from
  /\ lock = Null
  /\ lock' = p
  /\ Goto(p, to)
  /\ UNCHANGED <<room, fileVars, status, reg, page>>

PollLock(p) == Acquire(p, "pLock", "pCheck")
AckLock(p)  == Acquire(p, "aLock", "aCheck")

-----------------------------------------------------------------------------
(* poll-mailbox.sh                                                          *)

(* An earlier batch is still pending: exit 76.                              *)
PollPending(p) ==
  /\ pc[p] = "pCheck"
  /\ pendingFile # Null
  /\ Exit(p, 76)
  /\ UNCHANGED <<room, fileVars, page>>

(* A slip: polling although an earlier batch is pending.                    *)
PollReadUnchecked(p) ==
  /\ pc[p] = "pCheck"
  /\ reg' = [reg EXCEPT ![p] = cursorFile]
  /\ Goto(p, "pHttp")
  /\ UNCHANGED <<room, fileVars, lock, status, page>>

(* Nothing is pending: read the stored generation and cursor.               *)
PollRead(p) ==
  /\ pc[p] = "pCheck"
  /\ pendingFile = Null
  /\ reg' = [reg EXCEPT ![p] = cursorFile]
  /\ Goto(p, "pHttp")
  /\ UNCHANGED <<room, fileVars, lock, status, page>>

(* mailbox.txt, which only the operator writes, is missing or malformed.    *)
PollConfigError(p) ==
  /\ pc[p] = "pCheck"
  /\ Exit(p, 1)
  /\ UNCHANGED <<room, fileVars, page>>

GenerationChanged(stored, other) ==
  /\ stored # Null
  /\ other # Null
  /\ stored # other

EffectiveGen(preferred, fallback) ==
  IF preferred # Null THEN preferred ELSE fallback

(* The jq validation of an answer, against the cursor read before asking.   *)
Valid(c, r) ==
  /\ r.own
  /\ \A s \in r.seqs : s > c.cursor /\ s <= r.last
  /\ r.last >= c.cursor

(* A slip: a gap of one message goes unnoticed.                             *)
HistoryGapOffByOne(c, r) ==
  /\ c.cursor > 0
  /\ r.seqs # {}
  /\ \A s \in r.seqs : s > c.cursor + 2

(* The first message returned is beyond the one after the cursor.  Nothing  *)
(* is compared when the cursor is 0.                                        *)
HistoryGap(c, r) ==
  /\ c.cursor > 0
  /\ r.seqs # {}
  /\ \A s \in r.seqs : s > c.cursor + 1

(* A slip: the generations are not compared.                                *)
VerdictAcrossGenerations(c, r, held) ==
  IF ~Valid(c, r) THEN 1
  ELSE IF ~held THEN 75
  ELSE IF HistoryGap(c, r) THEN 3
  ELSE 0

(* What the script makes of an answer, in the order of its early returns.   *)
Verdict(c, r, held) ==
  IF ~Valid(c, r) THEN 1
  ELSE IF ~held THEN 75
  ELSE IF GenerationChanged(c.gen, r.gen) THEN 4
  ELSE IF HistoryGap(c, r) THEN 3
  ELSE 0

(* curl fails, times out or returns another status than 200.                *)
PollUnavailable(p) ==
  /\ pc[p] = "pHttp"
  /\ Exit(p, 75)
  /\ UNCHANGED <<room, fileVars, page>>

(* The answer is refused: nothing was written, nothing is printed.          *)
PollReject(p) ==
  /\ pc[p] = "pHttp"
  /\ \E r \in Responses(reg[p].cursor), held \in BOOLEAN :
       /\ Verdict(reg[p], r, held) # 0
       /\ Exit(p, Verdict(reg[p], r, held))
  /\ UNCHANGED <<room, fileVars, page>>

(* A slip: the cursor proposed is the next message expected.                *)
BatchProposingNext(c, r) ==
  [gen  |-> EffectiveGen(r.gen, c.gen), start |-> c.cursor,
   seqs |-> r.seqs, last |-> r.last + 1]

(* The batch printed for an accepted answer.                                *)
BatchOf(c, r) ==
  [gen  |-> EffectiveGen(r.gen, c.gen), start |-> c.cursor,
   seqs |-> r.seqs, last |-> r.last]

(* The answer is accepted: the batch is printed before anything is written. *)
PollPrint(p) ==
  /\ pc[p] = "pHttp"
  /\ \E r \in Responses(reg[p].cursor) :
       /\ Verdict(reg[p], r, TRUE) = 0
       /\ page' = [page EXCEPT ![p] = BatchOf(reg[p], r)]
  /\ Goto(p, "pSave")
  /\ UNCHANGED <<room, fileVars, lock, status, reg>>

(* A slip: a page that is not the first one leaves no marker.               *)
PollForgetPending(p) ==
  /\ pc[p] = "pSave"
  /\ page[p].last > reg[p].cursor
  /\ IF reg[p].cursor > 0 THEN UNCHANGED <<pendingFile, offer>>
     ELSE /\ pendingFile' = [gen |-> page[p].gen, cursor |-> page[p].last]
          /\ offer' = page[p]
  /\ Goto(p, "end")
  /\ UNCHANGED <<room, cursorFile, lock, status, reg, page>>

(* Something is new: mv a complete pending marker into place.               *)
PollSavePending(p) ==
  /\ pc[p] = "pSave"
  /\ page[p].last > reg[p].cursor
  /\ pendingFile' = [gen |-> page[p].gen, cursor |-> page[p].last]
  /\ offer' = page[p]
  /\ Goto(p, "end")
  /\ UNCHANGED <<room, cursorFile, lock, status, reg, page>>

(* Nothing is new: at most record the generation, seen for the first time.  *)
PollSaveGeneration(p) ==
  /\ pc[p] = "pSave"
  /\ page[p].last <= reg[p].cursor
  /\ cursorFile' = IF reg[p].gen = Null /\ page[p].gen # Null
                   THEN [gen |-> page[p].gen, cursor |-> reg[p].cursor]
                   ELSE cursorFile
  /\ Goto(p, "end")
  /\ UNCHANGED <<room, pendingFile, offer, lock, status, reg, page>>

-----------------------------------------------------------------------------
(* ack-mailbox.sh                                                           *)

(* A slip: any cursor that is no regression is accepted.                    *)
AckAcceptsAnyCursor(p) ==
  /\ pendingFile # Null
  /\ reg[p].cursor >= cursorFile.cursor
  /\ ~GenerationChanged(cursorFile.gen, pendingFile.gen)

AckAccepts(p) ==
  /\ pendingFile # Null
  /\ reg[p].cursor = pendingFile.cursor
  /\ reg[p].cursor >= cursorFile.cursor
  /\ ~GenerationChanged(cursorFile.gen, pendingFile.gen)

AckRefuse(p) ==
  /\ pc[p] = "aCheck"
  /\ ~AckAccepts(p)
  /\ Exit(p, 1)
  /\ UNCHANGED <<room, fileVars, page>>

AckAccept(p) ==
  /\ pc[p] = "aCheck"
  /\ AckAccepts(p)
  /\ reg' = [reg EXCEPT ![p] = [gen    |-> EffectiveGen(pendingFile.gen, cursorFile.gen),
                                cursor |-> reg[p].cursor]]
  /\ Goto(p, "aWrite")
  /\ UNCHANGED <<room, fileVars, lock, status, page>>

AckWrite(p) ==
  /\ pc[p] = "aWrite"
  /\ cursorFile' = reg[p]
  /\ Goto(p, "aClear")
  /\ UNCHANGED <<room, pendingFile, offer, lock, status, reg, page>>

AckClear(p) ==
  /\ pc[p] = "aClear"
  /\ pendingFile' = Null
  /\ Goto(p, "end")
  /\ UNCHANGED <<room, cursorFile, offer, lock, status, reg, page>>

Finish(p) ==
  /\ pc[p] = "end"
  /\ Exit(p, 0)
  /\ UNCHANGED <<room, fileVars, page>>

-----------------------------------------------------------------------------
(* What happens to the scripts from outside                                 *)

(* A script is killed.  A curl it started keeps the inherited descriptor,   *)
(* and with it the lock, until its own time limit.                          *)
Crash(p) ==
  /\ ~Idle(p)
  /\ Goto(p, "idle")
  /\ status' = [status EXCEPT ![p] = 137]
  /\ reg' = [reg EXCEPT ![p] = Unset]
  /\ page' = [page EXCEPT ![p] = Null]
  /\ lock' \in IF lock # p THEN {lock}
               ELSE IF pc[p] = "pHttp" THEN {Null, Curl} ELSE {Null}
  /\ UNCHANGED <<room, fileVars>>

CurlTimeout ==
  /\ lock = Curl
  /\ lock' = Null
  /\ UNCHANGED <<room, fileVars, procVars>>

(* The operator chooses duplicate delivery: rm -f mailbox.pending, without  *)
(* taking the lock.                                                         *)
DropPending ==
  /\ pendingFile # Null
  /\ pendingFile' = Null
  /\ UNCHANGED <<room, cursorFile, offer, lock, procVars>>

-----------------------------------------------------------------------------
PollStep(p) ==
  \/ PollPending(p) \/ PollRead(p) \/ PollConfigError(p)
  \/ PollUnavailable(p) \/ PollReject(p) \/ PollPrint(p)
  \/ PollSavePending(p) \/ PollSaveGeneration(p)

AckStep(p) ==
  \/ AckRefuse(p) \/ AckAccept(p) \/ AckWrite(p) \/ AckClear(p)

(* The step of a script that is not a wait for the lock.                    *)
ScriptStep(p) == PollStep(p) \/ AckStep(p) \/ Finish(p)
LockStep(p)   == PollLock(p) \/ AckLock(p)
RoomStep      == Post \/ Recreate \/ Upgrade

Launch(p) == StartPoll(p) \/ \E c \in Cursors : StartAck(p, c)

(* A fresh installation, or the legacy file of a number alone: no           *)
(* generation is stored and nothing is pending.                             *)
Init ==
  /\ RoomInit
  /\ cursorFile \in [gen : {Null}, cursor : 0 .. room.head]
  /\ pendingFile = Null
  /\ lock = Null
  /\ pc = [p \in Proc |-> "idle"]
  /\ status = [p \in Proc |-> Null]
  /\ reg = [p \in Proc |-> Unset]
  /\ page = [p \in Proc |-> Null]
  /\ offer = Null

Next ==
  \/ RoomStep
  \/ CurlTimeout
  \/ DropPending
  \/ \E p \in Proc : Launch(p) \/ LockStep(p) \/ ScriptStep(p) \/ Crash(p)

Spec == Init /\ [][Next]_vars

-----------------------------------------------------------------------------
(* Types of every variable.                                                 *)
TypeOK ==
  /\ room \in Room
  /\ cursorFile \in CursorState
  /\ pendingFile \in CursorState \cup {Null}
  /\ lock \in Proc \cup {Null, Curl}
  /\ pc \in [Proc -> Pcs]
  /\ status \in [Proc -> ExitCodes \cup {Null}]
  /\ reg \in [Proc -> CursorState]
  /\ page \in [Proc -> Batch \cup {Null}]
  /\ offer \in Batch \cup {Null}

(* The state directory is consistent at every instant, also between the two *)
(* writes of an acknowledgement and after a kill anywhere: a pending marker *)
(* is never behind the stored cursor, and belongs to the stored generation  *)
(* once there is one.  So every marker on disk can still be acknowledged.   *)
PendingConsistent ==
  pendingFile # Null =>
    /\ pendingFile.cursor >= cursorFile.cursor
    /\ cursorFile.gen # Null => pendingFile.gen = cursorFile.gen

(* "Cursor writes are atomic and cannot regress", and the generation they   *)
(* are bound to never changes: whatever the interleaving of pollers,        *)
(* acknowledgements, kills and operator recovery.                           *)
CursorNeverRegresses ==
  [][/\ cursorFile'.cursor >= cursorFile.cursor
     /\ cursorFile.gen # Null => cursorFile'.gen = cursorFile.gen]_cursorFile

(* "While that file exists, another poll is refused so that an unprocessed  *)
(* batch cannot be overwritten": a marker is removed, never replaced.       *)
PendingNeverReplaced ==
  [][pendingFile # Null => pendingFile' = Null]_pendingFile

(* A cursor advances only by acknowledging a batch some poll printed, from  *)
(* where that batch starts to where it ends ("Fetching messages does not    *)
(* acknowledge them").                                                      *)
AdvanceIsOffered ==
  [][cursorFile'.cursor > cursorFile.cursor =>
       /\ offer # Null
       /\ offer.start = cursorFile.cursor
       /\ offer.last = cursorFile'.cursor
       /\ offer.gen = cursorFile'.gen]_cursorFile

(* No message is skipped once the cursor is positive and its generation is  *)
(* known: the batch acknowledged holds every sequence number the cursor     *)
(* passes.  Evictions, pages that hold only the newest messages, recreated  *)
(* rooms and pages that ignore since are in the way.                        *)
AdvanceCoversRange ==
  [][(/\ cursorFile'.cursor > cursorFile.cursor
      /\ cursorFile.cursor > 0
      /\ cursorFile.gen # Null)
     => (cursorFile.cursor + 1) .. cursorFile'.cursor \subseteq offer.seqs]_cursorFile

(* docs/ubuntu-agent-operations.md, safety invariants: "A history gap is    *)
(* reported and never silently skipped", for every cursor whose generation  *)
(* is known, the initial cursor 0 included.                                 *)
NoSilentGap ==
  [][(/\ cursorFile'.cursor > cursorFile.cursor
      /\ cursorFile.gen # Null)
     => (cursorFile.cursor + 1) .. cursorFile'.cursor \subseteq offer.seqs]_cursorFile

(* The inductive invariant behind the properties above, in four parts.      *)

(* Between taking the lock and leaving it a process is the lock's holder.   *)
LockHeld == \A p \in Proc : Critical(p) => lock = p

(* A batch that may be offered on top of cursor state c.                    *)
Follows(b, c) ==
  /\ b.start = c.cursor
  /\ b.last >= b.start
  /\ b.seqs \subseteq (b.start + 1) .. b.last
  /\ c.gen # Null => b.gen = c.gen
  /\ b.start > 0 /\ b.seqs # {} => b.start + 1 \in b.seqs

(* What a poll read before its request is still true when it writes.        *)
PollView ==
  \A p \in Proc :
    /\ pc[p] \in {"pHttp", "pSave"} => pendingFile = Null /\ reg[p] = cursorFile
    /\ pc[p] = "pSave" => page[p] # Null /\ Follows(page[p], cursorFile)

(* The offer has not been acknowledged, or it has been completely.          *)
OfferStands ==
  /\ offer.last > offer.start
  /\ \/ Follows(offer, cursorFile)
     \/ cursorFile = [gen |-> offer.gen, cursor |-> offer.last]

(* The marker on disk is the one of the last offer.                         *)
MarkerView ==
  pendingFile # Null =>
    /\ offer # Null
    /\ pendingFile = [gen |-> offer.gen, cursor |-> offer.last]
    /\ OfferStands

(* What an acknowledgement is about to write is still the last offer, even  *)
(* if the operator has removed its marker meanwhile.                        *)
AckView ==
  \A p \in Proc :
    /\ pc[p] = "aWrite" =>
         /\ offer # Null
         /\ reg[p] = [gen |-> offer.gen, cursor |-> offer.last]
         /\ OfferStands
    /\ pc[p] = "aClear" => cursorFile = reg[p]

IInv == TypeOK /\ LockHeld /\ PollView /\ MarkerView /\ AckView

(* The two scripts implement the ledger of MailboxLedger.                   *)
Ledger == INSTANCE MailboxLedger
  WITH cursor <- cursorFile, marker <- (pendingFile # Null), offer <- offer

ImplementsLedger == Ledger!LedgerSpec
=============================================================================
