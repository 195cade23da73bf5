--------------------------- MODULE Mailbox_proofs ---------------------------
(***************************************************************************)
(* Proofs about Mailbox for every number of processes, every length of the  *)
(* room's history, every ring and page size and every generation.           *)
(***************************************************************************)
EXTENDS Mailbox, TLAPS

-----------------------------------------------------------------------------
(* Operators the steps are built from.                                      *)

(* A generation preferred over another is one of the two.                   *)
LEMMA EffectiveGenType ==
  ASSUME NEW a \in Generations, NEW b \in Generations
  PROVE  EffectiveGen(a, b) \in Generations
BY DEF EffectiveGen

(* Whatever the room answers has a generation, sequence numbers and a last  *)
(* sequence number within its bounds.                                       *)
LEMMA ResponsesType ==
  ASSUME room \in Room, NEW c \in Cursors, NEW r \in Responses(c)
  PROVE  /\ r.gen \in Generations
         /\ r.seqs \in SUBSET Seqs
         /\ r.last \in Cursors
<1>1. ASSUME NEW since \in Cursors
      PROVE  TailWindow(since) \in SUBSET Seqs
  <2>1. room.low \in 1 .. (MaxSeq + 1) /\ room.head \in 0 .. MaxSeq
    BY DEF Room, Cursors
  <2>2. room.low .. room.head \subseteq 1 .. MaxSeq
    BY <2>1, ConstantsAssumption
  <2> QED
    BY <2>2 DEF TailWindow, Seqs
<1>2. 0 \in Cursors
  BY ConstantsAssumption DEF Cursors
<1>3. room.gen \in Generations /\ Null \in Generations /\ room.head \in Cursors
  BY DEF Room, Generations
<1>4. ASSUME NEW since \in Cursors, NEW w \in Cursors
      PROVE  LET a == Answer(TailWindow(w), since)
             IN  /\ a.gen \in Generations /\ a.seqs \in SUBSET Seqs /\ a.last \in Cursors
                 /\ [a EXCEPT !.own = FALSE].gen = a.gen
                 /\ [a EXCEPT !.own = FALSE].seqs = a.seqs
                 /\ [a EXCEPT !.own = FALSE].last = a.last
  BY <1>1, <1>3 DEF Answer
<1>5. PICK w \in {c, 0} : \/ r = Answer(TailWindow(w), c)
                          \/ r = [Answer(TailWindow(w), c) EXCEPT !.own = FALSE]
  BY DEF Responses
<1>6. w \in Cursors
  BY <1>2
<1> QED
  BY <1>4, <1>5, <1>6

(* A verdict is an exit status of the script.                               *)
LEMMA VerdictType ==
  ASSUME NEW c, NEW r, NEW held \in BOOLEAN
  PROVE  Verdict(c, r, held) \in ExitCodes
BY DEF Verdict, ExitCodes

(* An accepted answer makes a batch that may be offered on the cursor state *)
(* it was asked for.                                                        *)
LEMMA AcceptedFollows ==
  ASSUME NEW c \in CursorState, NEW r,
         r.gen \in Generations, r.seqs \in SUBSET Seqs, r.last \in Cursors,
         Verdict(c, r, TRUE) = 0
  PROVE  BatchOf(c, r) \in Batch /\ Follows(BatchOf(c, r), c)
<1>1. Valid(c, r) /\ ~GenerationChanged(c.gen, r.gen) /\ ~HistoryGap(c, r)
  BY DEF Verdict
<1>2. c.gen \in Generations /\ c.cursor \in Cursors
  BY DEF CursorState
<1>3. BatchOf(c, r) \in Batch
  BY <1>2, EffectiveGenType DEF BatchOf, Batch
<1>4. c.gen # Null => EffectiveGen(r.gen, c.gen) = c.gen
  BY <1>1 DEF GenerationChanged, EffectiveGen
<1>5. r.seqs \subseteq (c.cursor + 1) .. r.last /\ r.last >= c.cursor
  BY <1>1, <1>2, ConstantsAssumption DEF Valid, Cursors, Seqs
<1>6. c.cursor > 0 /\ r.seqs # {} => c.cursor + 1 \in r.seqs
  <2> SUFFICES ASSUME c.cursor > 0, r.seqs # {}
               PROVE  c.cursor + 1 \in r.seqs
    OBVIOUS
  <2>1. PICK s \in r.seqs : ~(s > c.cursor + 1)
    BY <1>1 DEF HistoryGap
  <2>2. s = c.cursor + 1
    BY <2>1, <1>2, <1>5, ConstantsAssumption DEF Cursors, Seqs
  <2> QED
    BY <2>1, <2>2
<1> QED
  BY <1>3, <1>4, <1>5, <1>6 DEF BatchOf, Follows

-----------------------------------------------------------------------------
(* Type correctness                                                         *)

(* Leaving a script keeps the types of what it touches.                     *)
LEMMA ExitType ==
  ASSUME TypeOK, NEW p \in Proc, NEW code \in ExitCodes, Exit(p, code)
  PROVE  /\ pc' \in [Proc -> Pcs]
         /\ status' \in [Proc -> ExitCodes \cup {Null}]
         /\ reg' \in [Proc -> CursorState]
         /\ lock' \in Proc \cup {Null, Curl}
<1>1. Unset \in CursorState
  BY ConstantsAssumption DEF Unset, CursorState, Generations, Cursors
<1> QED
  BY <1>1 DEF Exit, Goto, TypeOK, Pcs

(* The initial states are well typed.                                       *)
LEMMA InitType == Init => TypeOK
<1> SUFFICES ASSUME Init PROVE TypeOK
  OBVIOUS
<1>1. room \in Room
  <2>1. 0 \in 0 .. MaxGen
    BY ConstantsAssumption
  <2> QED
    BY <2>1 DEF Init, RoomInit, Room
<1>2. cursorFile \in CursorState
  <2>1. 0 .. room.head \subseteq Cursors
    BY <1>1, ConstantsAssumption DEF Room, Cursors
  <2> QED
    BY <2>1 DEF Init, CursorState, Generations
<1>3. Unset \in CursorState
  BY ConstantsAssumption DEF Unset, CursorState, Generations, Cursors
<1> QED
  BY <1>1, <1>2, <1>3 DEF Init, TypeOK, Pcs

(* Every step keeps the types.                                              *)
LEMMA NextType == TypeOK /\ PollView /\ [Next]_vars => TypeOK'
<1> SUFFICES ASSUME TypeOK, PollView, [Next]_vars
             PROVE  TypeOK'
  OBVIOUS
<1>1. CASE Post
  <2>1. room.head + 1 \in Cursors
    BY <1>1, ConstantsAssumption DEF Post, TypeOK, Room, Cursors
  <2>2. Retain(room.head + 1) \in 1 .. (MaxSeq + 1)
    BY <2>1, ConstantsAssumption DEF Retain, Cursors
  <2>3. room' \in Room
    BY <1>1, <2>1, <2>2 DEF Post, TypeOK, Room
  <2> QED
    BY <1>1, <2>3 DEF Post, TypeOK, fileVars, procVars
<1>2. CASE Recreate
  <2>1. room.head + 1 \in 1 .. (MaxSeq + 1) /\ room.gen + 1 \in 0 .. MaxGen
    BY <1>2, ConstantsAssumption DEF Recreate, TypeOK, Room, Cursors
  <2>2. room' \in Room
    BY <1>2, <2>1 DEF Recreate, TypeOK, Room
  <2> QED
    BY <1>2, <2>2 DEF Recreate, TypeOK, fileVars, procVars
<1>3. CASE Upgrade
  BY <1>3 DEF Upgrade, TypeOK, Room, fileVars, procVars
<1>4. CASE CurlTimeout
  BY <1>4 DEF CurlTimeout, TypeOK, fileVars, procVars
<1>5. CASE DropPending
  BY <1>5 DEF DropPending, TypeOK, procVars
<1>6. ASSUME NEW p \in Proc, Launch(p) \/ LockStep(p)
      PROVE  TypeOK'
  <2>1. CASE StartPoll(p)
    BY <2>1 DEF StartPoll, Start, Goto, TypeOK, Pcs, fileVars
  <2>2. ASSUME NEW c \in Cursors, StartAck(p, c)
        PROVE  TypeOK'
    <3>1. [gen |-> Null, cursor |-> c] \in CursorState
      BY DEF CursorState, Generations
    <3> QED
      BY <2>2, <3>1 DEF StartAck, Start, Goto, TypeOK, Pcs, fileVars
  <2>3. CASE PollLock(p)
    BY <2>3 DEF PollLock, Acquire, Goto, TypeOK, Pcs, CriticalPcs, PollPcs, fileVars
  <2>4. CASE AckLock(p)
    BY <2>4 DEF AckLock, Acquire, Goto, TypeOK, Pcs, CriticalPcs, AckPcs, fileVars
  <2> QED
    BY <1>6, <2>1, <2>2, <2>3, <2>4 DEF Launch, LockStep
<1>7. ASSUME NEW p \in Proc, ScriptStep(p)
      PROVE  TypeOK'
  <2>1. CASE \/ PollPending(p) \/ PollConfigError(p) \/ PollUnavailable(p)
             \/ AckRefuse(p) \/ Finish(p)
    <3>1. PICK code \in {0, 1, 75, 76} : Exit(p, code)
      BY <2>1 DEF PollPending, PollConfigError, PollUnavailable, AckRefuse, Finish
    <3>2. code \in ExitCodes
      BY <3>1 DEF ExitCodes
    <3> QED
      BY <2>1, <3>1, <3>2, ExitType
      DEF PollPending, PollConfigError, PollUnavailable, AckRefuse, Finish, TypeOK, fileVars
  <2>2. CASE PollReject(p)
    <3>1. PICK r \in Responses(reg[p].cursor), held \in BOOLEAN :
            Exit(p, Verdict(reg[p], r, held))
      BY <2>2 DEF PollReject
    <3> QED
      BY <2>2, <3>1, VerdictType, ExitType DEF PollReject, TypeOK, fileVars
  <2>3. CASE PollRead(p)
    BY <2>3 DEF PollRead, Goto, TypeOK, Pcs, CriticalPcs, PollPcs, fileVars
  <2>4. CASE PollPrint(p)
    <3>1. PICK r \in Responses(reg[p].cursor) :
            /\ Verdict(reg[p], r, TRUE) = 0
            /\ page' = [page EXCEPT ![p] = BatchOf(reg[p], r)]
      BY <2>4 DEF PollPrint
    <3>2. reg[p] \in CursorState /\ reg[p].cursor \in Cursors /\ room \in Room
      BY DEF TypeOK, CursorState
    <3>3. BatchOf(reg[p], r) \in Batch
      BY <3>1, <3>2, ResponsesType, AcceptedFollows
    <3> QED
      BY <2>4, <3>1, <3>3 DEF PollPrint, Goto, TypeOK, Pcs, CriticalPcs, PollPcs, fileVars
  <2>5. CASE PollSavePending(p)
    <3>1. page[p] \in Batch
      BY <2>5 DEF PollSavePending, PollView, TypeOK
    <3>2. [gen |-> page[p].gen, cursor |-> page[p].last] \in CursorState
      BY <3>1 DEF Batch, CursorState
    <3> QED
      BY <2>5, <3>1, <3>2 DEF PollSavePending, Goto, TypeOK, Pcs, CriticalPcs
  <2>6. CASE PollSaveGeneration(p)
    <3>1. page[p] \in Batch /\ reg[p] \in CursorState
      BY <2>6 DEF PollSaveGeneration, PollView, TypeOK
    <3>2. [gen |-> page[p].gen, cursor |-> reg[p].cursor] \in CursorState
      BY <3>1 DEF Batch, CursorState
    <3> QED
      BY <2>6, <3>2 DEF PollSaveGeneration, Goto, TypeOK, Pcs, CriticalPcs
  <2>7. CASE AckAccept(p)
    <3>1. pendingFile \in CursorState /\ cursorFile \in CursorState /\ reg[p] \in CursorState
      BY <2>7 DEF AckAccept, AckAccepts, TypeOK
    <3>2. EffectiveGen(pendingFile.gen, cursorFile.gen) \in Generations
      BY <3>1, EffectiveGenType DEF CursorState
    <3>3. [gen    |-> EffectiveGen(pendingFile.gen, cursorFile.gen),
           cursor |-> reg[p].cursor] \in CursorState
      BY <3>1, <3>2 DEF CursorState
    <3> QED
      BY <2>7, <3>3 DEF AckAccept, Goto, TypeOK, Pcs, CriticalPcs, AckPcs, fileVars
  <2>8. CASE AckWrite(p)
    BY <2>8 DEF AckWrite, Goto, TypeOK, Pcs, CriticalPcs, AckPcs
  <2>9. CASE AckClear(p)
    BY <2>9 DEF AckClear, Goto, TypeOK, Pcs, CriticalPcs
  <2> QED
    BY <1>7, <2>1, <2>2, <2>3, <2>4, <2>5, <2>6, <2>7, <2>8, <2>9
    DEF ScriptStep, PollStep, AckStep
<1>8. ASSUME NEW p \in Proc, Crash(p)
      PROVE  TypeOK'
  <2>1. Unset \in CursorState
    BY ConstantsAssumption DEF Unset, CursorState, Generations, Cursors
  <2>2. lock' \in Proc \cup {Null, Curl}
    BY <1>8 DEF Crash, TypeOK
  <2> QED
    BY <1>8, <2>1, <2>2 DEF Crash, Goto, TypeOK, Pcs, ExitCodes, fileVars
<1>9. CASE UNCHANGED vars
  BY <1>9 DEF vars, TypeOK
<1> QED
  BY <1>1, <1>2, <1>3, <1>4, <1>5, <1>6, <1>7, <1>8, <1>9 DEF Next, RoomStep

-----------------------------------------------------------------------------
(* The inductive invariant                                                  *)

LEMMA InitInv == Init => IInv
<1> SUFFICES ASSUME Init PROVE IInv
  OBVIOUS
<1>1. TypeOK
  BY InitType
<1>2. \A p \in Proc : pc[p] = "idle"
  BY DEF Init
<1> QED
  BY <1>1, <1>2
  DEF Init, IInv, LockHeld, PollView, MarkerView, AckView, Critical, CriticalPcs, PollPcs, AckPcs

(* Only the holder of the lock is between taking and leaving it.            *)
LEMMA OnlyHolder ==
  ASSUME LockHeld, NEW p \in Proc, Critical(p), NEW q \in Proc, Critical(q)
  PROVE  p = q
BY DEF LockHeld

(* A process that leaves, goes on outside or waits, while the files stay:   *)
(* the other processes keep their view.                                     *)
LEMMA LeavePreserves ==
  ASSUME IInv, NEW p \in Proc, NEW l \in Pcs \ CriticalPcs, Goto(p, l),
         \A q \in Proc \ {p} : reg'[q] = reg[q] /\ page'[q] = page[q],
         UNCHANGED <<cursorFile, pendingFile, offer>>,
         \A q \in Proc \ {p} : lock = q => lock' = q
  PROVE  LockHeld' /\ PollView' /\ MarkerView' /\ AckView'
<1>1. /\ pc'[p] = l
      /\ \A q \in Proc \ {p} : pc'[q] = pc[q]
  BY DEF Goto, IInv, TypeOK
<1>2. /\ l \notin {"pHttp", "pSave", "aWrite", "aClear"}
      /\ l \notin CriticalPcs
  BY DEF CriticalPcs, PollPcs, AckPcs
<1>3. LockHeld'
  BY <1>1, <1>2 DEF IInv, LockHeld, Critical
<1>4. PollView'
  BY <1>1, <1>2 DEF IInv, PollView, Follows
<1>5. MarkerView'
  BY DEF IInv, MarkerView, OfferStands, Follows
<1>6. AckView'
  BY <1>1, <1>2 DEF IInv, AckView, OfferStands, Follows
<1> QED
  BY <1>3, <1>4, <1>5, <1>6

(* A step of the lock holder inside its script: what the others see does    *)
(* not matter, for no other process is inside.                              *)
LEMMA InsidePreserves ==
  ASSUME IInv, NEW p \in Proc, NEW l \in CriticalPcs, Goto(p, l),
         Critical(p), UNCHANGED lock
  PROVE  /\ LockHeld'
         /\ pc'[p] = l
         /\ \A q \in Proc \ {p} : pc'[q] \notin CriticalPcs
<1>1. /\ pc'[p] = l
      /\ \A q \in Proc \ {p} : pc'[q] = pc[q]
  BY DEF Goto, IInv, TypeOK
<1>2. \A q \in Proc \ {p} : ~Critical(q)
  BY OnlyHolder DEF IInv
<1> QED
  BY <1>1, <1>2 DEF IInv, LockHeld, Critical

LEMMA NextInv == IInv /\ [Next]_vars => IInv'
<1> SUFFICES ASSUME IInv, [Next]_vars
             PROVE  IInv'
  OBVIOUS
<1> DEFINE Rest == LockHeld' /\ PollView' /\ MarkerView' /\ AckView'
<1>0. TypeOK'
  BY NextType DEF IInv
<1>1. CASE RoomStep \/ CurlTimeout
  <2>1. UNCHANGED <<cursorFile, pendingFile, offer, pc, reg, page>>
    BY <1>1 DEF RoomStep, Post, Recreate, Upgrade, CurlTimeout, fileVars, procVars
  <2>2. LockHeld'
    BY <1>1, <2>1, ConstantsAssumption
    DEF RoomStep, Post, Recreate, Upgrade, CurlTimeout, IInv, LockHeld, Critical
  <2> QED
    BY <1>0, <2>1, <2>2 DEF IInv, PollView, MarkerView, AckView, OfferStands, Follows
<1>2. CASE DropPending
  <2>1. UNCHANGED <<cursorFile, offer, lock, pc, reg, page>> /\ pendingFile' = Null
    BY <1>2 DEF DropPending, procVars
  <2> QED
    BY <1>0, <2>1 DEF IInv, LockHeld, Critical, PollView, MarkerView, AckView, OfferStands, Follows
<1>3. ASSUME NEW p \in Proc, Launch(p)
      PROVE  Rest
  <2>1. PICK l \in {"pLock", "aLock"} : Start(p, l)
    BY <1>3 DEF Launch, StartPoll, StartAck
  <2>2. \A q \in Proc \ {p} : reg'[q] = reg[q]
    BY <1>3 DEF Launch, StartPoll, StartAck, IInv, TypeOK
  <2>3. l \in Pcs \ CriticalPcs
    BY DEF Pcs, CriticalPcs, PollPcs, AckPcs
  <2>4. /\ Goto(p, l) /\ UNCHANGED <<cursorFile, pendingFile, offer, lock>>
        /\ \A q \in Proc \ {p} : page'[q] = page[q]
    BY <2>1 DEF Start, fileVars, IInv, TypeOK
  <2> QED
    BY <2>2, <2>3, <2>4, LeavePreserves
<1>4. ASSUME NEW p \in Proc, LockStep(p)
      PROVE  Rest
  <2>1. /\ lock = Null /\ lock' = p
        /\ pc'[p] \in {"pCheck", "aCheck"}
        /\ \A q \in Proc \ {p} : pc'[q] = pc[q]
        /\ UNCHANGED <<cursorFile, pendingFile, offer, reg, page>>
    BY <1>4 DEF LockStep, PollLock, AckLock, Acquire, Goto, fileVars, IInv, TypeOK
  <2>2. \A q \in Proc : ~Critical(q)
    BY <2>1, ConstantsAssumption DEF IInv, LockHeld
  <2>3. LockHeld'
    BY <2>1, <2>2 DEF LockHeld, Critical
  <2>4. \A q \in Proc : pc'[q] \notin {"pHttp", "pSave", "aWrite", "aClear"}
    BY <2>1, <2>2 DEF Critical, CriticalPcs, PollPcs, AckPcs
  <2> QED
    BY <2>1, <2>3, <2>4 DEF IInv, PollView, MarkerView, AckView, OfferStands, Follows
<1>5. ASSUME NEW p \in Proc,
             \/ \E code \in ExitCodes : Exit(p, code) /\ UNCHANGED <<fileVars, page>>
             \/ Crash(p)
      PROVE  Rest
  <2>1. /\ Goto(p, "idle")
        /\ \A q \in Proc \ {p} : reg'[q] = reg[q] /\ page'[q] = page[q]
        /\ UNCHANGED <<cursorFile, pendingFile, offer>>
        /\ \A q \in Proc \ {p} : lock = q => lock' = q
    BY <1>5 DEF Exit, Crash, fileVars, IInv, TypeOK
  <2>2. "idle" \in Pcs \ CriticalPcs
    BY DEF Pcs, CriticalPcs, PollPcs, AckPcs
  <2> QED
    BY <2>1, <2>2, LeavePreserves
<1>6. ASSUME NEW p \in Proc, PollRead(p)
      PROVE  Rest
  <2>1. /\ LockHeld'
        /\ pc'[p] = "pHttp"
        /\ \A q \in Proc \ {p} : pc'[q] \notin CriticalPcs
    BY <1>6, InsidePreserves DEF PollRead, Critical, CriticalPcs, PollPcs
  <2>2. /\ pendingFile = Null /\ reg'[p] = cursorFile
        /\ UNCHANGED <<cursorFile, pendingFile, offer>>
    BY <1>6 DEF PollRead, fileVars, IInv, TypeOK
  <2> QED
    BY <2>1, <2>2 DEF IInv, PollView, MarkerView, AckView, CriticalPcs, PollPcs, AckPcs
<1>7. ASSUME NEW p \in Proc, PollPrint(p)
      PROVE  Rest
  <2>1. /\ LockHeld'
        /\ pc'[p] = "pSave"
        /\ \A q \in Proc \ {p} : pc'[q] \notin CriticalPcs
    BY <1>7, InsidePreserves DEF PollPrint, Critical, CriticalPcs, PollPcs
  <2>2. PICK r \in Responses(reg[p].cursor) :
          /\ Verdict(reg[p], r, TRUE) = 0
          /\ page' = [page EXCEPT ![p] = BatchOf(reg[p], r)]
    BY <1>7 DEF PollPrint
  <2>3. /\ pendingFile = Null /\ reg[p] = cursorFile /\ reg[p] \in CursorState
        /\ UNCHANGED <<cursorFile, pendingFile, offer, reg>>
    BY <1>7 DEF PollPrint, fileVars, IInv, TypeOK, PollView
  <2>4. /\ r.gen \in Generations /\ r.seqs \in SUBSET Seqs /\ r.last \in Cursors
    BY <2>3, ResponsesType DEF IInv, TypeOK, CursorState
  <2>5. BatchOf(reg[p], r) \in Batch /\ Follows(BatchOf(reg[p], r), reg[p])
    BY <2>2, <2>3, <2>4, AcceptedFollows
  <2>6. page'[p] = BatchOf(reg[p], r) /\ page'[p] # Null
    <3>1. page'[p] = BatchOf(reg[p], r)
      BY <2>2 DEF IInv, TypeOK
    <3> QED
      BY <2>5, <3>1, NullAssumption
  <2>7. PollView'
    BY <2>1, <2>3, <2>5, <2>6 DEF PollView, Follows, CriticalPcs, PollPcs
  <2> QED
    BY <2>1, <2>3, <2>7 DEF MarkerView, AckView, CriticalPcs, AckPcs
<1>8. ASSUME NEW p \in Proc, PollSavePending(p)
      PROVE  Rest
  <2>1. /\ LockHeld'
        /\ pc'[p] = "end"
        /\ \A q \in Proc \ {p} : pc'[q] \notin CriticalPcs
    BY <1>8, InsidePreserves DEF PollSavePending, Critical, CriticalPcs, PollPcs
  <2>2. /\ page[p] # Null /\ Follows(page[p], cursorFile) /\ reg[p] = cursorFile
        /\ page[p].last > reg[p].cursor
        /\ pendingFile' = [gen |-> page[p].gen, cursor |-> page[p].last]
        /\ offer' = page[p]
        /\ UNCHANGED cursorFile
    BY <1>8 DEF PollSavePending, IInv, PollView
  <2>3. MarkerView'
    BY <2>2 DEF MarkerView, OfferStands, Follows
  <2> QED
    BY <2>1, <2>3 DEF PollView, AckView, CriticalPcs, PollPcs, AckPcs
<1>9. ASSUME NEW p \in Proc, PollSaveGeneration(p)
      PROVE  Rest
  <2>1. /\ LockHeld'
        /\ pc'[p] = "end"
        /\ \A q \in Proc \ {p} : pc'[q] \notin CriticalPcs
    BY <1>9, InsidePreserves DEF PollSaveGeneration, Critical, CriticalPcs, PollPcs
  <2>2. pendingFile' = Null
    BY <1>9 DEF PollSaveGeneration, IInv, PollView
  <2> QED
    BY <2>1, <2>2 DEF MarkerView, PollView, AckView, CriticalPcs, PollPcs, AckPcs
<1>10. ASSUME NEW p \in Proc, AckAccept(p)
       PROVE  Rest
  <2>1. /\ LockHeld'
        /\ pc'[p] = "aWrite"
        /\ \A q \in Proc \ {p} : pc'[q] \notin CriticalPcs
    BY <1>10, InsidePreserves DEF AckAccept, Critical, CriticalPcs, AckPcs
  <2>2. /\ pendingFile # Null
        /\ reg[p].cursor = pendingFile.cursor
        /\ reg'[p] = [gen    |-> EffectiveGen(pendingFile.gen, cursorFile.gen),
                      cursor |-> reg[p].cursor]
        /\ UNCHANGED <<cursorFile, pendingFile, offer>>
    BY <1>10 DEF AckAccept, AckAccepts, fileVars, IInv, TypeOK
  <2>3. /\ offer # Null
        /\ pendingFile = [gen |-> offer.gen, cursor |-> offer.last]
        /\ OfferStands
    BY <2>2 DEF IInv, MarkerView
  <2>4. cursorFile.gen # Null => offer.gen = cursorFile.gen
    BY <2>3 DEF OfferStands, Follows
  <2>5. reg'[p] = [gen |-> offer.gen, cursor |-> offer.last]
    BY <2>2, <2>3, <2>4 DEF EffectiveGen
  <2>6. OfferStands' /\ MarkerView'
    BY <2>2, <2>3 DEF MarkerView, OfferStands, Follows
  <2>7. AckView'
    BY <2>1, <2>2, <2>3, <2>5, <2>6 DEF AckView, CriticalPcs, AckPcs
  <2>8. PollView'
    BY <2>1 DEF PollView, CriticalPcs, PollPcs
  <2> QED
    BY <2>1, <2>6, <2>7, <2>8
<1>11. ASSUME NEW p \in Proc, AckWrite(p)
       PROVE  Rest
  <2>1. /\ LockHeld'
        /\ pc'[p] = "aClear"
        /\ \A q \in Proc \ {p} : pc'[q] \notin CriticalPcs
    BY <1>11, InsidePreserves DEF AckWrite, Critical, CriticalPcs, AckPcs
  <2>2. /\ cursorFile' = reg[p]
        /\ UNCHANGED <<pendingFile, offer, reg>>
        /\ reg[p] = [gen |-> offer.gen, cursor |-> offer.last]
        /\ offer # Null /\ OfferStands
    BY <1>11 DEF AckWrite, IInv, AckView
  <2>3. MarkerView'
    BY <2>2 DEF IInv, MarkerView, OfferStands
  <2>4. AckView' /\ PollView'
    BY <2>1, <2>2 DEF AckView, PollView, CriticalPcs, PollPcs, AckPcs
  <2> QED
    BY <2>1, <2>3, <2>4
<1>12. ASSUME NEW p \in Proc, AckClear(p)
       PROVE  Rest
  <2>1. /\ LockHeld'
        /\ pc'[p] = "end"
        /\ \A q \in Proc \ {p} : pc'[q] \notin CriticalPcs
    BY <1>12, InsidePreserves DEF AckClear, Critical, CriticalPcs, AckPcs
  <2>2. pendingFile' = Null
    BY <1>12 DEF AckClear
  <2> QED
    BY <2>1, <2>2 DEF MarkerView, PollView, AckView, CriticalPcs, PollPcs, AckPcs
<1>13. CASE UNCHANGED vars
  BY <1>0, <1>13
  DEF vars, IInv, LockHeld, Critical, PollView, MarkerView, AckView, OfferStands, Follows
<1>14. ASSUME NEW p \in Proc,
              \/ PollPending(p) \/ PollConfigError(p) \/ PollUnavailable(p)
              \/ PollReject(p) \/ AckRefuse(p) \/ Finish(p)
       PROVE  Rest
  <2>1. ASSUME NEW r, NEW held \in BOOLEAN PROVE Verdict(reg[p], r, held) \in ExitCodes
    BY VerdictType
  <2>2. \E code \in ExitCodes : Exit(p, code) /\ UNCHANGED <<fileVars, page>>
    BY <1>14, <2>1
    DEF PollPending, PollConfigError, PollUnavailable, PollReject, AckRefuse, Finish, ExitCodes
  <2> QED
    BY <1>5, <2>2
<1>15. ASSUME NEW p \in Proc, ScriptStep(p)
       PROVE  Rest
  BY <1>15, <1>6, <1>7, <1>8, <1>9, <1>10, <1>11, <1>12, <1>14
  DEF ScriptStep, PollStep, AckStep
<1> QED
  BY <1>0, <1>1, <1>2, <1>3, <1>4, <1>5, <1>13, <1>15 DEF Next, IInv
-----------------------------------------------------------------------------
(* What holds of every behaviour                                            *)

(* The inductive invariant holds in every reachable state.                  *)
THEOREM InvariantHolds == Spec => []IInv
BY InitInv, NextInv, PTL DEF Spec

(* Every variable keeps its type.                                           *)
THEOREM TypeCorrect == Spec => []TypeOK
<1>1. IInv => TypeOK
  BY DEF IInv
<1> QED
  BY <1>1, InvariantHolds, PTL

(* A pending marker can always be acknowledged: it is not behind the cursor *)
(* file and belongs to its generation, at every instant of every            *)
(* interleaving of pollers, acknowledgements, kills and operator recovery.  *)
THEOREM PendingIsConsistent == Spec => []PendingConsistent
<1>1. IInv => PendingConsistent
  <2> SUFFICES ASSUME IInv, pendingFile # Null
               PROVE  /\ pendingFile.cursor >= cursorFile.cursor
                      /\ cursorFile.gen # Null => pendingFile.gen = cursorFile.gen
    BY DEF PendingConsistent
  <2>1. /\ pendingFile \in CursorState /\ cursorFile \in CursorState
        /\ pendingFile = [gen |-> offer.gen, cursor |-> offer.last]
        /\ OfferStands
    BY DEF IInv, TypeOK, MarkerView
  <2> QED
    BY <2>1, ConstantsAssumption DEF OfferStands, Follows, CursorState, Cursors
<1> QED
  BY <1>1, InvariantHolds, PTL

(* Two steps write mailbox.cursor; one of them leaves its number alone.     *)
LEMMA CursorWriters ==
  ASSUME IInv, [Next]_vars, cursorFile' # cursorFile
  PROVE  \E p \in Proc :
           \/ AckWrite(p)
           \/ PollSaveGeneration(p) /\ cursorFile'.cursor = cursorFile.cursor
<1>1. PICK p \in Proc : AckWrite(p) \/ PollSaveGeneration(p)
  BY DEF Next, vars, RoomStep, Post, Recreate, Upgrade, CurlTimeout, DropPending, Launch,
     StartPoll, StartAck, Start, LockStep, PollLock, AckLock, Acquire, ScriptStep, PollStep,
     AckStep, PollPending, PollRead, PollConfigError, PollUnavailable, PollReject, PollPrint,
     PollSavePending, AckRefuse, AckAccept, AckClear, Finish, Crash, fileVars
<1>2. PollSaveGeneration(p) => cursorFile'.cursor = cursorFile.cursor
  BY DEF PollSaveGeneration, IInv, PollView
<1> QED
  BY <1>1, <1>2

(* A step that changes mailbox.cursor learns its generation, or writes the  *)
(* batch last offered.                                                      *)
LEMMA CursorSteps ==
  ASSUME IInv, [Next]_vars, cursorFile' # cursorFile
  PROVE  \/ /\ cursorFile.gen = Null /\ cursorFile'.gen # Null
            /\ cursorFile' = [gen |-> cursorFile'.gen, cursor |-> cursorFile.cursor]
            /\ pendingFile = Null
            /\ UNCHANGED <<pendingFile, offer>>
         \/ /\ offer # Null
            /\ Follows(offer, cursorFile) /\ offer.last > offer.start
            /\ cursorFile' = [gen |-> offer.gen, cursor |-> offer.last]
            /\ UNCHANGED <<pendingFile, offer>>
<1>1. PICK p \in Proc : AckWrite(p) \/ PollSaveGeneration(p)
  BY CursorWriters
<1>2. CASE AckWrite(p)
  BY <1>2 DEF AckWrite, IInv, AckView, OfferStands
<1>3. CASE PollSaveGeneration(p)
  BY <1>3 DEF PollSaveGeneration, IInv, PollView
<1> QED
  BY <1>1, <1>2, <1>3

(* mailbox.cursor never moves back, and a generation once stored stays.     *)
THEOREM CursorIsMonotone == Spec => CursorNeverRegresses
<1>1. ASSUME IInv, [Next]_vars
      PROVE  [/\ cursorFile'.cursor >= cursorFile.cursor
              /\ cursorFile.gen # Null => cursorFile'.gen = cursorFile.gen]_cursorFile
  <2>1. cursorFile.cursor \in Nat
    BY <1>1, ConstantsAssumption DEF IInv, TypeOK, CursorState, Cursors
  <2> QED
    BY <1>1, <2>1, CursorSteps DEF Follows
<1> QED
  BY <1>1, InvariantHolds, PTL DEF Spec, CursorNeverRegresses

(* The cursor moves only to the end of a batch that was offered from where  *)
(* the cursor stood.                                                        *)
THEOREM AdvancesAreOffered == Spec => AdvanceIsOffered
<1>1. ASSUME IInv, [Next]_vars
      PROVE  [cursorFile'.cursor > cursorFile.cursor =>
                /\ offer # Null
                /\ offer.start = cursorFile.cursor
                /\ offer.last = cursorFile'.cursor
                /\ offer.gen = cursorFile'.gen]_cursorFile
  <2>1. cursorFile.cursor \in Nat
    BY <1>1, ConstantsAssumption DEF IInv, TypeOK, CursorState, Cursors
  <2> QED
    BY <1>1, <2>1, CursorSteps DEF Follows
<1> QED
  BY <1>1, InvariantHolds, PTL DEF Spec, AdvanceIsOffered

(* A step that changes mailbox.pending from a marker removes it; one that   *)
(* creates a marker offers a batch that follows the cursor.                 *)
LEMMA PendingSteps ==
  ASSUME IInv, [Next]_vars, pendingFile' # pendingFile
  PROVE  /\ UNCHANGED cursorFile
         /\ \/ pendingFile' = Null /\ UNCHANGED offer
            \/ /\ pendingFile = Null
               /\ offer' # Null
               /\ Follows(offer', cursorFile) /\ offer'.last > offer'.start
<1>1. \/ DropPending
      \/ \E p \in Proc : AckClear(p) \/ PollSavePending(p)
  BY DEF Next, vars, RoomStep, Post, Recreate, Upgrade, CurlTimeout, Launch,
     StartPoll, StartAck, Start, LockStep, PollLock, AckLock, Acquire, ScriptStep, PollStep,
     AckStep, PollPending, PollRead, PollConfigError, PollUnavailable, PollReject, PollPrint,
     PollSaveGeneration, AckRefuse, AckAccept, AckWrite, Finish, Crash, fileVars
<1>2. CASE DropPending
  BY <1>2 DEF DropPending
<1>3. ASSUME NEW p \in Proc, AckClear(p)
      PROVE  UNCHANGED cursorFile /\ pendingFile' = Null /\ UNCHANGED offer
  BY <1>3 DEF AckClear
<1>4. ASSUME NEW p \in Proc, PollSavePending(p)
      PROVE  /\ UNCHANGED cursorFile
             /\ pendingFile = Null
             /\ offer' # Null
             /\ Follows(offer', cursorFile) /\ offer'.last > offer'.start
  BY <1>4 DEF PollSavePending, IInv, PollView, Follows
<1> QED
  BY <1>1, <1>2, <1>3, <1>4

(* A pending marker is removed, never replaced by that of another batch.    *)
THEOREM MarkersAreNotReplaced == Spec => PendingNeverReplaced
<1>1. ASSUME IInv, [Next]_vars
      PROVE  [pendingFile # Null => pendingFile' = Null]_pendingFile
  BY <1>1, PendingSteps
<1> QED
  BY <1>1, InvariantHolds, PTL DEF Spec, PendingNeverReplaced

(* The offer changes only together with the marker.                         *)
LEMMA OfferSteps ==
  ASSUME IInv, [Next]_vars, offer' # offer
  PROVE  pendingFile' # pendingFile
<1>1. PICK p \in Proc : PollSavePending(p)
  BY DEF Next, vars, RoomStep, Post, Recreate, Upgrade, CurlTimeout, DropPending, Launch,
     StartPoll, StartAck, Start, LockStep, PollLock, AckLock, Acquire, ScriptStep, PollStep,
     AckStep, PollPending, PollRead, PollConfigError, PollUnavailable, PollReject, PollPrint,
     PollSaveGeneration, AckRefuse, AckAccept, AckWrite, AckClear, Finish, Crash, fileVars
<1>2. page[p] \in Batch /\ pendingFile = Null
  BY <1>1 DEF PollSavePending, IInv, TypeOK, PollView
<1>3. pendingFile' = [gen |-> page[p].gen, cursor |-> page[p].last]
  BY <1>1 DEF PollSavePending
<1>4. pendingFile' \in CursorState
  BY <1>2, <1>3 DEF Batch, CursorState
<1> QED
  BY <1>2, <1>4, NullAssumption

(* The scripts implement the ledger: every step of theirs is a step of      *)
(* MailboxLedger or leaves its variables alone.                             *)
THEOREM ScriptsImplementLedger == Spec => ImplementsLedger
<1>1. Init => Ledger!LedgerInit
  <2> SUFFICES ASSUME Init PROVE Ledger!LedgerInit
    OBVIOUS
  <2>1. 0 .. room.head \subseteq Nat
    OBVIOUS
  <2> QED
    BY <2>1 DEF Init, Ledger!LedgerInit
<1>2. ASSUME IInv, [Next]_vars
      PROVE  [Ledger!LedgerNext]_(Ledger!ledgerVars)
  <2>1. CASE cursorFile' # cursorFile
    BY <1>2, <2>1, CursorSteps
    DEF Ledger!LedgerNext, Ledger!Bind, Ledger!Advance, Follows
  <2>2. CASE cursorFile' = cursorFile /\ pendingFile' # pendingFile
    BY <1>2, <2>2, PendingSteps
    DEF Ledger!LedgerNext, Ledger!Offer, Ledger!Offerable, Ledger!Release, Follows
  <2>3. CASE cursorFile' = cursorFile /\ pendingFile' = pendingFile
    BY <1>2, <2>3, OfferSteps DEF Ledger!ledgerVars
  <2> QED
    BY <2>1, <2>2, <2>3
<1> QED
  BY <1>1, <1>2, InvariantHolds, PTL DEF Spec, ImplementsLedger, Ledger!LedgerSpec
-----------------------------------------------------------------------------
(* No message is passed over.  What IInv leaves out: where the generations  *)
(* on disk come from, and that a page holds everything up to its end.       *)

(* A stored generation g was reported, by the room there is or an earlier   *)
(* one.  While the room there is has had no message, an answer of its       *)
(* generation either echoes the cursor or ends at the room's head.          *)
Known(r, g, last) ==
  g # Null =>
    /\ r.reports
    /\ g <= r.gen
    /\ g = r.gen /\ r.low > r.head /\ ~r.echo => last >= r.head

RoomView ==
  /\ room.low <= room.head + 1
  /\ Known(room, cursorFile.gen, cursorFile.cursor)
  /\ \A p \in Proc : page[p] # Null => Known(room, page[p].gen, page[p].last)
  /\ offer # Null => Known(room, offer.gen, offer.last)

(* A batch that would advance a positive cursor of a known generation holds *)
(* every message in between.                                                *)
Covers(b) ==
  (/\ cursorFile.gen # Null
   /\ cursorFile.cursor > 0
   /\ b.start = cursorFile.cursor
   /\ b.last > b.start)
  => (b.start + 1) .. b.last \subseteq b.seqs

CoverView ==
  /\ \A p \in Proc : pc[p] = "pSave" => Covers(page[p])
  /\ pendingFile # Null => Covers(offer)
  /\ \A p \in Proc : pc[p] = "aWrite" => Covers(offer)

CoverInv == IInv /\ RoomView /\ CoverView

(* The room's own steps leave what is known of it true.                     *)
LEMMA RoomMoves ==
  ASSUME TypeOK, RoomView, RoomStep
  PROVE  /\ room'.low <= room'.head + 1
         /\ \A g \in Generations, last \in Cursors :
              Known(room, g, last) => Known(room', g, last)
<1>1. /\ room \in Room
      /\ room.low \in Nat /\ room.head \in Nat /\ room.gen \in Nat
      /\ room.low <= room.head + 1
      /\ \A g \in Generations : g # Null => g \in Nat
      /\ \A last \in Cursors : last \in Nat
  BY ConstantsAssumption DEF TypeOK, Room, RoomView, Cursors, Generations
<1>2. CASE Post
  <2> DEFINE kept == Retain(room.head + 1)
             low  == IF kept > room.low THEN kept ELSE room.low
  <2>1. kept \in Nat /\ kept <= room.head + 1
    BY <1>1, ConstantsAssumption DEF Retain
  <2>2. low \in Nat /\ low <= room.head + 1
    BY <1>1, <2>1
  <2>3. room' = [room EXCEPT !.head = room.head + 1, !.low = low]
    BY <1>2 DEF Post
  <2>4. /\ room'.head = room.head + 1 /\ room'.low = low
        /\ room'.gen = room.gen /\ room'.reports = room.reports
    BY <1>1, <2>3 DEF Room
  <2> HIDE DEF low
  <2> QED
    BY <1>1, <2>2, <2>4 DEF Known
<1>3. CASE Recreate
  <2>1. /\ room'.head = room.head /\ room'.low = room.head + 1
        /\ room'.gen = room.gen + 1 /\ room'.reports = room.reports
    BY <1>1, <1>3 DEF Recreate, Room
  <2> QED
    BY <1>1, <2>1 DEF Known
<1>4. CASE Upgrade
  <2>1. /\ room'.head = room.head /\ room'.low = room.low /\ room'.echo = room.echo
        /\ room'.gen = room.gen /\ room'.reports = TRUE
    BY <1>1, <1>4 DEF Upgrade, Room
  <2> QED
    BY <1>1, <2>1 DEF Known
<1> QED
  BY <1>2, <1>3, <1>4 DEF RoomStep

(* What an answer says: its generation is the room's, if the server reports *)
(* one; its messages are everything the room retains from the first of them *)
(* to its end; an answer without messages echoes or ends at the head.       *)
LEMMA ResponsesHold ==
  ASSUME room \in Room, NEW c \in Cursors, NEW r \in Responses(c)
  PROVE  /\ r.gen = IF room.reports THEN room.gen ELSE Null
         /\ r.seqs # {} \/ ~room.echo => r.last = room.head
         /\ r.seqs = {} /\ room.echo => r.last = c
         /\ \A s \in r.seqs : s .. room.head \subseteq r.seqs
         /\ \A s \in r.seqs : room.low <= s /\ s <= room.head
         /\ r.seqs = {} => \/ room.low > room.head
                           \/ room.head = 0
                           \/ room.head <= c
<1>1. /\ room.low \in Nat /\ room.head \in Nat /\ c \in Nat
      /\ PageSize \in Nat /\ PageSize > 0
  BY ConstantsAssumption DEF Room, Cursors
<1>2. PICK w \in {c, 0} : \/ r = Answer(TailWindow(w), c)
                          \/ r = [Answer(TailWindow(w), c) EXCEPT !.own = FALSE]
  BY DEF Responses
<1>3. /\ r.gen = IF room.reports THEN room.gen ELSE Null
      /\ r.seqs = TailWindow(w)
      /\ r.last = IF TailWindow(w) # {} \/ ~room.echo THEN room.head ELSE c
  <2>1. ASSUME NEW a, a = Answer(TailWindow(w), c)
        PROVE  /\ [a EXCEPT !.own = FALSE].gen = a.gen
               /\ [a EXCEPT !.own = FALSE].seqs = a.seqs
               /\ [a EXCEPT !.own = FALSE].last = a.last
    BY <2>1 DEF Answer
  <2>2. LET a == Answer(TailWindow(w), c)
        IN  r.gen = a.gen /\ r.seqs = a.seqs /\ r.last = a.last
    BY <1>2, <2>1
  <2> QED
    BY <2>2 DEF Answer
<1>4. ASSUME NEW s \in TailWindow(w)
      PROVE  /\ s .. room.head \subseteq TailWindow(w)
             /\ room.low <= s /\ s <= room.head
  BY <1>1, <1>2, <1>4 DEF TailWindow
<1>5. ASSUME room.low <= room.head, room.head > w
      PROVE  room.head \in TailWindow(w)
  BY <1>1, <1>5 DEF TailWindow
<1>6. TailWindow(w) = {} => room.low > room.head \/ room.head <= w
  BY <1>1, <1>2, <1>5
<1> QED
  BY <1>1, <1>2, <1>3, <1>4, <1>6

(* An accepted answer makes a batch of a known generation that holds every  *)
(* message it would pass.                                                   *)
LEMMA AcceptedCovers ==
  ASSUME TypeOK, RoomView, NEW c \in CursorState, c = cursorFile,
         NEW r \in Responses(c.cursor), Verdict(c, r, TRUE) = 0
  PROVE  /\ Known(room, BatchOf(c, r).gen, BatchOf(c, r).last)
         /\ Covers(BatchOf(c, r))
<1>1. /\ room \in Room /\ c.cursor \in Cursors /\ c.cursor \in Nat
      /\ room.head \in Nat /\ room.low \in Nat /\ room.gen \in Nat /\ room.gen # Null
      /\ c.gen # Null => c.gen \in Nat
  BY ConstantsAssumption DEF TypeOK, Room, CursorState, Cursors, Generations
<1>2. /\ r.gen = IF room.reports THEN room.gen ELSE Null
      /\ r.seqs # {} \/ ~room.echo => r.last = room.head
      /\ r.seqs = {} /\ room.echo => r.last = c.cursor
      /\ \A s \in r.seqs : s .. room.head \subseteq r.seqs
      /\ \A s \in r.seqs : room.low <= s /\ s <= room.head
      /\ r.seqs = {} => \/ room.low > room.head
                        \/ room.head = 0
                        \/ room.head <= c.cursor
  BY <1>1, ResponsesHold
<1>3. /\ r.gen \in Generations /\ r.seqs \in SUBSET Seqs /\ r.last \in Cursors
  BY <1>1, ResponsesType
<1>4. Follows(BatchOf(c, r), c) /\ BatchOf(c, r) \in Batch
  BY <1>3, AcceptedFollows
<1>5. Known(room, c.gen, c.cursor)
  BY DEF RoomView
<1>6. ~GenerationChanged(c.gen, r.gen)
  BY DEF Verdict
<1>7. /\ BatchOf(c, r).gen = IF r.gen # Null THEN r.gen ELSE c.gen
      /\ BatchOf(c, r).start = c.cursor
      /\ BatchOf(c, r).seqs = r.seqs
      /\ BatchOf(c, r).last = r.last
  BY DEF BatchOf, EffectiveGen
<1>8. room.low > room.head => r.seqs = {}
  <2> SUFFICES ASSUME room.low > room.head, NEW s \in r.seqs PROVE FALSE
    OBVIOUS
  <2>1. s \in Nat
    BY <1>3 DEF Seqs
  <2> QED
    BY <1>1, <1>2, <2>1
<1>9. Known(room, BatchOf(c, r).gen, BatchOf(c, r).last)
  BY <1>1, <1>2, <1>5, <1>7, <1>8 DEF Known
<1>10. Covers(BatchOf(c, r))
  <2> SUFFICES ASSUME c.gen # Null, c.cursor > 0, r.last > c.cursor
               PROVE  (c.cursor + 1) .. r.last \subseteq r.seqs
    BY <1>7 DEF Covers
  <2>1. room.reports /\ r.gen = room.gen /\ c.gen = room.gen
    BY <1>1, <1>2, <1>5, <1>6 DEF Known, GenerationChanged
  <2>2. r.seqs # {}
    <3> SUFFICES ASSUME r.seqs = {} PROVE FALSE
      OBVIOUS
    <3>1. ~room.echo /\ r.last = room.head
      BY <1>1, <1>2
    <3>2. room.low > room.head
      BY <1>1, <1>2, <3>1
    <3> QED
      BY <1>1, <1>5, <2>1, <3>1, <3>2 DEF Known
  <2>3. c.cursor + 1 \in r.seqs /\ r.last = room.head
    BY <1>2, <1>4, <1>7, <2>2 DEF Follows
  <2> QED
    BY <1>2, <2>3
<1> QED
  BY <1>9, <1>10

(* Nothing is stored, printed or offered at first, and the cursor of a      *)
(* fresh or legacy file has no generation.                                  *)
LEMMA CoverInit == Init => CoverInv
<1> SUFFICES ASSUME Init PROVE CoverInv
  OBVIOUS
<1>1. IInv
  BY InitInv
<1>2. room.low <= room.head + 1
  <2>1. room.head \in Nat
    BY <1>1, ConstantsAssumption DEF IInv, TypeOK, Room, Cursors
  <2> QED
    BY <2>1, ConstantsAssumption DEF Init, RoomInit, Retain
<1>3. cursorFile.gen = Null
  BY DEF Init
<1> QED
  BY <1>1, <1>2, <1>3 DEF CoverInv, Init, RoomView, Known, CoverView, Covers

(* Every step keeps what is known of the room.                              *)
LEMMA RoomViewNext == IInv /\ RoomView /\ [Next]_vars => RoomView'
<1> SUFFICES ASSUME IInv, RoomView, [Next]_vars
             PROVE  RoomView'
  OBVIOUS
<1> USE DEF RoomView
<1>1. CASE RoomStep
  <2>1. UNCHANGED <<cursorFile, offer, page>>
    BY <1>1 DEF RoomStep, Post, Recreate, Upgrade, fileVars, procVars
  <2>2. /\ cursorFile.gen \in Generations /\ cursorFile.cursor \in Cursors
        /\ offer # Null => offer.gen \in Generations /\ offer.last \in Cursors
        /\ \A p \in Proc : page[p] # Null =>
             page[p].gen \in Generations /\ page[p].last \in Cursors
    BY DEF IInv, TypeOK, CursorState, Batch
  <2> QED
    BY <1>1, <2>1, <2>2, RoomMoves DEF IInv
<1>2. ASSUME UNCHANGED <<room, cursorFile, offer>>,
             \A p \in Proc : page'[p] \in {page[p], Null}
      PROVE  RoomView'
  BY <1>2
<1>3. CASE CurlTimeout \/ DropPending \/ UNCHANGED vars
  BY <1>2, <1>3 DEF CurlTimeout, DropPending, vars, fileVars, procVars
<1>4. ASSUME NEW p \in Proc,
             \/ Launch(p) \/ LockStep(p) \/ Crash(p)
             \/ PollPending(p) \/ PollRead(p) \/ PollConfigError(p)
             \/ PollUnavailable(p) \/ PollReject(p)
             \/ AckRefuse(p) \/ AckAccept(p) \/ AckClear(p) \/ Finish(p)
      PROVE  RoomView'
  <2>1. UNCHANGED <<room, cursorFile, offer>>
    BY <1>4 DEF Launch, StartPoll, StartAck, Start, LockStep, PollLock, AckLock, Acquire, Crash,
       PollPending, PollRead, PollConfigError, PollUnavailable, PollReject, AckRefuse,
       AckAccept, AckClear, Finish, fileVars
  <2>2. page' = page \/ page' = [page EXCEPT ![p] = Null]
    BY <1>4 DEF Launch, StartPoll, StartAck, Start, LockStep, PollLock, AckLock, Acquire, Crash,
       PollPending, PollRead, PollConfigError, PollUnavailable, PollReject, AckRefuse,
       AckAccept, AckClear, Finish, fileVars
  <2>3. \A q \in Proc : page'[q] \in {page[q], Null}
    BY <2>2 DEF IInv, TypeOK
  <2> QED
    BY <1>2, <2>1, <2>3
<1>5. ASSUME NEW p \in Proc, PollPrint(p)
      PROVE  RoomView'
  <2>1. PICK r \in Responses(reg[p].cursor) :
          /\ Verdict(reg[p], r, TRUE) = 0
          /\ page' = [page EXCEPT ![p] = BatchOf(reg[p], r)]
    BY <1>5 DEF PollPrint
  <2>2. reg[p] = cursorFile /\ reg[p] \in CursorState /\ TypeOK
    BY <1>5 DEF PollPrint, IInv, PollView, TypeOK
  <2>3. Known(room, BatchOf(reg[p], r).gen, BatchOf(reg[p], r).last)
    BY <2>1, <2>2, AcceptedCovers
  <2>4. UNCHANGED <<room, cursorFile, offer>>
    BY <1>5 DEF PollPrint, fileVars
  <2>5. \A q \in Proc : page'[q] = IF q = p THEN BatchOf(reg[p], r) ELSE page[q]
    BY <2>1 DEF IInv, TypeOK
  <2> QED
    BY <2>3, <2>4, <2>5
<1>6. ASSUME NEW p \in Proc, PollSavePending(p)
      PROVE  RoomView'
  BY <1>6 DEF PollSavePending
<1>7. ASSUME NEW p \in Proc, PollSaveGeneration(p)
      PROVE  RoomView'
  <2>1. /\ page[p] # Null /\ page[p] \in Batch /\ reg[p] = cursorFile
        /\ page[p].last <= cursorFile.cursor
    BY <1>7 DEF PollSaveGeneration, IInv, TypeOK, PollView
  <2>2. page[p].last \in Nat /\ cursorFile.cursor \in Nat /\ room.head \in Nat
    BY <2>1, ConstantsAssumption DEF IInv, TypeOK, Batch, CursorState, Room, Cursors
  <2>3. Known(room, page[p].gen, cursorFile.cursor)
    BY <2>1, <2>2 DEF Known
  <2>4. \/ cursorFile' = cursorFile
        \/ cursorFile' = [gen |-> page[p].gen, cursor |-> cursorFile.cursor]
    BY <1>7, <2>1 DEF PollSaveGeneration
  <2>5. Known(room, cursorFile'.gen, cursorFile'.cursor)
    BY <2>3, <2>4
  <2> QED
    BY <1>7, <2>5 DEF PollSaveGeneration
<1>8. ASSUME NEW p \in Proc, AckWrite(p)
      PROVE  RoomView'
  <2>1. offer # Null /\ cursorFile' = [gen |-> offer.gen, cursor |-> offer.last]
    BY <1>8 DEF AckWrite, IInv, AckView
  <2> QED
    BY <1>8, <2>1 DEF AckWrite
<1> QED
  BY <1>1, <1>3, <1>4, <1>5, <1>6, <1>7, <1>8 DEF Next, ScriptStep, PollStep, AckStep

(* Every step keeps the batch on its way to the cursor complete.            *)
LEMMA CoverViewNext == CoverInv /\ [Next]_vars => CoverView'
<1> SUFFICES ASSUME CoverInv, [Next]_vars
             PROVE  CoverView'
  OBVIOUS
<1> USE DEF CoverInv
<1>1. ASSUME UNCHANGED <<cursorFile, offer>>,
             pendingFile' \in {pendingFile, Null},
             \A q \in Proc : pc'[q] \in {"pSave", "aWrite"} =>
               pc'[q] = pc[q] /\ page'[q] = page[q]
      PROVE  CoverView'
  BY <1>1 DEF CoverView, Covers
<1>2. CASE RoomStep \/ CurlTimeout \/ DropPending \/ UNCHANGED vars
  BY <1>1, <1>2 DEF RoomStep, Post, Recreate, Upgrade, CurlTimeout, DropPending, vars,
     fileVars, procVars
<1>3. ASSUME NEW p \in Proc,
             \/ Launch(p) \/ LockStep(p) \/ Crash(p)
             \/ PollPending(p) \/ PollRead(p) \/ PollConfigError(p)
             \/ PollUnavailable(p) \/ PollReject(p)
             \/ AckRefuse(p) \/ AckClear(p) \/ Finish(p)
      PROVE  CoverView'
  <2>1. UNCHANGED <<cursorFile, offer>> /\ pendingFile' \in {pendingFile, Null}
    BY <1>3 DEF Launch, StartPoll, StartAck, Start, LockStep, PollLock, AckLock, Acquire, Crash,
       PollPending, PollRead, PollConfigError, PollUnavailable, PollReject, AckRefuse,
       AckClear, Finish, fileVars
  <2>2. \E l \in Pcs \ {"pSave", "aWrite"} : Goto(p, l)
    BY <1>3 DEF Launch, StartPoll, StartAck, Start, LockStep, PollLock, AckLock, Acquire, Crash,
       PollPending, PollRead, PollConfigError, PollUnavailable, PollReject, AckRefuse,
       AckClear, Finish, Exit, Pcs, CriticalPcs, PollPcs, AckPcs
  <2>3. page' = page \/ page' = [page EXCEPT ![p] = Null]
    BY <1>3 DEF Launch, StartPoll, StartAck, Start, LockStep, PollLock, AckLock, Acquire, Crash,
       PollPending, PollRead, PollConfigError, PollUnavailable, PollReject, AckRefuse,
       AckClear, Finish, fileVars
  <2>4. \A q \in Proc : pc'[q] \in {"pSave", "aWrite"} => pc'[q] = pc[q] /\ page'[q] = page[q]
    BY <2>2, <2>3 DEF Goto, IInv, TypeOK
  <2> QED
    BY <1>1, <2>1, <2>4
<1>4. ASSUME NEW p \in Proc, PollPrint(p)
      PROVE  CoverView'
  <2>1. PICK r \in Responses(reg[p].cursor) :
          /\ Verdict(reg[p], r, TRUE) = 0
          /\ page' = [page EXCEPT ![p] = BatchOf(reg[p], r)]
    BY <1>4 DEF PollPrint
  <2>2. /\ reg[p] = cursorFile /\ reg[p] \in CursorState /\ TypeOK /\ pendingFile = Null
        /\ Critical(p)
    BY <1>4 DEF PollPrint, IInv, PollView, TypeOK, Critical, CriticalPcs, PollPcs
  <2>3. Covers(BatchOf(reg[p], r))
    BY <2>1, <2>2, AcceptedCovers
  <2>4. UNCHANGED <<cursorFile, pendingFile, offer>>
    BY <1>4 DEF PollPrint, fileVars
  <2>5. /\ page'[p] = BatchOf(reg[p], r)
        /\ pc'[p] = "pSave"
        /\ \A q \in Proc \ {p} : pc'[q] \notin CriticalPcs
    BY <1>4, <2>1, <2>2, InsidePreserves DEF PollPrint, IInv, TypeOK, CriticalPcs, PollPcs
  <2> QED
    BY <2>2, <2>3, <2>4, <2>5 DEF CoverView, Covers, CriticalPcs, PollPcs, AckPcs
<1>5. ASSUME NEW p \in Proc, NEW l \in CriticalPcs \ {"pSave", "aWrite"}, Goto(p, l),
             Critical(p), UNCHANGED lock,
             pendingFile' # Null => Covers(offer)'
      PROVE  CoverView'
  <2>1. /\ pc'[p] = l
        /\ \A q \in Proc \ {p} : pc'[q] \notin CriticalPcs
    BY <1>5, InsidePreserves
  <2> QED
    BY <1>5, <2>1 DEF CoverView, CriticalPcs, PollPcs, AckPcs
<1>6. ASSUME NEW p \in Proc, PollSavePending(p)
      PROVE  CoverView'
  <2>1. offer' = page[p] /\ UNCHANGED <<cursorFile, lock>> /\ Goto(p, "end") /\ Critical(p)
    BY <1>6 DEF PollSavePending, Critical, CriticalPcs, PollPcs
  <2>2. Covers(page[p])
    BY <1>6 DEF PollSavePending, CoverView
  <2>3. Covers(offer)'
    BY <2>1, <2>2 DEF Covers
  <2> QED
    BY <1>5, <2>1, <2>3 DEF CriticalPcs
<1>7. ASSUME NEW p \in Proc, PollSaveGeneration(p)
      PROVE  CoverView'
  <2>1. pendingFile' = Null /\ UNCHANGED lock /\ Goto(p, "end") /\ Critical(p)
    BY <1>7 DEF PollSaveGeneration, IInv, PollView, Critical, CriticalPcs, PollPcs
  <2> QED
    BY <1>5, <2>1 DEF CriticalPcs
<1>8. ASSUME NEW p \in Proc, AckAccept(p)
      PROVE  CoverView'
  <2>1. Covers(offer) /\ UNCHANGED <<cursorFile, offer>>
    BY <1>8 DEF AckAccept, AckAccepts, CoverView, fileVars
  <2>2. /\ pc'[p] = "aWrite"
        /\ \A q \in Proc \ {p} : pc'[q] \notin CriticalPcs
    BY <1>8, InsidePreserves DEF AckAccept, Critical, CriticalPcs, AckPcs
  <2>3. Covers(offer)'
    BY <2>1 DEF Covers
  <2> QED
    BY <2>2, <2>3 DEF CoverView, CriticalPcs, PollPcs
<1>9. ASSUME NEW p \in Proc, AckWrite(p)
      PROVE  CoverView'
  <2>1. /\ cursorFile' = [gen |-> offer.gen, cursor |-> offer.last]
        /\ offer # Null /\ offer.last > offer.start
        /\ UNCHANGED <<offer, lock>> /\ Goto(p, "aClear") /\ Critical(p)
    BY <1>9 DEF AckWrite, IInv, AckView, OfferStands, Critical, CriticalPcs, AckPcs
  <2>2. offer.last \in Nat /\ offer.start \in Nat
    BY <2>1, ConstantsAssumption DEF IInv, TypeOK, Batch, Cursors
  <2>3. Covers(offer)'
    BY <2>1, <2>2 DEF Covers
  <2> QED
    BY <1>5, <2>1, <2>3 DEF CriticalPcs, AckPcs
<1> QED
  BY <1>2, <1>3, <1>4, <1>6, <1>7, <1>8, <1>9 DEF Next, ScriptStep, PollStep, AckStep

(* No message is passed over: a positive cursor of a known generation only  *)
(* advances over a batch that holds every sequence number in between,       *)
(* however the room evicts, is recreated, echoes cursors or ignores since,  *)
(* and whatever the interleaving of pollers, acknowledgements and kills.    *)
THEOREM AdvancesCoverTheirRange == Spec => AdvanceCoversRange
<1>1. CoverInv /\ [Next]_vars => CoverInv'
  BY NextInv, RoomViewNext, CoverViewNext DEF CoverInv
<1>2. ASSUME CoverInv, [Next]_vars
      PROVE  [(/\ cursorFile'.cursor > cursorFile.cursor
               /\ cursorFile.cursor > 0
               /\ cursorFile.gen # Null)
              => (cursorFile.cursor + 1) .. cursorFile'.cursor \subseteq offer.seqs]_cursorFile
  <2> SUFFICES ASSUME cursorFile'.cursor > cursorFile.cursor,
                      cursorFile.cursor > 0, cursorFile.gen # Null
               PROVE  (cursorFile.cursor + 1) .. cursorFile'.cursor \subseteq offer.seqs
    OBVIOUS
  <2>1. cursorFile' # cursorFile /\ cursorFile.cursor \in Nat
    BY <1>2, ConstantsAssumption DEF CoverInv, IInv, TypeOK, CursorState, Cursors
  <2>2. PICK p \in Proc : AckWrite(p)
    BY <1>2, <2>1, CursorWriters DEF CoverInv
  <2>3. /\ cursorFile' = [gen |-> offer.gen, cursor |-> offer.last]
        /\ Follows(offer, cursorFile) /\ offer.last > offer.start
    BY <1>2, <2>1, CursorSteps DEF CoverInv
  <2>4. Covers(offer)
    BY <1>2, <2>2 DEF CoverInv, CoverView, AckWrite
  <2> QED
    BY <2>3, <2>4 DEF Covers, Follows
<1> QED
  BY <1>1, <1>2, CoverInit, PTL DEF Spec, AdvanceCoversRange
=============================================================================
