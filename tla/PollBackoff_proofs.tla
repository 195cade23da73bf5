------------------------- MODULE PollBackoff_proofs -------------------------
(***************************************************************************)
(* Proofs about PollBackoff: any number of retry loops and acknowledgers on *)
(* one state directory, for every schedule, with kills of loops and polls.  *)
(***************************************************************************)
EXTENDS PollBackoff, Mailbox_proofs, FiniteSetTheorems

(* Places of a process in a poll that has not printed, and in any poll.     *)
Unprinted == {"pLock", "pCheck", "pHttp"}
Polling   == Unprinted \cup {"pSave", "end"}

LoopTypes ==
  /\ DOMAIN loop = Proc /\ DOMAIN attempt = Proc /\ DOMAIN printed = Proc
  /\ DOMAIN result = Proc
  /\ \A p \in Proc : attempt[p] \in 1 .. MaxAttempts /\ printed[p] \in 0 .. 1

(* The last offer starts where the cursor stands, or further back.          *)
OfferReached == offer # Null => offer.start <= cursorFile.cursor

(* The marker once written for page b stood for it, and no later one for a  *)
(* batch further back; an empty page needs none.                            *)
Marked(b) == b.last = b.start \/ (offer # Null /\ offer.start >= b.start)

(* Between two polls a loop has printed nothing; a poll that a loop waits   *)
(* for runs or has ended, transient only without having printed.            *)
LoopView(p) ==
  /\ pc[p] \in Unprinted => printed[p] = 0 /\ page[p] = Null
  /\ loop[p] \in {"poll", "sleep"} => Idle(p) /\ printed[p] = 0
  /\ loop[p] = "sleep" => attempt[p] < MaxAttempts
  /\ loop[p] # "none" => pc[p] \in Polling \cup {"idle"} /\ result[p] = Null
  /\ loop[p] = "polling" /\ Idle(p) /\ status[p] = 75 => printed[p] = 0
  /\ loop[p] = "polling" /\ pc[p] \in {"end", "idle"} /\ page[p] # Null => Marked(page[p])

LoopInv == IInv /\ LoopTypes /\ OfferReached /\ \A p \in Proc : LoopView(p)

-----------------------------------------------------------------------------
(* A step around the loops is a step of the scripts or leaves them alone.   *)
LEMMA LoopStepIsScriptStep ==
  ASSUME [BackoffNext]_backoffVars
  PROVE  [Next]_vars
<1>1. CASE Elsewhere
  BY <1>1 DEF Elsewhere, Next
<1>2. ASSUME NEW p \in Proc, Onward(p) \/ Acknowledge(p) \/ KillPoll(p)
      PROVE  [Next]_vars
  BY <1>2 DEF Onward, Acknowledge, KillPoll, Next, Launch
<1>3. ASSUME NEW p \in Looper, StartLoop(p) \/ LoopStep(p) \/ KillLoop(p)
      PROVE  [Next]_vars
  <2>1. p \in Proc
    BY BackoffAssumption
  <2>2. CASE Attempt(p)
    BY <2>1, <2>2 DEF Attempt, Next, Launch
  <2> QED
    BY <1>3, <2>2 DEF StartLoop, LoopStep, Conclude, Sleep, Wake, KillLoop
<1>4. CASE UNCHANGED backoffVars
  BY <1>4 DEF backoffVars, vars
<1> QED
  BY <1>1, <1>2, <1>3, <1>4 DEF BackoffNext

(* Offers move forward with the cursor, so what is marked stays marked.     *)
LEMMA MarksStand ==
  ASSUME IInv, OfferReached, [Next]_vars
  PROVE  OfferReached' /\ \A b \in Batch : Marked(b) => Marked(b)'
<1>1. IInv'
  BY NextInv
<1>2. /\ cursorFile.cursor \in Nat /\ cursorFile'.cursor \in Nat
      /\ offer # Null => offer.start \in Nat /\ offer.last \in Nat
      /\ offer' # Null => offer'.start \in Nat
  BY <1>1, ConstantsAssumption DEF IInv, TypeOK, CursorState, Cursors, Batch
<1>3. ASSUME NEW b \in Batch
      PROVE  b.start \in Nat /\ b.last \in Nat
  BY ConstantsAssumption DEF Batch, Cursors
<1>4. CASE offer' = offer
  <2>1. cursorFile'.cursor >= cursorFile.cursor
    BY <1>2, CursorSteps DEF Follows
  <2> QED
    BY <1>2, <1>4, <2>1 DEF OfferReached, Marked
<1>5. CASE offer' # offer
  <2>1. /\ cursorFile' = cursorFile
        /\ offer' # Null /\ Follows(offer', cursorFile)
    BY <1>5, OfferSteps, PendingSteps
  <2>2. offer'.start = cursorFile.cursor
    BY <2>1 DEF Follows
  <2> QED
    BY <1>2, <1>3, <2>1, <2>2 DEF OfferReached, Marked
<1> QED
  BY <1>4, <1>5

(* A process that does not move keeps its view.                             *)
LEMMA BystanderKeeps ==
  ASSUME LoopInv, \A b \in Batch : Marked(b) => Marked(b)', NEW q \in Proc,
         pc'[q] = pc[q], page'[q] = page[q], status'[q] = status[q],
         loop'[q] = loop[q], attempt'[q] = attempt[q], printed'[q] = printed[q],
         result'[q] = result[q]
  PROVE  LoopView(q)'
<1>1. page[q] \in Batch \cup {Null}
  BY DEF LoopInv, IInv, TypeOK
<1>2. page[q] # Null /\ Marked(page[q]) => Marked(page[q])'
  BY <1>1 DEF Marked
<1>3. LoopView(q)
  BY DEF LoopInv
<1> QED
  BY <1>2, <1>3 DEF LoopView, Idle

(* What a step of a script does to its process: it takes a poll to its      *)
(* request or ends it there, prints, marks, ends, or acknowledges.          *)
LEMMA ScriptMoves ==
  ASSUME IInv, NEW p \in Proc, LockStep(p) \/ ScriptStep(p)
  PROVE  /\ \A q \in Proc \ {p} :
              pc'[q] = pc[q] /\ page'[q] = page[q] /\ status'[q] = status[q]
         /\ \/ pc[p] \in Unprinted /\ pc'[p] \in Unprinted \cup {"idle"} /\ page' = page
            \/ /\ pc[p] = "pHttp" /\ pc'[p] = "pSave"
               /\ page'[p] # Null
            \/ pc[p] = "pSave" /\ pc'[p] = "end" /\ page' = page /\ Marked(page[p])'
            \/ pc[p] = "end" /\ pc'[p] = "idle" /\ page' = page /\ status'[p] = 0
            \/ pc[p] \notin Polling \cup {"idle"} /\ pc'[p] \notin Unprinted /\ page' = page
<1> USE DEF Unprinted, Polling
<1>1. /\ DOMAIN pc = Proc /\ DOMAIN page = Proc /\ DOMAIN status = Proc
      /\ page[p] \in Batch \cup {Null}
  BY DEF IInv, TypeOK
<1>2. CASE LockStep(p) \/ PollRead(p)
  BY <1>1, <1>2 DEF LockStep, PollLock, AckLock, Acquire, PollRead, Goto
<1>3. CASE PollPending(p) \/ PollConfigError(p) \/ PollUnavailable(p) \/ PollReject(p)
  BY <1>1, <1>3 DEF PollPending, PollConfigError, PollUnavailable, PollReject, Exit, Goto
<1>4. CASE PollPrint(p)
  <2>1. PICK r \in Responses(reg[p].cursor) : page' = [page EXCEPT ![p] = BatchOf(reg[p], r)]
    BY <1>4 DEF PollPrint
  <2>2. page'[p] # Null
    <3>1. [Next]_vars
      BY <1>4 DEF Next, ScriptStep, PollStep
    <3>2. PollView'
      BY <3>1, NextInv DEF IInv
    <3>3. pc'[p] = "pSave"
      BY <1>1, <1>4 DEF PollPrint, Goto
    <3> QED
      BY <3>2, <3>3 DEF PollView
  <2> QED
    BY <1>1, <1>4, <2>1, <2>2 DEF PollPrint, Goto
<1>5. CASE PollSavePending(p)
  <2>1. offer' = page[p] /\ page[p] # Null /\ page[p].start \in Nat
    BY <1>1, <1>5, ConstantsAssumption DEF PollSavePending, IInv, PollView, Batch, Cursors
  <2>2. Marked(page[p])'
    BY <1>5, <2>1 DEF Marked, PollSavePending
  <2> QED
    BY <1>1, <1>5, <2>2 DEF PollSavePending, Goto
<1>6. CASE PollSaveGeneration(p)
  <2>1. /\ page[p] # Null /\ Follows(page[p], cursorFile) /\ reg[p] = cursorFile
        /\ page[p].start \in Nat /\ page[p].last \in Nat
    BY <1>1, <1>6, ConstantsAssumption DEF PollSaveGeneration, IInv, PollView, Batch, Cursors
  <2>2. page[p].last = page[p].start
    BY <1>6, <2>1 DEF PollSaveGeneration, Follows
  <2> QED
    BY <1>1, <1>6, <2>2 DEF PollSaveGeneration, Goto, Marked
<1>7. CASE AckStep(p)
  BY <1>1, <1>7 DEF AckStep, AckRefuse, AckAccept, AckWrite, AckClear, Exit, Goto
<1>8. CASE Finish(p)
  BY <1>1, <1>8 DEF Finish, Exit, Goto
<1> QED
  BY <1>2, <1>3, <1>4, <1>5, <1>6, <1>7, <1>8 DEF ScriptStep, PollStep

(* All loops start with their first attempt and nothing printed.            *)
LEMMA LoopInitInv == BackoffInit => LoopInv
<1> SUFFICES ASSUME BackoffInit PROVE LoopInv
  OBVIOUS
<1>1. IInv
  BY InitInv DEF BackoffInit
<1>2. LoopTypes /\ OfferReached
  BY BackoffAssumption DEF BackoffInit, Init, LoopTypes, OfferReached
<1>3. \A p \in Proc : LoopView(p)
  BY DEF BackoffInit, Init, LoopView, Idle, Unprinted, Polling
<1> QED
  BY <1>1, <1>2, <1>3 DEF LoopInv

(* Every step keeps the invariant: of the process that moves, and of the    *)
(* others, which only see the offers move forward.                          *)
LEMMA LoopNextInv == LoopInv /\ [BackoffNext]_backoffVars => LoopInv'
<1> SUFFICES ASSUME LoopInv, [BackoffNext]_backoffVars
             PROVE  LoopInv'
  OBVIOUS
<1>1. [Next]_vars
  BY LoopStepIsScriptStep
<1>2. IInv' /\ OfferReached' /\ \A b \in Batch : Marked(b) => Marked(b)'
  BY <1>1, NextInv, MarksStand DEF LoopInv
<1>3. /\ DOMAIN pc = Proc /\ DOMAIN page = Proc /\ DOMAIN status = Proc
      /\ \A q \in Proc : page[q] \in Batch \cup {Null}
  BY DEF LoopInv, IInv, TypeOK
<1>4. LoopTypes /\ \A q \in Proc : LoopView(q)
  BY DEF LoopInv
<1>5. ASSUME NEW p \in Proc, LoopTypes', LoopView(p)',
             \A q \in Proc \ {p} :
               /\ pc'[q] = pc[q] /\ page'[q] = page[q] /\ status'[q] = status[q]
               /\ loop'[q] = loop[q] /\ attempt'[q] = attempt[q]
               /\ printed'[q] = printed[q] /\ result'[q] = result[q]
      PROVE  LoopInv'
  <2>1. \A q \in Proc \ {p} : LoopView(q)'
    BY <1>2, <1>5, BystanderKeeps
  <2> QED
    BY <1>2, <1>5, <2>1 DEF LoopInv
<1>6. CASE Elsewhere \/ UNCHANGED backoffVars
  <2>1. UNCHANGED <<pc, page, status, loop, attempt, printed, result>>
    BY <1>6 DEF Elsewhere, RoomStep, Post, Recreate, Upgrade, CurlTimeout, DropPending, procVars,
       loopVars, backoffVars
  <2>2. \A q \in Proc : LoopView(q)'
    BY <1>2, <2>1, BystanderKeeps
  <2> QED
    BY <1>2, <1>4, <2>1, <2>2 DEF LoopInv, LoopTypes
<1>7. ASSUME NEW p \in Proc, Onward(p)
      PROVE  LoopInv'
  <2>1. /\ LockStep(p) \/ ScriptStep(p)
        /\ UNCHANGED <<loop, attempt, result>>
        /\ printed' = IF page'[p] # page[p] THEN [printed EXCEPT ![p] = @ + 1] ELSE printed
    BY <1>7 DEF Onward
  <2>2. LoopTypes'
    BY <1>3, <1>4, <2>1, ScriptMoves DEF LoopInv, LoopTypes, LoopView, Unprinted
  <2>3. LoopView(p)'
    <3>1. CASE pc[p] \in Unprinted /\ pc'[p] \in Unprinted \cup {"idle"} /\ page' = page
      BY <1>4, <2>1, <3>1 DEF LoopView, Idle, Unprinted, Polling
    <3>2. CASE pc[p] = "pHttp" /\ pc'[p] = "pSave" /\ page'[p] # Null
      BY <1>4, <2>1, <3>2 DEF LoopView, Idle, Unprinted, Polling
    <3>3. CASE pc[p] = "pSave" /\ pc'[p] = "end" /\ page' = page /\ Marked(page[p])'
      BY <1>4, <2>1, <3>3 DEF LoopView, Idle, Unprinted, Polling
    <3>4. CASE pc[p] = "end" /\ pc'[p] = "idle" /\ page' = page /\ status'[p] = 0
      <4>1. page[p] # Null /\ Marked(page[p]) => Marked(page[p])'
        BY <1>2, <1>3, <3>4 DEF Marked
      <4> QED
        BY <1>4, <2>1, <3>4, <4>1 DEF LoopView, Idle, Unprinted, Polling
    <3>5. CASE pc[p] \notin Polling \cup {"idle"} /\ pc'[p] \notin Unprinted /\ page' = page
      BY <1>4, <2>1, <3>5 DEF LoopView, Idle, Unprinted, Polling
    <3> QED
      BY <2>1, <3>1, <3>2, <3>3, <3>4, <3>5, ScriptMoves DEF LoopInv
  <2>4. \A q \in Proc \ {p} :
          pc'[q] = pc[q] /\ page'[q] = page[q] /\ status'[q] = status[q]
    BY <2>1, ScriptMoves DEF LoopInv
  <2> QED
    BY <1>4, <1>5, <2>1, <2>2, <2>3, <2>4 DEF LoopTypes
<1>8. ASSUME NEW p \in Proc, Acknowledge(p) \/ KillPoll(p)
      PROVE  LoopInv'
  <2>1. UNCHANGED <<loop, attempt, result, printed>>
    BY <1>8 DEF Acknowledge, KillPoll, loopVars
  <2>2. /\ \A q \in Proc \ {p} :
             pc'[q] = pc[q] /\ page'[q] = page[q] /\ status'[q] = status[q]
        /\ page'[p] = Null
        /\ \/ pc'[p] = "aLock" /\ loop[p] = "none"
           \/ pc'[p] = "idle" /\ status'[p] = 137 /\ ~Idle(p)
    BY <1>3, <1>8 DEF Acknowledge, StartAck, Start, KillPoll, Crash, Goto
  <2>3. LoopView(p)'
    BY <1>4, <2>1, <2>2 DEF LoopView, Idle, Unprinted, Polling
  <2> QED
    BY <1>4, <1>5, <2>1, <2>2, <2>3 DEF LoopTypes
<1>9. ASSUME NEW p \in Proc, StartLoop(p) \/ Conclude(p) \/ Sleep(p) \/ Wake(p) \/ KillLoop(p)
      PROVE  LoopInv'
  <2>1. UNCHANGED <<pc, page, status>>
    BY <1>9 DEF StartLoop, Conclude, Sleep, Wake, KillLoop, vars
  <2>2. \A q \in Proc \ {p} :
          /\ loop'[q] = loop[q] /\ attempt'[q] = attempt[q]
          /\ printed'[q] = printed[q] /\ result'[q] = result[q]
    BY <1>4, <1>9 DEF StartLoop, Conclude, Sleep, Wake, KillLoop, LoopGoto, LoopTypes
  <2>3. LoopTypes'
    <3>1. attempt[p] \in 1 .. MaxAttempts /\ (Wake(p) => attempt[p] < MaxAttempts)
      BY <1>4 DEF LoopTypes, LoopView, Wake
    <3> QED
      BY <1>4, <1>9, <3>1, BackoffAssumption
         DEF StartLoop, Conclude, Sleep, Wake, KillLoop, LoopGoto, LoopTypes
  <2>4. LoopView(p)'
    <3>1. CASE StartLoop(p)
      BY <1>4, <2>1, <3>1 DEF StartLoop, LoopGoto, LoopTypes, LoopView, Idle, Unprinted, Polling
    <3>2. CASE Conclude(p) \/ KillLoop(p)
      BY <1>4, <2>1, <3>2 DEF Conclude, KillLoop, LoopGoto, LoopTypes, LoopView, Idle
    <3>3. CASE Sleep(p)
      BY <1>4, <2>1, <3>3 DEF Sleep, Retries, LoopGoto, LoopTypes, LoopView, Idle, Unprinted
    <3>4. CASE Wake(p)
      BY <1>4, <2>1, <3>4 DEF Wake, LoopGoto, LoopTypes, LoopView, Idle, Unprinted
    <3> QED
      BY <1>9, <3>1, <3>2, <3>3, <3>4
  <2> QED
    BY <1>5, <2>1, <2>2, <2>3, <2>4
<1>10. ASSUME NEW p \in Proc, Attempt(p)
       PROVE  LoopInv'
  <2>1. UNCHANGED <<attempt, result, printed>> /\ loop[p] = "poll"
    BY <1>10 DEF Attempt
  <2>2. /\ \A q \in Proc \ {p} :
             /\ pc'[q] = pc[q] /\ page'[q] = page[q] /\ status'[q] = status[q]
             /\ loop'[q] = loop[q]
        /\ pc'[p] = "pLock" /\ page'[p] = Null /\ loop'[p] = "polling"
        /\ DOMAIN loop' = Proc
    BY <1>3, <1>4, <1>10 DEF Attempt, StartPoll, Start, Goto, LoopGoto, LoopTypes
  <2>3. LoopView(p)'
    BY <1>4, <2>1, <2>2 DEF LoopView, Idle, Unprinted, Polling
  <2> QED
    BY <1>4, <1>5, <2>1, <2>2, <2>3 DEF LoopTypes
<1>11. Looper \subseteq Proc
  BY BackoffAssumption
<1> QED
  BY <1>6, <1>7, <1>8, <1>9, <1>10, <1>11 DEF BackoffNext, LoopStep

-----------------------------------------------------------------------------
(* The loops run the scripts and nothing else touches their state, so what  *)
(* Mailbox_proofs shows of any scripts holds of them.                       *)
THEOREM LoopsRunTheScripts == BackoffSpec => Spec /\ []LoopInv
<1>1. BackoffInit => Init
  BY DEF BackoffInit
<1>2. [BackoffNext]_backoffVars => [Next]_vars
  BY LoopStepIsScriptStep
<1> QED
  BY <1>1, <1>2, LoopInitInv, LoopNextInv, PTL DEF BackoffSpec, Spec

(* A loop hands its caller one batch at most, however many polls it makes   *)
(* and whatever is killed.                                                  *)
THEOREM OneBatchIsPrinted == BackoffSpec => []OneBatchPrinted
<1>1. LoopInv => OneBatchPrinted
  <2> SUFFICES ASSUME LoopInv, NEW p \in Proc
               PROVE  printed[p] <= 1
    BY DEF OneBatchPrinted
  <2>1. printed[p] \in 0 .. 1
    BY DEF LoopInv, LoopTypes
  <2> QED
    BY <2>1
<1> QED
  BY <1>1, LoopsRunTheScripts, PTL

(* A loop makes MAX_ATTEMPTS attempts at most.                              *)
THEOREM AttemptsAreBounded ==
  BackoffSpec => [](\A p \in Proc : attempt[p] \in 1 .. MaxAttempts)
<1>1. LoopInv => \A p \in Proc : attempt[p] \in 1 .. MaxAttempts
  BY DEF LoopInv, LoopTypes
<1> QED
  BY <1>1, LoopsRunTheScripts, PTL

(* A loop that reports success on a new batch has had it marked: an offer   *)
(* stands for it, or for a later batch.                                     *)
THEOREM SuccessesAreMarked == BackoffSpec => SuccessIsMarked
<1>1. ASSUME LoopInv, [BackoffNext]_backoffVars, result' # result,
             NEW p \in Proc, loop[p] = "polling", result'[p] = 0, page[p] # Null
      PROVE  Marked(page[p])
  <2>1. result[p] = Null /\ 0 # Null /\ DOMAIN result = Proc /\ loop[p] # "none"
    BY <1>1, ConstantsAssumption DEF LoopInv, LoopTypes, LoopView
  <2>2. Conclude(p)
    BY <1>1, <2>1, BackoffAssumption DEF BackoffNext, backoffVars, Elsewhere, loopVars, StartLoop,
       LoopStep, Attempt, Conclude, Sleep, Wake, KillLoop, KillPoll, Acknowledge, Onward
  <2> QED
    BY <1>1, <2>2 DEF Conclude, Idle, LoopInv, LoopView
<1>2. LoopInv /\ [BackoffNext]_backoffVars
        => [\A p \in Proc :
              (loop[p] = "polling" /\ result'[p] = 0 /\ page[p] # Null)
              => \/ page[p].last = page[p].start
                 \/ offer # Null /\ (offer = page[p] \/ offer.start >= page[p].start)]_result
  BY <1>1 DEF Marked
<1> QED
  BY <1>2, LoopsRunTheScripts, PTL DEF BackoffSpec, SuccessIsMarked

-----------------------------------------------------------------------------
(* The delays                                                               *)

(* Powers of two, from the number of subsets.                               *)
LEMMA PowerDoubles ==
  ASSUME NEW n \in Nat
  PROVE  2 ^ n \in Nat /\ 2 ^ (n + 1) = 2 * 2 ^ n
<1> DEFINE S == 1 .. n
           T == 1 .. (n + 1)
           With == {A \cup {n + 1} : A \in SUBSET S}
           Add == [A \in SUBSET S |-> A \cup {n + 1}]
<1>1. /\ IsFiniteSet(S) /\ Cardinality(S) = n
      /\ IsFiniteSet(T) /\ Cardinality(T) = n + 1
  BY FS_Interval
<1>2. /\ IsFiniteSet(SUBSET S) /\ Cardinality(SUBSET S) = 2 ^ n
      /\ Cardinality(SUBSET T) = 2 ^ (n + 1)
  <2>1. 2 ^ Cardinality(S) = 2 ^ n /\ 2 ^ Cardinality(T) = 2 ^ (n + 1)
    BY <1>1
  <2> QED
    BY <1>1, <2>1, FS_SUBSET
<1>3. IsFiniteSet(With) /\ Cardinality(With) = Cardinality(SUBSET S)
  <2>1. Add \in Bijection(SUBSET S, With)
    <3>1. Add \in [SUBSET S -> With] /\ \A B \in With : \E A \in SUBSET S : Add[A] = B
      OBVIOUS
    <3>2. ASSUME NEW A \in SUBSET S, NEW B \in SUBSET S, Add[A] = Add[B]
          PROVE  A = B
      <4>1. n + 1 \notin A /\ n + 1 \notin B /\ A \cup {n + 1} = B \cup {n + 1}
        BY <3>2
      <4> QED
        BY <4>1
    <3> QED
      BY <3>1, <3>2 DEF Bijection, Injection, Surjection, IsInjective
  <2> QED
    BY <1>2, <2>1, FS_Bijection DEF ExistsBijection
<1>4. SUBSET T = (SUBSET S) \cup With /\ (SUBSET S) \cap With = {}
  <2>1. T = S \cup {n + 1} /\ n + 1 \notin S
    OBVIOUS
  <2>2. ASSUME NEW B \in SUBSET T PROVE B \in (SUBSET S) \cup With
    <3>1. CASE n + 1 \notin B
      BY <2>1, <2>2, <3>1
    <3>2. CASE n + 1 \in B
      <4>1. B \ {n + 1} \in SUBSET S /\ B = (B \ {n + 1}) \cup {n + 1}
        BY <2>1, <2>2, <3>2
      <4> QED
        BY <4>1
    <3> QED
      BY <3>1, <3>2
  <2>3. ASSUME NEW B \in With PROVE B \in SUBSET T /\ B \notin SUBSET S
    <3>1. PICK A \in SUBSET S : B = A \cup {n + 1}
      BY <2>3
    <3> QED
      BY <2>1, <3>1
  <2>4. SUBSET S \subseteq SUBSET T
    BY <2>1
  <2> HIDE DEF S, T, With
  <2> QED
    BY <2>2, <2>3, <2>4
<1> DEFINE P == SUBSET S
           c == Cardinality(P)
<1>5. Cardinality(P \cup With) = c + Cardinality(With) - Cardinality(P \cap With)
  BY <1>2, <1>3, FS_Union
<1> HIDE DEF S, T, With
<1>6. Cardinality(P \cup With) = Cardinality(SUBSET T) /\ Cardinality(P \cap With) = 0
  <2>1. Cardinality(P \cap With) = Cardinality({}) /\ Cardinality(P \cup With) = Cardinality(SUBSET T)
    BY <1>4, Zenon
  <2> QED
    BY <2>1, FS_EmptySet, Zenon
<1>7. c \in Nat
  BY <1>2, FS_CardinalityType
<1>8. 2 ^ n = c /\ 2 ^ (n + 1) = Cardinality(SUBSET T) /\ Cardinality(With) = c
  BY <1>2, <1>3, Zenon
<1> HIDE DEF c
<1>9. 2 ^ (n + 1) = c + c - 0
  BY <1>5, <1>6, <1>8, Zenon
<1>10. c + c - 0 = 2 * c
  BY <1>7
<1> QED
  BY <1>7, <1>8, <1>9, <1>10, Zenon

(* The delay before the retry after attempt n.                              *)
Scheduled(n) ==
  LET doubled == InitialDelay * 2 ^ (n - 1)
  IN  IF doubled > MaxDelay THEN MaxDelay ELSE doubled

LEMMA FirstDelay == Scheduled(1) = InitialDelay
<1>1. InitialDelay * 2 ^ (1 - 1) = InitialDelay
  <2>1. 2 ^ (1 - 1) = 1
    OBVIOUS
  <2> QED
    BY <2>1, BackoffAssumption
<1> QED
  BY <1>1, BackoffAssumption DEF Scheduled

(* The script's doubling up to the limit follows the schedule: once at the  *)
(* limit, the doubled delay stays beyond it.                                *)
LEMMA NextDelay ==
  ASSUME NEW n \in Nat \ {0}
  PROVE  Longer(Scheduled(n)) = Scheduled(n + 1)
<1> DEFINE power == 2 ^ (n - 1)
           d == InitialDelay * power
           e == InitialDelay * 2 ^ ((n + 1) - 1)
<1>1. power \in Nat /\ 2 ^ ((n - 1) + 1) = 2 * power
  BY PowerDoubles
<1>2. 2 ^ ((n + 1) - 1) = 2 ^ ((n - 1) + 1)
  <2>1. (n + 1) - 1 = (n - 1) + 1
    OBVIOUS
  <2> QED
    BY <2>1, Zenon
<1>3. e = InitialDelay * (2 * power)
  BY <1>1, <1>2, Zenon
<1> HIDE DEF power
<1>4. d \in Nat /\ InitialDelay * (2 * power) = d * 2
  BY <1>1, BackoffAssumption
<1> HIDE DEF d, e
<1>5. d \in Nat /\ e = d * 2 /\ MaxDelay \in Nat /\ MaxDelay > 0
  BY <1>3, <1>4, BackoffAssumption
<1>6. Scheduled(n) = IF d > MaxDelay THEN MaxDelay ELSE d
  BY DEF Scheduled, d, power
<1>7. Scheduled(n + 1) = IF e > MaxDelay THEN MaxDelay ELSE e
  BY DEF Scheduled, e
<1> QED
  BY <1>5, <1>6, <1>7 DEF Longer

(* The loop waits as its caller was told: before each retry the initial     *)
(* delay, doubled once for every attempt already made, up to the limit.     *)
THEOREM DelaysFollowTheSchedule == BackoffSpec => []DelaySchedule
<1> DEFINE Inv == DOMAIN delay = Proc /\ \A p \in Proc : delay[p] = Scheduled(attempt[p])
<1>1. BackoffInit => Inv
  BY FirstDelay DEF BackoffInit
<1>2. ASSUME LoopInv, Inv, [BackoffNext]_backoffVars
      PROVE  Inv'
  <2>1. DOMAIN attempt = Proc /\ \A p \in Proc : attempt[p] \in Nat \ {0}
    BY <1>2, BackoffAssumption DEF LoopInv, LoopTypes
  <2>2. CASE UNCHANGED <<attempt, delay>>
    BY <1>2, <2>2
  <2>3. ASSUME NEW p \in Proc, StartLoop(p)
        PROVE  Inv'
    <3>1. attempt' = [attempt EXCEPT ![p] = 1] /\ delay' = [delay EXCEPT ![p] = InitialDelay]
      BY <2>3 DEF StartLoop
    <3> QED
      BY <1>2, <2>1, <3>1, FirstDelay
  <2>4. ASSUME NEW p \in Proc, Wake(p)
        PROVE  Inv'
    <3>1. /\ attempt' = [attempt EXCEPT ![p] = attempt[p] + 1]
          /\ delay' = [delay EXCEPT ![p] = Longer(delay[p])]
      BY <2>4 DEF Wake
    <3>2. delay'[p] = Scheduled(attempt'[p])
      <4>1. delay'[p] = Longer(Scheduled(attempt[p])) /\ attempt'[p] = attempt[p] + 1
        BY <1>2, <2>1, <3>1
      <4> QED
        BY <2>1, <4>1, NextDelay
    <3>3. \A q \in Proc \ {p} : delay'[q] = delay[q] /\ attempt'[q] = attempt[q]
      BY <1>2, <2>1, <3>1
    <3>4. DOMAIN delay' = Proc
      BY <1>2, <3>1
    <3> QED
      BY <1>2, <3>2, <3>3, <3>4
  <2>5. Looper \subseteq Proc
    BY BackoffAssumption
  <2> QED
    BY <1>2, <2>2, <2>3, <2>4, <2>5 DEF BackoffNext, backoffVars, Elsewhere, loopVars, LoopStep,
       Attempt, Conclude, Sleep, KillLoop, Onward, Acknowledge, KillPoll
<1>3. ASSUME LoopInv, Inv PROVE DelaySchedule
  <2>1. ASSUME NEW p \in Proc PROVE attempt[p] <= MaxAttempts
    <3>1. attempt[p] \in 1 .. MaxAttempts
      BY <1>3 DEF LoopInv, LoopTypes
    <3> QED
      BY <3>1
  <2> QED
    BY <1>3, <2>1 DEF DelaySchedule, Scheduled
<1> HIDE DEF Inv
<1> QED
  BY <1>1, <1>2, <1>3, LoopsRunTheScripts, PTL DEF BackoffSpec
=============================================================================
