----------------------------- MODULE PollBackoff -----------------------------
(***************************************************************************)
(* scripts/poll-with-backoff.sh around the poller of Mailbox: a loop of at  *)
(* most MAX_ATTEMPTS polls, which sleeps and goes on only after the         *)
(* transient status 75.  Other processes acknowledge what it prints.        *)
(***************************************************************************)
EXTENDS Mailbox

CONSTANTS
  Looper,       \* processes that run the loop
  MaxAttempts,  \* MAX_ATTEMPTS
  InitialDelay, \* INITIAL_DELAY
  MaxDelay,     \* MAX_DELAY
  MaxJitter     \* RANDOM % 16 is at most 15

(* What the script checks of its environment before the loop.               *)
ASSUME BackoffAssumption ==
  /\ Looper \subseteq Proc
  /\ MaxAttempts \in Nat \ {0} /\ InitialDelay \in Nat \ {0} /\ MaxDelay \in Nat
  /\ InitialDelay <= MaxDelay
  /\ MaxJitter \in Nat

VARIABLES
  loop,     \* where each process is: none, poll, polling or sleep
  attempt,  \* ATTEMPT
  delay,    \* DELAY
  wait,     \* WAIT_SECONDS of the last sleep
  result,   \* exit status of the last loop, Null while it runs
  printed   \* ghost: batches on the loop's stdout

loopVars    == <<loop, attempt, delay, wait, result, printed>>
backoffVars == <<room, cursorFile, pendingFile, lock, pc, status, reg, page, offer,
                 loop, attempt, delay, wait, result, printed>>

LoopGoto(p, l) == loop' = [loop EXCEPT ![p] = l]

-----------------------------------------------------------------------------
StartLoop(p) ==
  /\ loop[p] = "none"
  /\ Idle(p)
  /\ LoopGoto(p, "poll")
  /\ attempt' = [attempt EXCEPT ![p] = 1]
  /\ delay' = [delay EXCEPT ![p] = InitialDelay]
  /\ result' = [result EXCEPT ![p] = Null]
  /\ printed' = [printed EXCEPT ![p] = 0]
  /\ UNCHANGED <<vars, wait>>

Attempt(p) ==
  /\ loop[p] = "poll"
  /\ StartPoll(p)
  /\ LoopGoto(p, "polling")
  /\ UNCHANGED <<attempt, delay, wait, result, printed>>

(* A slip: one attempt too many.                                            *)
RetriesOnceMore(p) == status[p] = 75 /\ attempt[p] <= MaxAttempts

(* A slip: a poll that was killed is taken for a transient failure.         *)
RetriesKilled(p) == status[p] \in {75, 137} /\ attempt[p] < MaxAttempts

(* A transient failure, and attempts are left.                              *)
Retries(p) == status[p] = 75 /\ attempt[p] < MaxAttempts

(* Any other outcome of the poll is the outcome of the loop.                *)
Conclude(p) ==
  /\ loop[p] = "polling"
  /\ Idle(p)
  /\ ~Retries(p)
  /\ result' = [result EXCEPT ![p] = status[p]]
  /\ LoopGoto(p, "none")
  /\ UNCHANGED <<vars, attempt, delay, wait, printed>>

Sleep(p) ==
  /\ loop[p] = "polling"
  /\ Idle(p)
  /\ Retries(p)
  /\ \E jitter \in 0 .. MaxJitter : wait' = [wait EXCEPT ![p] = delay[p] + jitter]
  /\ LoopGoto(p, "sleep")
  /\ UNCHANGED <<vars, attempt, delay, result, printed>>

(* A slip: the delay is doubled without looking at the limit.               *)
LongerUncapped(d) == IF d < MaxDelay THEN d * 2 ELSE d

Longer(d) ==
  IF d < MaxDelay THEN (IF d * 2 > MaxDelay THEN MaxDelay ELSE d * 2) ELSE d

(* A slip: the attempt is not counted.                                      *)
WakeUncounted(p) ==
  /\ loop[p] = "sleep"
  /\ delay' = [delay EXCEPT ![p] = Longer(@)]
  /\ LoopGoto(p, "poll")
  /\ UNCHANGED <<vars, attempt, wait, result, printed>>

Wake(p) ==
  /\ loop[p] = "sleep"
  /\ delay' = [delay EXCEPT ![p] = Longer(@)]
  /\ attempt' = [attempt EXCEPT ![p] = @ + 1]
  /\ LoopGoto(p, "poll")
  /\ UNCHANGED <<vars, wait, result, printed>>

(* The loop is killed; the poll it waits for goes on without it.            *)
KillLoop(p) ==
  /\ loop[p] # "none"
  /\ result' = [result EXCEPT ![p] = 137]
  /\ LoopGoto(p, "none")
  /\ UNCHANGED <<vars, attempt, delay, wait, printed>>

(* A script is killed, alone.                                               *)
KillPoll(p) == Crash(p) /\ UNCHANGED loopVars

(* Outside of a loop a process acknowledges.                                *)
Acknowledge(p) ==
  /\ loop[p] = "none"
  /\ \E c \in Cursors : StartAck(p, c)
  /\ UNCHANGED loopVars

(* A script goes on.                                                        *)
Onward(p) ==
  /\ LockStep(p) \/ ScriptStep(p)
  /\ printed' = IF page'[p] # page[p] THEN [printed EXCEPT ![p] = @ + 1] ELSE printed
  /\ UNCHANGED <<loop, attempt, delay, wait, result>>

Elsewhere == (RoomStep \/ CurlTimeout \/ DropPending) /\ UNCHANGED loopVars

LoopStep(p) == Attempt(p) \/ Conclude(p) \/ Sleep(p) \/ Wake(p)

BackoffInit ==
  /\ Init
  /\ loop = [p \in Proc |-> "none"]
  /\ attempt = [p \in Proc |-> 1]
  /\ delay = [p \in Proc |-> InitialDelay]
  /\ wait = [p \in Proc |-> 0]
  /\ result = [p \in Proc |-> Null]
  /\ printed = [p \in Proc |-> 0]

BackoffNext ==
  \/ Elsewhere
  \/ \E p \in Looper : StartLoop(p) \/ LoopStep(p) \/ KillLoop(p)
  \/ \E p \in Proc : Onward(p) \/ Acknowledge(p) \/ KillPoll(p)

BackoffSpec == BackoffInit /\ [][BackoffNext]_backoffVars

(* Sleeps end.  curl's --max-time bounds the one blocking call of a script, *)
(* and flock wakes its waiters when the lock is released, so a running      *)
(* script goes on and a waiting one is served if the lock is free again and *)
(* again.  Launches, kills, messages and the operator owe nothing.          *)
FairBackoffSpec ==
  /\ BackoffSpec
  /\ WF_backoffVars(CurlTimeout /\ Elsewhere)
  /\ \A p \in Proc :
       /\ WF_backoffVars(LoopStep(p))
       /\ WF_backoffVars(Onward(p) /\ ScriptStep(p))
       /\ SF_backoffVars(Onward(p) /\ LockStep(p))

-----------------------------------------------------------------------------
(* The loop makes MaxAttempts attempts at most, and the delay before the    *)
(* retry after attempt n is the initial one doubled n - 1 times, up to the  *)
(* limit: the caller can rely on the schedule.                              *)
DelaySchedule ==
  \A p \in Proc :
    LET doubled == InitialDelay * 2 ^ (attempt[p] - 1)
    IN  /\ attempt[p] <= MaxAttempts
        /\ delay[p] = IF doubled > MaxDelay THEN MaxDelay ELSE doubled

(* stdout is parsed as one batch: whatever attempts fail, and although a    *)
(* poll prints before it saves its marker, a loop prints one at most.       *)
OneBatchPrinted == \A p \in Proc : printed[p] <= 1

(* A loop that reports success after printing something new leaves a marker *)
(* that stands for it: no batch is handed to the caller unmarked.           *)
SuccessIsMarked ==
  [][\A p \in Proc :
       (loop[p] = "polling" /\ result'[p] = 0 /\ page[p] # Null)
       => \/ page[p].last = page[p].start
          \/ offer # Null /\ (offer = page[p] \/ offer.start >= page[p].start)]_result

(* Every loop ends, after polls and sleeps of bounded number.               *)
LoopsEnd == \A p \in Looper : loop[p] # "none" ~> loop[p] = "none"
=============================================================================
