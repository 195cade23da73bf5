-------------------------------- MODULE Sender --------------------------------
(***************************************************************************)
(* scripts/send.sh: any number of processes send signed messages to rooms,  *)
(* sharing the nonce files, their one lock and the activity log.            *)
(*                                                                          *)
(* The nonce is reserved under the lock and the message is posted after it  *)
(* was given back.  A request travels on its own: the service may accept it *)
(* before, after or without the script learning of it.  The service and the *)
(* clock are not code of this repository; the clock is whatever value `date *)
(* +%s%N' returns, forwards or backwards.  Signing and the local check of   *)
(* the envelope either succeed or stop the script.                          *)
(***************************************************************************)
EXTENDS Naturals, Sequences, FiniteSets

CONSTANTS
  Proc,      \* processes, each sending one message at a time
  RoomName,  \* rooms a message is sent to
  Null,      \* no process, no sequence number, no exit status yet
  MaxClock,  \* largest value of the clock
  IntMax,    \* largest integer [ -le ] and $(( )) compute with, 2^63 - 1
  WidthMax,  \* largest number of 19 digits, the pattern of a nonce
  MaxOther   \* bound: messages of other senders in a room

ASSUME SenderAssumption ==
  /\ MaxClock \in Nat /\ IntMax \in Nat /\ WidthMax \in Nat /\ MaxOther \in Nat
  /\ IntMax <= WidthMax
  /\ Null \notin Proc /\ Null \notin Nat

VARIABLES
  nonceFile, \* nonces/<room>; absent or empty is 0
  lock,      \* holder of nonces/.lock
  pc,        \* where each process is in the script
  req,       \* room and nonce of each process's message
  seq,       \* the sequence number each process recovered, or Null
  status,    \* exit status of each process's last script, Null while it runs
  flight,    \* requests on their way
  posts,     \* what the service accepted, in order, for each room
  log        \* activity.jsonl

vars == <<nonceFile, lock, pc, req, seq, status, flight, posts, log>>

Nonces   == 0 .. WidthMax
Requests == [room : RoomName, nonce : Nonces]
Messages == [own : BOOLEAN, nonce : Nonces]
SeqNos   == Nat \ {0}
Records  == [room : RoomName, nonce : Nonces, status : {"success", "failure"},
             seq : SeqNos \cup {Null}]

LockPcs == {"nonce", "save", "unlock"}
SentPcs == {"await", "logFailure", "recover", "logSuccess"}
Pcs     == {"idle", "lock", "sign", "post"} \cup LockPcs \cup SentPcs

(* 5 is jq's status for input that is not JSON, 137 a kill.                 *)
ExitCodes == {0, 1, 5, 137}

Goto(p, l) == pc' = [pc EXCEPT ![p] = l]

(* The process ends and its descriptors close.                              *)
Exit(p, code) ==
  /\ Goto(p, "idle")
  /\ status' = [status EXCEPT ![p] = code]
  /\ lock' = IF lock = p THEN Null ELSE lock

-----------------------------------------------------------------------------
(* Reserving a nonce                                                        *)

Start(p, r) ==
  /\ pc[p] = "idle"
  /\ Goto(p, "lock")
  /\ req' = [req EXCEPT ![p] = [room |-> r, nonce |-> 0]]
  /\ seq' = [seq EXCEPT ![p] = Null]
  /\ status' = [status EXCEPT ![p] = Null]
  /\ UNCHANGED <<nonceFile, lock, flight, posts, log>>

(* A slip: flock without effect.                                            *)
LockNothing(p) ==
  /\ pc[p] = "lock"
  /\ Goto(p, "nonce")
  /\ UNCHANGED <<nonceFile, lock, req, seq, status, flight, posts, log>>

Lock(p) ==
  /\ pc[p] = "lock"
  /\ lock = Null
  /\ lock' = p
  /\ Goto(p, "nonce")
  /\ UNCHANGED <<nonceFile, req, seq, status, flight, posts, log>>

(* [ n -le m ]: an operand that is not a 64-bit integer is an error, which  *)
(* an if treats as false.                                                   *)
TestLe(n, m) == n <= IntMax /\ m <= IntMax /\ n <= m

(* A slip: the clock is trusted to run forwards.                            *)
ClockNonce(now, previous) == IF now <= WidthMax THEN now ELSE Null

(* The nonce for a clock value and the stored nonce; Null is an error.      *)
NextNonce(now, previous) ==
  IF now > WidthMax THEN Null
  ELSE IF ~TestLe(now, previous) THEN now
  ELSE IF previous >= IntMax - 1 THEN Null
  ELSE previous + 1

ReserveFail(p) ==
  /\ pc[p] = "nonce"
  /\ \E now \in 0 .. MaxClock : NextNonce(now, nonceFile[req[p].room]) = Null
  /\ Exit(p, 1)
  /\ UNCHANGED <<nonceFile, req, seq, flight, posts, log>>

Reserve(p) ==
  /\ pc[p] = "nonce"
  /\ \E now \in 0 .. MaxClock :
       LET n == NextNonce(now, nonceFile[req[p].room])
       IN  /\ n # Null
           /\ req' = [req EXCEPT ![p].nonce = n]
  /\ Goto(p, "save")
  /\ UNCHANGED <<nonceFile, lock, seq, status, flight, posts, log>>

(* A complete file is moved into place.                                     *)
Save(p) ==
  /\ pc[p] = "save"
  /\ nonceFile' = [nonceFile EXCEPT ![req[p].room] = req[p].nonce]
  /\ Goto(p, "unlock")
  /\ UNCHANGED <<lock, req, seq, status, flight, posts, log>>

(* A slip: the descriptor stays locked for as long as children hold it.     *)
KeepLock(p) ==
  /\ pc[p] = "unlock"
  /\ Goto(p, "sign")
  /\ lock' = "children"
  /\ UNCHANGED <<nonceFile, req, seq, status, flight, posts, log>>

Unlock(p) ==
  /\ pc[p] = "unlock"
  /\ lock' = Null
  /\ Goto(p, "sign")
  /\ UNCHANGED <<nonceFile, req, seq, status, flight, posts, log>>

-----------------------------------------------------------------------------
(* Signing, posting and recording                                           *)

(* The signer fails or prints something else, or the envelope does not      *)
(* verify: the nonce is spent.                                              *)
SignFail(p) ==
  /\ pc[p] = "sign"
  /\ Exit(p, 1)
  /\ UNCHANGED <<nonceFile, req, seq, flight, posts, log>>

Sign(p) ==
  /\ pc[p] = "sign"
  /\ Goto(p, "post")
  /\ UNCHANGED <<nonceFile, lock, req, seq, status, flight, posts, log>>

Post(p) ==
  /\ pc[p] = "post"
  /\ flight' = flight \cup {req[p]}
  /\ Goto(p, "await")
  /\ UNCHANGED <<nonceFile, lock, req, seq, status, posts, log>>

(* Sequence numbers of the messages of this DID with this nonce.            *)
Found(q) ==
  {i \in DOMAIN posts[q.room] : posts[q.room][i].own /\ posts[q.room][i].nonce = q.nonce}

Accepted(q) == Found(q) # {}

(* The script sees the 2xx that followed the acceptance.                    *)
Answered(p) ==
  /\ pc[p] = "await"
  /\ Accepted(req[p])
  /\ Goto(p, "recover")
  /\ UNCHANGED <<nonceFile, lock, req, seq, status, flight, posts, log>>

(* Another status, no connection, or the time limit: nothing is known about *)
(* the message, and it is not sent again.                                   *)
Unanswered(p) ==
  /\ pc[p] = "await"
  /\ Goto(p, "logFailure")
  /\ UNCHANGED <<nonceFile, lock, req, seq, status, flight, posts, log>>

Record(p, outcome) ==
  log' = log \cup {[room |-> req[p].room, nonce |-> req[p].nonce,
                    status |-> outcome, seq |-> seq[p]]}

LogFailure(p) ==
  /\ pc[p] = "logFailure"
  /\ Record(p, "failure")
  /\ Exit(p, 1)
  /\ UNCHANGED <<nonceFile, req, seq, flight, posts>>

(* A slip: the sender of a message is not compared.                         *)
RecoverOfAnyone(p) ==
  /\ pc[p] = "recover"
  /\ \E s \in {i \in DOMAIN posts[req[p].room] :
               posts[req[p].room][i].nonce = req[p].nonce} \cup {Null} :
       seq' = [seq EXCEPT ![p] = s]
  /\ Goto(p, "logSuccess")
  /\ UNCHANGED <<nonceFile, lock, req, status, flight, posts, log>>

(* The room is read to learn the sequence number.  It may be unavailable,   *)
(* or may no longer show the message.                                       *)
Recover(p) ==
  /\ pc[p] = "recover"
  /\ \E s \in Found(req[p]) \cup {Null} : seq' = [seq EXCEPT ![p] = s]
  /\ Goto(p, "logSuccess")
  /\ UNCHANGED <<nonceFile, lock, req, status, flight, posts, log>>

(* The answer is not JSON: jq fails, with pipefail the assignment fails,    *)
(* and set -e ends the script.                                              *)
RecoverAbort(p) ==
  /\ pc[p] = "recover"
  /\ Exit(p, 5)
  /\ UNCHANGED <<nonceFile, req, seq, flight, posts, log>>

LogSuccess(p) ==
  /\ pc[p] = "logSuccess"
  /\ Record(p, "success")
  /\ Exit(p, 0)
  /\ UNCHANGED <<nonceFile, req, seq, flight, posts>>

-----------------------------------------------------------------------------
(* The service, other senders and kills                                     *)

Accept(q) ==
  /\ q \in flight
  /\ flight' = flight \ {q}
  /\ posts' = [posts EXCEPT ![q.room] = Append(@, [own |-> TRUE, nonce |-> q.nonce])]
  /\ UNCHANGED <<nonceFile, lock, pc, req, seq, status, log>>

(* The request is refused or lost.                                          *)
Drop(q) ==
  /\ q \in flight
  /\ flight' = flight \ {q}
  /\ UNCHANGED <<nonceFile, lock, pc, req, seq, status, posts, log>>

(* Somebody else posts, with a nonce of their own choosing.                 *)
OtherPost(r, n) ==
  /\ Cardinality({i \in DOMAIN posts[r] : ~posts[r][i].own}) < MaxOther
  /\ posts' = [posts EXCEPT ![r] = Append(@, [own |-> FALSE, nonce |-> n])]
  /\ UNCHANGED <<nonceFile, lock, pc, req, seq, status, flight, log>>

Crash(p) ==
  /\ pc[p] # "idle"
  /\ Exit(p, 137)
  /\ UNCHANGED <<nonceFile, req, seq, flight, posts, log>>

-----------------------------------------------------------------------------
ReserveStep(p) == ReserveFail(p) \/ Reserve(p) \/ Save(p) \/ Unlock(p)
SendStep(p) ==
  \/ SignFail(p) \/ Sign(p) \/ Post(p) \/ Answered(p) \/ Unanswered(p)
  \/ LogFailure(p) \/ Recover(p) \/ RecoverAbort(p) \/ LogSuccess(p)
Service == \/ \E q \in flight : Accept(q) \/ Drop(q)
           \/ \E r \in RoomName, n \in Nonces : OtherPost(r, n)

Init ==
  /\ nonceFile = [r \in RoomName |-> 0]
  /\ lock = Null
  /\ pc = [p \in Proc |-> "idle"]
  /\ req \in [Proc -> [room : RoomName, nonce : {0}]]
  /\ seq = [p \in Proc |-> Null]
  /\ status = [p \in Proc |-> Null]
  /\ flight = {}
  /\ posts = [r \in RoomName |-> <<>>]
  /\ log = {}

Next ==
  \/ Service
  \/ \E p \in Proc :
       \/ \E r \in RoomName : Start(p, r)
       \/ Lock(p) \/ ReserveStep(p) \/ SendStep(p) \/ Crash(p)

Spec == Init /\ [][Next]_vars

(* Signer, verifier and curl end by themselves, and flock serves a waiter   *)
(* if the lock is free again and again.                                     *)
FairSpec ==
  /\ Spec
  /\ \A p \in Proc : WF_vars(ReserveStep(p) \/ SendStep(p)) /\ SF_vars(Lock(p))

-----------------------------------------------------------------------------
(* Types of every variable.                                                 *)
TypeOK ==
  /\ nonceFile \in [RoomName -> Nonces]
  /\ lock \in Proc \cup {Null}
  /\ pc \in [Proc -> Pcs]
  /\ req \in [Proc -> Requests]
  /\ seq \in [Proc -> SeqNos \cup {Null}]
  /\ status \in [Proc -> ExitCodes \cup {Null}]
  /\ flight \subseteq Requests
  /\ posts \in [RoomName -> Seq(Messages)]
  /\ log \subseteq Records

(* The nonce of this process's message is stored.                           *)
Reserved(p) == pc[p] \in {"unlock", "sign", "post"} \cup SentPcs

(* "Nonces increase even after clock rollback": a stored nonce is replaced  *)
(* only by a larger one, whoever sends and whatever the clock says.         *)
NonceIncreases ==
  [][\A r \in RoomName :
       nonceFile'[r] # nonceFile[r] => nonceFile'[r] > nonceFile[r]]_nonceFile

(* "The nonce is reserved before sending and is never reused": two sends    *)
(* never hold the same nonce, and a room never shows two messages of this   *)
(* DID with one nonce, across kills, late requests and concurrent senders.  *)
NonceNeverReused ==
  /\ \A p, q \in Proc : Reserved(p) /\ Reserved(q) /\ p # q => req[p] # req[q]
  /\ \A r \in RoomName : \A i, j \in DOMAIN posts[r] :
       posts[r][i].own /\ posts[r][j].own /\ posts[r][i].nonce = posts[r][j].nonce => i = j

(* The log tells the truth: there is one record for a nonce at most, and a  *)
(* success names a message of the room, under its own sequence number if it *)
(* names one.                                                               *)
LogTruthful ==
  \A e \in log :
    /\ \A f \in log : f.room = e.room /\ f.nonce = e.nonce => f = e
    /\ e.status = "success" => Accepted(e) /\ e.seq \in Found(e) \cup {Null}

(* send.sh, on recovering the sequence number: "Failure here does NOT mean  *)
(* the signed send failed".  A script that saw its message accepted reports *)
(* success, unless it is killed.                                            *)
AcceptedSendSucceeds ==
  [][\A p \in Proc : pc[p] \in {"recover", "logSuccess"} /\ pc'[p] = "idle"
       => status'[p] \in {0, 137}]_pc

(* Every send ends, also when it waits for the lock behind others.          *)
SendsEnd == \A p \in Proc : pc[p] # "idle" ~> pc[p] = "idle"

-----------------------------------------------------------------------------
(* The inductive invariant.                                                 *)

LockHeld == \A p \in Proc : pc[p] \in LockPcs => lock = p

(* No nonce leaves the range the script can compute with.                   *)
IntRange ==
  /\ \A r \in RoomName : nonceFile[r] <= IntMax
  /\ \A p \in Proc : req[p].nonce <= IntMax

(* A nonce about to be stored is larger than the stored one.                *)
SaveFresh == \A p \in Proc : pc[p] = "save" => req[p].nonce > nonceFile[req[p].room]

(* Whatever was reserved, is on its way or was accepted is not beyond the   *)
(* stored nonce.                                                            *)
StoredFirst ==
  /\ \A p \in Proc : Reserved(p) => req[p].nonce <= nonceFile[req[p].room]
  /\ \A q \in flight : q.nonce <= nonceFile[q.room]
  /\ \A r \in RoomName : \A i \in DOMAIN posts[r] :
       posts[r][i].own => posts[r][i].nonce <= nonceFile[r]
  /\ \A e \in log : e.nonce <= nonceFile[e.room]

(* A request is sent once, and is on its way or accepted, not both.         *)
SentOnce ==
  /\ \A p \in Proc : pc[p] \in {"unlock", "sign", "post"}
       => req[p] \notin flight /\ ~Accepted(req[p])
  /\ \A q \in flight : ~Accepted(q)

(* What is known of a message before it is recorded.                        *)
RecordStands ==
  \A p \in Proc :
    /\ Reserved(p) => \A e \in log : e.room # req[p].room \/ e.nonce # req[p].nonce
    /\ pc[p] \in {"recover", "logSuccess"} => Accepted(req[p])
    /\ pc[p] \notin {"idle", "logSuccess"} => seq[p] = Null
    /\ pc[p] = "logSuccess" => seq[p] \in Found(req[p]) \cup {Null}

SInv ==
  /\ TypeOK /\ LockHeld /\ IntRange /\ SaveFresh /\ StoredFirst /\ SentOnce
  /\ NonceNeverReused /\ RecordStands /\ LogTruthful
=============================================================================
