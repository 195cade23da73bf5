---------------------------- MODULE Sender_proofs ----------------------------
(***************************************************************************)
(* Proofs about Sender for every number of processes and rooms, every       *)
(* behaviour of the service and every clock whose values are 64-bit         *)
(* integers, forwards or backwards.                                         *)
(***************************************************************************)
EXTENDS Sender, TLAPS

(* date +%s%N is a 64-bit integer (until the year 2262).                    *)
ClockInRange == MaxClock <= IntMax

-----------------------------------------------------------------------------
(* Operators the steps are built from.                                      *)

(* A nonce is a 64-bit integer beyond the stored one, if there is one.      *)
LEMMA NextNonceIncreases ==
  ASSUME ClockInRange, NEW now \in 0 .. MaxClock, NEW previous \in Nonces,
         previous <= IntMax, NextNonce(now, previous) # Null
  PROVE  /\ NextNonce(now, previous) \in Nonces
         /\ NextNonce(now, previous) > previous
         /\ NextNonce(now, previous) <= IntMax
<1>1. now \in Nat /\ previous \in Nat /\ now <= IntMax
  BY SenderAssumption DEF ClockInRange, Nonces
<1> QED
  BY <1>1, SenderAssumption DEF NextNonce, TestLe, Nonces

(* A message appended to a room keeps the earlier ones where they are.      *)
LEMMA AppendPost ==
  ASSUME TypeOK, NEW r \in RoomName, NEW m \in Messages,
         posts' = [posts EXCEPT ![r] = Append(@, m)]
  PROVE  /\ posts' \in [RoomName -> Seq(Messages)]
         /\ \A s \in RoomName \ {r} : posts'[s] = posts[s]
         /\ DOMAIN posts'[r] = DOMAIN posts[r] \cup {Len(posts[r]) + 1}
         /\ Len(posts[r]) + 1 \notin DOMAIN posts[r]
         /\ posts'[r][Len(posts[r]) + 1] = m
         /\ \A i \in DOMAIN posts[r] : posts'[r][i] = posts[r][i]
<1>1. posts[r] \in Seq(Messages) /\ posts'[r] = Append(posts[r], m)
  BY DEF TypeOK
<1>2. DOMAIN posts[r] = 1 .. Len(posts[r]) /\ Len(posts[r]) \in Nat
  BY <1>1
<1>3. DOMAIN posts'[r] = 1 .. Len(posts[r]) + 1
  BY <1>1
<1> QED
  BY <1>1, <1>2, <1>3 DEF TypeOK

(* So a message found stays found, and an own message appended is found at  *)
(* the end, by its nonce only.                                              *)
LEMMA AppendFound ==
  ASSUME TypeOK, NEW r \in RoomName, NEW m \in Messages,
         posts' = [posts EXCEPT ![r] = Append(@, m)], NEW q, q.room \in RoomName
  PROVE  /\ Found(q) \subseteq Found(q)'
         /\ ~m.own \/ q.room # r \/ q.nonce # m.nonce => Found(q)' = Found(q)
         /\ m.own /\ q.room = r /\ q.nonce = m.nonce
              => Found(q)' = Found(q) \cup {Len(posts[r]) + 1}
<1> DEFINE n == Len(posts[r]) + 1
<1>1. CASE q.room # r
  <2>1. posts'[q.room] = posts[q.room]
    BY <1>1, AppendPost
  <2> QED
    BY <1>1, <2>1 DEF Found
<1>2. CASE q.room = r
  <2>1. /\ DOMAIN posts'[r] = DOMAIN posts[r] \cup {n}
        /\ n \notin DOMAIN posts[r]
        /\ posts'[r][n] = m
        /\ \A i \in DOMAIN posts[r] : posts'[r][i] = posts[r][i]
    BY AppendPost
  <2> HIDE DEF n
  <2>2. Found(q)' = Found(q) \cup {i \in {n} : m.own /\ m.nonce = q.nonce}
    BY <1>2, <2>1 DEF Found
  <2> QED
    BY <1>2, <2>2 DEF n
<1> QED
  BY <1>1, <1>2

(* Requests are told apart by room and nonce.                               *)
LEMMA SameRequest ==
  ASSUME NEW a \in Requests, NEW b \in Requests, a.room = b.room, a.nonce = b.nonce
  PROVE  a = b
BY DEF Requests

(* Sequence numbers are positive.                                           *)
LEMMA FoundType ==
  ASSUME TypeOK, NEW q, q.room \in RoomName
  PROVE  Found(q) \subseteq SeqNos
BY DEF Found, TypeOK, SeqNos

-----------------------------------------------------------------------------
LEMMA InitInv == ClockInRange /\ Init => SInv
<1> SUFFICES ASSUME ClockInRange, Init PROVE SInv
  OBVIOUS
<1>1. 0 \in Nonces /\ 0 <= IntMax
  BY SenderAssumption DEF Nonces
<1>2. TypeOK
  <2>1. posts \in [RoomName -> Seq(Messages)]
    BY DEF Init
  <2> QED
    BY <1>1, <2>1 DEF Init, TypeOK, Pcs, Requests
<1>3. \A r \in RoomName : DOMAIN posts[r] = {}
  BY DEF Init
<1> QED
  BY <1>1, <1>2, <1>3 DEF Init, SInv, LockHeld, IntRange, SaveFresh, StoredFirst, SentOnce,
     NonceNeverReused, RecordStands, LogTruthful, Reserved, LockPcs, SentPcs

LEMMA ExitType ==
  ASSUME TypeOK, NEW p \in Proc, NEW code \in ExitCodes, Exit(p, code)
  PROVE  /\ pc' \in [Proc -> Pcs]
         /\ status' \in [Proc -> ExitCodes \cup {Null}]
         /\ lock' \in Proc \cup {Null}
BY DEF TypeOK, Exit, Goto, Pcs

LEMMA NextType == SInv /\ ClockInRange /\ [Next]_vars => TypeOK'
<1> SUFFICES ASSUME SInv, ClockInRange, [Next]_vars
             PROVE  TypeOK'
  OBVIOUS
<1> USE DEF SInv
<1>1. ASSUME NEW p \in Proc, NEW r \in RoomName, Start(p, r)
      PROVE  TypeOK'
  <2>1. 0 \in Nonces
    BY SenderAssumption DEF Nonces
  <2> QED
    BY <1>1, <2>1 DEF Start, Goto, TypeOK, Pcs, Requests
<1>2. ASSUME NEW p \in Proc, Lock(p) \/ Save(p) \/ Unlock(p)
      PROVE  TypeOK'
  BY <1>2 DEF Lock, Save, Unlock, Goto, TypeOK, Pcs, LockPcs, Requests
<1>3. ASSUME NEW p \in Proc, Reserve(p)
      PROVE  TypeOK'
  <2>1. PICK now \in 0 .. MaxClock :
          LET n == NextNonce(now, nonceFile[req[p].room])
          IN  n # Null /\ req' = [req EXCEPT ![p].nonce = n]
    BY <1>3 DEF Reserve
  <2>2. req[p].room \in RoomName /\ nonceFile[req[p].room] \in Nonces
        /\ nonceFile[req[p].room] <= IntMax
    BY DEF TypeOK, Requests, IntRange
  <2>3. NextNonce(now, nonceFile[req[p].room]) \in Nonces
    BY <2>1, <2>2, NextNonceIncreases
  <2>4. req' \in [Proc -> Requests]
    <3>1. req \in [Proc -> Requests] /\ req[p] \in Requests
      BY DEF TypeOK
    <3>2. PICK n \in Nonces : req' = [req EXCEPT ![p].nonce = n]
      BY <2>1, <2>3
    <3> QED
      BY <3>1, <3>2 DEF Requests
  <2>5. pc' \in [Proc -> Pcs]
    BY <1>3 DEF Reserve, Goto, TypeOK, Pcs, LockPcs
  <2>6. UNCHANGED <<nonceFile, lock, seq, status, flight, posts, log>>
    BY <1>3 DEF Reserve
  <2> QED
    BY <2>4, <2>5, <2>6 DEF TypeOK
<1>4. ASSUME NEW p \in Proc, NEW code \in ExitCodes, Exit(p, code),
             UNCHANGED <<nonceFile, req, seq, flight, posts>>, log' \subseteq Records
      PROVE  TypeOK'
  BY <1>4, ExitType DEF TypeOK
<1>5. ASSUME NEW p \in Proc, ReserveFail(p) \/ SignFail(p) \/ RecoverAbort(p) \/ Crash(p)
      PROVE  TypeOK'
  BY <1>4, <1>5 DEF ReserveFail, SignFail, RecoverAbort, Crash, ExitCodes, TypeOK
<1>6. ASSUME NEW p \in Proc, LogFailure(p) \/ LogSuccess(p)
      PROVE  TypeOK'
  <2>1. ASSUME NEW outcome \in {"success", "failure"}, Record(p, outcome)
        PROVE  log' \subseteq Records
    <3>1. req[p].room \in RoomName /\ req[p].nonce \in Nonces /\ seq[p] \in SeqNos \cup {Null}
      BY DEF TypeOK, Requests
    <3> QED
      BY <2>1, <3>1 DEF Record, Records, TypeOK
  <2> QED
    BY <1>4, <1>6, <2>1 DEF LogFailure, LogSuccess, ExitCodes
<1>7. ASSUME NEW p \in Proc, Sign(p) \/ Post(p) \/ Answered(p) \/ Unanswered(p)
      PROVE  TypeOK'
  <2>1. req[p] \in Requests
    BY DEF TypeOK
  <2> QED
    BY <1>7, <2>1 DEF Sign, Post, Answered, Unanswered, Goto, TypeOK, Pcs, SentPcs
<1>8. ASSUME NEW p \in Proc, Recover(p)
      PROVE  TypeOK'
  <2>1. Found(req[p]) \subseteq SeqNos
    BY FoundType DEF TypeOK, Requests
  <2> QED
    BY <1>8, <2>1 DEF Recover, Goto, TypeOK, Pcs, SentPcs
<1>9. ASSUME NEW q \in flight, Accept(q)
      PROVE  TypeOK'
  <2>1. q.room \in RoomName /\ [own |-> TRUE, nonce |-> q.nonce] \in Messages
    BY DEF TypeOK, Requests, Messages
  <2> QED
    BY <1>9, <2>1, AppendPost DEF Accept, TypeOK
<1>10. ASSUME NEW q \in flight, Drop(q)
       PROVE  TypeOK'
  BY <1>10 DEF Drop, TypeOK
<1>11. ASSUME NEW r \in RoomName, NEW n \in Nonces, OtherPost(r, n)
       PROVE  TypeOK'
  <2>1. [own |-> FALSE, nonce |-> n] \in Messages
    BY DEF Messages
  <2> QED
    BY <1>11, <2>1, AppendPost DEF OtherPost, TypeOK
<1>12. CASE UNCHANGED vars
  BY <1>12 DEF vars, TypeOK
<1> QED
  BY <1>1, <1>2, <1>3, <1>5, <1>6, <1>7, <1>8, <1>9, <1>10, <1>11, <1>12
     DEF Next, Service, ReserveStep, SendStep

LEMMA NextInv == SInv /\ ClockInRange /\ [Next]_vars => SInv'
<1> SUFFICES ASSUME SInv, ClockInRange, [Next]_vars
             PROVE  SInv'
  OBVIOUS
<1> USE DEF SInv
<1>0. TypeOK'
  BY NextType
<1> DEFINE Rest == /\ LockHeld' /\ IntRange' /\ SaveFresh' /\ StoredFirst' /\ SentOnce'
                   /\ NonceNeverReused' /\ RecordStands' /\ LogTruthful'
(* A process that leaves or is not yet where its nonce counts.              *)
<1>1. ASSUME NEW p \in Proc, NEW l \in {"idle", "lock"}, Goto(p, l),
             \A q \in Proc \ {p} : req'[q] = req[q] /\ seq'[q] = seq[q],
             req'[p].nonce <= IntMax, l = "lock" => seq'[p] = Null,
             UNCHANGED <<nonceFile, flight, posts, log>>,
             \A q \in Proc \ {p} : lock = q => lock' = q
      PROVE  Rest
  <2>1. /\ pc'[p] = l
        /\ \A q \in Proc \ {p} : pc'[q] = pc[q]
    BY <1>1 DEF Goto, TypeOK
  <2>2. LockHeld' /\ IntRange' /\ SaveFresh'
    BY <1>1, <2>1 DEF LockHeld, IntRange, SaveFresh, LockPcs
  <2>3. StoredFirst'
    BY <1>1, <2>1 DEF StoredFirst, Reserved, SentPcs
  <2>4. SentOnce'
    BY <1>1, <2>1 DEF SentOnce, Accepted, Found
  <2>5. NonceNeverReused'
    BY <1>1, <2>1 DEF NonceNeverReused, Reserved, SentPcs
  <2>6. RecordStands'
    BY <1>1, <2>1 DEF RecordStands, Reserved, SentPcs, Accepted, Found
  <2>7. LogTruthful'
    BY <1>1 DEF LogTruthful, Accepted, Found
  <2> QED
    BY <2>2, <2>3, <2>4, <2>5, <2>6, <2>7
<1>2. ASSUME NEW p \in Proc,
             \/ ReserveFail(p) \/ SignFail(p) \/ RecoverAbort(p) \/ Crash(p)
             \/ \E r \in RoomName : Start(p, r)
      PROVE  Rest
  <2>1. /\ req[p].nonce <= IntMax /\ 0 <= IntMax
    BY SenderAssumption DEF IntRange
  <2>2. CASE \E r \in RoomName : Start(p, r)
    BY <2>1, <2>2, <1>1 DEF Start, TypeOK
  <2>3. CASE ReserveFail(p) \/ SignFail(p) \/ RecoverAbort(p) \/ Crash(p)
    BY <2>1, <2>3, <1>1 DEF ReserveFail, SignFail, RecoverAbort, Crash, Exit
  <2> QED
    BY <1>2, <2>2, <2>3
<1>3. ASSUME NEW p \in Proc, Lock(p)
      PROVE  Rest
  <2>1. /\ pc'[p] = "nonce" /\ pc[p] = "lock"
        /\ \A q \in Proc \ {p} : pc'[q] = pc[q]
    BY <1>3 DEF Lock, Goto, TypeOK
  <2>2. LockHeld'
    BY <1>3, <2>1, SenderAssumption DEF Lock, LockHeld
  <2>3. IntRange' /\ SaveFresh' /\ StoredFirst'
    BY <1>3, <2>1 DEF Lock, IntRange, SaveFresh, StoredFirst, Reserved, SentPcs
  <2>4. SentOnce' /\ NonceNeverReused'
    BY <1>3, <2>1 DEF Lock, SentOnce, NonceNeverReused, Reserved, SentPcs, Accepted, Found
  <2>5. RecordStands' /\ LogTruthful'
    BY <1>3, <2>1 DEF Lock, RecordStands, LogTruthful, Reserved, SentPcs, Accepted, Found
  <2> QED
    BY <2>2, <2>3, <2>4, <2>5
<1>4. ASSUME NEW p \in Proc, Reserve(p)
      PROVE  Rest
  <2>1. PICK now \in 0 .. MaxClock :
          LET n == NextNonce(now, nonceFile[req[p].room])
          IN  n # Null /\ req' = [req EXCEPT ![p].nonce = n]
    BY <1>4 DEF Reserve
  <2>2. req[p].room \in RoomName /\ nonceFile[req[p].room] \in Nonces
        /\ nonceFile[req[p].room] <= IntMax
    BY DEF TypeOK, Requests, IntRange
  <2>3. /\ req'[p].room = req[p].room
        /\ req'[p].nonce > nonceFile[req[p].room] /\ req'[p].nonce <= IntMax
        /\ \A q \in Proc \ {p} : req'[q] = req[q]
    <3>1. req[p] \in [room : RoomName, nonce : Nonces]
      BY DEF TypeOK, Requests
    <3> QED
      BY <2>1, <2>2, <3>1, NextNonceIncreases DEF TypeOK
  <2>4. /\ pc'[p] = "save" /\ pc[p] = "nonce"
        /\ \A q \in Proc \ {p} : pc'[q] = pc[q]
    BY <1>4 DEF Reserve, Goto, TypeOK
  <2>5. LockHeld' /\ IntRange' /\ SaveFresh'
    BY <1>4, <2>3, <2>4 DEF Reserve, LockHeld, IntRange, SaveFresh, LockPcs
  <2>6. StoredFirst' /\ SentOnce' /\ NonceNeverReused'
    <3>1. StoredFirst'
      BY <1>4, <2>3, <2>4 DEF Reserve, StoredFirst, Reserved, SentPcs
    <3>2. SentOnce'
      BY <1>4, <2>3, <2>4 DEF Reserve, SentOnce, Reserved, SentPcs, Accepted, Found
    <3>3. NonceNeverReused'
      BY <1>4, <2>3, <2>4 DEF Reserve, NonceNeverReused, Reserved, SentPcs
    <3> QED
      BY <3>1, <3>2, <3>3
  <2>7. UNCHANGED <<log, posts, seq>>
    BY <1>4 DEF Reserve
  <2>8. LogTruthful'
    BY <2>7 DEF LogTruthful, Accepted, Found
  <2>9. RecordStands'
    <3>1. ~Reserved(p)' /\ seq'[p] = Null
      BY <2>4, <2>7 DEF RecordStands, Reserved, SentPcs
    <3>2. \A q \in Proc \ {p} : req'[q] = req[q] /\ pc'[q] = pc[q]
      BY <2>3, <2>4
    <3> QED
      BY <2>4, <2>7, <3>1, <3>2 DEF RecordStands, Reserved, SentPcs, Accepted, Found
  <2> QED
    BY <2>5, <2>6, <2>8, <2>9
<1>5. ASSUME NEW p \in Proc, Save(p)
      PROVE  Rest
  <2> DEFINE r == req[p].room
             n == req[p].nonce
  <2>1. r \in RoomName /\ n \in Nat /\ n > nonceFile[r] /\ n <= IntMax
    BY <1>5 DEF Save, TypeOK, Requests, Nonces, SaveFresh, IntRange
  <2>2. \A s \in RoomName : nonceFile[s] \in Nat
    BY DEF TypeOK, Nonces
  <2>3. /\ nonceFile'[r] = n
        /\ \A s \in RoomName \ {r} : nonceFile'[s] = nonceFile[s]
    BY <1>5, <2>1 DEF Save, TypeOK
  <2>4. /\ pc'[p] = "unlock" /\ pc[p] = "save"
        /\ \A q \in Proc \ {p} : pc'[q] = pc[q]
    BY <1>5 DEF Save, Goto, TypeOK
  <2>5. LockHeld' /\ IntRange'
    BY <1>5, <2>1, <2>3, <2>4 DEF Save, LockHeld, IntRange, LockPcs
  <2>6. SaveFresh'
    BY <1>5, <2>4 DEF Save, SaveFresh, LockHeld, LockPcs
  <2>7. StoredFirst'
    <3>1. \A m \in Nat, s \in RoomName : m <= nonceFile[s] => m <= nonceFile'[s]
      BY <2>1, <2>2, <2>3
    <3>2. /\ \A q \in Proc : req[q].nonce \in Nat /\ req[q].room \in RoomName
          /\ \A q \in flight : q.nonce \in Nat /\ q.room \in RoomName
          /\ \A e \in log : e.nonce \in Nat /\ e.room \in RoomName
      BY DEF TypeOK, Requests, Records, Nonces
    <3>3. \A s \in RoomName : \A i \in DOMAIN posts[s] : posts[s][i].nonce \in Nat
      <4> SUFFICES ASSUME NEW s \in RoomName, NEW i \in DOMAIN posts[s]
                   PROVE  posts[s][i].nonce \in Nat
        OBVIOUS
      <4>1. posts[s] \in Seq(Messages)
        BY DEF TypeOK
      <4>2. posts[s][i] \in Messages
        BY <4>1
      <4> QED
        BY <4>2 DEF Messages, Nonces
    <3> QED
      BY <1>5, <2>1, <2>3, <2>4, <3>1, <3>2, <3>3 DEF Save, StoredFirst, Reserved, SentPcs
  <2>8. /\ req[p] \notin flight
        /\ ~Accepted(req[p])
        /\ \A q \in Proc : Reserved(q) => req[q] # req[p]
        /\ \A e \in log : e.room # r \/ e.nonce # n
    BY <2>1, <2>2 DEF StoredFirst, Accepted, Found
  <2>9. UNCHANGED <<req, log, posts, seq, flight>>
    BY <1>5 DEF Save
  <2>10. SentOnce'
    BY <2>4, <2>8, <2>9 DEF SentOnce, Accepted, Found
  <2>11. NonceNeverReused'
    BY <2>4, <2>8, <2>9 DEF NonceNeverReused, Reserved, SentPcs
  <2>12. LogTruthful'
    BY <2>9 DEF LogTruthful, Accepted, Found
  <2>13. RecordStands'
    BY <2>4, <2>8, <2>9 DEF RecordStands, Reserved, SentPcs, Accepted, Found
  <2> QED
    BY <2>5, <2>6, <2>7, <2>10, <2>11, <2>12, <2>13
(* A process that goes on with a stored nonce.                              *)
<1>6. ASSUME NEW p \in Proc, NEW l, Goto(p, l), Reserved(p), pc[p] # "logSuccess",
             l \in {"sign", "post"} \cup SentPcs,
             l \in {"sign", "post"} => pc[p] \in {"unlock", "sign"},
             l = "recover" => Accepted(req[p]),
             l = "logSuccess" => pc[p] = "recover",
             \A q \in Proc \ {p} : seq'[q] = seq[q],
             l # "logSuccess" => UNCHANGED seq,
             l = "logSuccess" => seq'[p] \in Found(req[p]) \cup {Null},
             UNCHANGED <<nonceFile, req, posts, log>>,
             flight' = flight \/ (pc[p] = "post" /\ l = "await" /\ flight' = flight \cup {req[p]}),
             lock' = lock \/ (lock = p /\ pc[p] = "unlock")
      PROVE  Rest
  <2>1. /\ pc'[p] = l
        /\ \A q \in Proc \ {p} : pc'[q] = pc[q]
    BY <1>6 DEF Goto, TypeOK
  <2>2. LockHeld' /\ IntRange' /\ SaveFresh'
    BY <1>6, <2>1 DEF LockHeld, IntRange, SaveFresh, LockPcs, SentPcs
  <2>3. StoredFirst'
    BY <1>6, <2>1 DEF StoredFirst, Reserved, SentPcs
  <2>4. NonceNeverReused'
    BY <1>6, <2>1 DEF NonceNeverReused, Reserved, SentPcs
  <2>5. SentOnce'
    <3>1. CASE flight' = flight
      BY <1>6, <2>1, <3>1 DEF SentOnce, Accepted, Found, SentPcs
    <3>2. CASE pc[p] = "post" /\ l = "await" /\ flight' = flight \cup {req[p]}
      <4>1. \A q \in Proc \ {p} : pc[q] \in {"unlock", "sign", "post"} => req[q] # req[p]
        BY <3>2 DEF NonceNeverReused, Reserved, SentPcs
      <4> QED
        BY <1>6, <2>1, <3>2, <4>1 DEF SentOnce, Accepted, Found, SentPcs
    <3> QED
      BY <1>6, <3>1, <3>2
  <2>6. RecordStands'
    BY <1>6, <2>1 DEF RecordStands, Reserved, SentPcs, Accepted, Found
  <2>7. LogTruthful'
    BY <1>6 DEF LogTruthful, Accepted, Found
  <2> QED
    BY <2>2, <2>3, <2>4, <2>5, <2>6, <2>7
<1>7. ASSUME NEW p \in Proc,
             \/ Unlock(p) \/ Sign(p) \/ Post(p) \/ Answered(p) \/ Unanswered(p) \/ Recover(p)
      PROVE  Rest
  <2>1. CASE Unlock(p)
    BY <1>6, <2>1 DEF Unlock, Reserved, SentPcs, LockHeld, LockPcs
  <2>2. CASE Sign(p)
    <3>1. pc[p] = "sign"
      BY <2>2 DEF Sign
    <3> QED
      BY <1>6, <2>2, <3>1 DEF Sign, Reserved, SentPcs
  <2>3. CASE Post(p)
    BY <1>6, <2>3 DEF Post, Reserved, SentPcs
  <2>4. CASE Answered(p)
    BY <1>6, <2>4 DEF Answered, Reserved, SentPcs
  <2>5. CASE Unanswered(p)
    BY <1>6, <2>5 DEF Unanswered, Reserved, SentPcs
  <2>6. CASE Recover(p)
    BY <1>6, <2>6 DEF Recover, Reserved, SentPcs, TypeOK
  <2> QED
    BY <1>7, <2>1, <2>2, <2>3, <2>4, <2>5, <2>6
<1>8. ASSUME NEW p \in Proc, LogFailure(p) \/ LogSuccess(p)
      PROVE  Rest
  <2>1. /\ pc'[p] = "idle" /\ pc[p] \in {"logFailure", "logSuccess"}
        /\ \A q \in Proc \ {p} : pc'[q] = pc[q]
        /\ UNCHANGED <<nonceFile, req, seq, flight, posts>>
        /\ \A q \in Proc \ {p} : lock = q => lock' = q
    BY <1>8 DEF LogFailure, LogSuccess, Exit, Goto, TypeOK
  <2>2. PICK outcome \in {"success", "failure"} :
          /\ Record(p, outcome)
          /\ outcome = "success" => pc[p] = "logSuccess"
    BY <1>8 DEF LogFailure, LogSuccess
  <2> DEFINE new == [room |-> req[p].room, nonce |-> req[p].nonce,
                     status |-> outcome, seq |-> seq[p]]
  <2>3. log' = log \cup {new}
    BY <2>2 DEF Record
  <2>4. Reserved(p)
    BY <2>1 DEF Reserved, SentPcs
  <2>5. /\ LockHeld' /\ IntRange' /\ SaveFresh'
        /\ SentOnce'
        /\ NonceNeverReused'
    <3>1. LockHeld' /\ IntRange' /\ SaveFresh'
      BY <2>1 DEF LockHeld, IntRange, SaveFresh, LockPcs
    <3>2. SentOnce'
      BY <2>1 DEF SentOnce, Accepted, Found
    <3>3. NonceNeverReused'
      BY <2>1 DEF NonceNeverReused, Reserved, SentPcs
    <3> QED
      BY <3>1, <3>2, <3>3
  <2>6. StoredFirst'
    BY <2>1, <2>3, <2>4 DEF StoredFirst, Reserved, SentPcs
  <2>7. RecordStands'
    <3>1. \A q \in Proc \ {p} : Reserved(q) => req[q] # req[p]
      BY <2>4 DEF NonceNeverReused
    <3>2. \A q \in Proc \ {p} : Reserved(q) =>
            req[q].room # req[p].room \/ req[q].nonce # req[p].nonce
      BY <3>1, SameRequest DEF TypeOK
    <3> QED
      BY <2>1, <2>3, <3>2 DEF RecordStands, Reserved, SentPcs, Accepted, Found
  <2>8. LogTruthful'
    <3>1. \A e \in log : e.room # new.room \/ e.nonce # new.nonce
      BY <2>4 DEF RecordStands
    <3>2. Found(new) = Found(req[p])
      BY DEF Found
    <3>3. new.status = "success" => Accepted(new) /\ new.seq \in Found(new) \cup {Null}
      BY <2>2, <3>2 DEF RecordStands, Accepted
    <3>4. \A e \in log \cup {new} : Found(e)' = Found(e)
      BY <2>1 DEF Found
    <3> HIDE DEF new
    <3> QED
      BY <2>3, <3>1, <3>3, <3>4 DEF LogTruthful, Accepted
  <2> QED
    BY <2>5, <2>6, <2>7, <2>8
(* The scripts stand still while a room grows by m.                         *)
<1>9. ASSUME NEW r \in RoomName, NEW m \in Messages,
             posts' = [posts EXCEPT ![r] = Append(@, m)],
             flight' \subseteq flight,
             m.own => /\ \E q \in flight : q.room = r /\ q.nonce = m.nonce
                      /\ \A q \in flight' : q.room # r \/ q.nonce # m.nonce,
             UNCHANGED <<nonceFile, lock, pc, req, seq, status, log>>
      PROVE  Rest
  <2> DEFINE n == Len(posts[r]) + 1
  <2>1. /\ \A s \in RoomName \ {r} : posts'[s] = posts[s]
        /\ DOMAIN posts'[r] = DOMAIN posts[r] \cup {n}
        /\ n \notin DOMAIN posts[r]
        /\ posts'[r][n] = m
        /\ \A i \in DOMAIN posts[r] : posts'[r][i] = posts[r][i]
    BY <1>9, AppendPost
  <2> HIDE DEF n
  <2>2. LockHeld' /\ IntRange' /\ SaveFresh'
    BY <1>9 DEF LockHeld, IntRange, SaveFresh
  <2>3. m.own => m.nonce <= nonceFile[r] /\ \A i \in DOMAIN posts[r] :
                   ~(posts[r][i].own /\ posts[r][i].nonce = m.nonce)
    BY <1>9 DEF StoredFirst, SentOnce, Accepted, Found
  <2>4. StoredFirst'
    <3>1. \A s \in RoomName : \A i \in DOMAIN posts'[s] :
            posts'[s][i].own => posts'[s][i].nonce <= nonceFile[s]
      <4> SUFFICES ASSUME NEW s \in RoomName, NEW i \in DOMAIN posts'[s], posts'[s][i].own
                   PROVE  posts'[s][i].nonce <= nonceFile[s]
        OBVIOUS
      <4>1. CASE s = r /\ i = n
        BY <2>1, <2>3, <4>1
      <4>2. CASE ~(s = r /\ i = n)
        BY <2>1, <4>2 DEF StoredFirst
      <4> QED
        BY <4>1, <4>2
    <3> QED
      BY <1>9, <3>1 DEF StoredFirst, Reserved
  <2>5. \A q \in Requests : ~m.own \/ q.room # r \/ q.nonce # m.nonce => Accepted(q)' = Accepted(q)
    <3> SUFFICES ASSUME NEW q \in Requests, ~m.own \/ q.room # r \/ q.nonce # m.nonce
                 PROVE  Accepted(q)' = Accepted(q)
      OBVIOUS
    <3>1. Found(q)' = Found(q)
      BY <1>9, AppendFound DEF Requests
    <3> QED
      BY <3>1 DEF Accepted
  <2>6. SentOnce'
    <3>1. \A q \in flight' : q \in Requests /\ q \in flight
      BY <1>9 DEF TypeOK
    <3>2. ASSUME NEW p \in Proc, pc[p] \in {"unlock", "sign", "post"}
          PROVE  req[p] \notin flight' /\ ~Accepted(req[p])'
      <4>1. req[p] \in Requests /\ req[p] \notin flight /\ ~Accepted(req[p])
        BY <3>2 DEF SentOnce, TypeOK
      <4>2. ~m.own \/ req[p].room # r \/ req[p].nonce # m.nonce
        BY <1>9, <4>1, SameRequest DEF TypeOK
      <4>3. Found(req[p])' = Found(req[p])
        BY <1>9, <2>1, <4>1, <4>2 DEF Found, Requests
      <4> QED
        BY <1>9, <4>1, <4>3 DEF Accepted
    <3> QED
      BY <1>9, <2>5, <3>1, <3>2 DEF SentOnce
  <2>7. NonceNeverReused'
    <3>1. \A s \in RoomName : \A i, j \in DOMAIN posts'[s] :
            posts'[s][i].own /\ posts'[s][j].own /\ posts'[s][i].nonce = posts'[s][j].nonce
              => i = j
      <4> SUFFICES ASSUME NEW s \in RoomName,
                          NEW i \in DOMAIN posts'[s], NEW j \in DOMAIN posts'[s],
                          posts'[s][i].own, posts'[s][j].own,
                          posts'[s][i].nonce = posts'[s][j].nonce
                   PROVE  i = j
        OBVIOUS
      <4>1. CASE s # r \/ (i # n /\ j # n)
        BY <2>1, <4>1 DEF NonceNeverReused
      <4>2. CASE s = r /\ (i = n \/ j = n)
        BY <2>1, <2>3, <4>2
      <4> QED
        BY <4>1, <4>2
    <3> QED
      BY <1>9, <3>1 DEF NonceNeverReused, Reserved
  <2>8. \A e : e.room \in RoomName => Found(e) \subseteq Found(e)'
    BY <1>9, AppendFound
  <2>9. \A p \in Proc : Found(req[p]) \subseteq Found(req[p])'
    BY <1>9, <2>1 DEF Found, TypeOK, Requests
  <2>10. RecordStands'
    BY <1>9, <2>9 DEF RecordStands, Reserved, Accepted
  <2>11. LogTruthful'
    BY <1>9, <2>8 DEF LogTruthful, Accepted, TypeOK, Records
  <2> QED
    BY <2>2, <2>4, <2>6, <2>7, <2>10, <2>11
<1>10. ASSUME NEW q \in flight, Accept(q)
       PROVE  Rest
  <2>1. q \in Requests /\ [own |-> TRUE, nonce |-> q.nonce] \in Messages
    BY DEF TypeOK, Requests, Messages
  <2>2. \A o \in flight \ {q} : o.room # q.room \/ o.nonce # q.nonce
    BY <2>1, SameRequest DEF TypeOK
  <2> DEFINE m == [own |-> TRUE, nonce |-> q.nonce]
  <2>3. /\ q.room \in RoomName /\ m \in Messages /\ m.nonce = q.nonce
        /\ posts' = [posts EXCEPT ![q.room] = Append(@, m)]
        /\ flight' = flight \ {q}
        /\ UNCHANGED <<nonceFile, lock, pc, req, seq, status, log>>
    BY <1>10, <2>1 DEF Accept, Requests
  <2> HIDE DEF m
  <2>4. /\ flight' \subseteq flight
        /\ \E o \in flight : o.room = q.room /\ o.nonce = m.nonce
        /\ \A o \in flight' : o.room # q.room \/ o.nonce # m.nonce
    BY <2>2, <2>3
  <2> QED
    BY <1>9, <2>3, <2>4
<1>11. ASSUME NEW r \in RoomName, NEW n \in Nonces, OtherPost(r, n)
       PROVE  Rest
  <2>1. [own |-> FALSE, nonce |-> n] \in Messages
    BY DEF Messages
  <2> QED
    BY <1>9, <1>11, <2>1 DEF OtherPost
<1>12. ASSUME flight' \subseteq flight,
              UNCHANGED <<nonceFile, lock, pc, req, seq, status, posts, log>>
       PROVE  Rest
  <2>1. LockHeld' /\ IntRange' /\ SaveFresh' /\ StoredFirst'
    BY <1>12 DEF LockHeld, IntRange, SaveFresh, StoredFirst, Reserved
  <2>2. SentOnce' /\ NonceNeverReused'
    BY <1>12 DEF SentOnce, NonceNeverReused, Reserved, Accepted, Found
  <2>3. RecordStands' /\ LogTruthful'
    BY <1>12 DEF RecordStands, LogTruthful, Reserved, Accepted, Found
  <2> QED
    BY <2>1, <2>2, <2>3
<1>13. CASE (\E q \in flight : Drop(q)) \/ UNCHANGED vars
  BY <1>0, <1>12, <1>13 DEF Drop, vars
<1>14. CASE \E p \in Proc : (\E r \in RoomName : Start(p, r)) \/ Lock(p) \/ ReserveStep(p) \/ Crash(p)
  BY <1>0, <1>14, <1>2, <1>3, <1>4, <1>5, <1>7 DEF ReserveStep
<1>15. CASE \E p \in Proc : SendStep(p)
  BY <1>0, <1>15, <1>2, <1>7, <1>8 DEF SendStep
<1> QED
  BY <1>0, <1>10, <1>11, <1>13, <1>14, <1>15 DEF Next, Service

-----------------------------------------------------------------------------
(* The inductive invariant holds while the clock is a 64-bit integer.       *)
THEOREM SenderInvariant == ASSUME ClockInRange PROVE Spec => []SInv
BY ClockInRange, InitInv, NextInv, PTL DEF Spec

(* No nonce is used for two sends, whatever the clock, kills, concurrent    *)
(* senders and late requests do.                                            *)
THEOREM NoncesAreNotReused == ASSUME ClockInRange PROVE Spec => []NonceNeverReused
<1>1. SInv => NonceNeverReused
  BY DEF SInv
<1> QED
  BY <1>1, SenderInvariant, PTL

(* The activity log never claims a success the room does not show, nor says *)
(* two things of one message.                                               *)
THEOREM LogIsTruthful == ASSUME ClockInRange PROVE Spec => []LogTruthful
<1>1. SInv => LogTruthful
  BY DEF SInv
<1> QED
  BY <1>1, SenderInvariant, PTL

(* Stored nonces increase, also when the clock is set back.                 *)
THEOREM NoncesIncrease == ASSUME ClockInRange PROVE Spec => NonceIncreases
<1>1. ASSUME SInv, [Next]_vars
      PROVE  [\A r \in RoomName :
                nonceFile'[r] # nonceFile[r] => nonceFile'[r] > nonceFile[r]]_nonceFile
  <2> SUFFICES ASSUME nonceFile' # nonceFile
               PROVE  \A r \in RoomName :
                        nonceFile'[r] # nonceFile[r] => nonceFile'[r] > nonceFile[r]
    OBVIOUS
  <2>1. PICK p \in Proc : Save(p)
    BY <1>1 DEF Next, vars, Service, Accept, Drop, OtherPost, Start, Lock, ReserveStep, SendStep,
       ReserveFail, Reserve, Unlock, SignFail, Sign, Post, Answered, Unanswered, LogFailure,
       Recover, RecoverAbort, LogSuccess, Crash
  <2> QED
    BY <1>1, <2>1 DEF Save, SInv, SaveFresh, TypeOK, Requests
<1> QED
  BY <1>1, SenderInvariant, PTL DEF Spec, NonceIncreases
=============================================================================
