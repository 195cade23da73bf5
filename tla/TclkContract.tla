---------------------------- MODULE TclkContract ----------------------------
(***************************************************************************)
(* One tclk/1 hash-lock contract: the class Contract of scripts/            *)
(* validate-tclk-transcript.py, and the form of the frames it is given.     *)
(*                                                                          *)
(* A digest is injective, so the digest of a value is the value: an offer   *)
(* is its own id, a contract's id holds the offer and the core of the       *)
(* acceptance, and a statement is the secret that opens it.                 *)
(***************************************************************************)
EXTENDS Integers

CONSTANTS
  Party,   \* DIDs
  Offers,  \* offers, without their ids
  Secrets, \* preimages
  Rails,   \* settlement rails
  Refs,    \* references of a lock on its rail
  Times,   \* timestamps of the transport, in any order
  None     \* an absent field

ContractIds == [offer : Offers, from : Party, statement : Secrets]

Active   == {"proposed", "accepted", "locked"}
Terminal == {"claimed", "refunded", "cancelled"}

Contracts ==
  [offer : Offers, status : Active \cup Terminal, payer : Party \cup {None},
   payee : Party \cup {None}, contract : ContractIds \cup {None},
   statement : Secrets \cup {None}, rail : Rails \cup {None}, railRef : Refs \cup {None}]

(* What the rest assumes of an offer is checked by validate_frame.          *)
ASSUME TclkAssumption ==
  /\ Times \subseteq Nat
  /\ Offers \subseteq [from : Party, role : {"payer", "payee"}, rails : SUBSET Rails,
                       claimBy : Nat, refundAfter : Nat, expires : Nat]
  /\ None \notin Party \cup Offers \cup Secrets \cup Rails \cup Refs \cup ContractIds \cup Contracts

NewContract(o) ==
  [offer |-> o, status |-> "proposed",
   payer |-> IF o.role = "payer" THEN o.from ELSE None,
   payee |-> IF o.role = "payee" THEN o.from ELSE None,
   contract |-> None, statement |-> None, rail |-> None, railRef |-> None]

-----------------------------------------------------------------------------
(* Frames, by kind, as far as they can be taken: a frame with an id that no *)
(* contract of the transcript has is refused, and so is a receipt of one    *)
(* that has not ended.                                                      *)
OfferFrames == [type : {"offer"}, body : Offers, id : Offers]

IdOf(f) == [offer |-> f.ref, from |-> f.from, statement |-> f.statement]

AcceptFrames(ids) ==
  UNION {[type : {"accept"}, from : {i.from}, ref : {i.offer}, statement : {i.statement},
          contract : ids \cup {i}] : i \in ContractIds}

Maybe(S) == S \cup {None}

DealFrames(ids) ==
  [type : {"lock"}, from : Party, contract : ids, rail : Rails, ref : Refs]
  \cup [type : {"reveal"}, from : Party, contract : ids, secret : Secrets, ref : Maybe(Refs)]
  \cup [type : {"refund"}, from : Party, contract : ids, ref : Maybe(Refs)]
  \cup [type : {"cancel", "heartbeat"}, from : Party, contract : ids]

ReceiptFrames(ids) ==
  [type : {"receipt"}, from : Party, contract : ids, outcome : Terminal,
   rail : Maybe(Rails), ref : Maybe(Refs)]

(* The party that wrote a frame.                                            *)
Author(f) == IF f.type = "offer" THEN f.body.from ELSE f.from

(* A slip: the id of an offer is not recomputed.                            *)
WellFormedAnyId(f) == f.type = "offer" => f.body.claimBy < f.body.refundAfter

(* validate_frame, as far as it is not about the form of a field.           *)
WellFormed(f) ==
  f.type = "offer" => f.id = f.body /\ f.body.claimBy < f.body.refundAfter

-----------------------------------------------------------------------------
(* Contract.apply: when a frame is taken, by kind, and what becomes of the  *)
(* contract.                                                                *)
Parties(c) == {c.payer, c.payee}

MayAccept(c, f, now) ==
  /\ c.status = "proposed" /\ f.ref = c.offer
  /\ f.from # c.offer.from /\ now < c.offer.expires
  /\ f.contract = IdOf(f)

MayLock(c, f, now) ==
  /\ c.status = "accepted" /\ f.contract = c.contract
  /\ f.from = c.payer /\ f.rail \in c.offer.rails
  /\ now < c.offer.refundAfter

(* A slip: the payee may reveal at any time.                                *)
MayRevealLate(c, f, now) ==
  /\ c.status = "locked" /\ f.contract = c.contract
  /\ f.from = c.payee
  /\ f.ref \in {None, c.railRef}
  /\ f.secret = c.statement

MayReveal(c, f, now) ==
  /\ c.status = "locked" /\ f.contract = c.contract
  /\ f.from = c.payee /\ now < c.offer.refundAfter
  /\ f.ref \in {None, c.railRef}
  /\ f.secret = c.statement

(* A slip: a refund is taken although the contract has been claimed.        *)
MayRefundClaimed(c, f, now) ==
  /\ c.status \in {"locked", "claimed"} /\ f.contract = c.contract
  /\ f.from = c.payer /\ now >= c.offer.refundAfter
  /\ f.ref \in {None, c.railRef}

MayRefund(c, f, now) ==
  /\ c.status = "locked" /\ f.contract = c.contract
  /\ f.from = c.payer /\ now >= c.offer.refundAfter
  /\ f.ref \in {None, c.railRef}

MayBeat(c, f) ==
  c.status \in {"accepted", "locked"} /\ f.contract = c.contract /\ f.from \in Parties(c)

MayCancel(c, f) ==
  c.status = "accepted" /\ f.contract = c.contract /\ f.from \in Parties(c)

MayReceipt(c, f) ==
  /\ c.status \in Terminal /\ f.contract = c.contract /\ f.from \in Parties(c)
  /\ f.outcome = c.status
  /\ f.rail \in {None, c.rail} /\ f.ref \in {None, c.railRef}

Allowed(c, f, now) ==
  \/ f.type = "accept" /\ MayAccept(c, f, now)
  \/ f.type = "lock" /\ MayLock(c, f, now)
  \/ f.type = "reveal" /\ MayReveal(c, f, now)
  \/ f.type = "refund" /\ MayRefund(c, f, now)
  \/ f.type = "heartbeat" /\ MayBeat(c, f)
  \/ f.type = "cancel" /\ MayCancel(c, f)
  \/ f.type = "receipt" /\ MayReceipt(c, f)

(* A slip: the accepting party always becomes the payee.                    *)
AppliedPayee(c, f) ==
  CASE f.type = "accept" -> [c EXCEPT !.status = "accepted", !.contract = f.contract,
                               !.statement = f.statement, !.payee = f.from]
    [] f.type = "lock"   -> [c EXCEPT !.status = "locked", !.rail = f.rail, !.railRef = f.ref]
    [] f.type = "reveal" -> [c EXCEPT !.status = "claimed"]
    [] f.type = "refund" -> [c EXCEPT !.status = "refunded"]
    [] f.type = "cancel" -> [c EXCEPT !.status = "cancelled"]
    [] OTHER             -> c

(* A slip: the rail is stored for its reference.                            *)
AppliedRail(c, f) ==
  CASE f.type = "accept" -> [c EXCEPT !.status = "accepted", !.contract = f.contract,
                               !.statement = f.statement,
                               !.payer = IF c.offer.role = "payer" THEN @ ELSE f.from,
                               !.payee = IF c.offer.role = "payer" THEN f.from ELSE @]
    [] f.type = "lock"   -> [c EXCEPT !.status = "locked", !.rail = f.rail, !.railRef = f.rail]
    [] f.type = "reveal" -> [c EXCEPT !.status = "claimed"]
    [] f.type = "refund" -> [c EXCEPT !.status = "refunded"]
    [] f.type = "cancel" -> [c EXCEPT !.status = "cancelled"]
    [] OTHER             -> c

Applied(c, f) ==
  CASE f.type = "accept" -> [c EXCEPT !.status = "accepted", !.contract = f.contract,
                               !.statement = f.statement,
                               !.payer = IF c.offer.role = "payer" THEN @ ELSE f.from,
                               !.payee = IF c.offer.role = "payer" THEN f.from ELSE @]
    [] f.type = "lock"   -> [c EXCEPT !.status = "locked", !.rail = f.rail, !.railRef = f.ref]
    [] f.type = "reveal" -> [c EXCEPT !.status = "claimed"]
    [] f.type = "refund" -> [c EXCEPT !.status = "refunded"]
    [] f.type = "cancel" -> [c EXCEPT !.status = "cancelled"]
    [] OTHER             -> c
=============================================================================
