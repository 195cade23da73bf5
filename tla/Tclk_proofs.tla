---------------------------- MODULE Tclk_proofs ----------------------------
(***************************************************************************)
(* Theorems of the two tclk readers, for all offers, secrets, rails and     *)
(* timestamps, and for transcripts of any length.                           *)
(***************************************************************************)
EXTENDS CrossRoomAudit, FiniteSetTheorems, TLAPS

(* What is known of the contract that belongs to an offer.                  *)
ContractFits(k, o) ==
  /\ k \in Contracts /\ k.offer = o
  /\ k.status = "proposed" =>
       /\ k.contract = None
       /\ k.payer = IF o.role = "payer" THEN o.from ELSE None
       /\ k.payee = IF o.role = "payee" THEN o.from ELSE None
  /\ k.status # "proposed" =>
       /\ k.contract \in ContractIds /\ k.contract.offer = o
       /\ k.payer # k.payee /\ Parties(k) = {o.from, k.contract.from}
       /\ (o.role = "payer") = (k.payer = o.from)

OfferFrame(o) == [type |-> "offer", body |-> o, id |-> o]

OfferKnown(o) ==
  contracts[o] # None =>
    /\ ContractFits(contracts[o], o)
    /\ contracts[o].status # "proposed" => byId[contracts[o].contract] = o
    /\ OfferFrame(o) \in Seen

IdKnown(c) ==
  byId[c] # None =>
    /\ byId[c] = c.offer /\ contracts[c.offer] # None
    /\ contracts[c.offer].contract = c /\ contracts[c.offer].status # "proposed"

(* Inductive: the dictionaries, the frames that made them and the target.   *)
TclkInv ==
  /\ TclkTypeOK
  /\ \A o \in Offers : OfferKnown(o)
  /\ \A c \in ContractIds : IdKnown(c)
  /\ target # None => target \in ContractIds /\ byId[target] # None

-----------------------------------------------------------------------------
(* A frame changes a contract by one of three steps.                        *)
OfferStep(o) ==
  /\ contracts[o] = None
  /\ contracts' = [contracts EXCEPT ![o] = NewContract(o)]
  /\ byId' = byId /\ OfferFrame(o) \in Seen'

Taken(k, p, s) ==
  [k EXCEPT !.status = "accepted", !.statement = s,
            !.contract = [offer |-> k.offer, from |-> p, statement |-> s],
            !.payer = IF k.offer.role = "payer" THEN @ ELSE p,
            !.payee = IF k.offer.role = "payer" THEN p ELSE @]

AcceptStep(o, p, s) ==
  /\ contracts[o] # None /\ contracts[o].status = "proposed" /\ p # o.from
  /\ contracts' = [contracts EXCEPT ![o] = Taken(contracts[o], p, s)]
  /\ byId' = [byId EXCEPT ![[offer |-> o, from |-> p, statement |-> s]] = o]

(* What a frame of the deal may make of a contract.                         *)
Moved(k, l) ==
  /\ l \in Contracts
  /\ l.offer = k.offer /\ l.contract = k.contract /\ l.statement = k.statement
  /\ l.payer = k.payer /\ l.payee = k.payee
  /\ \/ l.status = k.status
     \/ k.status = "accepted" /\ l.status \in {"locked", "cancelled"}
     \/ k.status = "locked" /\ l.status \in {"claimed", "refunded"}

DealStep(c, l) ==
  /\ byId[c] # None
  /\ Moved(contracts[c.offer], l)
  /\ contracts' = [contracts EXCEPT ![c.offer] = l]
  /\ byId' = byId

Endings   == {"reveal", "refund", "cancel"}
DealKinds == Endings \cup {"lock", "heartbeat", "receipt"}

Entry(f, sender, now) == [frame |-> f, by |-> sender, at |-> now]

(* What a reader does with a frame, by the kind of the frame.               *)
Takes(f, sender, now) ==
  /\ log' = log \cup {Entry(f, sender, now)} /\ f \notin Seen /\ sender = Author(f)
  /\ \/ f.type = "offer" /\ f.body \in Offers /\ f = OfferFrame(f.body) /\ OfferStep(f.body)
     \/ /\ f.type = "accept" /\ f.from \in Party /\ f.ref \in Offers /\ f.statement \in Secrets
        /\ f.contract = IdOf(f) /\ now < f.ref.expires
        /\ AcceptStep(f.ref, f.from, f.statement)
     \/ /\ f.type \in DealKinds /\ f.contract \in ContractIds
        /\ Allowed(contracts[f.contract.offer], f, now)
        /\ DealStep(f.contract, Applied(contracts[f.contract.offer], f))

TakesFrame ==
  /\ Seen \subseteq Seen'
  /\ \A e \in log' : e.at \in Times
  /\ \/ \E o \in Offers : OfferStep(o)
     \/ \E o \in Offers, p \in Party, s \in Secrets : AcceptStep(o, p, s)
     \/ \E c \in ContractIds, l \in Contracts : DealStep(c, l)

(* Offers are records, and None is none of them.                            *)
LEMMA OfferShape ==
  ASSUME NEW o \in Offers
  PROVE  /\ o.from \in Party /\ o.role \in {"payer", "payee"} /\ o # None
         /\ NewContract(o) \in Contracts /\ NewContract(o) # None
<1>1. /\ o \in [from : Party, role : {"payer", "payee"}, rails : SUBSET Rails,
                claimBy : Nat, refundAfter : Nat, expires : Nat]
      /\ None \notin Offers /\ None \notin Contracts
  BY TclkAssumption
<1>2. o.from \in Party /\ o.role \in {"payer", "payee"} /\ o # None
  BY <1>1
<1>3. NewContract(o) \in Contracts
  BY <1>2 DEF NewContract, Contracts, Active
<1> QED
  BY <1>1, <1>2, <1>3

(* The fields of frames of each kind.                                       *)
LEMMA FrameShape ==
  ASSUME NEW f \in Frames
  PROVE  /\ f.type = "offer" => f.body \in Offers /\ f \in OfferFrames
         /\ f.type = "accept" => f.from \in Party /\ f.ref \in Offers /\ f.statement \in Secrets
         /\ f.type \notin {"offer", "accept"} => f.contract \in ContractIds
         /\ f.type = "lock" => f.rail \in Rails /\ f.ref \in Refs
         /\ f.type \in DealKinds \cup {"offer", "accept"}
<1> USE DEF DealKinds, Endings
<1>1. Known \subseteq ContractIds /\ Ended \subseteq ContractIds
  BY DEF Known, Ended
<1>2. CASE f \in OfferFrames
  BY <1>2 DEF OfferFrames
<1>3. CASE f \in AcceptFrames(Known)
  <2>1. PICK i \in ContractIds :
          f \in [type : {"accept"}, from : {i.from}, ref : {i.offer}, statement : {i.statement},
                 contract : Known \cup {i}]
    BY <1>3 DEF AcceptFrames
  <2> QED
    BY <2>1 DEF ContractIds
<1>4. CASE f \in DealFrames(Known)
  BY <1>1, <1>4 DEF DealFrames
<1>5. CASE f \in ReceiptFrames(Ended)
  BY <1>1, <1>5 DEF ReceiptFrames
<1> QED
  BY <1>2, <1>3, <1>4, <1>5 DEF Frames

(* A record of the log grows what was seen.                                 *)
LEMMA SeenGrows ==
  ASSUME NEW f, NEW sender, NEW now \in Times, TclkTypeOK, Record(f, sender, now)
  PROVE  Seen \subseteq Seen' /\ f \in Seen' /\ \A e \in log' : e.at \in Times
<1> DEFINE e == [frame |-> f, by |-> sender, at |-> now]
<1>1. log' = log \cup {e} /\ e.frame = f /\ e.at = now
  BY DEF Record
<1>2. \A d \in log : d.at \in Times
  BY DEF TclkTypeOK
<1> HIDE DEF e
<1>3. Seen' = Seen \cup {f}
  BY <1>1 DEF Seen
<1> QED
  BY <1>1, <1>2, <1>3

(* What a frame of the deal makes of its contract.                          *)
LEMMA AppliedMoves ==
  ASSUME NEW k \in Contracts, NEW f, NEW now, Allowed(k, f, now),
         f.type # "accept",
         f.type = "lock" => f.rail \in Rails /\ f.ref \in Refs
  PROVE  Moved(k, Applied(k, f))
<1> USE DEF Moved, Applied, Contracts, Active, Terminal
<1>1. CASE f.type = "lock"
  BY <1>1 DEF Allowed, MayLock
<1>2. CASE f.type = "reveal"
  BY <1>2 DEF Allowed, MayReveal
<1>3. CASE f.type = "refund"
  BY <1>3 DEF Allowed, MayRefund
<1>4. CASE f.type = "cancel"
  BY <1>4 DEF Allowed, MayCancel
<1>5. CASE f.type \notin {"lock", "reveal", "refund", "cancel"}
  BY <1>5
<1> QED
  BY <1>1, <1>2, <1>3, <1>4, <1>5

(* Taking a frame is one of the three steps, for either reader, with its    *)
(* entry in the log.                                                        *)
LEMMA FrameTakes ==
  ASSUME TclkInv, NEW f \in Frames, NEW sender \in Party, NEW now \in Times,
         ReadFrame(f, sender, now) \/ AuditFrame(f, sender, now)
  PROVE  Takes(f, sender, now)
<1>1. Record(f, sender, now) /\ Presentable(f, sender) /\ f \notin Seen
  BY DEF ReadFrame, AuditFrame
<1>2. Seen \subseteq Seen' /\ f \in Seen' /\ \A e \in log' : e.at \in Times
  BY <1>1, SeenGrows DEF TclkInv
<1>3. log' = log \cup {Entry(f, sender, now)} /\ f \notin Seen /\ sender = Author(f)
  BY <1>1 DEF Record, Entry, Presentable
<1>4. CASE f.type = "offer"
  <2>1. f.body \in Offers /\ f = OfferFrame(f.body)
    BY <1>1, <1>4, FrameShape DEF Presentable, WellFormed, OfferFrames, OfferFrame
  <2>2. contracts[f.body] = None
    BY <1>1, <2>1 DEF TclkInv, OfferKnown
  <2>3. f.id = f.body
    BY <2>1 DEF OfferFrame
  <2>4. contracts' = [contracts EXCEPT ![f.body] = NewContract(f.body)] /\ byId' = byId
    BY <1>1, <1>4, <2>3 DEF Record
  <2>5. OfferFrame(f.body) \in Seen'
    BY <1>2, <2>1
  <2>6. OfferStep(f.body)
    BY <2>2, <2>4, <2>5 DEF OfferStep
  <2> QED
    BY <1>3, <1>4, <2>1, <2>6 DEF Takes
<1>5. CASE f.type = "accept"
  <2>1. f.from \in Party /\ f.ref \in Offers /\ f.statement \in Secrets
    BY <1>5, FrameShape
  <2>2. /\ contracts[f.ref] # None /\ contracts[f.ref].status = "proposed"
        /\ f.from # f.ref.from /\ f.contract = IdOf(f) /\ now < f.ref.expires
    <3>1. CASE ReadFrame(f, sender, now)
      <4>1. contracts[f.ref] # None /\ MayAccept(contracts[f.ref], f, now)
        BY <1>5, <3>1 DEF ReadFrame, FitsOffer, FitsAccept, FitsDeal
      <4> QED
        BY <2>1, <4>1 DEF MayAccept
    <3>2. CASE AuditFrame(f, sender, now)
      BY <1>5, <3>2, <2>1 DEF AuditFrame, FitsBoardAccept, FitsTarget, MayAccept, NewContract
    <3> QED
      BY <3>1, <3>2
  <2>3. contracts' = [contracts EXCEPT ![f.ref] = Applied(@, f)]
    BY <1>1, <1>5 DEF Record
  <2>4. byId' = [byId EXCEPT ![f.contract] = f.ref]
    BY <1>1, <1>5 DEF Record
  <2>5. contracts[f.ref].offer = f.ref
    BY <2>1, <2>2 DEF TclkInv, OfferKnown, ContractFits
  <2>6. f.contract = [offer |-> f.ref, from |-> f.from, statement |-> f.statement]
    BY <2>2 DEF IdOf
  <2>7. Applied(contracts[f.ref], f) = Taken(contracts[f.ref], f.from, f.statement)
    BY <1>5, <2>5, <2>6 DEF Applied, Taken
  <2>8. AcceptStep(f.ref, f.from, f.statement)
    BY <2>2, <2>3, <2>4, <2>6, <2>7 DEF AcceptStep
  <2> QED
    BY <1>3, <1>5, <2>1, <2>2, <2>8 DEF Takes
<1>6. CASE f.type \notin {"offer", "accept"}
  <2> DEFINE c == f.contract
  <2>1. c \in ContractIds
    BY <1>6, FrameShape
  <2>2. byId[c] # None /\ Allowed(contracts[byId[c]], f, now)
    <3>1. CASE ReadFrame(f, sender, now)
      BY <1>6, <3>1 DEF ReadFrame, FitsOffer, FitsAccept, FitsDeal
    <3>2. CASE AuditFrame(f, sender, now)
      BY <1>6, <3>2 DEF AuditFrame, FitsBoardAccept, FitsTarget, TclkInv
    <3> QED
      BY <3>1, <3>2
  <2>3. byId[c] = c.offer /\ contracts[c.offer] # None /\ c.offer \in Offers
    BY <2>1, <2>2 DEF TclkInv, IdKnown, ContractIds
  <2>4. contracts[c.offer] \in Contracts
    BY <2>3 DEF TclkInv, TclkTypeOK
  <2>5. Moved(contracts[c.offer], Applied(contracts[c.offer], f))
    BY <1>6, <2>2, <2>3, <2>4, FrameShape, AppliedMoves
  <2>6. contracts' = [contracts EXCEPT ![c.offer] = Applied(contracts[c.offer], f)] /\ byId' = byId
    BY <1>1, <1>6, <2>3 DEF Record
  <2>7. DealStep(c, Applied(contracts[c.offer], f)) /\ Applied(contracts[c.offer], f) \in Contracts
    BY <2>2, <2>5, <2>6 DEF DealStep, Moved
  <2> QED
    BY <1>3, <1>6, <2>1, <2>2, <2>3, <2>7, FrameShape DEF Takes
<1> QED
  BY <1>4, <1>5, <1>6

(* As far as the dictionaries are concerned.                                *)
LEMMA FrameSteps ==
  ASSUME TclkInv, NEW f \in Frames, NEW sender \in Party, NEW now \in Times,
         ReadFrame(f, sender, now) \/ AuditFrame(f, sender, now)
  PROVE  TakesFrame
<1>1. Record(f, sender, now)
  BY DEF ReadFrame, AuditFrame
<1>2. Seen \subseteq Seen' /\ \A e \in log' : e.at \in Times
  BY <1>1, SeenGrows DEF TclkInv
<1>3. ASSUME NEW c, NEW l, DealStep(c, l)
      PROVE  l \in Contracts
  BY <1>3 DEF DealStep, Moved
<1> QED
  BY <1>2, <1>3, FrameTakes DEF Takes, TakesFrame

-----------------------------------------------------------------------------
(* What an acceptance makes of a proposed contract.                         *)
LEMMA TakenFits ==
  ASSUME NEW o \in Offers, NEW p \in Party, NEW s \in Secrets, NEW k,
         ContractFits(k, o), k.status = "proposed", p # o.from
  PROVE  /\ ContractFits(Taken(k, p, s), o) /\ Taken(k, p, s) # None
         /\ Taken(k, p, s).status = "accepted"
         /\ Taken(k, p, s).contract = [offer |-> o, from |-> p, statement |-> s]
<1> DEFINE c == [offer |-> o, from |-> p, statement |-> s]
           l == Taken(k, p, s)
<1>1. c \in ContractIds /\ c.offer = o /\ c.from = p
  BY DEF ContractIds
<1>2. o.from \in Party /\ o.role \in {"payer", "payee"}
  BY OfferShape
<1>3. k \in Contracts /\ k.offer = o
  BY DEF ContractFits
<1>4. /\ l.offer = o /\ l.status = "accepted" /\ l.contract = c
      /\ l.payer = IF o.role = "payer" THEN o.from ELSE p
      /\ l.payee = IF o.role = "payer" THEN p ELSE o.from
  BY <1>2, <1>3 DEF Taken, ContractFits, Contracts
<1>5. l \in Contracts
  BY <1>1, <1>2, <1>3, <1>4 DEF Taken, Contracts, Active
<1>6. l # None
  BY <1>5, TclkAssumption
<1> HIDE DEF c, l
<1>7. l.payer # l.payee /\ {l.payer, l.payee} = {o.from, p} /\ (o.role = "payer") = (l.payer = o.from)
  BY <1>2, <1>4
<1> QED
  BY <1>1, <1>4, <1>5, <1>6, <1>7 DEF ContractFits, Parties, c, l

(* A frame of the deal leaves a contract that fits its offer.               *)
LEMMA MovedFits ==
  ASSUME NEW o \in Offers, NEW k, NEW l,
         ContractFits(k, o), k.status # "proposed", Moved(k, l)
  PROVE  ContractFits(l, o) /\ l # None /\ l.status # "proposed" /\ l.contract = k.contract
<1>1. l \in Contracts /\ l # None
  BY TclkAssumption DEF Moved
<1> QED
  BY <1>1 DEF ContractFits, Moved, Parties

(* The dictionaries stay together when a frame is taken.                    *)
LEMMA FrameKeepsOffers ==
  ASSUME TclkInv, TakesFrame, NEW q \in Offers
  PROVE  OfferKnown(q)'
<1>1. contracts \in [Offers -> Contracts \cup {None}] /\ byId \in [ContractIds -> Offers \cup {None}]
  BY DEF TclkInv, TclkTypeOK
<1>2. OfferKnown(q)
  BY DEF TclkInv
<1>3. Seen \subseteq Seen'
  BY DEF TakesFrame
<1>4. ASSUME NEW o \in Offers, OfferStep(o)
      PROVE  OfferKnown(q)'
  <2>1. CASE q = o
    <3>1. contracts'[q] = NewContract(o) /\ OfferFrame(o) \in Seen'
      BY <1>1, <1>4, <2>1 DEF OfferStep
    <3>2. ContractFits(NewContract(o), o) /\ NewContract(o).status = "proposed"
      BY OfferShape DEF ContractFits, NewContract
    <3> QED
      BY <2>1, <3>1, <3>2 DEF OfferKnown
  <2>2. CASE q # o
    <3>1. contracts'[q] = contracts[q] /\ byId' = byId
      BY <1>1, <1>4, <2>2 DEF OfferStep
    <3> QED
      BY <1>2, <1>3, <3>1 DEF OfferKnown
  <2> QED
    BY <2>1, <2>2
<1>5. ASSUME NEW o \in Offers, NEW p \in Party, NEW s \in Secrets, AcceptStep(o, p, s)
      PROVE  OfferKnown(q)'
  <2> DEFINE c == [offer |-> o, from |-> p, statement |-> s]
  <2>1. c \in ContractIds /\ c.offer = o
    BY DEF ContractIds
  <2>2. byId' = [byId EXCEPT ![c] = o]
    BY <1>5 DEF AcceptStep
  <2>3. CASE q = o
    <3>1. contracts'[q] = Taken(contracts[o], p, s)
      BY <1>1, <1>5, <2>3 DEF AcceptStep
    <3>2. ContractFits(contracts[o], o) /\ OfferFrame(o) \in Seen
      BY <1>2, <1>5, <2>3 DEF AcceptStep, OfferKnown
    <3>3. ContractFits(contracts'[q], o) /\ contracts'[q].contract = c
      BY <1>5, <3>1, <3>2, TakenFits DEF AcceptStep
    <3>4. byId'[c] = o
      BY <1>1, <2>1, <2>2
    <3> QED
      BY <1>3, <2>3, <3>2, <3>3, <3>4 DEF OfferKnown
  <2>4. CASE q # o
    <3>1. contracts'[q] = contracts[q]
      BY <1>1, <1>5, <2>4 DEF AcceptStep
    <3>2. CASE contracts[q] = None
      BY <3>1, <3>2 DEF OfferKnown
    <3>3. CASE contracts[q] # None /\ contracts[q].status # "proposed"
      <4> DEFINE d == contracts[q].contract
      <4>1. d \in ContractIds /\ d.offer = q /\ byId[d] = q
        BY <1>2, <3>3 DEF OfferKnown, ContractFits
      <4>2. d # c
        BY <2>1, <2>4, <4>1
      <4> HIDE DEF d, c
      <4>3. byId'[d] = q
        BY <1>1, <2>2, <4>1, <4>2
      <4> QED
        BY <1>2, <1>3, <3>1, <3>3, <4>3 DEF OfferKnown, d
    <3>4. CASE contracts[q] # None /\ contracts[q].status = "proposed"
      BY <1>2, <1>3, <3>1, <3>4 DEF OfferKnown
    <3> QED
      BY <3>2, <3>3, <3>4
  <2> QED
    BY <2>3, <2>4
<1>6. ASSUME NEW c \in ContractIds, NEW l \in Contracts, DealStep(c, l)
      PROVE  OfferKnown(q)'
  <2>1. /\ c.offer \in Offers /\ contracts[c.offer] # None
        /\ contracts[c.offer].status # "proposed" /\ byId' = byId
    BY <1>6 DEF DealStep, TclkInv, IdKnown, ContractIds
  <2>2. CASE q = c.offer
    <3>1. contracts'[q] = l /\ Moved(contracts[q], l)
      BY <1>1, <1>6, <2>1, <2>2 DEF DealStep
    <3>2. ContractFits(contracts[q], q) /\ byId[contracts[q].contract] = q /\ OfferFrame(q) \in Seen
      BY <1>2, <2>1, <2>2 DEF OfferKnown
    <3>3. ContractFits(l, q) /\ l.contract = contracts[q].contract
      BY <2>1, <2>2, <3>1, <3>2, MovedFits
    <3> QED
      BY <1>3, <2>1, <3>1, <3>2, <3>3 DEF OfferKnown
  <2>3. CASE q # c.offer
    <3>1. contracts'[q] = contracts[q]
      BY <1>1, <1>6, <2>1, <2>3 DEF DealStep
    <3> QED
      BY <1>2, <1>3, <2>1, <3>1 DEF OfferKnown
  <2> QED
    BY <2>2, <2>3
<1> QED
  BY <1>4, <1>5, <1>6 DEF TakesFrame

LEMMA FrameKeepsIds ==
  ASSUME TclkInv, TakesFrame, NEW d \in ContractIds
  PROVE  /\ IdKnown(d)'
         /\ byId[d] # None => byId'[d] # None
<1>1. contracts \in [Offers -> Contracts \cup {None}] /\ byId \in [ContractIds -> Offers \cup {None}]
  BY DEF TclkInv, TclkTypeOK
<1>2. IdKnown(d) /\ d.offer \in Offers
  BY DEF TclkInv, ContractIds
<1>3. ASSUME NEW o \in Offers, OfferStep(o)
      PROVE  IdKnown(d)' /\ byId' = byId
  <2>1. byId' = byId /\ (d.offer # o => contracts'[d.offer] = contracts[d.offer])
    BY <1>1, <1>2, <1>3 DEF OfferStep
  <2>2. byId[d] # None => d.offer # o
    BY <1>2, <1>3 DEF IdKnown, OfferStep
  <2> QED
    BY <1>2, <2>1, <2>2 DEF IdKnown
<1>4. ASSUME NEW o \in Offers, NEW p \in Party, NEW s \in Secrets, AcceptStep(o, p, s)
      PROVE  IdKnown(d)' /\ (byId[d] # None => byId'[d] # None)
  <2> DEFINE c == [offer |-> o, from |-> p, statement |-> s]
  <2>1. c \in ContractIds /\ c.offer = o /\ byId' = [byId EXCEPT ![c] = o]
    BY <1>4 DEF AcceptStep, ContractIds
  <2>2. CASE d = c
    <3>1. contracts'[o] = Taken(contracts[o], p, s)
      BY <1>1, <1>4 DEF AcceptStep
    <3>2. ContractFits(contracts[o], o)
      BY <1>4 DEF AcceptStep, TclkInv, OfferKnown
    <3>3. contracts'[o] # None /\ contracts'[o].contract = c /\ contracts'[o].status # "proposed"
      BY <1>4, <3>1, <3>2, TakenFits DEF AcceptStep
    <3>4. byId'[d] = o /\ o # None
      BY <1>1, <2>1, <2>2, OfferShape
    <3> QED
      BY <2>1, <2>2, <3>3, <3>4 DEF IdKnown
  <2>3. CASE d # c
    <3> HIDE DEF c
    <3>1. byId'[d] = byId[d]
      BY <1>1, <2>1, <2>3
    <3>2. byId[d] # None => d.offer # o
      BY <1>2, <1>4 DEF IdKnown, AcceptStep
    <3>3. d.offer # o => contracts'[d.offer] = contracts[d.offer]
      BY <1>1, <1>2, <1>4 DEF AcceptStep
    <3> QED
      BY <1>2, <3>1, <3>2, <3>3 DEF IdKnown
  <2> QED
    BY <2>2, <2>3
<1>5. ASSUME NEW c \in ContractIds, NEW l \in Contracts, DealStep(c, l)
      PROVE  IdKnown(d)' /\ byId' = byId
  <2>1. c.offer \in Offers /\ contracts[c.offer] # None /\ contracts[c.offer].status # "proposed"
    BY <1>5 DEF DealStep, TclkInv, IdKnown, ContractIds
  <2>2. byId' = byId /\ Moved(contracts[c.offer], l)
    BY <1>5 DEF DealStep
  <2>3. CASE d.offer = c.offer
    <3>1. contracts'[d.offer] = l
      BY <1>1, <1>5, <2>1, <2>3 DEF DealStep
    <3>2. ContractFits(contracts[c.offer], c.offer)
      BY <2>1 DEF TclkInv, OfferKnown
    <3>3. l # None /\ l.status # "proposed" /\ l.contract = contracts[c.offer].contract
      BY <2>1, <2>2, <3>2, MovedFits
    <3> QED
      BY <1>2, <2>2, <2>3, <3>1, <3>3 DEF IdKnown
  <2>4. CASE d.offer # c.offer
    <3>1. contracts'[d.offer] = contracts[d.offer]
      BY <1>1, <1>2, <1>5, <2>4 DEF DealStep
    <3> QED
      BY <1>2, <2>2, <3>1 DEF IdKnown
  <2> QED
    BY <2>3, <2>4
<1> QED
  BY <1>3, <1>4, <1>5 DEF TakesFrame

(* The types, the verdict apart.                                            *)
LEMMA FrameKeepsTypes ==
  ASSUME TclkInv, TakesFrame, verdict' = verdict
  PROVE  TclkTypeOK'
<1>1. contracts \in [Offers -> Contracts \cup {None}] /\ byId \in [ContractIds -> Offers \cup {None}]
  BY DEF TclkInv, TclkTypeOK
<1>2. ASSUME NEW o \in Offers, OfferStep(o)
      PROVE  /\ contracts' \in [Offers -> Contracts \cup {None}]
             /\ byId' \in [ContractIds -> Offers \cup {None}]
  BY <1>1, <1>2, OfferShape DEF OfferStep
<1>3. ASSUME NEW o \in Offers, NEW p \in Party, NEW s \in Secrets, AcceptStep(o, p, s)
      PROVE  /\ contracts' \in [Offers -> Contracts \cup {None}]
             /\ byId' \in [ContractIds -> Offers \cup {None}]
  <2>1. ContractFits(contracts[o], o)
    BY <1>3 DEF AcceptStep, TclkInv, OfferKnown
  <2>2. Taken(contracts[o], p, s) \in Contracts
    BY <1>3, <2>1, TakenFits DEF AcceptStep, ContractFits
  <2> QED
    BY <1>1, <1>3, <2>2 DEF AcceptStep
<1>4. ASSUME NEW c \in ContractIds, NEW l \in Contracts, DealStep(c, l)
      PROVE  /\ contracts' \in [Offers -> Contracts \cup {None}]
             /\ byId' \in [ContractIds -> Offers \cup {None}]
  BY <1>1, <1>4 DEF DealStep
<1> QED
  BY <1>2, <1>3, <1>4 DEF TakesFrame, TclkInv, TclkTypeOK

(* A target is the contract of an acceptance that has been read.            *)
LEMMA TargetKept ==
  ASSUME TclkInv, NEW f \in Frames, NEW sender \in Party, NEW now \in Times,
         \/ ReadFrame(f, sender, now) /\ UNCHANGED target
         \/ AuditFrame(f, sender, now),
         target' # None
  PROVE  target' \in ContractIds /\ byId'[target'] # None
<1>1. TakesFrame
  BY FrameSteps
<1>2. CASE target' = target
  BY <1>1, <1>2, FrameKeepsIds DEF TclkInv
<1>3. CASE target' # target
  <2>1. AuditFrame(f, sender, now) /\ f.type = "accept" /\ target' = f.contract
    BY <1>3 DEF AuditFrame
  <2>2. f.from \in Party /\ f.ref \in Offers /\ f.statement \in Secrets
    BY <2>1, FrameShape
  <2>3. f.contract = IdOf(f) /\ byId' = [byId EXCEPT ![f.contract] = f.ref]
    BY <2>1 DEF AuditFrame, FitsBoardAccept, FitsTarget, MayAccept, Record
  <2>4. f.contract \in ContractIds
    BY <2>2, <2>3 DEF IdOf, ContractIds
  <2>5. byId'[f.contract] = f.ref
    BY <2>3, <2>4 DEF TclkInv, TclkTypeOK
  <2> QED
    BY <2>1, <2>2, <2>4, <2>5, OfferShape
<1> QED
  BY <1>2, <1>3

(* The steps that take no frame change neither dictionary.                  *)
OtherStep ==
  /\ UNCHANGED <<contracts, byId, log, target>>
  /\ verdict' \in {"reading", "report", "error"}

LEMMA NextSteps ==
  ASSUME TclkInv, [Next]_auditVars
  PROVE  \/ OtherStep
         \/ \E f \in Frames, sender \in Party, now \in Times :
              /\ \/ ReadFrame(f, sender, now) /\ UNCHANGED target
                 \/ AuditFrame(f, sender, now)
              /\ verdict' = verdict
<1>1. verdict \in {"reading", "report", "error"}
  BY DEF TclkInv, TclkTypeOK
<1>2. CASE UNCHANGED auditVars
  BY <1>1, <1>2 DEF auditVars, OtherStep
<1>3. CASE tool = "validator" /\ TranscriptNext /\ UNCHANGED <<tool, source, target, latest>>
  <2>1. CASE ReadRefused \/ Finish
    BY <1>3, <2>1 DEF ReadRefused, Finish, Refuse, OtherStep
  <2>2. ASSUME NEW f \in Frames, NEW sender \in Party, NEW now \in Times,
               ReadFrame(f, sender, now)
        PROVE  verdict' = verdict
    BY <2>2 DEF ReadFrame, Record
  <2> QED
    BY <1>3, <2>1, <2>2 DEF TranscriptNext
<1>4. CASE tool = "audit" /\ AuditNext
  <2>1. CASE AuditRefused \/ NextExport \/ AuditFinish
    BY <1>1, <2>1 DEF AuditRefused, ReadRefused, Refuse, NextExport, AuditFinish, OtherStep
  <2>2. ASSUME NEW f \in Frames, NEW sender \in Party, NEW now \in Times,
               AuditFrame(f, sender, now)
        PROVE  verdict' = verdict
    BY <2>2 DEF AuditFrame, Record
  <2> QED
    BY <1>4, <2>1, <2>2 DEF AuditNext
<1> QED
  BY <1>2, <1>3, <1>4 DEF Next

LEMMA InvStep ==
  ASSUME TclkInv, [Next]_auditVars
  PROVE  TclkInv'
<1>1. CASE OtherStep
  BY <1>1 DEF OtherStep, TclkInv, TclkTypeOK, OfferKnown, IdKnown, Seen
<1>2. ASSUME NEW f \in Frames, NEW sender \in Party, NEW now \in Times,
             \/ ReadFrame(f, sender, now) /\ UNCHANGED target
             \/ AuditFrame(f, sender, now),
             verdict' = verdict
      PROVE  TclkInv'
  <2>1. TakesFrame
    BY <1>2, FrameSteps
  <2>2. TclkTypeOK'
    BY <1>2, <2>1, FrameKeepsTypes
  <2>3. \A o \in Offers : OfferKnown(o)'
    BY <2>1, FrameKeepsOffers
  <2>4. \A c \in ContractIds : IdKnown(c)'
    BY <2>1, FrameKeepsIds
  <2>5. target' # None => target' \in ContractIds /\ byId'[target'] # None
    BY <1>2, TargetKept
  <2> QED
    BY <2>2, <2>3, <2>4, <2>5 DEF TclkInv
<1> QED
  BY <1>1, <1>2, NextSteps

LEMMA InvHolds == Spec => []TclkInv
<1>1. Init => TclkInv
  BY DEF Init, TranscriptInit, TclkInv, TclkTypeOK, OfferKnown, IdKnown
<1> QED
  BY <1>1, InvStep, PTL DEF Spec

(* The variables of either reader have their types.                         *)
THEOREM ReadersTyped == Spec => []TclkTypeOK
<1>1. TclkInv => TclkTypeOK
  BY DEF TclkInv
<1> QED
  BY <1>1, InvHolds, PTL

(* The dictionaries of offers and of contract ids stay together, whatever   *)
(* the order in which the lines of several contracts are read.              *)
THEOREM DictionariesAgree == Spec => []Indexed
<1>1. ASSUME TclkInv PROVE Indexed
  <2>1. \A c \in ContractIds : byId[c] # None =>
          byId[c] = c.offer /\ contracts[c.offer] # None /\ contracts[c.offer].contract = c
    BY <1>1 DEF TclkInv, IdKnown
  <2>2. ASSUME NEW o \in Offers, contracts[o] # None, contracts[o].status # "proposed"
        PROVE  LET k == contracts[o]
               IN  /\ k.contract \in ContractIds /\ byId[k.contract] = o
                   /\ k.payer # k.payee /\ o.from \in Parties(k)
                   /\ Parties(k) = {o.from, k.contract.from}
                   /\ (o.role = "payer") = (k.payer = o.from)
    BY <1>1, <2>2 DEF TclkInv, OfferKnown, ContractFits
  <2>3. ASSUME NEW o \in Offers, contracts[o] # None
        PROVE  contracts[o].offer = o
    BY <1>1, <2>3 DEF TclkInv, OfferKnown, ContractFits
  <2> QED
    BY <2>1, <2>2, <2>3 DEF Indexed
<1> QED
  BY <1>1, InvHolds, PTL

-----------------------------------------------------------------------------
(* Where the lifecycle sees a contract.                                     *)
StageOf(k) == IF k = None THEN "none" ELSE k.status
TakerOf(k) == IF k = None THEN None ELSE IF k.contract = None THEN None ELSE k.contract.from

StageMap == [q \in Offers |-> StageOf(contracts[q])]
TakerMap == [q \in Offers |-> TakerOf(contracts[q])]

LEMMA OneContractMoves ==
  ASSUME TclkInv, NEW o \in Offers, NEW l, contracts' = [contracts EXCEPT ![o] = l]
  PROVE  /\ StageMap' = [StageMap EXCEPT ![o] = StageOf(l)]
         /\ TakerMap' = [TakerMap EXCEPT ![o] = TakerOf(l)]
<1>1. contracts \in [Offers -> Contracts \cup {None}]
  BY DEF TclkInv, TclkTypeOK
<1>2. \A q \in Offers : contracts'[q] = IF q = o THEN l ELSE contracts[q]
  BY <1>1
<1>3. \A q \in Offers : StageOf(contracts'[q]) = IF q = o THEN StageOf(l) ELSE StageOf(contracts[q])
  BY <1>2
<1>4. \A q \in Offers : TakerOf(contracts'[q]) = IF q = o THEN TakerOf(l) ELSE TakerOf(contracts[q])
  BY <1>2
<1>5. StageMap' = [q \in Offers |-> IF q = o THEN StageOf(l) ELSE StageMap[q]]
  BY <1>3 DEF StageMap
<1>6. TakerMap' = [q \in Offers |-> IF q = o THEN TakerOf(l) ELSE TakerMap[q]]
  BY <1>4 DEF TakerMap
<1>7. /\ StageMap = [q \in Offers |-> StageMap[q]]
      /\ TakerMap = [q \in Offers |-> TakerMap[q]]
  BY DEF StageMap, TakerMap
<1> QED
  BY <1>5, <1>6, <1>7

(* A frame that is taken is a step of the lifecycle, or none at all.        *)
LEMMA FrameFollowsLifecycle ==
  ASSUME TclkInv, TakesFrame
  PROVE  [Lifecycle!LifecycleNext]_(Lifecycle!lifecycleVars)
<1> DEFINE Move(o, from, to) == StageMap[o] = from /\ StageMap' = [StageMap EXCEPT ![o] = to]
           Lives ==
             \/ \E o \in Offers :
                  \/ Move(o, "none", "proposed") /\ TakerMap' = TakerMap
                  \/ \E p \in Party : /\ Move(o, "proposed", "accepted") /\ p # o.from
                                      /\ TakerMap' = [TakerMap EXCEPT ![o] = p]
                  \/ /\ \/ Move(o, "accepted", "locked") \/ Move(o, "accepted", "cancelled")
                        \/ Move(o, "locked", "claimed") \/ Move(o, "locked", "refunded")
                     /\ TakerMap' = TakerMap
             \/ StageMap' = StageMap /\ TakerMap' = TakerMap
<1>1. ASSUME NEW o \in Offers, OfferStep(o) PROVE Lives
  <2>1. StageOf(NewContract(o)) = "proposed" /\ TakerOf(NewContract(o)) = None
    BY OfferShape DEF StageOf, TakerOf, NewContract
  <2>2. StageMap[o] = "none" /\ TakerMap[o] = None
    BY <1>1 DEF OfferStep, StageMap, TakerMap, StageOf, TakerOf
  <2>3. StageMap' = [StageMap EXCEPT ![o] = "proposed"] /\ TakerMap' = [TakerMap EXCEPT ![o] = None]
    BY <1>1, <2>1, OneContractMoves DEF OfferStep
  <2>4. TakerMap' = TakerMap
    BY <2>2, <2>3 DEF TakerMap
  <2> QED
    BY <2>2, <2>3, <2>4
<1>2. ASSUME NEW o \in Offers, NEW p \in Party, NEW s \in Secrets, AcceptStep(o, p, s)
      PROVE  Lives
  <2> DEFINE l == Taken(contracts[o], p, s)
  <2>1. ContractFits(contracts[o], o)
    BY <1>2 DEF AcceptStep, TclkInv, OfferKnown
  <2>2. l # None /\ l.status = "accepted" /\ l.contract = [offer |-> o, from |-> p, statement |-> s]
    BY <1>2, <2>1, TakenFits DEF AcceptStep
  <2>3. l.contract # None
    BY <2>2, TclkAssumption DEF ContractIds
  <2>4. StageOf(l) = "accepted" /\ TakerOf(l) = p
    BY <2>2, <2>3 DEF StageOf, TakerOf
  <2>5. StageMap[o] = "proposed" /\ p # o.from
    BY <1>2 DEF AcceptStep, StageMap, StageOf
  <2>6. StageMap' = [StageMap EXCEPT ![o] = "accepted"] /\ TakerMap' = [TakerMap EXCEPT ![o] = p]
    BY <1>2, <2>4, OneContractMoves DEF AcceptStep
  <2> QED
    BY <2>5, <2>6
<1>3. ASSUME NEW c \in ContractIds, NEW l \in Contracts, DealStep(c, l)
      PROVE  Lives
  <2> DEFINE o == c.offer
             k == contracts[o]
  <2>1. o \in Offers /\ k # None /\ Moved(k, l)
    BY <1>3 DEF DealStep, TclkInv, IdKnown, ContractIds
  <2>2. l # None
    BY TclkAssumption
  <2>3. StageMap[o] = k.status /\ StageOf(l) = l.status /\ TakerOf(l) = TakerMap[o]
    BY <2>1, <2>2 DEF StageMap, TakerMap, StageOf, TakerOf, Moved
  <2>4. contracts' = [contracts EXCEPT ![o] = l]
    BY <1>3 DEF DealStep
  <2>5. k.status # l.status =>
          \/ k.status = "accepted" /\ l.status \in {"locked", "cancelled"}
          \/ k.status = "locked" /\ l.status \in {"claimed", "refunded"}
    BY <2>1 DEF Moved
  <2> HIDE DEF o, k
  <2>6. StageMap' = [StageMap EXCEPT ![o] = l.status] /\ TakerMap' = [TakerMap EXCEPT ![o] = TakerMap[o]]
    <3>1. /\ StageMap' = [StageMap EXCEPT ![o] = StageOf(l)]
          /\ TakerMap' = [TakerMap EXCEPT ![o] = TakerOf(l)]
      BY <2>1, <2>4, OneContractMoves
    <3> QED
      BY <2>3, <3>1
  <2>7. TakerMap' = TakerMap
    BY <2>6 DEF TakerMap
  <2>8. CASE l.status = k.status
    <3>1. StageMap' = StageMap
      BY <2>3, <2>6, <2>8 DEF StageMap
    <3> QED
      BY <2>7, <3>1
  <2>9. CASE l.status # k.status
    BY <2>1, <2>3, <2>5, <2>6, <2>7, <2>9
  <2> QED
    BY <2>8, <2>9
<1>4. Lives
  BY <1>1, <1>2, <1>3 DEF TakesFrame
<1> QED
  BY <1>4 DEF Lifecycle!LifecycleNext, Lifecycle!lifecycleVars, Lifecycle!Propose, Lifecycle!Take,
     Lifecycle!Settle, Lifecycle!Move, StageMap, TakerMap, StageOf, TakerOf

(* Both readers take exactly the steps of the lifecycle of each contract,   *)
(* whatever the transcript.                                                 *)
THEOREM ReadersImplementLifecycle == Spec => ImplementsLifecycle
<1>1. Init => Lifecycle!LifecycleInit
  BY DEF Init, TranscriptInit, Lifecycle!LifecycleInit
<1>2. ASSUME TclkInv, [Next]_auditVars
      PROVE  [Lifecycle!LifecycleNext]_(Lifecycle!lifecycleVars)
  <2>1. CASE OtherStep
    BY <2>1 DEF OtherStep, Lifecycle!lifecycleVars
  <2>2. ASSUME NEW f \in Frames, NEW sender \in Party, NEW now \in Times,
               ReadFrame(f, sender, now) \/ AuditFrame(f, sender, now)
        PROVE  [Lifecycle!LifecycleNext]_(Lifecycle!lifecycleVars)
    BY <1>2, <2>2, FrameSteps, FrameFollowsLifecycle
  <2> QED
    BY <1>2, <2>1, <2>2, NextSteps
<1> QED
  BY <1>1, <1>2, InvHolds, PTL DEF Spec, ImplementsLifecycle, Lifecycle!LifecycleSpec

-----------------------------------------------------------------------------
(* What the log holds of a contract                                         *)

OffersOf(o) == {e \in log : e.frame.type = "offer" /\ e.frame.id = o}
AcceptsOf(c) == {e \in log : e.frame.type = "accept" /\ IdOf(e.frame) = c}
About(c, kinds) == {e \in log : e.frame.type \in kinds /\ e.frame.contract = c}

(* The frame that settled a contract.                                       *)
Settles(e, k) ==
  \/ /\ k.status = "claimed" /\ e.frame.type = "reveal"
     /\ e.by = k.payee /\ e.at < k.offer.refundAfter /\ e.frame.secret = k.contract.statement
  \/ /\ k.status = "refunded" /\ e.frame.type = "refund"
     /\ e.by = k.payer /\ e.at >= k.offer.refundAfter
  \/ k.status = "cancelled" /\ e.frame.type = "cancel"

(* The frame that locked it.                                                *)
Locks(e, k) ==
  e.by = k.payer /\ e.at < k.offer.refundAfter /\ e.frame.rail \in k.offer.rails

(* What the frames about an accepted contract have to be.                   *)
StatusLogged(c) ==
  LET k == contracts[c.offer]
  IN  /\ k.statement = c.statement
      /\ \E e \in AcceptsOf(c) : e.by = c.from /\ e.at < c.offer.expires
      /\ IF k.status \in Terminal
         THEN \E e : About(c, Endings) = {e} /\ Settles(e, k)
         ELSE About(c, Endings) = {}
      /\ IF k.status \in {"accepted", "cancelled"}
         THEN About(c, {"lock"}) = {}
         ELSE \E e : About(c, {"lock"}) = {e} /\ Locks(e, k)
      /\ \A e \in About(c, {"receipt"}) : k.status \in Terminal /\ e.frame.outcome = k.status

IdLogged(c) ==
  IF byId[c] = None THEN AcceptsOf(c) = {} /\ About(c, DealKinds) = {} ELSE StatusLogged(c)

OfferLogged(o) ==
  /\ \A d, e \in OffersOf(o) : d = e
  /\ contracts[o] = None => OffersOf(o) = {}

EntryKnown(e) ==
  /\ e.frame.type \in DealKinds \cup {"offer", "accept"}
  /\ e.frame.type \in DealKinds => e.frame.contract \in ContractIds

(* Inductive, with TclkInv: no frame is about a contract that has not been  *)
(* accepted, and an offer is read once.                                     *)
LogInv ==
  /\ \A c \in ContractIds : IdLogged(c)
  /\ \A o \in Offers : OfferLogged(o)
  /\ \A e \in log : EntryKnown(e)

(* The log after an entry has been added, as these sets show it.            *)
LEMMA LogGrows ==
  ASSUME NEW f, NEW sender, NEW now, log' = log \cup {Entry(f, sender, now)}
  PROVE  /\ \A o : OffersOf(o)' = IF f.type = "offer" /\ f.id = o
                                  THEN OffersOf(o) \cup {Entry(f, sender, now)} ELSE OffersOf(o)
         /\ \A c : AcceptsOf(c)' = IF f.type = "accept" /\ IdOf(f) = c
                                   THEN AcceptsOf(c) \cup {Entry(f, sender, now)} ELSE AcceptsOf(c)
         /\ \A c, kinds : About(c, kinds)' = IF f.type \in kinds /\ f.contract = c
                                             THEN About(c, kinds) \cup {Entry(f, sender, now)}
                                             ELSE About(c, kinds)
<1> DEFINE x == Entry(f, sender, now)
<1>1. x.frame = f
  BY DEF Entry
<1>2. log' = log \cup {x}
  OBVIOUS
<1> HIDE DEF x
<1>3. ASSUME NEW o
      PROVE  OffersOf(o)' = IF f.type = "offer" /\ f.id = o THEN OffersOf(o) \cup {x} ELSE OffersOf(o)
  BY <1>1, <1>2 DEF OffersOf
<1>4. ASSUME NEW c
      PROVE  AcceptsOf(c)' = IF f.type = "accept" /\ IdOf(f) = c THEN AcceptsOf(c) \cup {x}
                             ELSE AcceptsOf(c)
  BY <1>1, <1>2 DEF AcceptsOf
<1>5. ASSUME NEW c, NEW kinds
      PROVE  About(c, kinds)' = IF f.type \in kinds /\ f.contract = c THEN About(c, kinds) \cup {x}
                                ELSE About(c, kinds)
  BY <1>1, <1>2 DEF About
<1> QED
  BY <1>3, <1>4, <1>5 DEF x

(* The status of a contract stays justified when neither it nor what the    *)
(* log holds of it changes.                                                 *)
LEMMA StatusStays ==
  ASSUME NEW c \in ContractIds, StatusLogged(c), contracts'[c.offer] = contracts[c.offer],
         AcceptsOf(c)' = AcceptsOf(c), About(c, Endings)' = About(c, Endings),
         About(c, {"lock"})' = About(c, {"lock"}), About(c, {"receipt"})' = About(c, {"receipt"})
  PROVE  StatusLogged(c)'
  BY DEF StatusLogged, Settles, Locks

(* An offer.                                                                *)
LEMMA OfferKeepsIds ==
  ASSUME TclkInv, LogInv, NEW f, NEW sender, NEW now, NEW o \in Offers, NEW c \in ContractIds,
         log' = log \cup {Entry(f, sender, now)}, f.type = "offer", OfferStep(o)
  PROVE  IdLogged(c)'
<1>1. /\ AcceptsOf(c)' = AcceptsOf(c) /\ About(c, Endings)' = About(c, Endings)
      /\ About(c, {"lock"})' = About(c, {"lock"}) /\ About(c, {"receipt"})' = About(c, {"receipt"})
      /\ About(c, DealKinds)' = About(c, DealKinds)
  BY LogGrows DEF Endings, DealKinds
<1>2. byId' = byId /\ IdLogged(c) /\ IdKnown(c)
  BY DEF OfferStep, LogInv, TclkInv
<1>3. CASE byId[c] = None
  BY <1>1, <1>2, <1>3 DEF IdLogged
<1>4. CASE byId[c] # None
  <2>1. c.offer \in Offers /\ c.offer # o
    BY <1>2, <1>4 DEF IdKnown, OfferStep, ContractIds
  <2>2. contracts'[c.offer] = contracts[c.offer]
    BY <2>1 DEF OfferStep, TclkInv, TclkTypeOK
  <2>3. StatusLogged(c)'
    BY <1>1, <1>2, <1>4, <2>2, StatusStays DEF IdLogged
  <2> QED
    BY <1>2, <1>4, <2>3 DEF IdLogged
<1> QED
  BY <1>3, <1>4

(* An acceptance.                                                           *)
LEMMA AcceptKeepsIds ==
  ASSUME TclkInv, LogInv, NEW f, NEW sender, NEW now, NEW c \in ContractIds,
         log' = log \cup {Entry(f, sender, now)}, sender = Author(f), f.type = "accept",
         f.from \in Party, f.ref \in Offers, f.statement \in Secrets, now < f.ref.expires,
         AcceptStep(f.ref, f.from, f.statement)
  PROVE  IdLogged(c)'
<1> DEFINE x == Entry(f, sender, now)
           o == f.ref
           d == IdOf(f)
           k == contracts[o]
           l == Taken(k, f.from, f.statement)
<1>1. /\ About(c, Endings)' = About(c, Endings) /\ About(c, {"lock"})' = About(c, {"lock"})
      /\ About(c, {"receipt"})' = About(c, {"receipt"}) /\ About(c, DealKinds)' = About(c, DealKinds)
      /\ AcceptsOf(c)' = IF d = c THEN AcceptsOf(c) \cup {x} ELSE AcceptsOf(c)
  BY LogGrows DEF Endings, DealKinds
<1>2. IdLogged(c) /\ IdKnown(c) /\ c.offer \in Offers
  BY DEF LogInv, TclkInv, ContractIds
<1>3. d \in ContractIds /\ d.offer = o /\ d.from = f.from /\ d.statement = f.statement
  BY DEF IdOf, ContractIds
<1>4. k # None /\ k.status = "proposed" /\ byId' = [byId EXCEPT ![d] = o]
      /\ contracts' = [contracts EXCEPT ![o] = l] /\ f.from # o.from
  BY DEF AcceptStep, IdOf
<1>5. /\ byId'[d] = o /\ o # None /\ (c # d => byId'[c] = byId[c])
      /\ contracts'[o] = l /\ (c.offer # o => contracts'[c.offer] = contracts[c.offer])
  <2> HIDE DEF d, l
  <2> QED
    BY <1>2, <1>3, <1>4, OfferShape DEF TclkInv, TclkTypeOK
<1>6. CASE c = d
  <2>1. byId[c] = None
    BY <1>2, <1>3, <1>4, <1>6 DEF IdKnown
  <2>2. About(c, DealKinds) = {}
    BY <1>2, <2>1 DEF IdLogged
  <2>3. About(c, Endings)' = {} /\ About(c, {"lock"})' = {} /\ About(c, {"receipt"})' = {}
    BY <1>1, <2>2 DEF About, DealKinds, Endings
  <2>4. x \in AcceptsOf(c)' /\ x.by = c.from /\ x.at < c.offer.expires
    BY <1>1, <1>3, <1>6 DEF Entry, Author
  <2>5. ContractFits(k, o)
    BY <1>4 DEF TclkInv, OfferKnown
  <2>6. l.status = "accepted" /\ l.statement = c.statement
    BY <1>3, <1>6, <2>5 DEF Taken, ContractFits, Contracts
  <2>7. contracts'[c.offer].status = "accepted" /\ contracts'[c.offer].statement = c.statement
    BY <1>3, <1>5, <1>6, <2>6
  <2> HIDE DEF x, d, l, k, o
  <2>8. StatusLogged(c)'
    BY <2>3, <2>4, <2>7 DEF StatusLogged, Terminal
  <2> QED
    BY <1>5, <1>6, <2>8 DEF IdLogged
<1>7. CASE c # d
  <2>1. CASE byId[c] = None
    BY <1>1, <1>2, <1>5, <1>7, <2>1 DEF IdLogged
  <2>2. CASE byId[c] # None
    <3>1. c.offer # o
      BY <1>2, <1>4, <2>2 DEF IdKnown
    <3>2. StatusLogged(c)'
      BY <1>1, <1>2, <1>5, <1>7, <2>2, <3>1, StatusStays DEF IdLogged
    <3> QED
      BY <1>5, <1>7, <2>2, <3>2 DEF IdLogged
  <2> QED
    BY <2>1, <2>2
<1> QED
  BY <1>6, <1>7

(* A frame of a deal, for its own contract.                                 *)
LEMMA DealKeepsStatus ==
  ASSUME TclkInv, LogInv, NEW f, NEW sender, NEW now \in Times, NEW c \in ContractIds,
         log' = log \cup {Entry(f, sender, now)}, sender = Author(f), f.type \in DealKinds,
         f.contract = c, Allowed(contracts[c.offer], f, now),
         DealStep(c, Applied(contracts[c.offer], f))
  PROVE  StatusLogged(c)'
<1> DEFINE x == Entry(f, sender, now)
           k == contracts[c.offer]
           l == Applied(k, f)
<1>1. /\ x.frame = f /\ x.at = now /\ x.by = f.from
      /\ AcceptsOf(c)' = AcceptsOf(c)
      /\ About(c, Endings)' = IF f.type \in Endings THEN About(c, Endings) \cup {x}
                              ELSE About(c, Endings)
      /\ About(c, {"lock"})' = IF f.type = "lock" THEN About(c, {"lock"}) \cup {x}
                               ELSE About(c, {"lock"})
      /\ About(c, {"receipt"})' = IF f.type = "receipt" THEN About(c, {"receipt"}) \cup {x}
                                  ELSE About(c, {"receipt"})
  <2>1. x.frame = f /\ x.at = now /\ x.by = f.from
    BY DEF Entry, Author, DealKinds, Endings
  <2>2. AcceptsOf(c)' = AcceptsOf(c)
    BY LogGrows DEF DealKinds, Endings
  <2> QED
    BY <2>1, <2>2, LogGrows
<1>2. /\ byId[c] # None /\ contracts' = [contracts EXCEPT ![c.offer] = l] /\ Moved(k, l)
  BY DEF DealStep
<1>3. IdLogged(c) /\ IdKnown(c) /\ c.offer \in Offers
  BY DEF LogInv, TclkInv, ContractIds
<1>4. StatusLogged(c) /\ k # None /\ k.contract = c /\ k.status # "proposed"
  BY <1>2, <1>3 DEF IdLogged, IdKnown
<1>5. k \in Contracts /\ k.offer = c.offer
  BY <1>3, <1>4 DEF TclkInv, OfferKnown, ContractFits
<1>6. contracts'[c.offer] = l
  BY <1>2, <1>3 DEF TclkInv, TclkTypeOK
<1>7. /\ l.offer = c.offer /\ l.contract = c /\ l.statement = k.statement
      /\ l.payer = k.payer /\ l.payee = k.payee
  BY <1>2, <1>4, <1>5 DEF Moved
<1>8. /\ k.statement = c.statement
      /\ \E e \in AcceptsOf(c) : e.by = c.from /\ e.at < c.offer.expires
      /\ IF k.status \in Terminal
         THEN \E e : About(c, Endings) = {e} /\ Settles(e, k)
         ELSE About(c, Endings) = {}
      /\ IF k.status \in {"accepted", "cancelled"}
         THEN About(c, {"lock"}) = {}
         ELSE \E e : About(c, {"lock"}) = {e} /\ Locks(e, k)
      /\ \A e \in About(c, {"receipt"}) : k.status \in Terminal /\ e.frame.outcome = k.status
  BY <1>4 DEF StatusLogged
<1>9. /\ f.type = "lock" => l.status = "locked"
      /\ f.type = "reveal" => l.status = "claimed"
      /\ f.type = "refund" => l.status = "refunded"
      /\ f.type = "cancel" => l.status = "cancelled"
      /\ f.type \in {"heartbeat", "receipt"} => l = k
  BY <1>5 DEF Applied, Contracts
<1>10. SUFFICES
         /\ l.statement = c.statement
         /\ \E e \in AcceptsOf(c)' : e.by = c.from /\ e.at < c.offer.expires
         /\ IF l.status \in Terminal
            THEN \E e : About(c, Endings)' = {e} /\ Settles(e, l)
            ELSE About(c, Endings)' = {}
         /\ IF l.status \in {"accepted", "cancelled"}
            THEN About(c, {"lock"})' = {}
            ELSE \E e : About(c, {"lock"})' = {e} /\ Locks(e, l)
         /\ \A e \in About(c, {"receipt"})' : l.status \in Terminal /\ e.frame.outcome = l.status
  BY <1>6 DEF StatusLogged, Settles, Locks
<1>11. l.statement = c.statement /\ \E e \in AcceptsOf(c)' : e.by = c.from /\ e.at < c.offer.expires
  BY <1>1, <1>7, <1>8
<1>12. \A e : Locks(e, k) => Locks(e, l)
  BY <1>5, <1>7 DEF Locks
<1> HIDE DEF x, k, l
<1> USE DEF Terminal, Endings
<1>13. CASE f.type = "lock"
  <2>1. k.status = "accepted" /\ f.from = k.payer /\ f.rail \in k.offer.rails /\ now < k.offer.refundAfter
    BY <1>13 DEF Allowed, MayLock, k
  <2>2. Locks(x, l)
    BY <1>1, <1>5, <1>7, <2>1 DEF Locks
  <2>3. About(c, Endings)' = {} /\ About(c, {"lock"})' = {x} /\ About(c, {"receipt"})' = {}
    BY <1>1, <1>8, <1>13, <2>1
  <2> QED
    BY <1>9, <1>11, <1>13, <2>2, <2>3
<1>14. CASE f.type = "reveal"
  <2>1. k.status = "locked" /\ f.from = k.payee /\ now < k.offer.refundAfter /\ f.secret = k.statement
    BY <1>14 DEF Allowed, MayReveal, k
  <2>2. l.status = "claimed" /\ Settles(x, l)
    BY <1>1, <1>5, <1>7, <1>8, <1>9, <1>14, <2>1 DEF Settles
  <2>3. About(c, Endings)' = {x} /\ About(c, {"lock"})' = About(c, {"lock"}) /\ About(c, {"receipt"})' = {}
    BY <1>1, <1>8, <1>14, <2>1
  <2>4. \E e : About(c, {"lock"}) = {e} /\ Locks(e, k)
    BY <1>8, <2>1
  <2> QED
    BY <1>11, <1>12, <2>2, <2>3, <2>4
<1>15. CASE f.type = "refund"
  <2>1. k.status = "locked" /\ f.from = k.payer /\ now >= k.offer.refundAfter
    BY <1>15 DEF Allowed, MayRefund, k
  <2>2. l.status = "refunded" /\ Settles(x, l)
    BY <1>1, <1>5, <1>7, <1>9, <1>15, <2>1 DEF Settles
  <2>3. About(c, Endings)' = {x} /\ About(c, {"lock"})' = About(c, {"lock"}) /\ About(c, {"receipt"})' = {}
    BY <1>1, <1>8, <1>15, <2>1
  <2>4. \E e : About(c, {"lock"}) = {e} /\ Locks(e, k)
    BY <1>8, <2>1
  <2> QED
    BY <1>11, <1>12, <2>2, <2>3, <2>4
<1>16. CASE f.type = "cancel"
  <2>1. k.status = "accepted"
    BY <1>16 DEF Allowed, MayCancel, k
  <2>2. l.status = "cancelled" /\ Settles(x, l)
    BY <1>1, <1>9, <1>16 DEF Settles
  <2>3. About(c, Endings)' = {x} /\ About(c, {"lock"})' = {} /\ About(c, {"receipt"})' = {}
    BY <1>1, <1>8, <1>16, <2>1
  <2> QED
    BY <1>11, <2>2, <2>3
<1>17. CASE f.type = "receipt"
  <2>1. k.status \in Terminal /\ f.outcome = k.status
    BY <1>17 DEF Allowed, MayReceipt, k
  <2>2. l = k /\ About(c, Endings)' = About(c, Endings) /\ About(c, {"lock"})' = About(c, {"lock"})
    BY <1>1, <1>9, <1>17
  <2>3. \A e \in About(c, {"receipt"})' : e.frame.outcome = k.status
    BY <1>1, <1>8, <1>17, <2>1
  <2> QED
    BY <1>8, <1>11, <2>1, <2>2, <2>3
<1>18. CASE f.type = "heartbeat"
  <2>1. /\ l = k /\ About(c, Endings)' = About(c, Endings) /\ About(c, {"lock"})' = About(c, {"lock"})
        /\ About(c, {"receipt"})' = About(c, {"receipt"})
    BY <1>1, <1>9, <1>18
  <2> QED
    BY <1>8, <1>11, <2>1
<1> QED
  BY <1>13, <1>14, <1>15, <1>16, <1>17, <1>18 DEF DealKinds

(* A frame of a deal, for every contract.                                   *)
LEMMA DealKeepsIds ==
  ASSUME TclkInv, LogInv, NEW f, NEW sender, NEW now \in Times, NEW c \in ContractIds,
         log' = log \cup {Entry(f, sender, now)}, sender = Author(f), f.type \in DealKinds,
         f.contract \in ContractIds, Allowed(contracts[f.contract.offer], f, now),
         DealStep(f.contract, Applied(contracts[f.contract.offer], f))
  PROVE  IdLogged(c)'
<1> DEFINE d == f.contract
<1>1. byId' = byId /\ byId[d] # None /\ IdLogged(c) /\ IdKnown(c) /\ IdKnown(d)
  BY DEF DealStep, LogInv, TclkInv
<1>2. CASE c = d
  BY <1>1, <1>2, DealKeepsStatus DEF IdLogged
<1>3. CASE c # d
  <2>1. /\ About(c, Endings)' = About(c, Endings) /\ About(c, {"lock"})' = About(c, {"lock"})
        /\ About(c, {"receipt"})' = About(c, {"receipt"}) /\ About(c, DealKinds)' = About(c, DealKinds)
        /\ AcceptsOf(c)' = AcceptsOf(c)
    BY <1>3, LogGrows DEF DealKinds, Endings
  <2>2. CASE byId[c] = None
    BY <1>1, <2>1, <2>2 DEF IdLogged
  <2>3. CASE byId[c] # None
    <3>1. c.offer # d.offer
      BY <1>1, <1>3, <2>3 DEF IdKnown
    <3>2. contracts' = [contracts EXCEPT ![d.offer] = Applied(contracts[d.offer], f)]
      BY DEF DealStep
    <3>3. contracts'[c.offer] = contracts[c.offer]
      <4>1. c.offer \in Offers
        BY DEF ContractIds
      <4> QED
        BY <3>1, <3>2, <4>1 DEF TclkInv, TclkTypeOK
    <3>4. StatusLogged(c)'
      BY <1>1, <2>1, <2>3, <3>3, StatusStays DEF IdLogged
    <3> QED
      BY <1>1, <2>3, <3>4 DEF IdLogged
  <2> QED
    BY <2>2, <2>3
<1> QED
  BY <1>2, <1>3

(* An offer is new to the log when it is taken.                             *)
LEMMA FrameKeepsOffersOnce ==
  ASSUME TclkInv, LogInv, NEW f, NEW sender, NEW now, NEW o \in Offers,
         Takes(f, sender, now)
  PROVE  OfferLogged(o)'
<1>1. OfferLogged(o) /\ contracts \in [Offers -> Contracts \cup {None}]
  BY DEF LogInv, TclkInv, TclkTypeOK
<1>2. OffersOf(o)' = IF f.type = "offer" /\ f.id = o THEN OffersOf(o) \cup {Entry(f, sender, now)}
                     ELSE OffersOf(o)
  BY LogGrows DEF Takes
<1>3. CASE f.type = "offer"
  <2>1. f = OfferFrame(f.body) /\ OfferStep(f.body) /\ f.body \in Offers
    BY <1>3 DEF Takes, DealKinds, Endings
  <2>2. f.id = f.body
    BY <2>1 DEF OfferFrame
  <2>3. contracts[f.body] = None /\ contracts'[f.body] = NewContract(f.body)
        /\ (o # f.body => contracts'[o] = contracts[o])
    BY <1>1, <2>1 DEF OfferStep
  <2>4. contracts'[f.body] # None
    BY <2>1, <2>3, OfferShape
  <2> QED
    BY <1>1, <1>2, <1>3, <2>2, <2>3, <2>4 DEF OfferLogged
<1>4. CASE f.type # "offer"
  <2>1. OffersOf(o)' = OffersOf(o)
    BY <1>2, <1>4
  <2>2. contracts'[o] = None => contracts[o] = None
    <3>1. CASE f.type = "accept"
      <4>1. /\ f.ref \in Offers /\ f.from \in Party /\ f.statement \in Secrets
            /\ AcceptStep(f.ref, f.from, f.statement)
        BY <3>1 DEF Takes, DealKinds, Endings
      <4>2. ContractFits(contracts[f.ref], f.ref) /\ contracts[f.ref].status = "proposed"
        BY <4>1 DEF AcceptStep, TclkInv, OfferKnown
      <4>3. Taken(contracts[f.ref], f.from, f.statement) # None
        BY <4>1, <4>2, TakenFits DEF AcceptStep
      <4> QED
        BY <1>1, <4>1, <4>3 DEF AcceptStep
    <3>2. CASE f.type \in DealKinds
      <4>1. f.contract \in ContractIds /\ DealStep(f.contract, Applied(contracts[f.contract.offer], f))
        BY <3>2 DEF Takes, DealKinds, Endings
      <4>2. byId[f.contract] # None /\ IdKnown(f.contract)
        BY <4>1 DEF DealStep, TclkInv
      <4>3. /\ contracts[f.contract.offer] # None
            /\ contracts' = [contracts EXCEPT ![f.contract.offer] = Applied(contracts[f.contract.offer], f)]
        BY <4>1, <4>2 DEF DealStep, IdKnown
      <4>4. Applied(contracts[f.contract.offer], f) # None
        BY <4>1, TclkAssumption DEF DealStep, Moved
      <4> QED
        BY <1>1, <4>3, <4>4
    <3> QED
      BY <1>4, <3>1, <3>2 DEF Takes
  <2> QED
    BY <1>1, <2>1, <2>2 DEF OfferLogged
<1> QED
  BY <1>3, <1>4

LEMMA FrameKeepsLog ==
  ASSUME TclkInv, LogInv, NEW f, NEW sender, NEW now \in Times, Takes(f, sender, now)
  PROVE  LogInv'
<1>1. log' = log \cup {Entry(f, sender, now)} /\ sender = Author(f)
  BY DEF Takes
<1>2. ASSUME NEW c \in ContractIds PROVE IdLogged(c)'
  <2>1. CASE f.type = "offer"
    BY <1>1, <2>1, OfferKeepsIds DEF Takes, DealKinds, Endings
  <2>2. CASE f.type = "accept"
    BY <1>1, <2>2, AcceptKeepsIds DEF Takes, DealKinds, Endings
  <2>3. CASE f.type \in DealKinds
    <3>1. /\ f.contract \in ContractIds /\ Allowed(contracts[f.contract.offer], f, now)
          /\ DealStep(f.contract, Applied(contracts[f.contract.offer], f))
      BY <2>3 DEF Takes, DealKinds, Endings
    <3> QED
      BY <1>1, <2>3, <3>1, DealKeepsIds
  <2> QED
    BY <2>1, <2>2, <2>3 DEF Takes
<1>3. \A o \in Offers : OfferLogged(o)'
  BY FrameKeepsOffersOnce
<1>4. \A e \in log' : EntryKnown(e)
  <2>1. EntryKnown(Entry(f, sender, now))
    BY DEF Takes, EntryKnown, Entry, DealKinds, Endings
  <2> QED
    BY <1>1, <2>1 DEF LogInv
<1> QED
  BY <1>2, <1>3, <1>4 DEF LogInv, EntryKnown

LEMMA LogHolds == Spec => []LogInv
<1>1. Init => LogInv
  BY DEF Init, TranscriptInit, LogInv, IdLogged, OfferLogged, AcceptsOf, About, OffersOf
<1>2. ASSUME TclkInv, LogInv, [Next]_auditVars
      PROVE  LogInv'
  <2>1. CASE OtherStep
    BY <1>2, <2>1 DEF OtherStep, LogInv, IdLogged, OfferLogged, StatusLogged, AcceptsOf, About,
       OffersOf, Settles, Locks, EntryKnown
  <2>2. ASSUME NEW f \in Frames, NEW sender \in Party, NEW now \in Times,
               ReadFrame(f, sender, now) \/ AuditFrame(f, sender, now)
        PROVE  LogInv'
    BY <1>2, <2>2, FrameTakes, FrameKeepsLog
  <2> QED
    BY <1>2, <2>1, <2>2, NextSteps
<1> QED
  BY <1>1, <1>2, InvHolds, PTL DEF Spec

(* The status that a report gives a contract is the one its frames amount   *)
(* to, in every transcript: settled at most once, by the party and in the   *)
(* time that its settlement asks for, and locked before it.                 *)
THEOREM StatusIsJustified == Spec => []JustifiedStatus
<1>1. ASSUME TclkInv, LogInv PROVE JustifiedStatus
  <2> SUFFICES ASSUME NEW o \in Offers, contracts[o] # None, contracts[o].status # "proposed"
               PROVE  LET k == contracts[o]
                          settled == Logged(k, "reveal") \cup Logged(k, "refund") \cup Logged(k, "cancel")
                      IN  /\ \E e \in Logged(k, "accept") :
                               e.at < o.expires /\ Parties(k) = {o.from, e.by} /\ o.from # e.by
                          /\ Cardinality(settled) = IF k.status \in Terminal THEN 1 ELSE 0
                          /\ k.status \in {"locked", "claimed", "refunded"} =>
                               \E e \in Logged(k, "lock") :
                                 e.by = k.payer /\ e.at < o.refundAfter /\ e.frame.rail \in o.rails
                          /\ Cardinality(Logged(k, "lock")) <= 1
                          /\ k.status = "claimed" =>
                               \E e \in Logged(k, "reveal") :
                                 /\ e.by = k.payee /\ e.at < o.refundAfter
                                 /\ e.frame.secret = k.contract.statement
                          /\ k.status = "refunded" =>
                               \E e \in Logged(k, "refund") :
                                 e.by = k.payer /\ e.at >= o.refundAfter
                          /\ \A e \in Logged(k, "receipt") : e.frame.outcome = k.status
    BY DEF JustifiedStatus
  <2> DEFINE k == contracts[o]
             c == k.contract
             settled == Logged(k, "reveal") \cup Logged(k, "refund") \cup Logged(k, "cancel")
  <2>1. /\ ContractFits(k, o) /\ byId[c] = o
    BY <1>1 DEF TclkInv, OfferKnown
  <2>2. /\ c \in ContractIds /\ c.offer = o /\ k.offer = o
        /\ k.payer # k.payee /\ Parties(k) = {o.from, c.from} /\ k \in Contracts
    BY <2>1 DEF ContractFits
  <2>3. StatusLogged(c)
    BY <1>1, <2>1, <2>2, OfferShape DEF LogInv, IdLogged
  <2>4. /\ \E e \in AcceptsOf(c) : e.by = c.from /\ e.at < o.expires
        /\ IF k.status \in Terminal
           THEN \E e : About(c, Endings) = {e} /\ Settles(e, k)
           ELSE About(c, Endings) = {}
        /\ IF k.status \in {"accepted", "cancelled"}
           THEN About(c, {"lock"}) = {}
           ELSE \E e : About(c, {"lock"}) = {e} /\ Locks(e, k)
        /\ \A e \in About(c, {"receipt"}) : e.frame.outcome = k.status
    BY <2>2, <2>3 DEF StatusLogged
  <2>5. /\ Logged(k, "accept") = AcceptsOf(c) /\ Logged(k, "lock") = About(c, {"lock"})
        /\ Logged(k, "receipt") = About(c, {"receipt"}) /\ settled = About(c, Endings)
        /\ Logged(k, "reveal") = {e \in About(c, Endings) : e.frame.type = "reveal"}
        /\ Logged(k, "refund") = {e \in About(c, Endings) : e.frame.type = "refund"}
    BY DEF Logged, AcceptsOf, About, Endings
  <2>6. o.from # c.from
    BY <2>2 DEF Parties
  <2> HIDE DEF c, k, settled
  <2>7. \E e \in Logged(k, "accept") : e.at < o.expires /\ Parties(k) = {o.from, e.by} /\ o.from # e.by
    BY <2>2, <2>4, <2>5, <2>6
  <2>8. Cardinality(settled) = IF k.status \in Terminal THEN 1 ELSE 0
    <3>1. Cardinality(About(c, Endings)) = IF k.status \in Terminal THEN 1 ELSE 0
      BY <2>4, FS_EmptySet, FS_Singleton
    <3> QED
      BY <2>5, <3>1, Zenon
  <2>9. Cardinality(Logged(k, "lock")) <= 1
    <3>1. Cardinality(About(c, {"lock"})) = 1 \/ Cardinality(About(c, {"lock"})) = 0
      BY <2>4, FS_EmptySet, FS_Singleton
    <3>2. Cardinality(Logged(k, "lock")) = 1 \/ Cardinality(Logged(k, "lock")) = 0
      BY <2>5, <3>1, Zenon
    <3> QED
      BY <3>2
  <2>10. k.status \in {"locked", "claimed", "refunded"} =>
           \E e \in Logged(k, "lock") : Locks(e, k)
    BY <2>4, <2>5
  <2>11. k.status = "claimed" =>
           \E e \in Logged(k, "reveal") :
             e.by = k.payee /\ e.at < k.offer.refundAfter /\ e.frame.secret = c.statement
    BY <2>4, <2>5 DEF Settles, Terminal, c
  <2>12. k.status = "refunded" =>
           \E e \in Logged(k, "refund") : e.by = k.payer /\ e.at >= k.offer.refundAfter
    BY <2>4, <2>5 DEF Settles, Terminal
  <2>13. \A e \in Logged(k, "receipt") : e.frame.outcome = k.status
    BY <2>4, <2>5
  <2> QED
    BY <2>2, <2>7, <2>8, <2>9, <2>10, <2>11, <2>12, <2>13 DEF Locks, c, k, settled
<1> QED
  BY <1>1, InvHolds, LogHolds, PTL

-----------------------------------------------------------------------------
(* The audit's two exports in the order of time                             *)

(* The deal room holds frames of the target only.                           *)
DealsRead ==
  \A e \in log : e.frame.type \in DealKinds =>
    target # None /\ source = "deal" /\ e.frame.contract = target /\ e.at <= latest

AcceptedInOrder ==
  \A a \in AcceptsOf(target) :
    /\ \A d \in OffersOf(target.offer) : d.at <= a.at
    /\ a.at <= latest
    /\ \A e \in About(target, DealKinds) : a.at <= e.at

SettledInOrder ==
  /\ \A d \in About(target, {"lock"}), e \in About(target, {"reveal", "refund"}) : d.at <= e.at
  /\ \A d \in About(target, {"reveal", "refund"}), e \in About(target, {"receipt"}) : d.at <= e.at

(* Inductive, with LogInv.                                                  *)
AuditInv ==
  tool = "audit" =>
    /\ latest \in Nat /\ source \in {"board", "deal"} /\ DealsRead
    /\ target # None =>
         /\ AcceptedInOrder /\ SettledInOrder
         /\ source = "board" => contracts[target.offer].status = "accepted"

(* Nothing that the invariant speaks of changes.                            *)
LEMMA TargetUntouched ==
  ASSUME AuditInv, tool = "audit", target # None, target' = target, latest' = latest,
         source' = source,
         OffersOf(target.offer)' = OffersOf(target.offer), AcceptsOf(target)' = AcceptsOf(target),
         \A kinds \in SUBSET DealKinds : About(target, kinds)' = About(target, kinds),
         contracts'[target.offer] = contracts[target.offer]
  PROVE  /\ AcceptedInOrder' /\ SettledInOrder'
         /\ source' = "board" => contracts'[target.offer].status = "accepted"
<1>1. AcceptedInOrder /\ SettledInOrder /\ (source = "board" => contracts[target.offer].status = "accepted")
  BY DEF AuditInv
<1>2. /\ About(target, DealKinds)' = About(target, DealKinds)
      /\ About(target, {"lock"})' = About(target, {"lock"})
      /\ About(target, {"receipt"})' = About(target, {"receipt"})
      /\ About(target, {"reveal", "refund"})' = About(target, {"reveal", "refund"})
  BY DEF DealKinds, Endings
<1>3. AcceptedInOrder'
  BY <1>1, <1>2 DEF AcceptedInOrder
<1>4. SettledInOrder'
  BY <1>1, <1>2 DEF SettledInOrder
<1> QED
  BY <1>1, <1>3, <1>4

(* An entry that is no frame of a deal.                                     *)
LEMMA BoardEntry ==
  ASSUME NEW f, NEW sender, NEW now, log' = log \cup {Entry(f, sender, now)},
         f.type \notin DealKinds, DealsRead, source' = source,
         \/ target' = target /\ latest' = latest
         \/ target = None
  PROVE  DealsRead'
<1> DEFINE x == Entry(f, sender, now)
<1>1. x.frame = f /\ log' = log \cup {x}
  BY DEF Entry
<1> HIDE DEF x
<1> QED
  BY <1>1 DEF DealsRead

LEMMA OfferKeepsAudit ==
  ASSUME TclkInv, LogInv, AuditInv, tool = "audit", tool' = tool, NEW f, NEW sender, NEW now,
         log' = log \cup {Entry(f, sender, now)}, f.type = "offer", f.body \in Offers,
         f = OfferFrame(f.body), OfferStep(f.body), UNCHANGED <<target, latest, source>>
  PROVE  AuditInv'
<1>1. DealsRead'
  BY BoardEntry DEF AuditInv, DealKinds, Endings
<1>2. ASSUME target # None
      PROVE  /\ AcceptedInOrder' /\ SettledInOrder'
             /\ source' = "board" => contracts'[target.offer].status = "accepted"
  <2>1. contracts[target.offer] # None /\ target.offer \in Offers
    BY <1>2 DEF TclkInv, IdKnown, ContractIds
  <2>2. f.id = f.body /\ f.body # target.offer
    BY <2>1 DEF OfferFrame, OfferStep
  <2>3. /\ OffersOf(target.offer)' = OffersOf(target.offer) /\ AcceptsOf(target)' = AcceptsOf(target)
        /\ \A kinds \in SUBSET DealKinds : About(target, kinds)' = About(target, kinds)
    <3>1. /\ OffersOf(target.offer) = {e \in log : e.frame.type = "offer" /\ e.frame.id = target.offer}
          /\ OffersOf(target.offer)' = {e \in log' : e.frame.type = "offer" /\ e.frame.id = target.offer}
          /\ AcceptsOf(target)' = {e \in log' : e.frame.type = "accept" /\ IdOf(e.frame) = target}
          /\ \A kinds : About(target, kinds)' = {e \in log' : e.frame.type \in kinds /\ e.frame.contract = target}
      BY DEF OffersOf, AcceptsOf, About
    <3> QED
      BY <2>2, <3>1, LogGrows DEF DealKinds, Endings
  <2>4. contracts'[target.offer] = contracts[target.offer]
    BY <2>1, <2>2 DEF OfferStep, TclkInv, TclkTypeOK
  <2> QED
    BY <1>2, <2>3, <2>4, TargetUntouched
<1> QED
  BY <1>1, <1>2 DEF AuditInv

LEMMA AcceptKeepsAudit ==
  ASSUME TclkInv, LogInv, AuditInv, tool = "audit", tool' = tool, NEW f, NEW sender,
         NEW now \in Times, log' = log \cup {Entry(f, sender, now)}, f.type = "accept",
         f.from \in Party, f.ref \in Offers, f.statement \in Secrets, f.contract = IdOf(f),
         AcceptStep(f.ref, f.from, f.statement),
         now >= OfferedAt(f.ref), source = "board", source' = source,
         \/ UNCHANGED <<target, latest>>
         \/ target = None /\ target' = f.contract /\ latest' = now
  PROVE  AuditInv'
<1> DEFINE x == Entry(f, sender, now)
           o == f.ref
           c == f.contract
           l == Taken(contracts[o], f.from, f.statement)
<1>1. DealsRead' /\ DealsRead /\ latest' \in Nat /\ source' \in {"board", "deal"}
  <2>1. DealsRead'
    BY BoardEntry DEF AuditInv, DealKinds, Endings
  <2> QED
    BY <2>1, TclkAssumption DEF AuditInv
<1>2. /\ contracts[o] # None /\ contracts[o].status = "proposed"
      /\ contracts' = [contracts EXCEPT ![o] = l]
  BY DEF AcceptStep
<1>3. c \in ContractIds /\ c.offer = o
  BY DEF IdOf, ContractIds
<1>4. CASE target = None /\ target' = c /\ latest' = now
  <2>1. byId[c] = None
    BY <1>2, <1>3 DEF TclkInv, IdKnown
  <2>2. AcceptsOf(c) = {} /\ About(c, DealKinds) = {}
    BY <1>3, <2>1 DEF LogInv, IdLogged
  <2>3. /\ OffersOf(o)' = OffersOf(o) /\ AcceptsOf(c)' = AcceptsOf(c) \cup {x}
        /\ About(c, DealKinds)' = About(c, DealKinds)
    <3>1. f.type \notin DealKinds
      BY DEF DealKinds, Endings
    <3> QED
      BY <3>1, LogGrows
  <2>4. \A d \in OffersOf(o) : d.at <= now
    <3>1. \A d \in OffersOf(o) : d.at = OfferedAt(o)
      <4>1. \A d, e \in OffersOf(o) : d = e
        BY DEF LogInv, OfferLogged
      <4>2. ASSUME NEW d \in OffersOf(o)
            PROVE  (CHOOSE e \in log : e.frame.type = "offer" /\ e.frame.id = o) \in OffersOf(o)
        BY <4>2 DEF OffersOf
      <4> QED
        BY <4>1, <4>2 DEF OfferedAt
    <3>2. \A d \in OffersOf(o) : d.at \in Nat
      BY TclkAssumption DEF OffersOf, TclkInv, TclkTypeOK
    <3>3. now \in Nat
      BY TclkAssumption
    <3> QED
      BY <3>1, <3>2, <3>3
  <2>5. x.at = now /\ now <= now
    BY TclkAssumption DEF Entry
  <2>6. contracts'[o].status = "accepted"
    <3>1. ContractFits(contracts[o], o)
      BY <1>2 DEF TclkInv, OfferKnown
    <3>2. l.status = "accepted"
      BY <1>2, <3>1, TakenFits DEF AcceptStep
    <3> HIDE DEF l
    <3> QED
      BY <1>2, <3>2 DEF TclkInv, TclkTypeOK
  <2>7. AcceptedInOrder'
    <3>1. /\ AcceptsOf(target)' = {e \in log' : e.frame.type = "accept" /\ IdOf(e.frame) = c}
          /\ OffersOf(target.offer)' = {e \in log' : e.frame.type = "offer" /\ e.frame.id = o}
          /\ About(target, DealKinds)' = {e \in log' : e.frame.type \in DealKinds /\ e.frame.contract = c}
      BY <1>3, <1>4 DEF AcceptsOf, OffersOf, About
    <3>2. /\ AcceptsOf(c)' = {e \in log' : e.frame.type = "accept" /\ IdOf(e.frame) = c}
          /\ OffersOf(o)' = {e \in log' : e.frame.type = "offer" /\ e.frame.id = o}
          /\ About(c, DealKinds)' = {e \in log' : e.frame.type \in DealKinds /\ e.frame.contract = c}
      BY DEF AcceptsOf, OffersOf, About
    <3>3. AcceptsOf(target)' = {x} /\ OffersOf(target.offer)' = OffersOf(o) /\ About(target, DealKinds)' = {}
      BY <2>2, <2>3, <3>1, <3>2
    <3> HIDE DEF x, o, c
    <3> QED
      BY <1>4, <2>4, <2>5, <3>3 DEF AcceptedInOrder
  <2>8. SettledInOrder'
    <3>1. \A e \in log : ~(e.frame.type \in DealKinds)
      BY <1>1, <1>4 DEF DealsRead
    <3>2. \A e \in log' : ~(e.frame.type \in DealKinds)
      BY <3>1 DEF Entry, DealKinds, Endings
    <3> QED
      BY <3>2 DEF SettledInOrder, About, DealKinds, Endings
  <2> QED
    BY <1>1, <1>3, <1>4, <2>6, <2>7, <2>8 DEF AuditInv
<1>5. CASE UNCHANGED <<target, latest>>
  <2>1. ASSUME target # None
        PROVE  /\ AcceptedInOrder' /\ SettledInOrder'
               /\ source' = "board" => contracts'[target.offer].status = "accepted"
    <3>1. /\ contracts[target.offer] # None /\ contracts[target.offer].status # "proposed"
          /\ target.offer \in Offers
      BY <2>1 DEF TclkInv, IdKnown, ContractIds
    <3>2. target.offer # o /\ target # c
      BY <1>2, <1>3, <3>1
    <3>3. /\ OffersOf(target.offer)' = OffersOf(target.offer) /\ AcceptsOf(target)' = AcceptsOf(target)
          /\ \A kinds \in SUBSET DealKinds : About(target, kinds)' = About(target, kinds)
      <4>1. /\ OffersOf(target.offer)' = {e \in log' : e.frame.type = "offer" /\ e.frame.id = target.offer}
            /\ AcceptsOf(target)' = {e \in log' : e.frame.type = "accept" /\ IdOf(e.frame) = target}
            /\ \A kinds : About(target, kinds)' = {e \in log' : e.frame.type \in kinds /\ e.frame.contract = target}
        BY <1>5 DEF OffersOf, AcceptsOf, About
      <4> QED
        BY <3>2, <4>1 DEF Entry, OffersOf, AcceptsOf, About, DealKinds, Endings
    <3>4. contracts'[target.offer] = contracts[target.offer]
      BY <1>2, <3>1, <3>2 DEF TclkInv, TclkTypeOK
    <3> QED
      BY <1>5, <2>1, <3>3, <3>4, TargetUntouched
  <2> QED
    BY <1>1, <1>5, <2>1 DEF AuditInv
<1> QED
  BY <1>4, <1>5

LEMMA DealKeepsAudit ==
  ASSUME TclkInv, LogInv, AuditInv, tool = "audit", tool' = tool, NEW f, NEW sender,
         NEW now \in Times, log' = log \cup {Entry(f, sender, now)}, f.type \in DealKinds,
         target # None, f.contract = target, target' = target, latest' = now, now >= latest,
         source = "deal", source' = source, Allowed(contracts[target.offer], f, now)
  PROVE  AuditInv'
<1> DEFINE x == Entry(f, sender, now)
           k == contracts[target.offer]
<1>1. x.frame = f /\ x.at = now /\ log' = log \cup {x} /\ now \in Nat
  BY TclkAssumption DEF Entry
<1>2. latest \in Nat /\ DealsRead /\ AcceptedInOrder /\ SettledInOrder
  BY DEF AuditInv
<1>3. \A e \in log : e.at \in Nat
  BY TclkAssumption DEF TclkInv, TclkTypeOK
<1>4. StatusLogged(target)
  BY DEF TclkInv, LogInv, IdLogged
<1>5. /\ k.status \notin Terminal => About(target, Endings) = {} /\ About(target, {"receipt"}) = {}
      /\ f.type \in Endings \cup {"lock"} => k.status \notin Terminal
  <2>1. k.status \notin Terminal => About(target, Endings) = {} /\ About(target, {"receipt"}) = {}
    BY <1>4 DEF StatusLogged
  <2>2. f.type \in Endings \cup {"lock"} => k.status \notin Terminal
    BY DEF Allowed, MayLock, MayReveal, MayRefund, MayCancel, Endings, Terminal
  <2> QED
    BY <2>1, <2>2
<1>6. \A e \in log : e.frame.type \in DealKinds => e.at <= now
  BY <1>1, <1>2, <1>3 DEF DealsRead
<1> HIDE DEF x, k
<1>7. DealsRead'
  <2>1. \A e \in log : e.frame.type \in DealKinds => e.frame.contract = target
    BY <1>2 DEF DealsRead
  <2>2. x.at <= now
    BY <1>1
  <2> QED
    BY <1>1, <1>6, <2>1, <2>2 DEF DealsRead
<1>8. /\ AcceptsOf(target)' = AcceptsOf(target) /\ OffersOf(target.offer)' = OffersOf(target.offer)
      /\ \A kinds \in SUBSET DealKinds :
           About(target, kinds)' = IF f.type \in kinds THEN About(target, kinds) \cup {x} ELSE About(target, kinds)
  <2>1. /\ OffersOf(target.offer)' = {e \in log' : e.frame.type = "offer" /\ e.frame.id = target.offer}
        /\ AcceptsOf(target)' = {e \in log' : e.frame.type = "accept" /\ IdOf(e.frame) = target}
        /\ \A kinds : About(target, kinds)' = {e \in log' : e.frame.type \in kinds /\ e.frame.contract = target}
    BY DEF OffersOf, AcceptsOf, About
  <2> QED
    BY <1>1, <2>1 DEF OffersOf, AcceptsOf, About, DealKinds, Endings
<1>9. AcceptedInOrder'
  <2>1. \A a \in AcceptsOf(target) :
          /\ \A d \in OffersOf(target.offer) : d.at <= a.at
          /\ a.at <= now
          /\ \A e \in About(target, DealKinds) : a.at <= e.at
    <3>1. ASSUME NEW a \in AcceptsOf(target) PROVE a.at <= now
      <4>1. a.at <= latest /\ a.at \in Nat
        BY <1>2, <1>3, <3>1 DEF AcceptedInOrder, AcceptsOf
      <4> QED
        BY <1>1, <1>2, <4>1
    <3> QED
      BY <1>2, <3>1 DEF AcceptedInOrder
  <2>2. \A e \in About(target, DealKinds)' : e \in About(target, DealKinds) \/ e.at = now
    BY <1>1, <1>8
  <2> QED
    BY <1>8, <2>1, <2>2 DEF AcceptedInOrder
<1>10. SettledInOrder'
  <2>1. /\ About(target, {"lock"})' = IF f.type = "lock" THEN About(target, {"lock"}) \cup {x}
                                      ELSE About(target, {"lock"})
        /\ About(target, {"receipt"})' = IF f.type = "receipt" THEN About(target, {"receipt"}) \cup {x}
                                         ELSE About(target, {"receipt"})
        /\ About(target, {"reveal", "refund"})' =
             IF f.type \in {"reveal", "refund"} THEN About(target, {"reveal", "refund"}) \cup {x}
             ELSE About(target, {"reveal", "refund"})
    BY <1>8 DEF DealKinds, Endings
  <2>2. \A e \in About(target, {"lock"}) \cup About(target, {"reveal", "refund"}) : e.at <= x.at
    BY <1>1, <1>6 DEF About, DealKinds, Endings
  <2>3. f.type \in {"lock", "reveal", "refund"} =>
          About(target, {"reveal", "refund"}) = {} /\ About(target, {"receipt"}) = {}
    <3>1. About(target, {"reveal", "refund"}) \subseteq About(target, Endings)
      BY DEF About, Endings
    <3> QED
      BY <1>5, <3>1 DEF Endings
  <2>4. /\ \A d \in About(target, {"lock"}), e \in About(target, {"reveal", "refund"}) : d.at <= e.at
        /\ \A d \in About(target, {"reveal", "refund"}), e \in About(target, {"receipt"}) : d.at <= e.at
    BY <1>2 DEF SettledInOrder
  <2>5. \A d \in About(target, {"lock"})', e \in About(target, {"reveal", "refund"})' : d.at <= e.at
    BY <2>1, <2>2, <2>3, <2>4
  <2>6. \A d \in About(target, {"reveal", "refund"})', e \in About(target, {"receipt"})' : d.at <= e.at
    BY <2>1, <2>2, <2>3, <2>4
  <2> QED
    BY <2>5, <2>6 DEF SettledInOrder
<1> QED
  BY <1>1, <1>7, <1>9, <1>10 DEF AuditInv

LEMMA AuditHolds == Spec => []AuditInv
<1>1. Init => AuditInv
  BY DEF Init, TranscriptInit, AuditInv, DealsRead
<1>2. ASSUME TclkInv, LogInv, AuditInv, [Next]_auditVars
      PROVE  AuditInv'
  <2> USE <1>2
  <2>1. CASE tool' # "audit"
    BY <2>1 DEF AuditInv
  <2>2. CASE tool = "audit" /\ tool' = "audit" /\ UNCHANGED <<contracts, log, target, latest>>
             /\ source' \in {source, "deal"}
    BY <2>2 DEF AuditInv, DealsRead, AcceptedInOrder, SettledInOrder, AcceptsOf, OffersOf, About
  <2>3. ASSUME tool = "audit", NEW f \in Frames, NEW sender \in Party, NEW now \in Times,
               AuditFrame(f, sender, now)
        PROVE  AuditInv'
    <3>1. Takes(f, sender, now)
      BY <2>3, FrameTakes
    <3>2. log' = log \cup {Entry(f, sender, now)} /\ tool' = tool /\ source' = source
      BY <2>3, <3>1 DEF Takes, AuditFrame
    <3>3. CASE f.type = "offer"
      <4>1. f.body \in Offers /\ f = OfferFrame(f.body) /\ OfferStep(f.body)
        BY <3>1, <3>3 DEF Takes, DealKinds, Endings
      <4>2. UNCHANGED <<target, latest>>
        BY <2>3, <3>3 DEF AuditFrame
      <4> QED
        BY <2>3, <3>2, <3>3, <4>1, <4>2, OfferKeepsAudit
    <3>4. CASE f.type = "accept"
      <4>1. /\ f.from \in Party /\ f.ref \in Offers /\ f.statement \in Secrets
            /\ f.contract = IdOf(f) /\ AcceptStep(f.ref, f.from, f.statement)
        BY <3>1, <3>4 DEF Takes, DealKinds, Endings
      <4>2. now >= OfferedAt(f.ref) /\ source = "board"
        BY <2>3, <3>4 DEF AuditFrame, FitsBoardAccept, FitsTarget, Routed
      <4>3. \/ UNCHANGED <<target, latest>>
            \/ target = None /\ target' = f.contract /\ latest' = now
        BY <2>3, <3>4 DEF AuditFrame
      <4> QED
        BY <2>3, <3>2, <3>4, <4>1, <4>2, <4>3, AcceptKeepsAudit
    <3>5. CASE f.type \in DealKinds
      <4>1. f.type \notin {"offer", "accept"}
        BY <3>5 DEF DealKinds, Endings
      <4>2. /\ target # None /\ f.contract = target /\ now >= latest
            /\ Allowed(contracts[byId[target]], f, now) /\ latest' = now /\ target' = target
        BY <2>3, <4>1 DEF AuditFrame, FitsBoardAccept, FitsTarget
      <4>3. source = "deal"
        <5>1. source # "board"
          BY <2>3, <4>1 DEF AuditFrame, Routed
        <5> QED
          BY <2>3, <5>1 DEF AuditInv
      <4>4. byId[target] = target.offer
        BY <4>2 DEF TclkInv, IdKnown
      <4> QED
        BY <2>3, <3>2, <3>5, <4>2, <4>3, <4>4, DealKeepsAudit
    <3> QED
      BY <3>1, <3>3, <3>4, <3>5 DEF Takes
  <2>4. CASE UNCHANGED auditVars
    BY <2>1, <2>2, <2>4 DEF auditVars
  <2>5. CASE tool = "validator" /\ TranscriptNext /\ UNCHANGED <<tool, source, target, latest>>
    BY <2>1, <2>5
  <2>6. CASE tool = "audit" /\ AuditNext
    BY <2>2, <2>3, <2>6 DEF AuditNext, AuditRefused, ReadRefused, Refuse, NextExport, AuditFinish
  <2> QED
    BY <2>4, <2>5, <2>6 DEF Next
<1> QED
  BY <1>1, <1>2, InvHolds, LogHolds, PTL DEF Spec

(* The audit reports a contract only from lines that were read in the room  *)
(* where they belong and in the order of time: the acceptance no earlier    *)
(* than the offer, the deal after the acceptance, the settlement after the  *)
(* lock and the receipts after the settlement.                              *)
THEOREM AuditIsConsistent == Spec => []AuditConsistent
<1>1. ASSUME TclkInv, LogInv, AuditInv PROVE AuditConsistent
  <2> SUFFICES ASSUME tool = "audit", target # None
               PROVE  LET k == contracts[target.offer]
                          Before(kind, later) ==
                            \A d \in Logged(k, kind), e \in Logged(k, later) : d.at <= e.at
                          deal == {e \in log : e.frame.type \notin {"offer", "accept"}}
                      IN  /\ k # None /\ k.contract = target /\ byId[target] = target.offer
                          /\ \A e \in deal : e.frame.contract = target
                          /\ \A a \in Logged(k, "accept") :
                               /\ OfferedAt(target.offer) <= a.at
                               /\ \A e \in deal : a.at <= e.at /\ e.at <= latest
                          /\ \A settlement \in {"reveal", "refund"} :
                               Before("lock", settlement) /\ Before(settlement, "receipt")
                          /\ source = "board" => k.status = "accepted"
    BY DEF AuditConsistent
  <2> DEFINE k == contracts[target.offer]
             deal == {e \in log : e.frame.type \notin {"offer", "accept"}}
  <2>1. k # None /\ k.contract = target /\ byId[target] = target.offer
    BY <1>1 DEF TclkInv, IdKnown
  <2>2. /\ DealsRead /\ AcceptedInOrder /\ SettledInOrder /\ (source = "board" => k.status = "accepted")
    BY <1>1 DEF AuditInv
  <2>3. \A e \in deal : e.frame.type \in DealKinds /\ e.frame.contract = target /\ e.at <= latest
    BY <1>1, <2>2 DEF LogInv, EntryKnown, DealsRead
  <2>4. deal \subseteq About(target, DealKinds)
    BY <2>3 DEF About
  <2>5. OfferedAt(target.offer) \in {d.at : d \in OffersOf(target.offer)}
    <3>1. OfferFrame(target.offer) \in Seen
      BY <1>1, <2>1 DEF TclkInv, OfferKnown, ContractIds
    <3>2. PICK d \in log : d.frame.type = "offer" /\ d.frame.id = target.offer
      BY <3>1 DEF Seen, OfferFrame
    <3>3. (CHOOSE e \in log : e.frame.type = "offer" /\ e.frame.id = target.offer) \in OffersOf(target.offer)
      BY <3>2 DEF OffersOf
    <3> QED
      BY <3>3 DEF OfferedAt
  <2>6. \A kind \in {"lock", "reveal", "refund", "receipt"} : Logged(k, kind) = About(target, {kind})
    BY <2>1 DEF Logged, About
  <2>7. Logged(k, "accept") = AcceptsOf(target)
    BY <2>1 DEF Logged, AcceptsOf
  <2> HIDE DEF k, deal
  <2>8. ASSUME NEW a \in Logged(k, "accept")
        PROVE  /\ OfferedAt(target.offer) <= a.at
               /\ \A e \in deal : a.at <= e.at /\ e.at <= latest
    BY <2>2, <2>3, <2>4, <2>5, <2>7, <2>8 DEF AcceptedInOrder
  <2>9. ASSUME NEW kind \in {"reveal", "refund"}
        PROVE  /\ \A d \in Logged(k, "lock"), e \in Logged(k, kind) : d.at <= e.at
               /\ \A d \in Logged(k, kind), e \in Logged(k, "receipt") : d.at <= e.at
    <3>1. About(target, {kind}) \subseteq About(target, {"reveal", "refund"})
      BY <2>9 DEF About
    <3>2. /\ Logged(k, "lock") = About(target, {"lock"}) /\ Logged(k, kind) = About(target, {kind})
          /\ Logged(k, "receipt") = About(target, {"receipt"})
      BY <2>6, <2>9
    <3> QED
      BY <2>2, <3>1, <3>2 DEF SettledInOrder
  <2> QED
    BY <2>1, <2>2, <2>3, <2>8, <2>9 DEF k, deal
<1> QED
  BY <1>1, InvHolds, LogHolds, AuditHolds, PTL
=============================================================================
