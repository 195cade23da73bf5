--------------------------- MODULE TclkTranscript ---------------------------
(***************************************************************************)
(* scripts/validate-tclk-transcript.py: validate_transcript reads the       *)
(* messages of a saved batch in their order, keeps a contract for every     *)
(* offer, and refuses the whole batch at the first message that is not      *)
(* allowed.                                                                 *)
(***************************************************************************)
EXTENDS TclkContract, FiniteSets

CONSTANT MaxFrames \* bound: protocol frames in a transcript

VARIABLES
  contracts, \* contracts: by offer, None for an offer not seen
  byId,      \* contract_by_id: the offer of an accepted contract, or None
  log,       \* seen_lines, each with its timestamp and (ghost) its sender
  verdict    \* "reading", then "report" or "error"

transcriptVars == <<contracts, byId, log, verdict>>

Known == {c \in ContractIds : byId[c] # None}
Ended == {c \in Known : contracts[c.offer].status \in Terminal}
Frames ==
  OfferFrames \cup AcceptFrames(Known) \cup DealFrames(Known) \cup ReceiptFrames(Ended)
Seen == {e.frame : e \in log}

-----------------------------------------------------------------------------
(* An exception: there is no report.                                        *)
Refuse == verdict' = "error" /\ UNCHANGED <<contracts, byId, log>>

(* A slip: the frame's from is not compared with the verified sender.       *)
PresentableFromAnyone(f, sender) == WellFormed(f)

(* What is asked of a line of any kind; sender is the verified one.         *)
Presentable(f, sender) == sender = Author(f) /\ WellFormed(f)

FitsOffer(f) == f.type = "offer" /\ contracts[f.id] = None

FitsAccept(f, now) ==
  f.type = "accept" /\ contracts[f.ref] # None /\ MayAccept(contracts[f.ref], f, now)

FitsDeal(f, now) ==
  /\ f.type \notin {"offer", "accept"}
  /\ byId[f.contract] # None
  /\ Allowed(contracts[byId[f.contract]], f, now)

(* What a line that was found in order changes.                             *)
Record(f, sender, now) ==
  /\ log' = log \cup {[frame |-> f, by |-> sender, at |-> now]}
  /\ byId' = IF f.type = "accept" THEN [byId EXCEPT ![f.contract] = f.ref] ELSE byId
  /\ contracts' =
       CASE f.type = "offer"  -> [contracts EXCEPT ![f.id] = NewContract(f.body)]
         [] f.type = "accept" -> [contracts EXCEPT ![f.ref] = Applied(@, f)]
         [] OTHER             -> [contracts EXCEPT ![byId[f.contract]] = Applied(@, f)]
  /\ UNCHANGED verdict

(* There is another line.                                                   *)
More == verdict = "reading" /\ Cardinality(log) < MaxFrames

ReadFrame(f, sender, now) ==
  /\ Presentable(f, sender)
  /\ FitsOffer(f) \/ FitsAccept(f, now) \/ FitsDeal(f, now)
  /\ f \notin Seen
  /\ Record(f, sender, now)

(* A frame that is not accepted, or a message whose envelope, sequence      *)
(* number, signature or form is wrong.                                      *)
ReadRefused == verdict = "reading" /\ Refuse

(* The header's numbers have to be those of the messages.                   *)
Finish ==
  /\ verdict = "reading"
  /\ \/ verdict' = "report" /\ UNCHANGED <<contracts, byId, log>>
     \/ Refuse

TranscriptInit ==
  /\ contracts = [o \in Offers |-> None]
  /\ byId = [c \in ContractIds |-> None]
  /\ log = {}
  /\ verdict = "reading"

TranscriptNext ==
  \/ More /\ \E f \in Frames, sender \in Party, now \in Times : ReadFrame(f, sender, now)
  \/ ReadRefused
  \/ Finish

TranscriptSpec == TranscriptInit /\ [][TranscriptNext]_transcriptVars

-----------------------------------------------------------------------------
(* Types of the validator's variables.                                      *)
TclkTypeOK ==
  /\ contracts \in [Offers -> Contracts \cup {None}]
  /\ byId \in [ContractIds -> Offers \cup {None}]
  /\ \A e \in log : e.at \in Times
  /\ verdict \in {"reading", "report", "error"}

(* The two dictionaries stay together: a contract has the id under which    *)
(* its frames reach it, an id reaches no other contract, and the payer and  *)
(* the payee of a contract are two, one of them the author of the offer.    *)
Indexed ==
  /\ \A c \in ContractIds : byId[c] # None =>
       byId[c] = c.offer /\ contracts[c.offer] # None /\ contracts[c.offer].contract = c
  /\ \A o \in Offers : contracts[o] # None =>
       LET k == contracts[o]
       IN  /\ k.offer = o
           /\ k.status # "proposed" =>
                /\ k.contract \in ContractIds /\ byId[k.contract] = o
                /\ k.payer # k.payee /\ o.from \in Parties(k)
                /\ Parties(k) = {o.from, k.contract.from}
                /\ (o.role = "payer") = (k.payer = o.from)

(* Frames of a contract in the log, of one kind.                            *)
Logged(k, kind) ==
  {e \in log : /\ e.frame.type = kind
               /\ IF kind = "accept" THEN IdOf(e.frame) = k.contract
                  ELSE e.frame.contract = k.contract}

(* The status of a contract is the one its frames amount to, whatever the   *)
(* other contracts of the transcript did meanwhile and whatever the order   *)
(* of the timestamps: settled at most once, claimed only by the payee with  *)
(* the secret before the refund time, refunded only by the payer from then  *)
(* on, and locked before both.  Receipts agree with it.                     *)
JustifiedStatus ==
  \A o \in Offers : contracts[o] # None =>
    LET k == contracts[o]
        settled == Logged(k, "reveal") \cup Logged(k, "refund") \cup Logged(k, "cancel")
    IN  k.status # "proposed" =>
        /\ \E e \in Logged(k, "accept") :
             e.at < o.expires /\ Parties(k) = {o.from, e.by} /\ o.from # e.by
        /\ Cardinality(settled) = IF k.status \in Terminal THEN 1 ELSE 0
        /\ k.status \in {"locked", "claimed", "refunded"} =>
             \E e \in Logged(k, "lock") :
               e.by = k.payer /\ e.at < o.refundAfter /\ e.frame.rail \in o.rails
        /\ Cardinality(Logged(k, "lock")) <= 1
        /\ k.status = "claimed" =>
             \E e \in Logged(k, "reveal") :
               /\ e.by = k.payee /\ e.at < o.refundAfter
               /\ e.frame.secret = k.contract.statement
        /\ k.status = "refunded" =>
             \E e \in Logged(k, "refund") :
               e.by = k.payer /\ e.at >= o.refundAfter
        /\ \A e \in Logged(k, "receipt") : e.frame.outcome = k.status

(* The validator takes exactly the steps of the protocol's lifecycle: no    *)
(* interleaving of lines of several contracts moves one in another way.     *)
Lifecycle == INSTANCE TclkLifecycle WITH
  stage <- [o \in Offers |-> IF contracts[o] = None THEN "none" ELSE contracts[o].status],
  taker <- [o \in Offers |-> IF contracts[o] = None THEN None
                             ELSE IF contracts[o].contract = None THEN None
                             ELSE contracts[o].contract.from]

ImplementsLifecycle == Lifecycle!LifecycleSpec
=============================================================================
