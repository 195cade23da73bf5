---------------------------- MODULE CrossRoomAudit ----------------------------
(***************************************************************************)
(* scripts/audit-tclk-cross-room.py: the export of the offer board and then *)
(* that of one contract's room are read with the Contract of the            *)
(* transcript validator.  Either tool reads the frames of one transcript.   *)
(***************************************************************************)
EXTENDS TclkTranscript

VARIABLES
  tool,   \* which of the two scripts reads
  source, \* the export the audit is reading
  target, \* the contract it was asked about, None until its acceptance
  latest  \* accepted_time: timestamp of the last frame of that contract

auditVars == <<contracts, byId, log, verdict, tool, source, target, latest>>

(* offered_time                                                             *)
OfferedAt(o) == (CHOOSE e \in log : e.frame.type = "offer" /\ e.frame.id = o).at

-----------------------------------------------------------------------------
(* A slip: frames are taken in either room.                                 *)
RoutedAnywhere(f) == TRUE

(* Offers and acceptances are made on the board, the rest in the deal room. *)
Routed(f) == (source = "board") = (f.type \in {"offer", "accept"})

(* An offer that is not bound yet, in the order of the venue's time.        *)
FitsBoardAccept(f, now) ==
  /\ f.type = "accept" /\ contracts[f.ref] # None
  /\ contracts[f.ref].status = "proposed" /\ now >= OfferedAt(f.ref)
  /\ MayAccept(NewContract(contracts[f.ref].offer), f, now)

(* A slip: the deal room's timestamps are not compared.                     *)
FitsTargetAnyTime(f, now) ==
  /\ f.type \notin {"offer", "accept"}
  /\ target # None /\ f.contract = target
  /\ Allowed(contracts[byId[target]], f, now)

FitsTarget(f, now) ==
  /\ f.type \notin {"offer", "accept"}
  /\ target # None /\ f.contract = target
  /\ now >= latest
  /\ Allowed(contracts[byId[target]], f, now)

(* The command line names the target; which acceptance that is shows when   *)
(* it is read.                                                              *)
AuditFrame(f, sender, now) ==
  /\ Presentable(f, sender) /\ Routed(f)
  /\ f.type = "offer" \/ FitsBoardAccept(f, now) \/ FitsTarget(f, now)
  /\ f \notin Seen
  /\ Record(f, sender, now)
  /\ CASE f.type = "offer"  -> UNCHANGED <<target, latest>>
       [] f.type = "accept" -> \/ UNCHANGED <<target, latest>>
                               \/ target = None /\ target' = f.contract /\ latest' = now
       [] OTHER             -> latest' = now /\ UNCHANGED target
  /\ UNCHANGED <<tool, source>>

(* Any other signed frame, a gap in the numbers, a bad signature, a         *)
(* truncated export.                                                        *)
AuditRefused == ReadRefused /\ UNCHANGED <<tool, source, target, latest>>

NextExport ==
  /\ verdict = "reading" /\ source = "board"
  /\ source' = "deal"
  /\ UNCHANGED <<contracts, byId, log, verdict, tool, target, latest>>

AuditFinish ==
  /\ verdict = "reading" /\ source = "deal"
  /\ verdict' = IF target = None THEN "error" ELSE "report"
  /\ UNCHANGED <<contracts, byId, log, tool, source, target, latest>>

AuditNext ==
  \/ More /\ \E f \in Frames, sender \in Party, now \in Times : AuditFrame(f, sender, now)
  \/ AuditRefused
  \/ NextExport
  \/ AuditFinish

Init ==
  /\ TranscriptInit
  /\ tool \in {"validator", "audit"}
  /\ source = "board" /\ target = None /\ latest = 0

Next ==
  \/ tool = "validator" /\ TranscriptNext /\ UNCHANGED <<tool, source, target, latest>>
  \/ tool = "audit" /\ AuditNext

Spec == Init /\ [][Next]_auditVars

-----------------------------------------------------------------------------
(* What the audit reports was read where it belongs and in the order of     *)
(* time: the board has the offer before the acceptance, the deal room only  *)
(* frames of the target, none before the acceptance, no settlement before   *)
(* the lock, no receipt before the settlement.                              *)
AuditConsistent ==
  tool = "audit" /\ target # None =>
    LET k == contracts[target.offer]
        Before(kind, later) == \A d \in Logged(k, kind), e \in Logged(k, later) : d.at <= e.at
        deal == {e \in log : e.frame.type \notin {"offer", "accept"}}
    IN  /\ k # None /\ k.contract = target /\ byId[target] = target.offer
        /\ \A e \in deal : e.frame.contract = target
        /\ \A a \in Logged(k, "accept") :
             /\ OfferedAt(target.offer) <= a.at
             /\ \A e \in deal : a.at <= e.at /\ e.at <= latest
        /\ \A settlement \in {"reveal", "refund"} :
             Before("lock", settlement) /\ Before(settlement, "receipt")
        /\ source = "board" => k.status = "accepted"
=============================================================================
