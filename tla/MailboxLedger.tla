---------------------------- MODULE MailboxLedger ----------------------------
(***************************************************************************)
(* What poll-mailbox.sh and ack-mailbox.sh promise together, without locks, *)
(* steps or processes: batches are offered one at a time from where the     *)
(* cursor stands, a marker keeps the next one away, and the cursor moves    *)
(* only to the end of the batch last offered.                               *)
(***************************************************************************)
EXTENDS Naturals

CONSTANT Null

VARIABLES
  cursor,  \* [gen, cursor]: what has been acknowledged
  marker,  \* an offered batch awaits acknowledgement
  offer    \* the batch last offered, or Null

ledgerVars == <<cursor, marker, offer>>

LedgerInit ==
  /\ cursor \in [gen : {Null}, cursor : Nat]
  /\ marker = FALSE
  /\ offer = Null

(* b may be offered: it starts at the cursor, brings something new, belongs *)
(* to the generation stored, and leaves no gap behind a positive cursor.    *)
Offerable(b) ==
  /\ b.start = cursor.cursor
  /\ b.last > b.start
  /\ b.seqs \subseteq (b.start + 1) .. b.last
  /\ cursor.gen # Null => b.gen = cursor.gen
  /\ b.start > 0 /\ b.seqs # {} => b.start + 1 \in b.seqs

(* The batch offered becomes known by what offer is next: a constraint      *)
(* rather than a choice, so that the step can be evaluated.                 *)
Offer ==
  /\ ~marker
  /\ marker'
  /\ offer' # Null
  /\ Offerable(offer')
  /\ UNCHANGED cursor

(* The generation is learnt without moving the cursor.                      *)
Bind ==
  /\ ~marker
  /\ cursor.gen = Null
  /\ cursor'.gen # Null
  /\ cursor' = [gen |-> cursor'.gen, cursor |-> cursor.cursor]
  /\ UNCHANGED <<marker, offer>>

(* Acknowledge the batch last offered: its marker may just have been        *)
(* removed by the operator, but no other batch has taken its place.         *)
Advance ==
  /\ offer # Null
  /\ offer.start = cursor.cursor
  /\ cursor.gen # Null => offer.gen = cursor.gen
  /\ cursor' = [gen |-> offer.gen, cursor |-> offer.last]
  /\ UNCHANGED <<marker, offer>>

(* The marker goes: after an acknowledgement, or for duplicate delivery.    *)
Release ==
  /\ marker
  /\ ~marker'
  /\ UNCHANGED <<cursor, offer>>

LedgerNext == Offer \/ Bind \/ Advance \/ Release

LedgerSpec == LedgerInit /\ [][LedgerNext]_ledgerVars
=============================================================================
