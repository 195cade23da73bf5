-------------------------- MODULE MCReviewedMailbox --------------------------
(***************************************************************************)
(* Model checking of ReviewedMailbox: where its runs consider kills.        *)
(***************************************************************************)
EXTENDS ReviewedMailbox

(* Every place of every job.                                                *)
AnyPlace == Jobs \ {"none"}

(* Every place but the removal of an empty batch and its receipt, where a   *)
(* kill leaves a receipt that no later batch matches, and an                *)
(* acknowledgement that may have moved the cursor (reviewed_ack_kill).      *)
RecoverablePlaces == AnyPlace \ {"rRemove", "kAck", "kArchive", "kRemove"}
=============================================================================
