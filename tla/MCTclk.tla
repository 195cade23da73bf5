-------------------------------- MODULE MCTclk --------------------------------
(***************************************************************************)
(* Model checking of the two tclk readers: an offer of a payer, and one of  *)
(* a payee whose refund time comes first.                                   *)
(***************************************************************************)
EXTENDS CrossRoomAudit, TLC

CONSTANTS a, b, c, r1, r2

Symmetry == {g @@ h : g \in Permutations(Secrets), h \in Permutations(Refs)}

MCOffers ==
  {[from |-> a, role |-> "payer", rails |-> {r1}, claimBy |-> 2, refundAfter |-> 3, expires |-> 2],
   [from |-> b, role |-> "payee", rails |-> {r1, r2}, claimBy |-> 1, refundAfter |-> 2,
    expires |-> 3]}
=============================================================================
