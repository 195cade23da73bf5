------------------------------ MODULE MCMailbox ------------------------------
(***************************************************************************)
(* Model checking of Mailbox: a symmetry set for the safety runs.           *)
(***************************************************************************)
EXTENDS Mailbox, TLC

Symmetry == Permutations(Proc)
=============================================================================
