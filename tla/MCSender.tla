------------------------------- MODULE MCSender -------------------------------
(***************************************************************************)
(* Model checking of Sender: a symmetry set for the safety runs.            *)
(***************************************************************************)
EXTENDS Sender, TLC

Symmetry == Permutations(Proc)
=============================================================================
