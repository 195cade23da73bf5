--------------------------- MODULE MCContestRecorder ---------------------------
(***************************************************************************)
(* Model checking of ContestRecorder: two configurations of one archive     *)
(* directory, which differ in the room's generation.                        *)
(***************************************************************************)
EXTENDS ContestRecorder

Symmetry == Permutations(Proc)

MCConfigs == {[generation |-> g, after |-> 0] : g \in {1, 2}}
=============================================================================
