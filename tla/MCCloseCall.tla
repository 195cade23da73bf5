----------------------------- MODULE MCCloseCall -----------------------------
(***************************************************************************)
(* Model checking of the two Close Call verifiers.                          *)
(***************************************************************************)
EXTENDS CloseCallArchive

MCKinds == {"price", "flow"}
MCArtifacts == {"contest.json"}
=============================================================================
