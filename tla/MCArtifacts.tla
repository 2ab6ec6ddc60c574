----------------------------- MODULE MCArtifacts -----------------------------
(***************************************************************************)
(* Small instances of Artifacts for TLC.                                   *)
(***************************************************************************)
EXTENDS Artifacts, TLC

CONSTANTS p1, p2

TwoProcs == {p1, p2}
ProcSymmetry == Permutations(TwoProcs)
=============================================================================
