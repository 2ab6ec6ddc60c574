---------------------------- MODULE MCExternalScan ----------------------------
(***************************************************************************)
(* Small instances of ExternalScan for TLC.                                *)
(***************************************************************************)
EXTENDS ExternalScan, TLC

CONSTANTS a, b, l, p1, p2, p3

\* Two files; l is a, under a root that is a symbolic link.
TwoFiles == {a, b, l}
Resolved == [x \in TwoFiles |-> IF x = l THEN a ELSE x]
TwoProcs == {p1, p2}
ThreeProcs == {p1, p2, p3}
=============================================================================
