------------------------------- MODULE MCInbox -------------------------------
(***************************************************************************)
(* Small instances of Inbox for TLC.                                       *)
(***************************************************************************)
EXTENDS Inbox, TLC

CONSTANTS p1, p2, p3, p4

ThreeProcs == {p1, p2, p3}
FourProcs == {p1, p2, p3, p4}
=============================================================================
