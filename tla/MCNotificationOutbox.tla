------------------------ MODULE MCNotificationOutbox ------------------------
(***************************************************************************)
(* Small instances of NotificationOutbox for TLC.                          *)
(***************************************************************************)
EXTENDS NotificationOutbox, TLC

CONSTANTS c1, e1, e2, e3

OneChannel == {c1}
TwoEvents == {e1, e2}
ThreeEvents == {e1, e2, e3}
=============================================================================
