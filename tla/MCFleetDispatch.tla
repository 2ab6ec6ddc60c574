-------------------------- MODULE MCFleetDispatch --------------------------
(***************************************************************************)
(* Small instances of FleetDispatch for TLC.                               *)
(***************************************************************************)
EXTENDS FleetDispatch

CONSTANTS p1, p2

ReadyOrNot == {"ready", "offline"}
OneJob == {1}
TwoJobs == {1, 2}
OnePrinter == {p1}
TwoPrinters == {p1, p2}
Manual == {"manual"}
AllStrategies == {"manual", "default", "least_busy"}
=============================================================================
