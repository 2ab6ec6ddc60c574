-------------------------- MODULE MCMaintenanceGate --------------------------
(***************************************************************************)
(* Small instances of MaintenanceGate for TLC.                             *)
(***************************************************************************)
EXTENDS MaintenanceGate, TLC

CONSTANTS w1, w2, k1, k2

TwoWorks == {w1, w2}
TwoKeys == {k1, k2}
OneSecondary == {k2}
FullOrPrimaryGone == {{k1, k2}, {k2}}

\* The works are interchangeable: of two plans that differ by their names, one.
UnorderedPlans ==
    LET kinds == <<[key |-> k1, adds |-> TRUE], [key |-> k1, adds |-> FALSE],
                   [key |-> k2, adds |-> TRUE], [key |-> k2, adds |-> FALSE]>>
    IN  {[w \in TwoWorks |-> IF w = w1 THEN kinds[i] ELSE kinds[j]]
           : <<i, j>> \in {p \in (1..4) \X (1..4) : p[1] <= p[2]}}
=============================================================================
