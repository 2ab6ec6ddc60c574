---------------------------- MODULE AtLeastOnce ----------------------------
(***************************************************************************)
(* What the notification outbox promises for each of its messages, without *)
(* claims, attempts, time or channels: it is handed over at least once     *)
(* before it is called sent, and not again after it is settled.            *)
(***************************************************************************)
EXTENDS Naturals

CONSTANT Messages

VARIABLES
    status,    \* status[m]: "none", "open", "sent" or "failed"
    delivered, \* delivered[m]: how often the receiver accepted m
    stuck      \* stuck[m]: no attempt on m comes to an end, for a cause outside

vars == <<status, delivered, stuck>>

Init ==
    /\ status = [m \in Messages |-> "none"]
    /\ delivered = [m \in Messages |-> 0]
    /\ stuck \in [Messages -> BOOLEAN]

\* An event puts its messages, all at once, into the outbox.
Add(S) ==
    /\ \A m \in S : status[m] = "none"
    /\ status' = [m \in Messages |-> IF m \in S THEN "open" ELSE status[m]]
    /\ UNCHANGED <<delivered, stuck>>

Deliver(m) ==
    /\ status[m] = "open"
    /\ delivered' = [delivered EXCEPT ![m] = @ + 1]
    /\ UNCHANGED <<status, stuck>>

\* The outbox learns that m was delivered.
Settle(m) ==
    /\ status[m] = "open" /\ delivered[m] > 0
    /\ status' = [status EXCEPT ![m] = "sent"]
    /\ UNCHANGED <<delivered, stuck>>

\* Nobody knows whether a message the outbox gives up was delivered.
GiveUp(m) ==
    /\ status[m] = "open"
    /\ status' = [status EXCEPT ![m] = "failed"]
    /\ UNCHANGED <<delivered, stuck>>

\* What holds messages up comes and goes.
Hold ==
    /\ stuck' \in [Messages -> BOOLEAN]
    /\ UNCHANGED <<status, delivered>>

Next == \/ Hold
        \/ \E S \in SUBSET Messages : Add(S)
        \/ \E m \in Messages : Deliver(m) \/ Settle(m) \/ GiveUp(m)

Spec == Init /\ [][Next]_vars

\* No message stays open for ever, unless it is stuck or is time and again.
FairSpec ==
    Spec /\ \A m \in Messages : WF_vars(~stuck[m] /\ (Settle(m) \/ GiveUp(m)))
=============================================================================
