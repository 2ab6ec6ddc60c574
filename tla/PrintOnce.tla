----------------------------- MODULE PrintOnce -----------------------------
(***************************************************************************)
(* What the fleet queue promises for each job, without rows, handlers,     *)
(* printers or a scheduler: a job is offered, taken by at most one         *)
(* dispatch at a time, and printed at most once before somebody who knows  *)
(* that the record of the print was lost offers it again.                  *)
(***************************************************************************)
EXTENDS Naturals

CONSTANT Jobs

VARIABLES
    offer,      \* offer[j]: "closed", "open" or "taken"
    prints,     \* prints[j]: prints of j a printer accepted
    writtenOff  \* writtenOff[j]: prints of j whose record was lost

vars == <<offer, prints, writtenOff>>

TypeOK ==
    /\ offer \in [Jobs -> {"closed", "open", "taken"}]
    /\ prints \in [Jobs -> Nat]
    /\ writtenOff \in [Jobs -> Nat]

Init ==
    /\ offer = [j \in Jobs |-> "closed"]
    /\ prints = [j \in Jobs |-> 0]
    /\ writtenOff = [j \in Jobs |-> 0]

Moves(j, from, to) ==
    /\ offer[j] = from
    /\ offer' = [offer EXCEPT ![j] = to]

\* Enqueued, or offered again: never while a print is unaccounted for.
Offer(j) ==
    /\ prints[j] <= writtenOff[j]
    /\ Moves(j, "closed", "open")
    /\ UNCHANGED <<prints, writtenOff>>

\* Cancelled before any dispatch took it.
Withdraw(j) == Moves(j, "open", "closed") /\ UNCHANGED <<prints, writtenOff>>

\* Claimed by a dispatch.
Take(j) == Moves(j, "open", "taken") /\ UNCHANGED <<prints, writtenOff>>

\* The dispatch has the printer start, once.  The dispatch may end with the
\* print: its answer was lost.
StartPrint(j) ==
    /\ offer[j] = "taken"
    /\ prints[j] <= writtenOff[j]
    /\ prints' = [prints EXCEPT ![j] = @ + 1]
    /\ UNCHANGED <<offer, writtenOff>>

\* The record of the print is lost.
WriteOff(j) ==
    /\ offer[j] = "taken"
    /\ writtenOff[j] < prints[j]
    /\ writtenOff' = [writtenOff EXCEPT ![j] = @ + 1]
    /\ UNCHANGED <<offer, prints>>

\* The dispatch is over, whatever its outcome.
Release(j) == Moves(j, "taken", "closed") /\ UNCHANGED <<prints, writtenOff>>

Next ==
    \E j \in Jobs : \/ Offer(j) \/ Withdraw(j) \/ Take(j)
                    \/ StartPrint(j) \/ WriteOff(j) \/ Release(j)

Spec == Init /\ [][Next]_vars

\* A dispatch that has taken a job is over at some point.
FairSpec == Spec /\ \A j \in Jobs : WF_vars(Release(j))
=============================================================================
