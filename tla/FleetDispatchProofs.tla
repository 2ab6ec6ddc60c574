------------------------- MODULE FleetDispatchProofs -------------------------
(***************************************************************************)
(* Proofs about FleetDispatch, for every set of jobs, printers and threads *)
(* and every value of the bounds: the inductive invariant and what follows *)
(* from it, and what a reorder makes of the queue.                         *)
(***************************************************************************)
EXTENDS FleetDispatch, FiniteSetTheorems, TLAPS

-----------------------------------------------------------------------------
(* The rows handlers and the scheduler write *)

\* A column of a merged row is one of the two values it chooses between.
LEMMA MergeType ==
    ASSUME NEW now \in JobRow, NEW read \in JobRow, NEW new \in JobRow
    PROVE  Merge(now, read, new) \in JobRow
BY DEF Merge, Column, JobRow

\* The rows handlers compute from a well-typed row are well typed.
LEMMA NewRowType ==
    ASSUME NEW row \in JobRow, NEW p \in PrinterIds, NEW b \in Blocks, NEW n \in Nat,
           NEW s \in {"manual", "default", "least_busy"}
    PROVE  /\ NoRow \in JobRow
           /\ [NoRow EXCEPT !.state = "queued", !.printer = p, !.blocked = b,
                            !.strategy = s, !.position = n] \in JobRow
           /\ [row EXCEPT !.state = "queued", !.printer = p, !.blocked = b,
                          !.retryable = FALSE, !.finished = FALSE,
                          !.claimed = FALSE] \in JobRow
           /\ [row EXCEPT !.strategy = s, !.printer = p, !.blocked = b] \in JobRow
           /\ [row EXCEPT !.state = "cancelled", !.finished = TRUE,
                          !.blocked = "none"] \in JobRow
           /\ [row EXCEPT !.position = n] \in JobRow
<1>1. NoRow \in JobRow
  BY DEF NoRow, JobRow, States, PrinterIds, Blocks
<1>2. [NoRow EXCEPT !.state = "queued", !.printer = p, !.blocked = b,
                    !.strategy = s, !.position = n] \in JobRow
  BY DEF NoRow, JobRow, States
<1>3. [row EXCEPT !.state = "queued", !.printer = p, !.blocked = b,
                  !.retryable = FALSE, !.finished = FALSE, !.claimed = FALSE] \in JobRow
  BY DEF JobRow, States
<1>4. [row EXCEPT !.strategy = s, !.printer = p, !.blocked = b] \in JobRow
  BY DEF JobRow
<1>5. [row EXCEPT !.state = "cancelled", !.finished = TRUE, !.blocked = "none"] \in JobRow
  BY DEF JobRow, States, Blocks
<1>6. [row EXCEPT !.position = n] \in JobRow
  BY DEF JobRow
<1> QED BY <1>1, <1>2, <1>3, <1>4, <1>5, <1>6

\* So are the rows the scheduler and startup write.
LEMMA SchedRowType ==
    ASSUME NEW row \in JobRow, NEW b \in BOOLEAN
    PROVE  /\ [row EXCEPT !.state = "uploading", !.claimed = TRUE] \in JobRow
           /\ [row EXCEPT !.state = "started", !.retryable = FALSE,
                          !.blocked = "none"] \in JobRow
           /\ [row EXCEPT !.state = "failed", !.retryable = b,
                          !.finished = TRUE] \in JobRow
BY DEF JobRow, States, Blocks

\* What choose_printer answers is an assignment: a printer or none, and a
\* reason or none.
LEMMA RouteType ==
    ASSUME TypeOK, NEW strategy \in {"manual", "default", "least_busy"},
           NEW requested \in PrinterIds, ~Raises(strategy, requested),
           NEW lb \in LeastBusy
    PROVE  Route(strategy, requested, lb) \in [printer : PrinterIds, blocked : Blocks]
<1>1. lb \in PrinterIds
  BY DEF LeastBusy, EligiblePrinters, PrinterIds
<1>2. \A p \in PrinterIds, ok \in BOOLEAN :
        Assignment(p, ok) \in [printer : PrinterIds, blocked : Blocks]
  BY DEF Assignment, Blocks
<1>3. CASE strategy = "manual"
  <2>1. requested \in PrinterIds /\ Eligible(requested) \in BOOLEAN
    BY DEF Eligible
  <2> QED BY <1>2, <1>3, <2>1 DEF Route
<1>4. CASE strategy = "default"
  <2>1. NoPrinter \in PrinterIds /\ default \in PrinterIds
    BY DEF PrinterIds, TypeOK
  <2>2. Eligible(default) \in BOOLEAN
    BY DEF Eligible
  <2> QED BY <1>2, <1>4, <2>1, <2>2 DEF Route
<1>5. CASE strategy = "least_busy"
  BY <1>1, <1>2, <1>5 DEF Route
<1> QED BY <1>3, <1>4, <1>5

\* What the claim decides for a row is an assignment.
LEMMA ResolveType ==
    ASSUME TypeOK, NEW j \in Jobs, NEW lb \in LeastBusy
    PROVE  Resolve(j, lb) \in [printer : PrinterIds, blocked : Blocks]
<1> DEFINE requested == IF job[j].strategy = "manual" THEN job[j].printer ELSE NoPrinter
           route == IF Raises(job[j].strategy, requested)
                    THEN Assignment(NoPrinter, FALSE)
                    ELSE Route(job[j].strategy, requested, lb)
<1>1. /\ requested \in PrinterIds
      /\ job[j].strategy \in {"manual", "default", "least_busy"}
  BY DEF TypeOK, JobRow, PrinterIds
<1>2. route \in [printer : PrinterIds, blocked : Blocks]
  <2>1. CASE Raises(job[j].strategy, requested)
    BY <2>1 DEF Assignment, PrinterIds, Blocks
  <2>2. CASE ~Raises(job[j].strategy, requested)
    BY <1>1, <2>2, RouteType
  <2> QED BY <2>1, <2>2
<1>3. [route EXCEPT !.blocked = "access"] \in [printer : PrinterIds, blocked : Blocks]
  BY <1>2 DEF Blocks
<1> QED BY <1>2, <1>3 DEF Resolve

\* A handler's unit of work is well typed when the rows it writes are.
LEMMA ReadsType ==
    ASSUME TypeOK, NEW w \in Workers, NEW kind \in {"edit", "retry"},
           NEW S \in SUBSET Jobs, NEW new, \A j \in S : new[j] \in JobRow,
           Reads(w, kind, S, new)
    PROVE  TypeOK'
<1>1. NoRow \in JobRow
  BY DEF NoRow, JobRow, States, PrinterIds, Blocks
<1>2. [kind |-> kind,
       read |-> [j \in Jobs |-> IF j \in S THEN job[j] ELSE NoRow],
       new  |-> [j \in Jobs |-> IF j \in S THEN new[j] ELSE NoRow]] \in WorkerStates
  BY <1>1 DEF TypeOK, WorkerStates
<1>3. worker' \in [Workers -> WorkerStates]
  BY <1>2 DEF Reads, TypeOK
<1> QED BY <1>3 DEF Reads, TypeOK

\* The positions a reorder hands out are natural numbers: they count rows of
\* a finite set.
LEMMA CountType ==
    ASSUME NEW S \in SUBSET Jobs
    PROVE  Cardinality(S) \in Nat
BY JobsAssumption, FS_Subset, FS_CardinalityType

\* Where a row is put in the queue is a position.
LEMMA PlaceType ==
    ASSUME NEW j \in Jobs, NEW k \in Jobs, NEW index \in Nat \ {0}
    PROVE  Place(j, index, k) \in Nat
<1> DEFINE others == Queued \ {j}
           ahead == Cardinality({i \in others : QueuedBefore(i, k)})
<1>1. others \in SUBSET Jobs /\ {i \in others : QueuedBefore(i, k)} \in SUBSET Jobs
  BY DEF Queued
<1>2. Cardinality(others) \in Nat /\ ahead \in Nat
  BY <1>1, CountType
<1> HIDE DEF others, ahead
<1>3. Place(j, index, k) =
        LET at == IF index - 1 < Cardinality(others) THEN index - 1
                  ELSE Cardinality(others)
        IN  IF k = j THEN at + 1 ELSE IF ahead < at THEN ahead + 1 ELSE ahead + 2
  BY DEF Place, others, ahead
<1> QED BY <1>2, <1>3

\* A patch writes rows that differ from what it read in routing and position
\* only.
LEMMA PatchedRows ==
    ASSUME TypeOK, NEW w \in Workers, NEW j \in Jobs,
           NEW r \in Requests \cup {Unrouted}, NEW index \in 0..Cardinality(Queued),
           PatchRead(w, j, r, index)
    PROVE  \E S, new :
             /\ S \in SUBSET Jobs
             /\ Reads(w, "edit", S, new)
             /\ \A k \in S : /\ new[k] \in JobRow
                             /\ new[k].state = job[k].state
                             /\ new[k].claimed = job[k].claimed
                             /\ new[k].retryable = job[k].retryable
<1>1. PICK lb \in LeastBusy :
        Reads(w, "edit", DOMAIN Patched(j, r, index, lb), Patched(j, r, index, lb))
  BY DEF PatchRead
<1>2. Cardinality(Queued) \in Nat /\ Queued \in SUBSET Jobs
  BY CountType DEF Queued
<1>3. \A k \in Jobs : job[k] \in JobRow
  BY DEF TypeOK
<1>4. /\ Routed(j, r, lb) \in JobRow
      /\ Routed(j, r, lb).state = job[j].state
      /\ Routed(j, r, lb).claimed = job[j].claimed
      /\ Routed(j, r, lb).retryable = job[j].retryable
  <2>1. CASE r = Unrouted
    BY <1>3, <2>1 DEF Routed
  <2>2. CASE r # Unrouted
    <3>1. /\ r[1] \in {"manual", "default", "least_busy"}
          /\ r[2] \in PrinterIds /\ ~Raises(r[1], r[2])
      BY <2>2, StrategiesAssumption DEF Requests, PatchRead
    <3>2. Route(r[1], r[2], lb) \in [printer : PrinterIds, blocked : Blocks]
      BY <3>1, RouteType
    <3>3. Routed(j, r, lb) = [job[j] EXCEPT !.strategy = r[1],
                                !.printer = Route(r[1], r[2], lb).printer,
                                !.blocked = Route(r[1], r[2], lb).blocked]
      BY <2>2 DEF Routed
    <3>4. /\ Route(r[1], r[2], lb).printer \in PrinterIds
          /\ Route(r[1], r[2], lb).blocked \in Blocks
      BY <3>2
    <3> QED BY <1>3, <3>1, <3>3, <3>4 DEF JobRow
  <2> QED BY <2>1, <2>2
<1> DEFINE S == IF index = 0 THEN {j} ELSE Queued
           row(k) == IF k = j THEN Routed(j, r, lb) ELSE job[k]
           at(k) == IF index = 0 THEN row(k).position ELSE Place(j, index, k)
<1>5. S \in SUBSET Jobs
  BY <1>2
<1>6. \A k \in S : /\ row(k) \in JobRow /\ at(k) \in Nat
                   /\ row(k).state = job[k].state
                   /\ row(k).claimed = job[k].claimed
                   /\ row(k).retryable = job[k].retryable
  <2> TAKE k \in S
  <2>1. /\ row(k) \in JobRow
        /\ row(k).state = job[k].state
        /\ row(k).claimed = job[k].claimed
        /\ row(k).retryable = job[k].retryable
    BY <1>3, <1>4, <1>5
  <2>2. index # 0 => index \in Nat \ {0}
    BY <1>2
  <2>3. index # 0 => Place(j, index, k) \in Nat
    BY <1>5, <2>2, PlaceType
  <2>4. row(k).position \in Nat
    BY <2>1 DEF JobRow
  <2> QED BY <2>1, <2>3, <2>4
<1>7. /\ DOMAIN Patched(j, r, index, lb) = S
      /\ \A k \in S : Patched(j, r, index, lb)[k] = [row(k) EXCEPT !.position = at(k)]
  BY DEF Patched
<1> HIDE DEF S, row, at
<1>8. \A k \in S : /\ Patched(j, r, index, lb)[k] \in JobRow
                   /\ Patched(j, r, index, lb)[k].state = job[k].state
                   /\ Patched(j, r, index, lb)[k].claimed = job[k].claimed
                   /\ Patched(j, r, index, lb)[k].retryable = job[k].retryable
  BY <1>6, <1>7 DEF JobRow
<1> QED BY <1>1, <1>5, <1>7, <1>8

\* Every step of the queue, the scheduler and the process keeps the types.
LEMMA TypeStep == TypeOK /\ SchedInv /\ [Next]_vars => TypeOK'
<1> SUFFICES ASSUME TypeOK, SchedInv, [Next]_vars PROVE TypeOK'
  OBVIOUS
<1> USE DEF Others, Histories
<1>1. ASSUME NEW j \in Jobs, NEW r \in Requests, Enqueue(j, r[1], r[2])
      PROVE  TypeOK'
  <2> DEFINE strategy == r[1]
             requested == r[2]
  <2>1. /\ strategy \in {"manual", "default", "least_busy"}
        /\ requested \in PrinterIds
    BY StrategiesAssumption DEF Requests
  <2>2. PICK lb \in LeastBusy, last \in {0} \cup {job[k].position : k \in Queued} :
          job' = [job EXCEPT ![j] =
                    [NoRow EXCEPT !.state = "queued",
                                  !.printer = Route(strategy, requested, lb).printer,
                                  !.blocked = Route(strategy, requested, lb).blocked,
                                  !.strategy = strategy,
                                  !.position = last + 1]]
    BY <1>1 DEF Enqueue
  <2>3. last \in Nat
    BY <2>2 DEF Queued, TypeOK, JobRow
  <2>4. Route(strategy, requested, lb) \in [printer : PrinterIds, blocked : Blocks]
    BY <1>1, <2>1, RouteType DEF Enqueue
  <2>5. [NoRow EXCEPT !.state = "queued",
                      !.printer = Route(strategy, requested, lb).printer,
                      !.blocked = Route(strategy, requested, lb).blocked,
                      !.strategy = strategy,
                      !.position = last + 1] \in JobRow
    <3>1. /\ Route(strategy, requested, lb).printer \in PrinterIds
          /\ Route(strategy, requested, lb).blocked \in Blocks
          /\ last + 1 \in Nat /\ job[j] \in JobRow
      BY <2>3, <2>4 DEF TypeOK
    <3> HIDE DEF strategy, requested
    <3> QED BY <2>1, <3>1, NewRowType
  <2>6. job' \in [Jobs -> JobRow]
    BY <2>2, <2>5 DEF TypeOK
  <2> QED BY <1>1, <2>6 DEF Enqueue, TypeOK
<1>2. ASSUME NEW w \in Workers, NEW j \in Jobs, CancelRead(w, j)
      PROVE  TypeOK'
  <2>1. [job[j] EXCEPT !.state = "cancelled", !.finished = TRUE,
                       !.blocked = "none"] \in JobRow
    BY DEF TypeOK, JobRow, States, Blocks
  <2>2. \A i \in {j} : [k \in {j} |-> [job[j] EXCEPT !.state = "cancelled",
                                                     !.finished = TRUE,
                                                     !.blocked = "none"]][i] \in JobRow
    BY <2>1
  <2> QED BY <1>2, <2>2, ReadsType DEF CancelRead
<1>3. ASSUME NEW w \in Workers, NEW j \in Jobs, RetryRead(w, j)
      PROVE  TypeOK'
  <2> DEFINE requested == IF job[j].strategy = "manual" THEN job[j].printer ELSE NoPrinter
  <2>1. /\ requested \in PrinterIds
        /\ job[j].strategy \in {"manual", "default", "least_busy"}
    BY DEF TypeOK, JobRow, PrinterIds
  <2>2. PICK lb \in LeastBusy :
          Reads(w, "retry", {j},
                [i \in {j} |->
                   [job[j] EXCEPT !.state = "queued",
                                  !.printer = Route(job[j].strategy, requested, lb).printer,
                                  !.blocked = Route(job[j].strategy, requested, lb).blocked,
                                  !.retryable = FALSE, !.finished = FALSE,
                                  !.claimed = FALSE]])
    BY <1>3 DEF RetryRead
  <2>3. Route(job[j].strategy, requested, lb) \in [printer : PrinterIds, blocked : Blocks]
    BY <1>3, <2>1, RouteType DEF RetryRead
  <2>4. [job[j] EXCEPT !.state = "queued",
                       !.printer = Route(job[j].strategy, requested, lb).printer,
                       !.blocked = Route(job[j].strategy, requested, lb).blocked,
                       !.retryable = FALSE, !.finished = FALSE,
                       !.claimed = FALSE] \in JobRow
    <3>1. /\ Route(job[j].strategy, requested, lb).printer \in PrinterIds
          /\ Route(job[j].strategy, requested, lb).blocked \in Blocks
          /\ job[j] \in JobRow
      BY <2>3 DEF TypeOK
    <3> HIDE DEF requested
    <3> QED BY <2>1, <3>1, NewRowType
  <2> HIDE DEF requested
  <2> QED BY <2>2, <2>4, ReadsType
<1>4. ASSUME NEW w \in Workers, NEW j \in Jobs, NEW r \in Requests \cup {Unrouted},
             NEW index \in 0..Cardinality(Queued), PatchRead(w, j, r, index)
      PROVE  TypeOK'
  <2>1. PICK S, new :
          S \in SUBSET Jobs /\ Reads(w, "edit", S, new) /\ \A k \in S : new[k] \in JobRow
    BY <1>4, PatchedRows
  <2> QED BY <2>1, ReadsType
<1>6. ASSUME NEW w \in Workers, Commit(w)
      PROVE  TypeOK'
  <2>1. \A j \in Jobs : Merge(job[j], worker[w].read[j], worker[w].new[j]) \in JobRow
    BY MergeType DEF TypeOK, WorkerStates
  <2>2. job' \in [Jobs -> JobRow]
    BY <1>6, <2>1 DEF Commit
  <2>3. Resting \in WorkerStates
    BY DEF Resting, WorkerStates, NoRow, JobRow, States, PrinterIds, Blocks
  <2>4. worker' \in [Workers -> WorkerStates]
    BY <1>6, <2>3 DEF Commit, TypeOK
  <2>5. used' \in [faults : Nat, crashes : Nat, retries : Nat, changes : Nat]
    BY <1>6 DEF Commit, TypeOK
  <2> QED BY <1>6, <2>2, <2>4, <2>5 DEF Commit, TypeOK
<1>7. ASSUME NEW p \in Printers, PrinterChange(p) \/ DefaultChange(p)
      PROVE  TypeOK'
  <2>1. printer' \in [Printers -> PrinterRow]
    BY <1>7 DEF PrinterChange, DefaultChange, TypeOK, PrinterRow
  <2>2. default' \in PrinterIds
    BY <1>7 DEF PrinterChange, DefaultChange, TypeOK, PrinterIds
  <2> QED BY <1>7, <2>1, <2>2 DEF PrinterChange, DefaultChange, Change, TypeOK
<1>8. ASSUME NEW j \in Jobs, AccessChange(j)
      PROVE  TypeOK'
  BY <1>8 DEF AccessChange, Change, TypeOK
<1>9. Idle \in SchedStates /\ Down \in SchedStates
  BY DEF Idle, Down, SchedStates, SchedPcs, NoUpdates, Keep, PrinterIds
<1>10. ASSUME SchedRead PROVE TypeOK'
  <2>1. PICK lb \in LeastBusy, c \in Batch \cup {0} :
          sched' = [Idle EXCEPT !.pc = "resolved", !.job = c,
                                !.vetted = IF c = 0 THEN NoPrinter
                                           ELSE Resolve(c, lb).printer,
                                !.updates = Updates(c, lb)]
    BY <1>10 DEF SchedRead
  <2>2. Batch \subseteq Jobs
    BY DEF Batch, Waiting, Queued
  <2>3. \A j \in Jobs : Resolve(j, lb) \in [printer : PrinterIds, blocked : Blocks]
    BY ResolveType
  <2>4. Updates(c, lb) \in [Jobs -> [printer : PrinterIds, blocked : Blocks] \cup {Keep}]
    BY <2>3 DEF Updates
  <2>5. (IF c = 0 THEN NoPrinter ELSE Resolve(c, lb).printer) \in PrinterIds
    BY <2>2, <2>3 DEF PrinterIds
  <2>6. sched' \in SchedStates
    BY <1>9, <2>1, <2>2, <2>4, <2>5 DEF SchedStates, SchedPcs
  <2> QED BY <1>10, <2>6 DEF SchedRead, TypeOK
<1>11. ASSUME SchedApply PROVE TypeOK'
  <2>1. \A j \in Jobs : sched.updates[j] # Keep =>
          /\ sched.updates[j].printer \in PrinterIds
          /\ sched.updates[j].blocked \in Blocks
    BY DEF TypeOK, SchedStates
  <2>2. job' \in [Jobs -> JobRow]
    BY <1>11, <2>1 DEF SchedApply, TypeOK, JobRow
  <2>3. NoUpdates \in [Jobs -> [printer : PrinterIds, blocked : Blocks] \cup {Keep}]
    BY DEF NoUpdates
  <2>4. [sched EXCEPT !.pc = "claiming", !.updates = NoUpdates] \in SchedStates
    BY <2>3 DEF TypeOK, SchedStates, SchedPcs
  <2> QED BY <1>9, <1>11, <2>2, <2>4 DEF SchedApply, TypeOK
<1>12. \A code \in {"none", "known", "outcome_unknown"} :
         Fail(code) => sched' \in SchedStates
  BY DEF Fail, TypeOK, SchedStates, SchedPcs
<1>13. ASSUME SchedClaim PROVE TypeOK'
  <2>1. sched.job \in Jobs
    BY <1>13 DEF SchedClaim, SchedInv
  <2>2. job' \in [Jobs -> JobRow]
    <3>1. [job[sched.job] EXCEPT !.state = "uploading", !.claimed = TRUE] \in JobRow
      BY <2>1, SchedRowType DEF TypeOK
    <3> QED BY <1>13, <2>1, <3>1 DEF SchedClaim, TypeOK
  <2>3. [sched EXCEPT !.pc = "claimed"] \in SchedStates
    BY DEF TypeOK, SchedStates, SchedPcs
  <2> QED BY <1>9, <1>13, <2>2, <2>3 DEF SchedClaim, TypeOK
<1>14. ASSUME SchedLoad PROVE TypeOK'
  <2>1. sched.job \in Jobs
    BY <1>14 DEF SchedLoad, SchedInv, InFlight
  <2>2. [sched EXCEPT !.pc = "loaded", !.printer = job[sched.job].printer] \in SchedStates
    BY <2>1 DEF TypeOK, SchedStates, SchedPcs, JobRow
  <2> QED BY <1>12, <1>14, <2>2 DEF SchedLoad, TypeOK
<1>15. ASSUME SchedCheck \/ SchedUpload PROVE TypeOK'
  <2>1. /\ [sched EXCEPT !.pc = "checked"] \in SchedStates
        /\ [sched EXCEPT !.pc = "uploaded"] \in SchedStates
    BY DEF TypeOK, SchedStates, SchedPcs
  <2> QED BY <1>12, <1>15, <2>1 DEF SchedCheck, SchedUpload, TypeOK
<1>16. ASSUME SchedStart PROVE TypeOK'
  <2>1. [sched EXCEPT !.pc = "accepted"] \in SchedStates
    BY DEF TypeOK, SchedStates, SchedPcs
  <2>2. starts' \in [Jobs -> Nat]
    BY <1>16 DEF SchedStart, TypeOK
  <2> QED BY <1>12, <1>16, <2>1, <2>2 DEF SchedStart, TypeOK
<1>17. ASSUME SchedMarkStarted PROVE TypeOK'
  <2>1. job' \in [Jobs -> JobRow]
    <3>1. sched.job \in Jobs
      BY <1>17 DEF SchedMarkStarted, SchedInv, InFlight
    <3>2. [job[sched.job] EXCEPT !.state = "started", !.retryable = FALSE,
                                 !.blocked = "none"] \in JobRow
      BY <3>1, SchedRowType DEF TypeOK
    <3> QED BY <1>17, <3>1, <3>2 DEF SchedMarkStarted, TypeOK
  <2>2. [sched EXCEPT !.pc = "recorded"] \in SchedStates
    BY DEF TypeOK, SchedStates, SchedPcs
  <2> QED BY <1>17, <2>1, <2>2 DEF SchedMarkStarted, TypeOK
<1>18. ASSUME SchedUpsert PROVE TypeOK'
  BY <1>9, <1>18 DEF SchedUpsert, TypeOK
<1>19. ASSUME SchedMarkFailed PROVE TypeOK'
  <2>1. job' \in [Jobs -> JobRow]
    <3>1. sched.job \in Jobs /\ (sched.code # "outcome_unknown") \in BOOLEAN
      BY <1>19 DEF SchedMarkFailed, SchedInv, InFlight
    <3>2. [job[sched.job] EXCEPT !.state = "failed",
                                 !.retryable = (sched.code # "outcome_unknown"),
                                 !.finished = TRUE] \in JobRow
      BY <3>1, SchedRowType DEF TypeOK
    <3> QED BY <1>19, <3>1, <3>2 DEF SchedMarkFailed, TypeOK
  <2> QED BY <1>9, <1>19, <2>1 DEF SchedMarkFailed, TypeOK
<1>20. ASSUME SchedFault PROVE TypeOK'
  <2>1. sched' \in SchedStates
    BY <1>9, <1>12, <1>20 DEF SchedFault
  <2>2. written' \in [Jobs -> Nat]
    BY <1>20 DEF SchedFault, TypeOK, SchedInv, InFlight
  <2>3. stranded' \in SUBSET Jobs
    BY <1>20 DEF SchedFault, TypeOK, SchedInv, InFlight
  <2>4. used' \in [faults : Nat, crashes : Nat, retries : Nat, changes : Nat]
    BY <1>20 DEF SchedFault, TypeOK
  <2> QED BY <1>20, <2>1, <2>2, <2>3, <2>4 DEF SchedFault, TypeOK
<1>21. ASSUME Crash PROVE TypeOK'
  <2>1. Resting \in WorkerStates
    BY DEF Resting, WorkerStates, NoRow, JobRow, States, PrinterIds, Blocks
  <2>2. used' \in [faults : Nat, crashes : Nat, retries : Nat, changes : Nat]
    BY <1>21 DEF Crash, TypeOK
  <2> QED BY <1>9, <1>21, <2>1, <2>2 DEF Crash, TypeOK
<1>22. ASSUME Restart PROVE TypeOK'
  <2>1. job' \in [Jobs -> JobRow]
    <3>1. \A j \in Jobs : [job[j] EXCEPT !.state = "failed", !.retryable = FALSE,
                                         !.finished = TRUE] \in JobRow
      BY SchedRowType DEF TypeOK
    <3> QED BY <1>22, <3>1 DEF Restart, TypeOK
  <2> QED BY <1>9, <1>22, <2>1 DEF Restart, TypeOK
<1>23. CASE UNCHANGED vars
  BY <1>23 DEF vars, TypeOK
<1> QED
  BY <1>1, <1>2, <1>3, <1>4, <1>6, <1>7, <1>8, <1>10, <1>11, <1>13, <1>14,
     <1>15, <1>16, <1>17, <1>18, <1>19, <1>20, <1>21, <1>22, <1>23
  DEF Next, Handler, SchedStep

-----------------------------------------------------------------------------
(* The inductive invariant *)

\* The invariant holds in the initial state: no job, no print.
LEMMA InitInv == Init => IInv
<1> SUFFICES ASSUME Init PROVE IInv
  OBVIOUS
<1>1. NoRow \in JobRow
  BY DEF NoRow, JobRow, States, PrinterIds, Blocks
<1>2. Idle \in SchedStates
  BY DEF Idle, SchedStates, SchedPcs, NoUpdates, Keep, PrinterIds
<1>3. Resting \in WorkerStates
  BY <1>1 DEF Resting, WorkerStates
<1>4. TypeOK
  BY <1>1, <1>2, <1>3, StatusesAssumption DEF Init, TypeOK, PrinterRow, PrinterIds
<1>5. \A j \in Jobs : ~Holds(j) /\ ~Spent(j)
  BY DEF Init, Idle, Holds, Spent, InFlight
<1>6. SchedInv /\ RowInv /\ HeldInv /\ PrintInv
  BY <1>5 DEF Init, Idle, NoRow, SchedInv, RowInv, HeldInv, PrintInv, InFlight
<1>7. EditInv /\ RetryInv
  BY DEF Init, Resting, EditInv, RetryInv, Retries
<1>8. AtMostOnceStart /\ NoRetryAfterPrint /\ UploadsAttended
  BY DEF Init, NoRow, AtMostOnceStart, NoRetryAfterPrint, UploadsAttended
<1> QED BY <1>4, <1>6, <1>7, <1>8 DEF IInv

\* A handler that only reads disturbs nothing but its own unit of work.
LEMMA EditReadInv ==
    ASSUME IInv, NEW w \in Workers, NEW S \in SUBSET Jobs, NEW new,
           Reads(w, "edit", S, new), TypeOK',
           \A j \in S : /\ new[j].state \in {job[j].state, "cancelled"}
                        /\ new[j].claimed = job[j].claimed
                        /\ new[j].retryable = job[j].retryable
    PROVE  IInv'
<1> USE DEF Reads
<1>1. SchedInv' /\ RowInv' /\ HeldInv' /\ PrintInv' /\ AtMostOnceStart'
        /\ NoRetryAfterPrint' /\ UploadsAttended'
  BY DEF IInv, SchedInv, RowInv, HeldInv, PrintInv, AtMostOnceStart,
         NoRetryAfterPrint, UploadsAttended, Holds, Spent, Up
<1>2. /\ worker'[w].kind = "edit"
      /\ \A j \in Jobs :
           /\ worker'[w].read[j] = IF j \in S THEN job[j] ELSE NoRow
           /\ worker'[w].new[j] = IF j \in S THEN new[j] ELSE NoRow
      /\ \A v \in Workers \ {w} : worker'[v] = worker[v]
  BY DEF IInv, TypeOK
<1>3. EditInv'
  BY <1>2 DEF IInv, EditInv
<1>4. RetryInv'
  BY <1>2 DEF IInv, RetryInv, Retries, Holds, Spent
<1> QED BY <1>1, <1>3, <1>4 DEF IInv

\* A retry reads a failed, retryable row, so nothing of it is outstanding, and
\* being on the event loop it is the only retry under way.
LEMMA RetryReadInv ==
    ASSUME IInv, NEW w \in Workers, NEW j \in Jobs, RetryRead(w, j), TypeOK'
    PROVE  IInv'
<1>1. PICK new :
        /\ Reads(w, "retry", {j}, new)
        /\ new[j].state = "queued" /\ ~new[j].retryable /\ ~new[j].claimed
  <2>1. job[j] \in JobRow
    BY DEF IInv, TypeOK
  <2> DEFINE requested == IF job[j].strategy = "manual" THEN job[j].printer
                          ELSE NoPrinter
             Route1(lb) == Route(job[j].strategy, requested, lb)
             new(lb) == [i \in {j} |-> [job[j] EXCEPT !.state = "queued",
                                                      !.printer = Route1(lb).printer,
                                                      !.blocked = Route1(lb).blocked,
                                                      !.retryable = FALSE,
                                                      !.finished = FALSE,
                                                      !.claimed = FALSE]]
  <2>2. PICK lb \in LeastBusy : Reads(w, "retry", {j}, new(lb))
    BY DEF RetryRead
  <2>3. /\ new(lb)[j].state = "queued"
        /\ ~new(lb)[j].retryable /\ ~new(lb)[j].claimed
    BY <2>1 DEF JobRow
  <2> HIDE DEF new
  <2> QED BY <2>2, <2>3
<1> USE DEF Reads
<1>2. SchedInv' /\ RowInv' /\ HeldInv' /\ PrintInv' /\ AtMostOnceStart'
        /\ NoRetryAfterPrint' /\ UploadsAttended'
  BY <1>1 DEF IInv, SchedInv, RowInv, HeldInv, PrintInv, AtMostOnceStart,
         NoRetryAfterPrint, UploadsAttended, Holds, Spent, Up
<1>3. /\ worker'[w].kind = "retry"
      /\ worker'[w].read[j] = job[j] /\ worker'[w].new[j] = new[j]
      /\ \A i \in Jobs \ {j} : worker'[w].read[i] = worker'[w].new[i]
      /\ \A v \in Workers \ {w} : worker'[v] = worker[v]
  BY <1>1 DEF IInv, TypeOK
<1>4. EditInv'
  BY <1>3 DEF IInv, EditInv
<1>5. /\ job[j].state = "failed" /\ job[j].retryable /\ job[j].claimed
      /\ ~Holds(j) /\ ~Spent(j)
      /\ \A v \in Workers : worker[v].kind # "retry"
  BY DEF RetryRead, EventLoopFree, IInv, HeldInv, RowInv, NoRetryAfterPrint
<1>6. RetryInv'
  BY <1>1, <1>3, <1>5 DEF IInv, RetryInv, Retries, Holds, Spent
<1> QED BY <1>2, <1>4, <1>6 DEF IInv

\* A commit: an edit at most cancels, a retry queues a row that is free.
LEMMA CommitInv ==
    ASSUME IInv, NEW w \in Workers, Commit(w), TypeOK'
    PROVE  IInv'
<1> DEFINE R(j) == worker[w].read[j]
           N(j) == worker[w].new[j]
<1>1. \A j \in Jobs :
        /\ job'[j].state = IF N(j).state # R(j).state THEN N(j).state ELSE job[j].state
        /\ job'[j].claimed = IF N(j).claimed # R(j).claimed THEN N(j).claimed
                             ELSE job[j].claimed
        /\ job'[j].retryable = IF N(j).retryable # R(j).retryable THEN N(j).retryable
                               ELSE job[j].retryable
  BY DEF Commit, Merge, Column
<1>2. worker'[w].kind = "none" /\ \A v \in Workers \ {w} : worker'[v] = worker[v]
  BY DEF Commit, Resting, IInv, TypeOK
<1>3. \A j \in Jobs :
        \/ /\ job'[j].state \in {job[j].state, "cancelled"}
           /\ job'[j].claimed = job[j].claimed
           /\ job'[j].retryable = job[j].retryable
        \/ /\ job'[j].state = "queued" /\ ~job'[j].claimed /\ ~job'[j].retryable
           /\ Retries(w, j)
  <2> TAKE j \in Jobs
  <2>1. CASE worker[w].kind = "edit"
    BY <1>1, <2>1 DEF IInv, EditInv
  <2>2. CASE worker[w].kind = "retry" /\ N(j) = R(j)
    BY <1>1, <2>2
  <2>3. CASE Retries(w, j)
    BY <1>1, <2>3 DEF IInv, RetryInv
  <2>4. worker[w].kind \in {"edit", "retry"}
    BY DEF Commit, IInv, TypeOK, WorkerStates
  <2> QED BY <2>1, <2>2, <2>3, <2>4 DEF Retries
<1>4. /\ \A j \in Jobs : (Holds(j)' <=> Holds(j)) /\ (Spent(j)' <=> Spent(j))
      /\ sched' = sched
  BY DEF Commit, Holds, Spent
<1>5. \A j \in Jobs : Retries(w, j) =>
        ~Holds(j) /\ ~Spent(j) /\ job[j].claimed
  BY DEF IInv, RetryInv
<1>6. SchedInv' /\ AtMostOnceStart' /\ PrintInv'
  BY DEF Commit, IInv, SchedInv, AtMostOnceStart, PrintInv, Holds, Spent
<1>7. RowInv' /\ HeldInv' /\ NoRetryAfterPrint'
  BY <1>3, <1>4, <1>5 DEF IInv, RowInv, HeldInv, NoRetryAfterPrint
<1>8. UploadsAttended'
  BY <1>3, <1>4 DEF IInv, UploadsAttended, Commit, Up
<1>9. EditInv'
  BY <1>2 DEF IInv, EditInv
<1>10. RetryInv'
  <2>1. \A u, v \in Workers :
          (worker[u].kind = "retry" /\ worker[v].kind = "retry") => u = v
    BY DEF IInv, RetryInv
  <2>2. ASSUME NEW v \in Workers, NEW j \in Jobs, Retries(v, j)'
        PROVE  /\ v # w /\ Retries(v, j) /\ worker'[v] = worker[v]
               /\ ~Retries(w, j)
    BY <1>2, <2>1, <2>2 DEF Retries
  <2>3. ASSUME NEW v \in Workers, NEW j \in Jobs, Retries(v, j)'
        PROVE  /\ job'[j].state \in {"failed", "cancelled"} /\ job'[j].claimed
    BY <1>3, <2>2, <2>3 DEF IInv, RetryInv
  <2> QED BY <1>2, <1>4, <2>1, <2>2, <2>3 DEF IInv, RetryInv
<1> QED BY <1>6, <1>7, <1>8, <1>9, <1>10 DEF IInv

\* A step that leaves the rows, the scheduler and the handlers alone.
LEMMA ChangeInv ==
    ASSUME IInv, UNCHANGED <<job, sched, worker, starts, written, stranded>>, TypeOK'
    PROVE  IInv'
BY DEF IInv, SchedInv, RowInv, HeldInv, PrintInv, EditInv, RetryInv, Retries,
       AtMostOnceStart, NoRetryAfterPrint, UploadsAttended, Holds, Spent, Up

\* A new row has never been claimed or printed.
LEMMA EnqueueInv ==
    ASSUME IInv, NEW j \in Jobs, NEW strategy, NEW requested,
           Enqueue(j, strategy, requested), TypeOK'
    PROVE  IInv'
<1>1. /\ job'[j].state = "queued" /\ ~job'[j].claimed /\ ~job'[j].retryable
      /\ \A i \in Jobs \ {j} : job'[i] = job[i]
      /\ job[j].state = "absent"
  BY DEF Enqueue, Exists, NoRow, IInv, TypeOK
<1> USE DEF Enqueue
<1>2. ~Holds(j) /\ ~Spent(j) /\ \A w \in Workers : ~Retries(w, j)
  BY <1>1 DEF IInv, HeldInv, RowInv, EventLoopFree, Retries
<1>3. SchedInv' /\ PrintInv' /\ AtMostOnceStart' /\ EditInv'
  BY DEF IInv, SchedInv, PrintInv, AtMostOnceStart, EditInv, Holds, Spent
<1>4. RowInv' /\ HeldInv' /\ NoRetryAfterPrint' /\ UploadsAttended'
  BY <1>1, <1>2 DEF IInv, RowInv, HeldInv, NoRetryAfterPrint, UploadsAttended,
                    Holds, Spent, Up
<1>5. RetryInv'
  BY <1>1, <1>2 DEF IInv, RetryInv, Retries, Holds, Spent
<1> QED BY <1>3, <1>4, <1>5 DEF IInv

\* The scheduler does not touch the handlers; a retry under way is of a row
\* that no dispatch holds, before and after the step.
LEMMA SchedHandlersInv ==
    ASSUME IInv, UNCHANGED worker,
           \A w \in Workers, j \in Jobs : Retries(w, j) =>
             /\ ~Holds(j)' /\ ~Spent(j)'
             /\ job'[j].state = job[j].state /\ job'[j].claimed = job[j].claimed
    PROVE  EditInv' /\ RetryInv'
BY DEF IInv, EditInv, RetryInv, Retries

\* A tick begins or is abandoned before its claim.
LEMMA SchedUnheldInv ==
    ASSUME IInv, TypeOK', UNCHANGED <<worker, starts, written, stranded>>, Up, Up',
           \A j \in Jobs : ~Holds(j) /\ ~Holds(j)',
           \A j \in Jobs : /\ job'[j].state = job[j].state
                           /\ job'[j].claimed = job[j].claimed
                           /\ job'[j].retryable = job[j].retryable,
           SchedInv'
    PROVE  IInv'
<1>1. \A j \in Jobs : Spent(j)' <=> Spent(j)
  BY DEF Spent
<1>2. RowInv' /\ HeldInv' /\ AtMostOnceStart' /\ NoRetryAfterPrint' /\ UploadsAttended'
  BY <1>1 DEF IInv, RowInv, HeldInv, AtMostOnceStart, NoRetryAfterPrint, UploadsAttended
<1>3. PrintInv'
  BY <1>1 DEF IInv, PrintInv
<1>4. EditInv' /\ RetryInv'
  BY <1>1, SchedHandlersInv DEF IInv, RetryInv
<1> QED BY <1>2, <1>3, <1>4 DEF IInv

\* Selecting a batch writes nothing.
LEMMA SchedReadInv ==
    ASSUME IInv, TypeOK', SchedRead
    PROVE  IInv'
<1>1. sched.pc = "idle" /\ sched'.pc = "resolved"
  BY DEF SchedRead, Idle
<1>2. /\ \A j \in Jobs : ~Holds(j) /\ ~Holds(j)'
      /\ Up /\ Up' /\ SchedInv'
  BY <1>1 DEF Holds, InFlight, Up, SchedInv
<1>3. UNCHANGED <<job, worker, starts, written, stranded>>
  BY DEF SchedRead, Others, Histories
<1> QED BY <1>2, <1>3, SchedUnheldInv

\* The claim's new assignments touch a row's printer and reason, never its state.
LEMMA SchedApplyInv ==
    ASSUME IInv, TypeOK', SchedApply
    PROVE  IInv'
<1>1. /\ sched.pc = "resolved" /\ sched'.pc \in {"idle", "claiming"}
      /\ sched'.pc = "claiming" => sched'.job \in Jobs
  BY DEF SchedApply, Idle, IInv, TypeOK, SchedStates
<1>2. /\ \A j \in Jobs : ~Holds(j) /\ ~Holds(j)'
      /\ Up /\ Up' /\ SchedInv'
  BY <1>1 DEF Holds, InFlight, Up, SchedInv
<1>3. UNCHANGED <<worker, starts, written, stranded>>
  BY DEF SchedApply, Others, Histories
<1>4. \A j \in Jobs : /\ job'[j].state = job[j].state
                      /\ job'[j].claimed = job[j].claimed
                      /\ job'[j].retryable = job[j].retryable
  <2> TAKE j \in Jobs
  <2> DEFINE u == sched.updates[j]
  <2>1. job[j] \in JobRow
    BY DEF IInv, TypeOK
  <2>2. job'[j] \in {job[j], [job[j] EXCEPT !.printer = u.printer, !.blocked = u.blocked]}
    BY DEF SchedApply
  <2> HIDE DEF u
  <2> QED BY <2>1, <2>2 DEF JobRow
<1> QED BY <1>2, <1>3, <1>4, SchedUnheldInv

\* The compare-and-swap claims only a queued row, of which nothing is printed.
LEMMA SchedClaimInv ==
    ASSUME IInv, TypeOK', SchedClaim
    PROVE  IInv'
<1> DEFINE c == sched.job
<1>0. /\ sched.pc = "claiming" /\ c \in Jobs /\ \A j \in Jobs : ~Holds(j)
      /\ UNCHANGED <<worker, starts, written, stranded>> /\ Up
  BY DEF SchedClaim, IInv, SchedInv, Holds, InFlight, Others, Histories, Up
<1>1. CASE c \notin Waiting
  <2>1. sched' = Idle /\ UNCHANGED job
    BY <1>1 DEF SchedClaim
  <2>2. (\A j \in Jobs : ~Holds(j)') /\ Up' /\ SchedInv'
    BY <2>1 DEF Idle, Holds, InFlight, Up, SchedInv
  <2> QED BY <1>0, <2>1, <2>2, SchedUnheldInv
<1>2. CASE c \in Waiting
  <2>1. /\ job[c].state = "queued" /\ ~job[c].retryable /\ ~Spent(c)
        /\ \A w \in Workers : ~Retries(w, c)
    BY <1>2 DEF Waiting, Queued, IInv, RowInv, NoRetryAfterPrint, RetryInv
  <2>2. /\ job'[c].state = "uploading" /\ job'[c].claimed
        /\ job'[c].retryable = job[c].retryable
        /\ \A j \in Jobs \ {c} : job'[j] = job[j]
        /\ sched' = [sched EXCEPT !.pc = "claimed"]
    <3>1. job[c] \in JobRow /\ DOMAIN job = Jobs
      BY <1>0 DEF IInv, TypeOK
    <3>2. /\ job' = [job EXCEPT ![c] = [@ EXCEPT !.state = "uploading", !.claimed = TRUE]]
          /\ sched' = [sched EXCEPT !.pc = "claimed"]
      BY <1>0, <1>2 DEF SchedClaim
    <3>3. /\ job'[c] = [job[c] EXCEPT !.state = "uploading", !.claimed = TRUE]
          /\ \A j \in Jobs \ {c} : job'[j] = job[j]
      BY <1>0, <3>1, <3>2
    <3> HIDE DEF c
    <3>4. /\ job'[c].state = "uploading" /\ job'[c].claimed
          /\ job'[c].retryable = job[c].retryable
      BY <3>1, <3>3 DEF JobRow
    <3> QED BY <3>2, <3>3, <3>4
  <2>3. sched'.pc = "claimed" /\ sched'.job = c
    BY <2>2 DEF IInv, TypeOK, SchedStates
  <2>4. /\ \A j \in Jobs : Spent(j)' <=> Spent(j)
        /\ \A j \in Jobs : Holds(j)' <=> j = c
        /\ Up' /\ SchedInv'
    BY <1>0, <2>3 DEF Spent, Holds, InFlight, Up, SchedInv
  <2>5. RowInv' /\ HeldInv'
    BY <2>1, <2>2, <2>3, <2>4 DEF IInv, RowInv, HeldInv
  <2>6. PrintInv'
    BY <1>0, <2>1, <2>3, <2>4 DEF IInv, PrintInv
  <2>7. AtMostOnceStart' /\ NoRetryAfterPrint' /\ UploadsAttended'
    BY <1>0, <2>1, <2>2, <2>4 DEF IInv, AtMostOnceStart, NoRetryAfterPrint, UploadsAttended
  <2>8. EditInv' /\ RetryInv'
    <3>1. \A w \in Workers, j \in Jobs : Retries(w, j) => j # c /\ ~Spent(j)
      BY <2>1 DEF IInv, RetryInv
    <3> QED BY <1>0, <2>2, <2>4, <3>1, SchedHandlersInv
  <2> QED BY <2>4, <2>5, <2>6, <2>7, <2>8 DEF IInv
<1> QED BY <1>1, <1>2

\* The dispatch moves on without writing the row or starting the print.
LEMMA SchedAdvanceInv ==
    ASSUME IInv, TypeOK', SchedLoad \/ SchedCheck \/ SchedUpload
    PROVE  IInv'
<1> USE DEF SchedLoad, SchedCheck, SchedUpload, Fail
<1>1. /\ UNCHANGED <<job, worker, starts, written, stranded>>
      /\ sched.pc \in {"claimed", "loaded", "checked"}
  BY DEF Others, Histories
<1>2. /\ sched'.job = sched.job
      /\ sched'.pc \in {"loaded", "checked", "uploaded", "failing"}
      /\ sched'.pc = "failing" => sched'.code # "none"
  BY DEF IInv, TypeOK, SchedStates
<1> HIDE DEF SchedLoad, SchedCheck, SchedUpload, Fail
<1>3. /\ \A j \in Jobs : (Holds(j)' <=> Holds(j)) /\ (Spent(j)' <=> Spent(j))
      /\ \A j \in Jobs : Holds(j) => ~Spent(j)
      /\ Up /\ Up'
  BY <1>1, <1>2 DEF Holds, InFlight, Spent, Up, IInv, PrintInv
<1>4. SchedInv' /\ RowInv' /\ HeldInv' /\ PrintInv'
  BY <1>1, <1>2, <1>3 DEF IInv, SchedInv, RowInv, HeldInv, PrintInv, InFlight
<1>5. AtMostOnceStart' /\ NoRetryAfterPrint' /\ UploadsAttended'
  BY <1>1, <1>3 DEF IInv, AtMostOnceStart, NoRetryAfterPrint, UploadsAttended
<1>6. EditInv' /\ RetryInv'
  BY <1>1, <1>3, SchedHandlersInv DEF IInv, RetryInv
<1> QED BY <1>4, <1>5, <1>6 DEF IInv

\* The only step that prints: of a row with nothing printed and unrecorded.
LEMMA SchedStartInv ==
    ASSUME IInv, TypeOK', SchedStart
    PROVE  IInv'
<1> DEFINE c == sched.job
<1>1. /\ UNCHANGED <<job, worker, written, stranded>>
      /\ sched.pc = "uploaded" /\ c \in Jobs
  BY DEF SchedStart, Others, IInv, SchedInv, InFlight
<1>2. /\ sched'.job = c
      /\ sched'.pc \in {"accepted", "failing"}
      /\ sched'.pc = "failing" => sched'.code = "outcome_unknown"
      /\ \A j \in Jobs \ {c} : starts'[j] = starts[j]
      /\ starts'[c] \in {starts[c], starts[c] + 1}
      /\ sched'.pc = "accepted" => starts'[c] = starts[c] + 1
  BY <1>1 DEF SchedStart, Fail, IInv, TypeOK, SchedStates
<1>3. /\ starts[c] = written[c]
      /\ \A j \in Jobs : starts[j] \in Nat /\ written[j] \in Nat
  BY <1>1 DEF IInv, TypeOK, PrintInv, Holds, InFlight, Spent
<1>4. /\ \A j \in Jobs : (Holds(j)' <=> Holds(j)) /\ (Holds(j) <=> j = c)
      /\ \A j \in Jobs \ {c} : Spent(j)' <=> Spent(j)
      /\ Up /\ Up'
  BY <1>1, <1>2 DEF Holds, InFlight, Spent, Up
<1>5. SchedInv' /\ HeldInv'
  BY <1>1, <1>2, <1>4 DEF IInv, SchedInv, HeldInv, InFlight
<1>6. RowInv'
  BY <1>1, <1>2, <1>4 DEF IInv, RowInv, HeldInv
<1>7. PrintInv' /\ AtMostOnceStart'
  BY <1>1, <1>2, <1>3, <1>4 DEF IInv, PrintInv, AtMostOnceStart, Spent
<1>8. NoRetryAfterPrint' /\ UploadsAttended'
  BY <1>1, <1>2, <1>4 DEF IInv, NoRetryAfterPrint, UploadsAttended, HeldInv
<1>9. EditInv' /\ RetryInv'
  <2>1. \A w \in Workers, j \in Jobs : Retries(w, j) => j # c /\ ~Spent(j)
    BY <1>4 DEF IInv, RetryInv
  <2> QED BY <1>1, <1>4, <2>1, SchedHandlersInv
<1> QED BY <1>5, <1>6, <1>7, <1>8, <1>9 DEF IInv

\* The row of the dispatch becomes STARTED.
LEMMA SchedMarkStartedInv ==
    ASSUME IInv, TypeOK', SchedMarkStarted
    PROVE  IInv'
<1> DEFINE c == sched.job
<1>1. /\ UNCHANGED <<worker, starts, written, stranded>>
      /\ sched.pc = "accepted" /\ c \in Jobs
  BY DEF SchedMarkStarted, Others, Histories, IInv, SchedInv, InFlight
<1>2. sched'.job = c /\ sched'.pc = "recorded"
  BY DEF SchedMarkStarted, IInv, TypeOK, SchedStates
<1>3. /\ job'[c].state = "started" /\ ~job'[c].retryable
      /\ job'[c].claimed = job[c].claimed
      /\ \A j \in Jobs \ {c} : job'[j] = job[j]
  <2>1. job[c] \in JobRow /\ DOMAIN job = Jobs
    BY <1>1 DEF IInv, TypeOK
  <2>2. /\ job'[c] = [job[c] EXCEPT !.state = "started", !.retryable = FALSE,
                                    !.blocked = "none"]
        /\ \A j \in Jobs \ {c} : job'[j] = job[j]
    BY <1>1, <2>1 DEF SchedMarkStarted
  <2> QED BY <2>1, <2>2 DEF JobRow
<1>4. /\ \A j \in Jobs : (Holds(j)' <=> Holds(j)) /\ (Holds(j) <=> j = c)
      /\ \A j \in Jobs : Spent(j)' <=> Spent(j)
      /\ Up /\ Up'
  BY <1>1, <1>2 DEF Holds, InFlight, Spent, Up
<1>5. SchedInv' /\ HeldInv' /\ RowInv'
  BY <1>1, <1>2, <1>3, <1>4 DEF IInv, SchedInv, HeldInv, RowInv, InFlight
<1>6. PrintInv' /\ AtMostOnceStart'
  BY <1>1, <1>2, <1>4 DEF IInv, PrintInv, AtMostOnceStart
<1>7. NoRetryAfterPrint' /\ UploadsAttended'
  BY <1>1, <1>3, <1>4 DEF IInv, NoRetryAfterPrint, UploadsAttended
<1>8. EditInv' /\ RetryInv'
  <2>1. \A w \in Workers, j \in Jobs : Retries(w, j) => j # c /\ ~Spent(j)
    BY <1>4 DEF IInv, RetryInv
  <2> QED BY <1>1, <1>3, <1>4, <2>1, SchedHandlersInv
<1> QED BY <1>5, <1>6, <1>7, <1>8 DEF IInv

\* A dispatch that leaves a row, in whatever state, lets go of it.
LEMMA SchedReleaseInv ==
    ASSUME IInv, TypeOK', UNCHANGED <<worker, starts, written>>, Up,
           sched' = Idle, sched.job \in Jobs, Holds(sched.job),
           \A j \in Jobs \ {sched.job} : job'[j] = job[j],
           LET c == sched.job IN
             /\ job'[c].state \notin {"queued", "absent"}
             /\ job'[c].claimed
             /\ job'[c].retryable => ~Spent(c)
             /\ job'[c].state = "uploading" => c \in stranded',
           stranded \subseteq stranded'
    PROVE  IInv'
<1> DEFINE c == sched.job
<1>1. /\ \A j \in Jobs : ~Holds(j)'
      /\ \A j \in Jobs : (Holds(j) <=> j = c) /\ (Spent(j)' <=> Spent(j))
      /\ Up' /\ SchedInv'
  BY DEF Holds, InFlight, Spent, Up, Idle, SchedInv
<1>2. RowInv' /\ HeldInv' /\ PrintInv' /\ AtMostOnceStart'
  BY <1>1 DEF IInv, RowInv, HeldInv, PrintInv, AtMostOnceStart
<1>3. NoRetryAfterPrint' /\ UploadsAttended'
  BY <1>1 DEF IInv, NoRetryAfterPrint, UploadsAttended
<1>4. EditInv' /\ RetryInv'
  <2>1. \A w \in Workers, j \in Jobs : Retries(w, j) => j # c /\ ~Spent(j)
    BY <1>1 DEF IInv, RetryInv
  <2> QED BY <1>1, <2>1, SchedHandlersInv
<1> QED BY <1>1, <1>2, <1>3, <1>4 DEF IInv

\* The dispatch ends after recording its start.
LEMMA SchedUpsertInv ==
    ASSUME IInv, TypeOK', SchedUpsert
    PROVE  IInv'
<1>1. /\ sched.pc = "recorded" /\ sched' = Idle /\ Up
      /\ UNCHANGED <<job, worker, starts, written, stranded>>
  BY DEF SchedUpsert, Others, Histories, Up
<1>2. sched.job \in Jobs /\ Holds(sched.job)
  BY <1>1 DEF IInv, SchedInv, InFlight, Holds
<1>3. /\ job[sched.job].state \notin {"queued", "absent", "uploading"}
      /\ job[sched.job].claimed /\ ~job[sched.job].retryable
  BY <1>1, <1>2 DEF IInv, HeldInv
<1> QED BY <1>1, <1>2, <1>3, SchedReleaseInv

\* The failure is recorded: retryable only when nothing was printed.
LEMMA SchedMarkFailedInv ==
    ASSUME IInv, TypeOK', SchedMarkFailed
    PROVE  IInv'
<1> DEFINE c == sched.job
<1>1. /\ sched.pc = "failing" /\ sched' = Idle /\ Up
      /\ UNCHANGED <<worker, starts, written, stranded>>
  BY DEF SchedMarkFailed, Others, Histories, Up
<1>2. c \in Jobs /\ Holds(c)
  BY <1>1 DEF IInv, SchedInv, InFlight, Holds
<1>3. job[c].claimed /\ sched.code \in {"known", "outcome_unknown"}
  BY <1>1, <1>2 DEF IInv, HeldInv, SchedInv, TypeOK, SchedStates
<1>4. /\ job'[c].state = "failed" /\ job'[c].claimed = job[c].claimed
      /\ job'[c].retryable = (sched.code # "outcome_unknown")
      /\ \A j \in Jobs \ {c} : job'[j] = job[j]
  <2>1. job[c] \in JobRow /\ DOMAIN job = Jobs
    BY <1>2 DEF IInv, TypeOK
  <2>2. /\ job'[c] = [job[c] EXCEPT !.state = "failed",
                                    !.retryable = (sched.code # "outcome_unknown"),
                                    !.finished = TRUE]
        /\ \A j \in Jobs \ {c} : job'[j] = job[j]
    BY <1>2, <2>1 DEF SchedMarkFailed
  <2> QED BY <2>1, <2>2 DEF JobRow
<1>5. job'[c].retryable => ~Spent(c)
  BY <1>1, <1>2, <1>3, <1>4 DEF IInv, PrintInv
<1> QED BY <1>1, <1>2, <1>3, <1>4, <1>5, SchedReleaseInv

\* A database write of the scheduler fails.
LEMMA SchedFaultInv ==
    ASSUME IInv, TypeOK', SchedFault
    PROVE  IInv'
<1> DEFINE c == sched.job
<1>1. UNCHANGED <<job, worker, starts>> /\ Up
  BY DEF SchedFault, Others, Up
<1>2. CASE sched.pc \in {"resolved", "claiming"}
  <2>1. sched' = Idle /\ UNCHANGED <<written, stranded>>
    BY <1>2 DEF SchedFault
  <2>2. (\A j \in Jobs : ~Holds(j) /\ ~Holds(j)') /\ Up' /\ SchedInv'
    BY <1>2, <2>1 DEF Holds, InFlight, Idle, Up, SchedInv
  <2> QED BY <1>1, <2>1, <2>2, SchedUnheldInv
<1>3. CASE sched.pc \in {"claimed", "accepted", "recorded"}
  <2>1. c \in Jobs
    BY <1>3 DEF IInv, SchedInv, InFlight
  <2>2. /\ sched'.job = c /\ sched'.pc = "failing" /\ sched'.code = "known"
        /\ UNCHANGED stranded
    BY <1>3 DEF SchedFault, Fail, IInv, TypeOK, SchedStates
  <2>3. /\ \A j \in Jobs \ {c} : written'[j] = written[j]
        /\ sched.pc = "claimed" => written' = written
        /\ sched.pc # "claimed" => written'[c] = written[c] + 1
        /\ \A j \in Jobs : starts[j] \in Nat /\ written[j] \in Nat
    BY <1>3, <2>1 DEF SchedFault, IInv, TypeOK
  <2>4. /\ \A j \in Jobs : (Holds(j)' <=> Holds(j)) /\ (Holds(j) <=> j = c)
        /\ \A j \in Jobs \ {c} : Spent(j)' <=> Spent(j)
        /\ Up'
    BY <1>1, <1>3, <2>2, <2>3 DEF Holds, InFlight, Spent, Up
  <2>5. /\ ~Spent(c)' /\ written'[c] <= starts'[c]
        /\ starts'[c] <= written'[c] + 1
    <3>1. /\ written[c] <= starts[c] /\ starts[c] <= written[c] + 1
          /\ sched.pc = "claimed" => ~Spent(c)
          /\ sched.pc # "claimed" => Spent(c)
      BY <1>3, <2>1, <2>4 DEF IInv, PrintInv, AtMostOnceStart
    <3>2. starts[c] \in Nat /\ written[c] \in Nat /\ starts' = starts
      BY <1>1, <2>1, <2>3
    <3>3. c' = c
      BY <2>2
    <3> HIDE DEF c
    <3>4. CASE sched.pc = "claimed"
      BY <2>3, <3>1, <3>2, <3>3, <3>4 DEF Spent
    <3>5. CASE sched.pc # "claimed"
      BY <2>3, <3>1, <3>2, <3>3, <3>5 DEF Spent
    <3> QED BY <3>4, <3>5
  <2>6. SchedInv' /\ HeldInv' /\ RowInv'
    BY <1>1, <2>1, <2>2, <2>4, <2>5 DEF IInv, SchedInv, HeldInv, RowInv
  <2>7. PrintInv' /\ AtMostOnceStart'
    BY <1>1, <2>2, <2>3, <2>4, <2>5 DEF IInv, PrintInv, AtMostOnceStart
  <2>8. NoRetryAfterPrint' /\ UploadsAttended'
    BY <1>1, <2>2, <2>4, <2>5 DEF IInv, NoRetryAfterPrint, UploadsAttended
  <2>9. EditInv' /\ RetryInv'
    <3>1. \A w \in Workers, j \in Jobs : Retries(w, j) => j # c /\ ~Spent(j)
      BY <2>4 DEF IInv, RetryInv
    <3> QED BY <1>1, <2>4, <3>1, SchedHandlersInv
  <2> QED BY <2>6, <2>7, <2>8, <2>9 DEF IInv
<1>4. CASE sched.pc = "failing" /\ sched'.pc = "failing"
  <2>1. /\ c \in Jobs /\ Holds(c) /\ \A j \in Jobs : Holds(j) <=> j = c
        /\ sched'.job = c /\ sched'.code = "known" /\ UNCHANGED stranded
        /\ written' = [written EXCEPT ![c] = starts[c]]
    <3>1. c \in Jobs /\ Holds(c) /\ \A j \in Jobs : Holds(j) <=> j = c
      BY <1>4 DEF IInv, SchedInv, Holds, InFlight
    <3>2. sched' # Idle
      BY <1>4 DEF Idle
    <3>3. /\ Fail("known") /\ UNCHANGED stranded
          /\ written' = [written EXCEPT ![c] = starts[c]]
      BY <1>4, <3>2 DEF SchedFault
    <3>4. sched'.job = c /\ sched'.code = "known"
      BY <3>3 DEF Fail, IInv, TypeOK, SchedStates
    <3> QED BY <3>1, <3>3, <3>4
  <2>2. /\ \A j \in Jobs : (Holds(j)' <=> Holds(j))
        /\ \A j \in Jobs \ {c} : written'[j] = written[j] /\ (Spent(j)' <=> Spent(j))
        /\ Up'
    BY <1>1, <1>4, <2>1 DEF Holds, InFlight, Spent, Up, IInv, TypeOK
  <2>3. /\ ~Spent(c)' /\ written'[c] <= starts'[c]
        /\ starts'[c] <= written'[c] + 1
    <3>1. written'[c] = starts[c] /\ starts[c] \in Nat /\ starts' = starts /\ c' = c
      BY <1>1, <2>1 DEF IInv, TypeOK
    <3> HIDE DEF c
    <3> QED BY <3>1 DEF Spent
  <2>4. SchedInv' /\ HeldInv' /\ RowInv'
    BY <1>1, <1>4, <2>1, <2>2, <2>3 DEF IInv, SchedInv, HeldInv, RowInv
  <2>5. PrintInv' /\ AtMostOnceStart'
    BY <1>1, <1>4, <2>1, <2>2, <2>3 DEF IInv, PrintInv, AtMostOnceStart
  <2>6. NoRetryAfterPrint' /\ UploadsAttended'
    BY <1>1, <1>4, <2>1, <2>2, <2>3 DEF IInv, NoRetryAfterPrint, UploadsAttended
  <2>7. EditInv' /\ RetryInv'
    <3>1. \A w \in Workers, j \in Jobs : Retries(w, j) => j # c /\ ~Spent(j)
      BY <2>1 DEF IInv, RetryInv
    <3>2. \A w \in Workers, j \in Jobs :
            Retries(w, j) => job'[j] = job[j] /\ ~Holds(j)' /\ ~Spent(j)'
      BY <1>1, <2>1, <2>2, <3>1
    <3> QED BY <1>1, <3>2, SchedHandlersInv
  <2> QED BY <2>4, <2>5, <2>6, <2>7 DEF IInv
<1>5. CASE sched.pc = "failing" /\ sched'.pc # "failing"
  <2>1. /\ sched' = Idle /\ stranded' = stranded \cup {c} /\ UNCHANGED written
        /\ c \in Jobs /\ Holds(c)
    <3>1. c \in Jobs /\ Holds(c)
      BY <1>5 DEF IInv, SchedInv, Holds, InFlight
    <3>2. ~Fail("known")
      BY <1>5 DEF Fail, IInv, TypeOK, SchedStates
    <3>3. sched' = Idle /\ stranded' = stranded \cup {c} /\ UNCHANGED written
      BY <1>5, <3>2 DEF SchedFault
    <3> QED BY <3>1, <3>3
  <2>2. /\ job[c].state \notin {"queued", "absent"} /\ job[c].claimed
        /\ ~job[c].retryable
    BY <2>1 DEF IInv, HeldInv
  <2> QED BY <1>1, <2>1, <2>2, SchedReleaseInv
<1> QED BY <1>2, <1>3, <1>4, <1>5 DEF SchedFault

\* A crash drops the dispatch and the handlers, and nothing of the database.
LEMMA CrashInv ==
    ASSUME IInv, TypeOK', Crash
    PROVE  IInv'
<1>1. /\ sched'.pc = "down" /\ UNCHANGED <<job, starts, written, stranded>>
      /\ \A w \in Workers : worker'[w] = Resting
  BY DEF Crash, Down, Idle
<1>2. (\A j \in Jobs : ~Holds(j)' /\ (Spent(j)' <=> Spent(j))) /\ ~Up'
  BY <1>1 DEF Holds, InFlight, Spent, Up
<1>3. EditInv' /\ RetryInv'
  BY <1>1 DEF Resting, EditInv, RetryInv, Retries
<1>4. SchedInv' /\ RowInv' /\ HeldInv' /\ PrintInv'
  BY <1>1, <1>2 DEF IInv, SchedInv, RowInv, HeldInv, PrintInv, InFlight
<1>5. AtMostOnceStart' /\ NoRetryAfterPrint' /\ UploadsAttended'
  BY <1>1, <1>2 DEF IInv, AtMostOnceStart, NoRetryAfterPrint, UploadsAttended
<1> QED BY <1>3, <1>4, <1>5 DEF IInv

\* Startup fails every claim the crash left behind, for good.
LEMMA RestartInv ==
    ASSUME IInv, TypeOK', Restart
    PROVE  IInv'
<1>1. /\ sched.pc = "down" /\ sched' = Idle
      /\ UNCHANGED <<worker, starts, written>>
  BY DEF Restart, Others
<1>2. \A j \in Jobs :
        \/ job'[j] = job[j] /\ ~(job[j].state = "uploading" /\ job[j].claimed)
        \/ /\ job[j].state = "uploading"
           /\ job'[j].state = "failed" /\ ~job'[j].retryable
           /\ job'[j].claimed = job[j].claimed
  <2> TAKE j \in Jobs
  <2>1. job[j] \in JobRow
    BY DEF IInv, TypeOK
  <2> QED BY <2>1 DEF Restart, JobRow
<1>3. /\ \A j \in Jobs : ~Holds(j) /\ ~Holds(j)' /\ (Spent(j)' <=> Spent(j))
      /\ Up'
  BY <1>1 DEF Holds, InFlight, Spent, Up, Idle
<1>4. SchedInv' /\ RowInv' /\ HeldInv' /\ PrintInv'
  BY <1>1, <1>2, <1>3 DEF IInv, SchedInv, RowInv, HeldInv, PrintInv, InFlight, Idle
<1>5. AtMostOnceStart' /\ NoRetryAfterPrint' /\ UploadsAttended'
  BY <1>1, <1>2, <1>3 DEF IInv, AtMostOnceStart, NoRetryAfterPrint, UploadsAttended, RowInv
<1>6. EditInv' /\ RetryInv'
  <2>1. \A w \in Workers, j \in Jobs : Retries(w, j) =>
          job'[j] = job[j] /\ ~Spent(j)
    BY <1>2 DEF IInv, RetryInv
  <2> QED BY <1>1, <1>3, <2>1, SchedHandlersInv
<1> QED BY <1>4, <1>5, <1>6 DEF IInv

-----------------------------------------------------------------------------
(* The invariant and what follows from it *)

\* Cancelling and patching only read; what they are about to write neither
\* claims nor queues a row.
LEMMA EditHandlersInv ==
    ASSUME IInv, TypeOK', NEW w \in Workers, NEW j \in Jobs,
           \/ CancelRead(w, j)
           \/ \E r \in Requests \cup {Unrouted}, index \in 0..Cardinality(Queued) :
                PatchRead(w, j, r, index)
    PROVE  IInv'
<1>0. \A i \in Jobs : job[i] \in JobRow
  BY DEF IInv, TypeOK
<1>1. CASE CancelRead(w, j)
  <2> DEFINE new == [i \in {j} |-> [job[j] EXCEPT !.state = "cancelled",
                                                  !.finished = TRUE,
                                                  !.blocked = "none"]]
  <2>1. Reads(w, "edit", {j}, new)
    BY <1>1 DEF CancelRead
  <2>2. \A i \in {j} : /\ new[i].state \in {job[i].state, "cancelled"}
                       /\ new[i].claimed = job[i].claimed
                       /\ new[i].retryable = job[i].retryable
    BY <1>0 DEF JobRow
  <2> HIDE DEF new
  <2> QED BY <2>1, <2>2, EditReadInv
<1>2. CASE \E r \in Requests \cup {Unrouted}, index \in 0..Cardinality(Queued) :
             PatchRead(w, j, r, index)
  BY <1>2, PatchedRows, EditReadInv DEF IInv
<1> QED BY <1>1, <1>2

\* Every step of the queue, the scheduler and the process keeps the invariant.
LEMMA InvariantStep == IInv /\ [Next]_vars => IInv'
<1> SUFFICES ASSUME IInv, [Next]_vars PROVE IInv'
  OBVIOUS
<1>0. TypeOK'
  BY TypeStep DEF IInv
<1>1. ASSUME NEW j \in Jobs, NEW r \in Requests, Enqueue(j, r[1], r[2])
      PROVE  IInv'
  BY <1>0, <1>1, EnqueueInv
<1>2. ASSUME NEW w \in Workers, Handler(w) PROVE IInv'
  BY <1>0, <1>2, EditHandlersInv, RetryReadInv, CommitInv DEF Handler
<1>3. ASSUME NEW p \in Printers, PrinterChange(p) \/ DefaultChange(p) PROVE IInv'
  BY <1>0, <1>3, ChangeInv DEF PrinterChange, DefaultChange, Change
<1>4. ASSUME NEW j \in Jobs, AccessChange(j) PROVE IInv'
  BY <1>0, <1>4, ChangeInv DEF AccessChange, Change
<1>5. CASE SchedStep
  BY <1>0, <1>5, SchedReadInv, SchedApplyInv, SchedClaimInv, SchedAdvanceInv,
     SchedStartInv, SchedMarkStartedInv, SchedUpsertInv, SchedMarkFailedInv
  DEF SchedStep
<1>6. CASE SchedFault \/ Crash \/ Restart
  BY <1>0, <1>6, SchedFaultInv, CrashInv, RestartInv
<1>7. CASE UNCHANGED vars
  BY <1>0, <1>7, ChangeInv DEF vars
<1> QED BY <1>1, <1>2, <1>3, <1>4, <1>5, <1>6, <1>7 DEF Next

\* The inductive invariant holds in every reachable state.
THEOREM Invariance == Spec => []IInv
<1>1. Init => IInv
  BY InitInv
<1>2. IInv /\ [Next]_vars => IInv'
  BY InvariantStep
<1> QED BY <1>1, <1>2, PTL DEF Spec

\* Rows, scheduler and handlers keep their types for ever.
THEOREM TypeCorrect == Spec => []TypeOK
<1>1. IInv => TypeOK
  BY DEF IInv
<1> QED BY <1>1, Invariance, PTL

\* No job is printed twice unless the record of a print was lost, whatever
\* the number of jobs, printers, threads, crashes, faults and retries.
THEOREM PrintedAtMostOnce == Spec => []AtMostOnceStart
<1>1. IInv => AtMostOnceStart
  BY DEF IInv
<1> QED BY <1>1, Invariance, PTL

\* A job that is queued, or that may be retried, has no print outstanding.
THEOREM RetriesAreSafe == Spec => []NoRetryAfterPrint
<1>1. IInv => NoRetryAfterPrint
  BY DEF IInv
<1> QED BY <1>1, Invariance, PTL

\* A row in UPLOADING always has someone responsible for moving it on.
THEOREM UploadsHaveOwners == Spec => []UploadsAttended
<1>1. IInv => UploadsAttended
  BY DEF IInv
<1> QED BY <1>1, Invariance, PTL

-----------------------------------------------------------------------------
(* What a reorder does to the queue *)

\* How many of the rows in S a row comes after.
Ahead(S, k) == Cardinality({i \in S : QueuedBefore(i, k)})

\* Of two rows the later one comes after more.
LEMMA LaterHasMoreAhead ==
    ASSUME TypeOK, NEW S \in SUBSET Jobs, NEW k \in S, NEW l \in S, k # l
    PROVE  /\ Ahead(S, k) \in Nat /\ Ahead(S, l) \in Nat
           /\ QueuedBefore(k, l) \/ QueuedBefore(l, k)
           /\ QueuedBefore(k, l) => Ahead(S, k) < Ahead(S, l)
<1> DEFINE A(x) == {i \in S : QueuedBefore(i, x)}
<1>1. \A i \in Jobs : i \in Nat /\ job[i].position \in Nat
  BY JobsAssumption DEF TypeOK, JobRow
<1>2. IsFiniteSet(S) /\ A(k) \in SUBSET S /\ A(l) \in SUBSET S
  BY JobsAssumption, FS_Subset
<1>3. IsFiniteSet(A(l)) /\ IsFiniteSet(A(k))
  BY <1>2, FS_Subset
<1>4. Ahead(S, k) \in Nat /\ Ahead(S, l) \in Nat
  BY <1>3, FS_CardinalityType DEF Ahead
<1>5. QueuedBefore(k, l) \/ QueuedBefore(l, k)
  BY <1>1 DEF QueuedBefore
<1>6. ASSUME QueuedBefore(k, l)
      PROVE  Ahead(S, k) < Ahead(S, l)
  <2>1. A(k) \in SUBSET A(l)
    BY <1>1, <1>6 DEF QueuedBefore
  <2>2. k \in A(l) /\ k \notin A(k)
    BY <1>1, <1>6 DEF QueuedBefore
  <2>3. A(k) # A(l)
    BY <2>2
  <2> HIDE DEF A
  <2>4. Cardinality(A(k)) <= Cardinality(A(l)) /\ Cardinality(A(k)) # Cardinality(A(l))
    BY <1>3, <2>1, <2>3, FS_Subset
  <2>5. Ahead(S, k) = Cardinality(A(k)) /\ Ahead(S, l) = Cardinality(A(l))
    BY DEF Ahead, A
  <2> QED BY <1>4, <2>4, <2>5
<1> QED BY <1>4, <1>5, <1>6

\* A row is not behind itself.
LEMMA AheadBound ==
    ASSUME TypeOK, NEW S \in SUBSET Jobs, NEW k \in S
    PROVE  /\ IsFiniteSet(S) /\ Cardinality(S) \in Nat
           /\ Ahead(S, k) \in Nat /\ Ahead(S, k) < Cardinality(S)
<1> DEFINE A == {i \in S : QueuedBefore(i, k)}
<1>1. k \in Nat /\ job[k].position \in Nat
  BY JobsAssumption DEF TypeOK, JobRow
<1>2. IsFiniteSet(S) /\ A \in SUBSET S /\ k \notin A
  <2>1. IsFiniteSet(S)
    BY JobsAssumption, FS_Subset
  <2>2. ~QueuedBefore(k, k)
    BY <1>1 DEF QueuedBefore
  <2> QED BY <2>1, <2>2
<1>3. Ahead(S, k) = Cardinality(A)
  BY DEF Ahead
<1> HIDE DEF A
<1>4. A # S
  BY <1>2
<1>5. /\ Cardinality(S) \in Nat /\ Cardinality(A) \in Nat
      /\ Cardinality(A) <= Cardinality(S) /\ Cardinality(A) # Cardinality(S)
  BY <1>2, <1>4, FS_Subset, FS_CardinalityType
<1> QED BY <1>2, <1>3, <1>5

\* update_queue_job renumbers the queue from 1 without gaps or duplicates, puts the row
\* where it was asked for and keeps the order of the others, whatever positions the rows
\* had: also equal ones, which concurrent requests leave.
THEOREM ReorderIsPermutation ==
    ASSUME TypeOK, NEW j \in Queued, NEW index \in Nat \ {0}
    PROVE  /\ \A k \in Queued : Place(j, index, k) \in 1..Cardinality(Queued)
           /\ \A k, l \in Queued : k # l => Place(j, index, k) # Place(j, index, l)
           /\ \A k, l \in Queued \ {j} :
                k # l /\ QueuedBefore(k, l) => Place(j, index, k) < Place(j, index, l)
           /\ index <= Cardinality(Queued) => Place(j, index, j) = index
<1> DEFINE others == Queued \ {j}
           n == Cardinality(others)
           at == IF index - 1 < n THEN index - 1 ELSE n
<1>1. others \in SUBSET Jobs /\ Queued \in SUBSET Jobs
  BY DEF Queued
<1>2. /\ IsFiniteSet(Queued) /\ IsFiniteSet(others) /\ n \in Nat
      /\ Cardinality(Queued) = n + 1
  <2>1. IsFiniteSet(Queued) /\ Cardinality(Queued) \in Nat
    BY <1>1, JobsAssumption, FS_Subset, FS_CardinalityType
  <2>2. IsFiniteSet(others) /\ n = Cardinality(Queued) - 1 /\ n \in Nat
    BY <2>1, FS_RemoveElement, FS_CardinalityType
  <2> QED BY <2>1, <2>2
<1>3. Place(j, index, j) = at + 1
  BY DEF Place
<1>4. \A k \in others :
        Place(j, index, k) = IF Ahead(others, k) < at THEN Ahead(others, k) + 1
                             ELSE Ahead(others, k) + 2
  BY DEF Place, Ahead
<1>5. \A k \in others : Ahead(others, k) \in Nat /\ Ahead(others, k) < n
  BY <1>1, AheadBound
<1>6. \A k, l \in others : k # l =>
        /\ QueuedBefore(k, l) \/ QueuedBefore(l, k)
        /\ QueuedBefore(k, l) => Ahead(others, k) < Ahead(others, l)
  BY <1>1, LaterHasMoreAhead
<1> HIDE DEF others, n
<1>7. at \in Nat /\ at <= n /\ (index <= n + 1 => at = index - 1)
  BY <1>2
<1> HIDE DEF at
<1>8. \A k \in others : /\ Place(j, index, k) \in 1..(n + 1)
                        /\ Place(j, index, k) # at + 1
  BY <1>2, <1>4, <1>5, <1>7
<1>9. \A k, l \in others : k # l /\ QueuedBefore(k, l)
        => Place(j, index, k) < Place(j, index, l)
  BY <1>4, <1>5, <1>6, <1>7
<1>10. \A k \in Queued : k = j \/ k \in others
  BY DEF others
<1>11. \A k \in Queued : Place(j, index, k) \in 1..Cardinality(Queued)
  BY <1>2, <1>3, <1>7, <1>8, <1>10
<1>12. ASSUME NEW k \in Queued, NEW l \in Queued, k # l
       PROVE  Place(j, index, k) # Place(j, index, l)
  BY <1>3, <1>6, <1>8, <1>9, <1>10, <1>11, <1>12
<1>13. index <= Cardinality(Queued) => Place(j, index, j) = index
  BY <1>2, <1>3, <1>7
<1> QED BY <1>9, <1>11, <1>12, <1>13 DEF others
=============================================================================
