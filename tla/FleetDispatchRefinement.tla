---------------------- MODULE FleetDispatchRefinement ----------------------
(***************************************************************************)
(* The fleet queue implements PrintOnce, and a cancel that precedes the    *)
(* claim is final, for every set of jobs, printers and threads.            *)
(***************************************************************************)
EXTENDS FleetDispatchProofs

\* The steps that touch the handlers' units of work.
LEMMA OneRowStep == TypeOK /\ OneRowInv /\ [Next]_vars => OneRowInv'
<1> SUFFICES ASSUME TypeOK, OneRowInv, [Next]_vars PROVE OneRowInv'
  OBVIOUS
<1>1. ASSUME NEW w \in Workers, NEW S \in SUBSET Jobs, NEW kind, NEW new,
             Reads(w, kind, S, new),
             \A i, j \in S : new[i].state # job[i].state /\ new[j].state # job[j].state
                               => i = j
      PROVE  OneRowInv'
  <2>1. /\ \A j \in Jobs : worker'[w].new[j].state # worker'[w].read[j].state
                             => j \in S /\ new[j].state # job[j].state
        /\ \A v \in Workers \ {w} : worker'[v] = worker[v]
    BY <1>1 DEF Reads, TypeOK
  <2> QED BY <1>1, <2>1 DEF OneRowInv
<1>2. ASSUME NEW w \in Workers, NEW j \in Jobs, CancelRead(w, j) \/ RetryRead(w, j)
      PROVE  OneRowInv'
  <2>1. \E kind, new : Reads(w, kind, {j}, new)
    BY <1>2 DEF CancelRead, RetryRead
  <2> QED BY <1>1, <2>1
<1>3. ASSUME NEW w \in Workers, NEW j \in Jobs, NEW r \in Requests \cup {Unrouted},
             NEW index \in 0..Cardinality(Queued), PatchRead(w, j, r, index)
      PROVE  OneRowInv'
  <2>1. PICK S, new :
          S \in SUBSET Jobs /\ Reads(w, "edit", S, new) /\ \A k \in S : new[k].state = job[k].state
    BY <1>3, PatchedRows
  <2> QED BY <1>1, <2>1
<1>4. ASSUME NEW w \in Workers, Commit(w) PROVE OneRowInv'
  <2>1. \A v \in Workers : worker'[v] \in {worker[v], Resting}
    BY <1>4 DEF Commit, TypeOK
  <2>2. \A j \in Jobs : Resting.new[j] = Resting.read[j]
    BY DEF Resting
  <2> QED BY <2>1, <2>2 DEF OneRowInv
<1>5. CASE Crash
  BY <1>5 DEF Crash, Resting, OneRowInv
<1>6. CASE UNCHANGED worker
  BY <1>6 DEF OneRowInv
<1>7. ASSUME SchedStep \/ SchedFault \/ Restart PROVE UNCHANGED worker
  BY <1>7 DEF SchedStep, SchedRead, SchedApply, SchedClaim, SchedLoad, SchedCheck,
     SchedUpload, SchedStart, SchedMarkStarted, SchedUpsert, SchedMarkFailed,
     SchedFault, Restart, Others
<1>8. ASSUME NEW j \in Jobs, AccessChange(j)
             \/ \E r \in Requests : Enqueue(j, r[1], r[2])
      PROVE UNCHANGED worker
  BY <1>8 DEF AccessChange, Change, Enqueue
<1>9. ASSUME NEW p \in Printers, PrinterChange(p) \/ DefaultChange(p)
      PROVE UNCHANGED worker
  BY <1>9 DEF PrinterChange, DefaultChange, Change
<1> QED BY <1>2, <1>3, <1>4, <1>5, <1>6, <1>7, <1>8, <1>9 DEF Next, Handler, vars

\* A unit of work changes the state of at most one row.
LEMMA OneRow == Spec => []OneRowInv
<1>1. Init => OneRowInv
  BY DEF Init, Resting, OneRowInv
<1> QED BY <1>1, OneRowStep, TypeCorrect, PTL DEF Spec

-----------------------------------------------------------------------------
(* Steps of PrintOnce, in terms of OfferOf *)

\* A job whose offer changes alone: Offer, Withdraw, Take or Release.
LEMMA OfferMoves ==
    ASSUME NEW c \in Jobs, UNCHANGED <<starts, written>>,
           \A j \in Jobs \ {c} : OfferOf(j)' = OfferOf(j),
           \/ OfferOf(c) = "closed" /\ OfferOf(c)' = "open" /\ starts[c] <= written[c]
           \/ OfferOf(c) = "open" /\ OfferOf(c)' = "closed"
           \/ OfferOf(c) = "open" /\ OfferOf(c)' = "taken"
           \/ OfferOf(c) = "taken" /\ OfferOf(c)' = "closed"
    PROVE  Once!Next
<1> DEFINE offer == [j \in Jobs |-> OfferOf(j)]
<1>1. /\ offer' = [offer EXCEPT ![c] = OfferOf(c)']
      /\ offer[c] = OfferOf(c)
  OBVIOUS
<1> HIDE DEF offer
<1>2. Once!Offer(c) \/ Once!Withdraw(c) \/ Once!Take(c) \/ Once!Release(c)
  BY <1>1 DEF Once!Offer, Once!Withdraw, Once!Take, Once!Release, Once!Moves, offer
<1> QED BY <1>2 DEF Once!Next

\* A step that changes no offer and no print is no step of PrintOnce.
LEMMA OfferStutters ==
    ASSUME UNCHANGED <<starts, written>>, \A j \in Jobs : OfferOf(j)' = OfferOf(j)
    PROVE  UNCHANGED Once!vars
BY DEF Once!vars

\* A commit offers the job of a retry, withdraws a queued job that an edit
\* cancels, and is no step of PrintOnce otherwise.
LEMMA CommitOnce ==
    ASSUME IInv, IInv', OneRowInv, NEW w \in Workers, Commit(w)
    PROVE  Once!Next \/ UNCHANGED Once!vars
<1> DEFINE R(j) == worker[w].read[j]
           N(j) == worker[w].new[j]
<1>1. /\ \A j \in Jobs : job'[j].state = IF N(j).state # R(j).state THEN N(j).state
                                         ELSE job[j].state
      /\ UNCHANGED <<sched, starts, written>>
  BY DEF Commit, Merge, Column
<1>2. worker[w].kind \in {"edit", "retry"}
  BY DEF Commit, IInv, TypeOK, WorkerStates
<1>3. CASE \A j \in Jobs : N(j).state = R(j).state
  <2>1. \A j \in Jobs : OfferOf(j)' = OfferOf(j)
    BY <1>1, <1>3 DEF OfferOf, Holds
  <2> QED BY <1>1, <2>1, OfferStutters
<1>4. ASSUME NEW c \in Jobs, N(c).state # R(c).state
      PROVE  Once!Next \/ UNCHANGED Once!vars
  <2>1. \A j \in Jobs \ {c} : N(j).state = R(j).state
    BY <1>4 DEF OneRowInv
  <2>2. \A j \in Jobs \ {c} : OfferOf(j)' = OfferOf(j)
    BY <1>1, <2>1 DEF OfferOf, Holds
  <2>3. job'[c].state = N(c).state /\ (Holds(c)' <=> Holds(c))
    BY <1>1, <1>4 DEF Holds
  <2>4. CASE worker[w].kind = "retry"
    <3>1. Retries(w, c)
      BY <1>4, <2>4 DEF Retries
    <3>2. /\ N(c).state = "queued" /\ ~Holds(c) /\ ~Spent(c)
          /\ job[c].state # "queued"
      BY <3>1 DEF IInv, RetryInv
    <3>3. OfferOf(c) = "closed" /\ OfferOf(c)' = "open"
      BY <2>3, <3>2 DEF OfferOf
    <3>4. starts[c] <= written[c]
      BY <3>2 DEF IInv, PrintInv, TypeOK, Spent
    <3> QED BY <1>1, <2>2, <3>3, <3>4, OfferMoves
  <2>5. CASE worker[w].kind = "edit"
    <3>1. N(c).state = "cancelled"
      BY <1>4, <2>5 DEF IInv, EditInv
    <3>2. OfferOf(c)' = IF Holds(c) THEN "taken" ELSE "closed"
      BY <2>3, <3>1 DEF OfferOf
    <3>3. CASE OfferOf(c)' = OfferOf(c)
      BY <1>1, <2>2, <3>3, OfferStutters
    <3>4. CASE OfferOf(c)' # OfferOf(c)
      <4>1. OfferOf(c) = "open" /\ OfferOf(c)' = "closed"
        BY <3>2, <3>4 DEF OfferOf
      <4> QED BY <1>1, <2>2, <4>1, OfferMoves
    <3> QED BY <3>3, <3>4
  <2> QED BY <1>2, <2>4, <2>5
<1> QED BY <1>3, <1>4

\* Enqueueing offers a job that has never been printed.
LEMMA EnqueueOnce ==
    ASSUME IInv, IInv', NEW c \in Jobs, NEW strategy, NEW requested,
           Enqueue(c, strategy, requested)
    PROVE  Once!Next
<1>1. /\ UNCHANGED <<sched, starts, written>>
      /\ \A j \in Jobs \ {c} : job'[j] = job[j]
      /\ job[c].state = "absent" /\ job'[c].state = "queued"
  BY DEF Enqueue, Exists, NoRow, IInv, TypeOK
<1>2. ~Holds(c) /\ starts[c] <= written[c]
  BY <1>1 DEF IInv, HeldInv, RowInv, TypeOK, Spent
<1>3. /\ \A j \in Jobs \ {c} : OfferOf(j)' = OfferOf(j)
      /\ OfferOf(c) = "closed" /\ OfferOf(c)' = "open"
  BY <1>1, <1>2 DEF OfferOf, Holds
<1> QED BY <1>1, <1>2, <1>3, OfferMoves

\* Claiming takes the job.
LEMMA ClaimOnce ==
    ASSUME IInv, IInv', SchedClaim
    PROVE  Once!Next \/ UNCHANGED Once!vars
<1> DEFINE c == sched.job
<1>1. /\ sched.pc = "claiming" /\ c \in Jobs /\ \A j \in Jobs : ~Holds(j)
      /\ UNCHANGED <<starts, written>>
  BY DEF SchedClaim, IInv, SchedInv, Holds, InFlight, Histories
<1>2. CASE c \notin Waiting
  <2>1. sched' = Idle /\ UNCHANGED job
    BY <1>2 DEF SchedClaim
  <2>2. \A j \in Jobs : OfferOf(j)' = OfferOf(j)
    BY <1>1, <2>1 DEF OfferOf, Holds, Idle, InFlight
  <2> QED BY <1>1, <2>2, OfferStutters
<1>3. CASE c \in Waiting
  <2>1. /\ \A j \in Jobs \ {c} : job'[j] = job[j]
        /\ sched'.pc = "claimed" /\ sched'.job = c
        /\ job[c].state = "queued"
    BY <1>1, <1>3 DEF SchedClaim, Waiting, Queued, IInv, TypeOK, SchedStates
  <2>2. \A j \in Jobs : Holds(j)' <=> j = c
    BY <2>1 DEF Holds, InFlight
  <2> HIDE DEF c
  <2>3. /\ \A j \in Jobs \ {c} : OfferOf(j)' = OfferOf(j)
        /\ OfferOf(c) = "open"
    BY <1>1, <2>1, <2>2 DEF OfferOf
  <2>4. \A j \in Jobs : j = c => OfferOf(j)' = "taken"
    BY <1>1, <2>2 DEF OfferOf
  <2>5. PICK d \in Jobs : d = c
    BY <1>1
  <2> QED BY <1>1, <2>3, <2>4, <2>5, OfferMoves
<1> QED BY <1>2, <1>3

\* A dispatch under way is no step of PrintOnce, except when it prints.
LEMMA DispatchOnce ==
    ASSUME IInv, IInv', SchedLoad \/ SchedCheck \/ SchedUpload \/ SchedStart
                        \/ SchedMarkStarted
    PROVE  Once!Next \/ UNCHANGED Once!vars
<1> DEFINE c == sched.job
<1>1. c \in Jobs /\ sched.pc \in InFlight /\ sched'.pc \in InFlight /\ sched'.job = c
  BY DEF SchedLoad, SchedCheck, SchedUpload, SchedStart, SchedMarkStarted, Fail,
         IInv, SchedInv, TypeOK, SchedStates, InFlight
<1>2. /\ \A j \in Jobs \ {c} : job'[j] = job[j]
      /\ UNCHANGED written
  BY <1>1 DEF SchedLoad, SchedCheck, SchedUpload, SchedStart, SchedMarkStarted,
     IInv, TypeOK, Histories
<1>3. \A j \in Jobs : OfferOf(j)' = OfferOf(j)
  BY <1>1, <1>2 DEF OfferOf, Holds
<1>4. CASE UNCHANGED starts
  BY <1>2, <1>3, <1>4, OfferStutters
<1>5. CASE starts' # starts
  <2>1. /\ sched.pc = "uploaded"
        /\ starts' = [starts EXCEPT ![c] = @ + 1]
    BY <1>5 DEF SchedLoad, SchedCheck, SchedUpload, SchedStart, SchedMarkStarted,
                Histories
  <2>2. OfferOf(c) = "taken" /\ starts[c] <= written[c]
    BY <1>1, <2>1 DEF OfferOf, Holds, IInv, PrintInv, TypeOK, Spent
  <2>3. Once!StartPrint(c)
    BY <1>1, <1>2, <1>3, <2>1, <2>2 DEF Once!StartPrint
  <2> QED BY <1>1, <2>3 DEF Once!Next
<1> QED BY <1>4, <1>5

\* The end of a dispatch, in whatever way, releases its job.
LEMMA ReleaseOnce ==
    ASSUME IInv, IInv', sched.pc \in InFlight, sched'.pc \notin InFlight,
           UNCHANGED <<starts, written>>,
           \A j \in Jobs \ {sched.job} : job'[j] = job[j],
           job'[sched.job].state = job[sched.job].state \/ job'[sched.job].state = "failed"
    PROVE  Once!Next
<1>1. PICK c \in Jobs : c = sched.job
  BY DEF IInv, SchedInv
<1>2. Holds(c) /\ job[c].state # "queued"
  BY <1>1 DEF Holds, IInv, HeldInv
<1>3. /\ \A j \in Jobs : ~Holds(j)'
      /\ \A j \in Jobs \ {c} : ~Holds(j)
      /\ job'[c].state # "queued"
  BY <1>1, <1>2 DEF Holds
<1>4. /\ \A j \in Jobs \ {c} : OfferOf(j)' = OfferOf(j)
      /\ OfferOf(c) = "taken" /\ OfferOf(c)' = "closed"
  BY <1>1, <1>2, <1>3 DEF OfferOf
<1> QED BY <1>4, OfferMoves

\* A step before the claim, a reading handler and startup change no offer.
LEMMA UnheldOnce ==
    ASSUME \A j \in Jobs : ~Holds(j) /\ ~Holds(j)',
           \A j \in Jobs : (job'[j].state = "queued") <=> (job[j].state = "queued"),
           UNCHANGED <<starts, written>>
    PROVE  UNCHANGED Once!vars
<1>1. \A j \in Jobs : OfferOf(j)' = OfferOf(j)
  BY DEF OfferOf
<1> QED BY <1>1, OfferStutters

\* A failing database write: of the STARTED record, it writes the print off.
LEMMA FaultOnce ==
    ASSUME IInv, IInv', SchedFault
    PROVE  Once!Next \/ UNCHANGED Once!vars
<1>1. UNCHANGED <<job, starts>>
  BY DEF SchedFault
<1>2. CASE sched.pc \in {"resolved", "claiming"}
  <2>1. sched' = Idle /\ UNCHANGED written
    BY <1>2 DEF SchedFault
  <2> QED BY <1>1, <1>2, <2>1, UnheldOnce DEF Idle, Holds, InFlight
<1>3. CASE sched.pc = "failing" /\ sched'.pc # "failing"
  <2>1. sched' = Idle /\ UNCHANGED written
    BY <1>3 DEF SchedFault, Fail, IInv, TypeOK, SchedStates
  <2> QED BY <1>1, <1>3, <2>1, ReleaseOnce DEF Idle, InFlight
<1>4. CASE sched.pc \in {"claimed", "accepted", "recorded"}
  <2>1. sched.pc \in InFlight /\ sched'.pc \in InFlight /\ sched'.job = sched.job
    BY <1>4 DEF SchedFault, Fail, IInv, TypeOK, SchedStates, InFlight
  <2>2. \A j \in Jobs : OfferOf(j)' = OfferOf(j)
    BY <1>1, <2>1 DEF OfferOf, Holds
  <2>3. CASE sched.pc = "claimed"
    BY <1>1, <2>2, <2>3, OfferStutters DEF SchedFault
  <2>4. CASE sched.pc # "claimed"
    <3>1. PICK c \in Jobs : c = sched.job
      BY <2>1 DEF IInv, SchedInv
    <3>2. written' = [written EXCEPT ![c] = @ + 1]
      BY <1>4, <2>4, <3>1 DEF SchedFault
    <3>3. OfferOf(c) = "taken" /\ written[c] < starts[c]
      BY <1>4, <2>1, <2>4, <3>1 DEF OfferOf, Holds, IInv, PrintInv, TypeOK, Spent
    <3>4. Once!WriteOff(c)
      BY <1>1, <2>2, <3>2, <3>3 DEF Once!WriteOff
    <3> QED BY <3>4 DEF Once!Next
  <2> QED BY <2>3, <2>4
<1>5. CASE sched.pc = "failing" /\ sched'.pc = "failing"
  <2>1. PICK c \in Jobs : c = sched.job
    BY <1>5 DEF IInv, SchedInv, InFlight
  <2>2. sched'.job = c /\ written' = [written EXCEPT ![c] = starts[c]]
    <3>1. sched' # Idle
      BY <1>5 DEF Idle
    <3>2. Fail("known") /\ written' = [written EXCEPT ![c] = starts[c]]
      BY <1>5, <2>1, <3>1 DEF SchedFault
    <3> QED BY <2>1, <3>2 DEF Fail, IInv, TypeOK, SchedStates
  <2>3. \A j \in Jobs : OfferOf(j)' = OfferOf(j)
    BY <1>1, <1>5, <2>1, <2>2 DEF OfferOf, Holds
  <2>4. /\ written[c] \in Nat /\ starts[c] \in Nat
        /\ written[c] <= starts[c] /\ starts[c] <= written[c] + 1
    BY DEF IInv, TypeOK, PrintInv, AtMostOnceStart
  <2>5. CASE starts[c] = written[c]
    <3>1. written' = written
      BY <2>2, <2>5 DEF IInv, TypeOK
    <3> QED BY <1>1, <2>3, <3>1, OfferStutters
  <2>6. CASE starts[c] # written[c]
    <3>1. written[c] < starts[c] /\ starts[c] = written[c] + 1
      BY <2>4, <2>6
    <3>2. written' = [written EXCEPT ![c] = @ + 1]
      BY <2>2, <3>1
    <3>3. OfferOf(c) = "taken"
      BY <1>5, <2>1 DEF OfferOf, Holds, InFlight
    <3>4. Once!WriteOff(c)
      BY <1>1, <2>3, <3>1, <3>2, <3>3 DEF Once!WriteOff
    <3> QED BY <3>4 DEF Once!Next
  <2> QED BY <2>5, <2>6
<1> QED BY <1>2, <1>3, <1>4, <1>5 DEF SchedFault

\* A handler that reads changes nothing PrintOnce can see.
LEMMA ReadingUnseen ==
    ASSUME NEW w \in Workers, NEW j \in Jobs,
           \/ CancelRead(w, j) \/ RetryRead(w, j)
           \/ \E r \in Requests \cup {Unrouted}, index \in 0..Cardinality(Queued) :
                PatchRead(w, j, r, index)
    PROVE  UNCHANGED <<job, sched, starts, written>>
<1>1. CASE CancelRead(w, j)
  BY <1>1 DEF CancelRead, Reads
<1>2. CASE RetryRead(w, j)
  BY <1>2 DEF RetryRead, Reads
<1>3. ASSUME NEW r, NEW index, PatchRead(w, j, r, index)
      PROVE  UNCHANGED <<job, sched, starts, written>>
  BY <1>3 DEF PatchRead, Reads
<1> QED BY <1>1, <1>2, <1>3

\* Every step of the queue, the scheduler and the process is a step of
\* PrintOnce or changes nothing it can see.
LEMMA RefinementStep ==
    ASSUME IInv, IInv', OneRowInv, [Next]_vars
    PROVE  [Once!Next]_(Once!vars)
<1> SUFFICES Once!Next \/ UNCHANGED Once!vars
  OBVIOUS
<1>1. ASSUME NEW j \in Jobs, NEW r \in Requests, Enqueue(j, r[1], r[2])
      PROVE  Once!Next
  BY <1>1, EnqueueOnce
<1>2. ASSUME UNCHANGED <<job, sched, starts, written>>
      PROVE  UNCHANGED Once!vars
  <2>1. \A j \in Jobs : OfferOf(j)' = OfferOf(j)
    BY <1>2 DEF OfferOf, Holds
  <2> QED BY <1>2, <2>1, OfferStutters
<1>3. ASSUME NEW w \in Workers, Handler(w)
      PROVE  Once!Next \/ UNCHANGED Once!vars
  <2>1. CASE Commit(w)
    BY <2>1, CommitOnce
  <2>2. CASE ~Commit(w)
    <3>1. PICK j \in Jobs :
            \/ CancelRead(w, j) \/ RetryRead(w, j)
            \/ \E r \in Requests \cup {Unrouted}, index \in 0..Cardinality(Queued) :
                 PatchRead(w, j, r, index)
      BY <1>3, <2>2 DEF Handler
    <3> QED BY <1>2, <3>1, ReadingUnseen
  <2> QED BY <2>1, <2>2
<1>4. ASSUME NEW p \in Printers, PrinterChange(p) \/ DefaultChange(p)
      PROVE  UNCHANGED Once!vars
  BY <1>2, <1>4 DEF PrinterChange, DefaultChange, Change
<1>5. ASSUME NEW j \in Jobs, AccessChange(j) PROVE UNCHANGED Once!vars
  BY <1>2, <1>5 DEF AccessChange, Change
<1>6. CASE SchedRead
  <2>1. /\ sched.pc = "idle" /\ sched'.pc = "resolved"
        /\ UNCHANGED <<job, starts, written>>
    BY <1>6 DEF SchedRead, Idle, Histories
  <2> QED BY <2>1, UnheldOnce DEF Holds, InFlight
<1>7. CASE SchedApply
  <2>1. /\ sched.pc = "resolved" /\ sched'.pc \in {"idle", "claiming"}
        /\ UNCHANGED <<starts, written>>
    BY <1>7 DEF SchedApply, Idle, Histories, IInv, TypeOK, SchedStates
  <2>2. \A j \in Jobs : job'[j].state = job[j].state
    <3> TAKE j \in Jobs
    <3> DEFINE u == sched.updates[j]
    <3>1. job[j] \in JobRow
      BY DEF IInv, TypeOK
    <3>2. job'[j] \in {job[j], [job[j] EXCEPT !.printer = u.printer, !.blocked = u.blocked]}
      BY <1>7 DEF SchedApply
    <3> HIDE DEF u
    <3> QED BY <3>1, <3>2 DEF JobRow
  <2> QED BY <2>1, <2>2, UnheldOnce DEF Holds, InFlight
<1>8. CASE SchedUpsert
  <2>1. /\ sched.pc \in InFlight /\ sched'.pc \notin InFlight
        /\ UNCHANGED <<job, starts, written>>
    BY <1>8 DEF SchedUpsert, Idle, InFlight, Histories
  <2> QED BY <2>1, ReleaseOnce
<1>9. CASE SchedMarkFailed
  <2>1. /\ sched.pc \in InFlight /\ sched'.pc \notin InFlight /\ sched.job \in Jobs
        /\ UNCHANGED <<starts, written>>
    BY <1>9 DEF SchedMarkFailed, Idle, InFlight, Histories, IInv, SchedInv
  <2>2. \A j \in Jobs \ {sched.job} : job'[j] = job[j]
    BY <1>9 DEF SchedMarkFailed, IInv, TypeOK
  <2>3. job'[sched.job].state = "failed"
    <3>1. job[sched.job] \in JobRow /\ DOMAIN job = Jobs
      BY <2>1 DEF IInv, TypeOK
    <3>2. job'[sched.job] = [job[sched.job] EXCEPT !.state = "failed",
                               !.retryable = (sched.code # "outcome_unknown"),
                               !.finished = TRUE]
      BY <1>9, <2>1, <3>1 DEF SchedMarkFailed
    <3> QED BY <3>1, <3>2 DEF JobRow
  <2> QED BY <2>1, <2>2, <2>3, ReleaseOnce
<1>10. CASE SchedClaim
  BY <1>10, ClaimOnce
<1>11. CASE SchedLoad \/ SchedCheck \/ SchedUpload \/ SchedStart \/ SchedMarkStarted
  BY <1>11, DispatchOnce
<1>12. CASE SchedFault
  BY <1>12, FaultOnce
<1>13. CASE Crash
  <2>1. sched'.pc = "down" /\ UNCHANGED <<job, starts, written>>
    BY <1>13 DEF Crash, Down, Idle
  <2>2. CASE sched.pc \in InFlight
    BY <2>1, <2>2, ReleaseOnce DEF InFlight
  <2>3. CASE sched.pc \notin InFlight
    BY <2>1, <2>3, UnheldOnce DEF Holds, InFlight
  <2> QED BY <2>2, <2>3
<1>14. CASE Restart
  <2>1. /\ sched.pc = "down" /\ sched' = Idle /\ UNCHANGED <<starts, written>>
    BY <1>14 DEF Restart
  <2>2. \A j \in Jobs : (job'[j].state = "queued") <=> (job[j].state = "queued")
    <3> TAKE j \in Jobs
    <3>1. job[j] \in JobRow
      BY DEF IInv, TypeOK
    <3> QED BY <1>14, <3>1 DEF Restart, JobRow
  <2> QED BY <2>1, <2>2, UnheldOnce DEF Holds, InFlight, Idle
<1>15. CASE UNCHANGED vars
  BY <1>2, <1>15 DEF vars
<1> QED
  BY <1>1, <1>3, <1>4, <1>5, <1>6, <1>7, <1>8, <1>9, <1>10, <1>11, <1>12, <1>13,
     <1>14, <1>15
  DEF Next, SchedStep

\* The fleet queue implements the abstract queue: whatever the handlers, the
\* scheduler and the crashes do, every job is offered, taken and printed the
\* way PrintOnce allows.
THEOREM FleetImplementsPrintOnce == Spec => ImplementsPrintOnce
<1>1. Init => Once!Init
  BY DEF Init, NoRow, Idle, Once!Init, OfferOf, Holds, InFlight
<1>2. IInv /\ IInv' /\ OneRowInv /\ [Next]_vars => [Once!Next]_(Once!vars)
  BY RefinementStep
<1> QED BY <1>1, <1>2, Invariance, OneRow, PTL DEF Spec, ImplementsPrintOnce, Once!Spec

-----------------------------------------------------------------------------
(* Cancelling *)

\* No step touches a job that was cancelled before it was claimed: a retry is
\* of a claimed row, an edit can only cancel again, the claim is of a queued
\* row and the dispatch in flight is of a claimed one.
LEMMA CancelledStays ==
    ASSUME IInv, [Next]_vars, NEW j \in Jobs, job[j].state = "cancelled", ~job[j].claimed
    PROVE  job'[j].state = "cancelled" /\ starts'[j] = starts[j]
<1>0. /\ job[j] \in JobRow /\ ~Holds(j)
      /\ \A w \in Workers : ~Retries(w, j)
  BY DEF IInv, TypeOK, HeldInv, RetryInv
<1>1. ASSUME NEW k \in Jobs, NEW r \in Requests, Enqueue(k, r[1], r[2])
      PROVE  job'[j] = job[j] /\ UNCHANGED starts
  BY <1>1 DEF Enqueue, Exists, IInv, TypeOK
<1>2. ASSUME NEW w \in Workers, Handler(w)
      PROVE  job'[j].state = "cancelled" /\ UNCHANGED starts
  <2>1. CASE Commit(w)
    <3>1. job'[j].state = IF worker[w].new[j].state # worker[w].read[j].state
                          THEN worker[w].new[j].state ELSE job[j].state
      BY <2>1 DEF Commit, Merge, Column
    <3>2. worker[w].kind \in {"edit", "retry"}
      BY <2>1 DEF Commit, IInv, TypeOK, WorkerStates
    <3>3. worker[w].new[j].state \in {worker[w].read[j].state, "cancelled"}
      BY <1>0, <3>2 DEF IInv, EditInv, Retries
    <3> QED BY <2>1, <3>1, <3>3 DEF Commit
  <2>2. CASE ~Commit(w)
    BY <1>2, <2>2
    DEF Handler, CancelRead, RetryRead, PatchRead, Reads
  <2> QED BY <2>1, <2>2
<1>3. ASSUME NEW p \in Printers, PrinterChange(p) \/ DefaultChange(p)
      PROVE  UNCHANGED <<job, starts>>
  BY <1>3 DEF PrinterChange, DefaultChange, Change
<1>4. ASSUME NEW k \in Jobs, AccessChange(k) PROVE UNCHANGED <<job, starts>>
  BY <1>4 DEF AccessChange, Change
<1>5. CASE SchedApply
  <2> DEFINE u == sched.updates[j]
  <2>1. job'[j] \in {job[j], [job[j] EXCEPT !.printer = u.printer, !.blocked = u.blocked]}
    BY <1>5 DEF SchedApply
  <2> HIDE DEF u
  <2>2. job'[j].state = job[j].state
    BY <1>0, <2>1 DEF JobRow
  <2> QED BY <1>5, <2>2 DEF SchedApply, Histories
<1>6. CASE SchedRead \/ SchedLoad \/ SchedCheck \/ SchedUpload \/ SchedUpsert
           \/ SchedFault \/ Crash
  BY <1>6 DEF SchedRead, SchedLoad, SchedCheck, SchedUpload, SchedUpsert,
              SchedFault, Crash, Histories
<1>7. CASE SchedClaim \/ SchedStart \/ SchedMarkStarted \/ SchedMarkFailed
  <2>1. sched.job # j \/ sched.pc = "claiming"
    BY <1>0, <1>7 DEF SchedClaim, SchedStart, SchedMarkStarted, SchedMarkFailed,
                      Holds, InFlight
  <2>2. CASE sched.job # j
    BY <1>7, <2>2 DEF SchedClaim, SchedStart, SchedMarkStarted, SchedMarkFailed,
                      Histories, IInv, TypeOK
  <2>3. CASE sched.job = j /\ sched.pc = "claiming"
    <3>1. j \notin Waiting
      BY DEF Waiting, Queued
    <3> QED BY <1>7, <2>3, <3>1 DEF SchedClaim, SchedStart, SchedMarkStarted,
                                    SchedMarkFailed, Histories
  <2> QED BY <2>1, <2>2, <2>3
<1>8. CASE Restart
  BY <1>8 DEF Restart
<1>9. CASE UNCHANGED vars
  BY <1>9 DEF vars
<1> QED BY <1>1, <1>2, <1>3, <1>4, <1>5, <1>6, <1>7, <1>8, <1>9 DEF Next, SchedStep

\* A cancel that commits before the claim is final, for every interleaving.
THEOREM CancelIsFinal == Spec => CancelBeforeClaimIsFinal
<1>1. IInv /\ [Next]_vars =>
        [\A j \in Jobs :
           (job[j].state = "cancelled" /\ ~job[j].claimed)
             => (job'[j].state = "cancelled" /\ starts'[j] = starts[j])]_vars
  BY CancelledStays
<1> QED BY <1>1, Invariance, PTL DEF Spec, CancelBeforeClaimIsFinal
=============================================================================
