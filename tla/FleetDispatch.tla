--------------------------- MODULE FleetDispatch ---------------------------
(***************************************************************************)
(* The fleet print queue: the rows of print_jobs, the HTTP handlers that   *)
(* enqueue, edit, cancel and retry them (services/fleet.py), and the one   *)
(* scheduler task that claims a row, sends its G-code to a printer, starts *)
(* the print and records the outcome (services/printer_jobs.py).           *)
(*                                                                         *)
(* Handlers run in the thread pool and the scheduler's database functions  *)
(* run in worker threads, so a handler is two steps, a read and a commit,  *)
(* and the commit is an ORM unit of work: an UPDATE by primary key of the  *)
(* columns whose value changed since the read, with no test of the row's   *)
(* present state.                                                          *)
(***************************************************************************)
EXTENDS Naturals, FiniteSets

CONSTANTS
    Jobs,        \* row ids, handed out in increasing order
    Printers,    \* configured printers
    NoPrinter,   \* printer_id IS NULL
    Statuses,    \* the values of Printer.status told apart
    Capable,     \* printers whose provider can both upload and start
    Strategies,  \* the routing strategies requests use
    Workers,     \* thread-pool threads serving queue edits
    BatchSize,   \* _CANDIDATE_BATCH_SIZE, rows examined by one claim
    MaxFaults,   \* bound on failing database writes of the scheduler
    MaxCrashes,  \* bound on process crashes
    MaxRetries,  \* bound on committed retries
    MaxChanges   \* bound on changes of printers and of access

ASSUME JobsAssumption == Jobs \subseteq Nat \ {0} /\ IsFiniteSet(Jobs)
ASSUME PrintersAssumption == NoPrinter \notin Printers /\ Capable \subseteq Printers
ASSUME StatusesAssumption == "ready" \in Statuses
ASSUME StrategiesAssumption ==
    Strategies \subseteq {"manual", "default", "least_busy"}
ASSUME BoundsAssumption ==
    /\ BatchSize \in Nat \ {0}
    /\ MaxFaults \in Nat /\ MaxCrashes \in Nat /\ MaxRetries \in Nat
    /\ MaxChanges \in Nat

VARIABLES
    job,       \* job[j]: the row of j in print_jobs
    printer,   \* printer[p]: what routing reads of p's row
    default,   \* the printer whose is_default is set, or NoPrinter
    revoked,   \* jobs whose requester may no longer print them
    sched,     \* the scheduler task and its local variables
    worker,    \* worker[w]: the unit of work thread w has read, not committed
    starts,    \* history: prints of j the printer accepted
    written,   \* history: starts of j whose record, STARTED or unknown, was lost
    stranded,  \* history: claims whose FAILED record failed to persist
    used       \* how much of each bound has been used

vars == <<job, printer, default, revoked, sched, worker, starts, written,
          stranded, used>>

-----------------------------------------------------------------------------
(* Rows *)

States == {"absent", "queued", "uploading", "started", "printing", "paused",
           "completed", "cancelled", "failed"}
ActiveStates == {"queued", "uploading", "started", "printing", "paused"}
PrinterIds == Printers \cup {NoPrinter}
Blocks == {"none", "printer", "access"}

JobRow == [state : States, claimed : BOOLEAN, retryable : BOOLEAN,
           finished : BOOLEAN, printer : PrinterIds,
           strategy : {"manual", "default", "least_busy"},
           blocked : Blocks, position : Nat]

PrinterRow == [status : Statuses, held : BOOLEAN, live : BOOLEAN]

NoRow == [state |-> "absent", claimed |-> FALSE, retryable |-> FALSE,
          finished |-> FALSE, printer |-> NoPrinter, strategy |-> "manual",
          blocked |-> "none", position |-> 0]

Exists(j) == job[j].state # "absent"
Queued == {j \in Jobs : job[j].state = "queued"}
Waiting == {j \in Queued : ~job[j].claimed}

\* One column of the UPDATE a unit of work emits: written only when dirty.
Column(now, read, new) == IF new # read THEN new ELSE now

\* The row after committing `new`, computed from the row as it was `read`.
Merge(now, read, new) ==
    [state     |-> Column(now.state, read.state, new.state),
     claimed   |-> Column(now.claimed, read.claimed, new.claimed),
     retryable |-> Column(now.retryable, read.retryable, new.retryable),
     finished  |-> Column(now.finished, read.finished, new.finished),
     printer   |-> Column(now.printer, read.printer, new.printer),
     strategy  |-> Column(now.strategy, read.strategy, new.strategy),
     blocked   |-> Column(now.blocked, read.blocked, new.blocked),
     position  |-> Column(now.position, read.position, new.position)]

-----------------------------------------------------------------------------
(* Routing *)

\* A printer that may be given new work.  `held` stands for drain_mode or an
\* active maintenance window.
Eligible(p) ==
    /\ printer[p].live
    /\ ~printer[p].held
    /\ printer[p].status = "ready"
    /\ p \in Capable

EligiblePrinters == {p \in Printers : Eligible(p)}

ActiveCount(p) ==
    Cardinality({j \in Jobs : job[j].printer = p /\ job[j].state \in ActiveStates})

\* The printers least_busy may return: ties are broken by last_seen_at, which
\* is not modelled, so any of them.
LeastBusy ==
    IF EligiblePrinters = {} THEN {NoPrinter}
    ELSE {p \in EligiblePrinters :
            \A q \in EligiblePrinters : ActiveCount(p) <= ActiveCount(q)}

\* Mutant: the pair choose_printer returns, taken in the wrong order.
AssignmentSwapped(p, ok) == [printer |-> IF ok THEN p ELSE NoPrinter, blocked |-> p]

Assignment(p, ok) == [printer |-> p, blocked |-> IF ok THEN "none" ELSE "printer"]

\* choose_printer raises printer_not_found.
Raises(strategy, requested) ==
    strategy = "manual" /\ (IF requested = NoPrinter THEN TRUE
                            ELSE ~printer[requested].live)

\* choose_printer's answer when it does not raise; lb is this snapshot's
\* least-busy printer.
Route(strategy, requested, lb) ==
    CASE strategy = "manual" -> Assignment(requested, Eligible(requested))
      [] strategy = "default" ->
            IF default = NoPrinter THEN Assignment(NoPrinter, FALSE)
            ELSE IF ~printer[default].live THEN Assignment(NoPrinter, FALSE)
            ELSE Assignment(default, Eligible(default))
      [] OTHER -> Assignment(lb, lb # NoPrinter)

-----------------------------------------------------------------------------
(* The scheduler's view of one claim *)

\* Rows that were already blocked come last, then queue order, then row id.
Before(j, k) ==
    LET Rank(i) == IF job[i].blocked = "none" THEN 0 ELSE 1 IN
    \/ Rank(j) < Rank(k)
    \/ Rank(j) = Rank(k) /\ job[j].position < job[k].position
    \/ Rank(j) = Rank(k) /\ job[j].position = job[k].position /\ j < k

\* Mutant: rows with a blocked_reason are never looked at again.
BatchUnblocked == {j \in Waiting : job[j].blocked = "none"}

Batch == {j \in Waiting : Cardinality({k \in Waiting : Before(k, j)}) < BatchSize}

\* What the claim decides for one row: routing, then the requester's access.
Resolve(j, lb) ==
    LET requested == IF job[j].strategy = "manual" THEN job[j].printer ELSE NoPrinter
        route == IF Raises(job[j].strategy, requested)
                 THEN Assignment(NoPrinter, FALSE)
                 ELSE Route(job[j].strategy, requested, lb)
    IN  IF j \in revoked THEN [route EXCEPT !.blocked = "access"] ELSE route

Accepts(j, lb) == Resolve(j, lb).blocked = "none"

\* c is the batch's first acceptable row, 0 when there is none.
IsCandidate(c, lb) ==
    IF c = 0 THEN \A j \in Batch : ~Accepts(j, lb)
    ELSE /\ Accepts(c, lb)
         /\ \A j \in Batch : Accepts(j, lb) => j = c \/ Before(c, j)

\* The loop stops at the candidate; the rows it went through are written back
\* when their assignment changed.
Keep == [printer |-> NoPrinter, blocked |-> "keep"]
Updates(c, lb) ==
    [j \in Jobs |->
       IF /\ j \in Batch
          /\ c = 0 \/ j = c \/ Before(j, c)
          /\ \/ Resolve(j, lb).printer # job[j].printer
             \/ Resolve(j, lb).blocked # job[j].blocked
       THEN Resolve(j, lb) ELSE Keep]
-----------------------------------------------------------------------------
(* The state *)

NoUpdates == [j \in Jobs |-> Keep]

\* The scheduler between two ticks.  `vetted` is the local `printer` of the
\* claim; `printer` and `code` are the dispatch context and the error code.
Idle == [pc |-> "idle", job |-> 0, vetted |-> NoPrinter, printer |-> NoPrinter,
         code |-> "none", updates |-> NoUpdates]
Down == [Idle EXCEPT !.pc = "down"]

SchedPcs == {"down", "idle", "resolved", "claiming", "claimed", "loaded",
             "checked", "uploaded", "accepted", "recorded", "failing"}
SchedStates ==
    [pc : SchedPcs, job : Jobs \cup {0}, vetted : PrinterIds,
     printer : PrinterIds, code : {"none", "known", "outcome_unknown"},
     updates : [Jobs -> [printer : PrinterIds, blocked : Blocks] \cup {Keep}]]

\* A thread's pending unit of work: each row as it was read and as it will
\* be; rows it does not write are the same in both.
Resting == [kind |-> "none", read |-> [j \in Jobs |-> NoRow],
            new |-> [j \in Jobs |-> NoRow]]
WorkerStates == [kind : {"none", "edit", "retry"},
                 read : [Jobs -> JobRow], new : [Jobs -> JobRow]]

TypeOK ==
    /\ job \in [Jobs -> JobRow]
    /\ printer \in [Printers -> PrinterRow]
    /\ default \in PrinterIds
    /\ revoked \in SUBSET Jobs
    /\ sched \in SchedStates
    /\ worker \in [Workers -> WorkerStates]
    /\ starts \in [Jobs -> Nat]
    /\ written \in [Jobs -> Nat]
    /\ stranded \in SUBSET Jobs
    /\ used \in [faults : Nat, crashes : Nat, retries : Nat, changes : Nat]

Init ==
    /\ job = [j \in Jobs |-> NoRow]
    /\ printer = [p \in Printers |->
                    [status |-> "ready", held |-> FALSE, live |-> TRUE]]
    /\ default = NoPrinter
    /\ revoked = {}
    /\ sched = Idle
    /\ worker = [w \in Workers |-> Resting]
    /\ starts = [j \in Jobs |-> 0]
    /\ written = [j \in Jobs |-> 0]
    /\ stranded = {}
    /\ used = [faults |-> 0, crashes |-> 0, retries |-> 0, changes |-> 0]

Up == sched.pc # "down"

\* enqueue and retry are coroutines without an await between their read and
\* their commit: the event loop runs one at a time.
EventLoopFree == \A w \in Workers : worker[w].kind # "retry"

-----------------------------------------------------------------------------
(* Queue handlers *)

\* enqueue_job: `last` is max(queue_position, default=0) of the queue.
Enqueue(j, strategy, requested) ==
    /\ Up /\ EventLoopFree
    /\ ~Exists(j)
    /\ \A k \in Jobs : k < j => Exists(k)
    /\ ~Raises(strategy, requested)
    /\ \E lb \in LeastBusy, last \in {0} \cup {job[k].position : k \in Queued} :
         /\ \A k \in Queued : job[k].position <= last
         /\ LET route == Route(strategy, requested, lb) IN
            job' = [job EXCEPT ![j] =
                      [NoRow EXCEPT !.state = "queued",
                                    !.printer = route.printer,
                                    !.blocked = route.blocked,
                                    !.strategy = strategy,
                                    !.position = last + 1]]
    /\ UNCHANGED <<printer, default, revoked, sched, worker, starts, written,
                   stranded, used>>

\* Thread w has read the rows in S and will write new[j] to each j of S.
Reads(w, kind, S, new) ==
    /\ Up
    /\ worker[w] = Resting
    /\ worker' = [worker EXCEPT ![w] =
         [kind |-> kind,
          read |-> [j \in Jobs |-> IF j \in S THEN job[j] ELSE NoRow],
          new  |-> [j \in Jobs |-> IF j \in S THEN new[j] ELSE NoRow]]]
    /\ UNCHANGED <<job, printer, default, revoked, sched, starts, written,
                   stranded, used>>

\* cancel_queue_job, up to its commit.
CancelRead(w, j) ==
    /\ job[j].state = "queued"
    /\ Reads(w, "edit", {j},
             [i \in {j} |-> [job[j] EXCEPT !.state = "cancelled",
                                           !.finished = TRUE,
                                           !.blocked = "none"]])

\* Queue order, which is what a new position is an index into.
QueuedBefore(j, k) ==
    \/ job[j].position < job[k].position
    \/ job[j].position = job[k].position /\ j < k

\* The position of k once j has been inserted at `index` of the queue.
Place(j, index, k) ==
    LET others == Queued \ {j}
        ahead == Cardinality({i \in others : QueuedBefore(i, k)})
        at == IF index - 1 < Cardinality(others) THEN index - 1
              ELSE Cardinality(others)
    IN  IF k = j THEN at + 1 ELSE IF ahead < at THEN ahead + 1 ELSE ahead + 2

\* A patch without a strategy and a printer, and the row it routes otherwise.
Unrouted == <<"same", NoPrinter>>
Routed(j, r, lb) ==
    IF r = Unrouted THEN job[j]
    ELSE [job[j] EXCEPT !.strategy = r[1],
                        !.printer = Route(r[1], r[2], lb).printer,
                        !.blocked = Route(r[1], r[2], lb).blocked]

\* The rows a patch writes: with a queue_position (0 stands for none), every
\* queued row is renumbered.
Patched(j, r, index, lb) ==
    [k \in IF index = 0 THEN {j} ELSE Queued |->
        LET row == IF k = j THEN Routed(j, r, lb) ELSE job[k] IN
        [row EXCEPT !.position = IF index = 0 THEN @ ELSE Place(j, index, k)]]

\* update_queue_job, up to its commit.
PatchRead(w, j, r, index) ==
    /\ job[j].state = "queued"
    /\ r = Unrouted => index # 0
    /\ r # Unrouted => ~Raises(r[1], r[2])
    /\ \E lb \in LeastBusy :
         LET new == Patched(j, r, index, lb) IN Reads(w, "edit", DOMAIN new, new)

\* Mutants of retry_queue_job: the row's claim is not cleared; any failed job
\* is accepted.
RetryRow(j, lb, claimed) ==
    LET route == Route(job[j].strategy, job[j].printer, lb) IN
    [i \in {j} |-> [job[j] EXCEPT !.state = "queued", !.printer = route.printer,
                                  !.blocked = route.blocked, !.retryable = FALSE,
                                  !.finished = FALSE, !.claimed = claimed]]
RetryKeepsClaim(w, j) ==
    /\ EventLoopFree /\ used.retries < MaxRetries
    /\ job[j].state = "failed" /\ job[j].retryable
    /\ ~Raises(job[j].strategy, job[j].printer)
    /\ \E lb \in LeastBusy :
         Reads(w, "retry", {j}, RetryRow(j, lb, job[j].claimed))
RetryAnyFailed(w, j) ==
    /\ EventLoopFree /\ used.retries < MaxRetries
    /\ job[j].state = "failed"
    /\ ~Raises(job[j].strategy, job[j].printer)
    /\ \E lb \in LeastBusy : Reads(w, "retry", {j}, RetryRow(j, lb, FALSE))

\* retry_queue_job, up to its commit.
RetryRead(w, j) ==
    /\ EventLoopFree
    /\ used.retries < MaxRetries
    /\ job[j].state = "failed" /\ job[j].retryable
    /\ LET requested == IF job[j].strategy = "manual" THEN job[j].printer
                        ELSE NoPrinter
       IN  /\ ~Raises(job[j].strategy, requested)
           /\ \E lb \in LeastBusy :
                LET route == Route(job[j].strategy, requested, lb) IN
                Reads(w, "retry", {j},
                      [i \in {j} |-> [job[j] EXCEPT !.state = "queued",
                                                    !.printer = route.printer,
                                                    !.blocked = route.blocked,
                                                    !.retryable = FALSE,
                                                    !.finished = FALSE,
                                                    !.claimed = FALSE]])

\* session.commit() of a handler: dirty columns only, whatever the row is now.
Commit(w) ==
    /\ worker[w].kind # "none"
    /\ job' = [j \in Jobs |-> Merge(job[j], worker[w].read[j], worker[w].new[j])]
    /\ used' = IF worker[w].kind = "retry" THEN [used EXCEPT !.retries = @ + 1]
               ELSE used
    /\ worker' = [worker EXCEPT ![w] = Resting]
    /\ UNCHANGED <<printer, default, revoked, sched, starts, written, stranded>>

-----------------------------------------------------------------------------
(* Printers and access: what routing reads, written by others *)

Change ==
    /\ Up
    /\ used.changes < MaxChanges
    /\ used' = [used EXCEPT !.changes = @ + 1]
    /\ UNCHANGED <<job, sched, worker, starts, written, stranded>>

PrinterChange(p) ==
    /\ Change
    /\ printer[p].live
    /\ \/ \E s \in Statuses \ {printer[p].status} :      \* the hub's writeback
            printer' = [printer EXCEPT ![p].status = s]
       \/ printer' = [printer EXCEPT ![p].held = ~@]     \* drain, maintenance
       \/ printer' = [printer EXCEPT ![p].live = FALSE]  \* delete_printer
    /\ UNCHANGED <<default, revoked>>

DefaultChange(p) ==
    /\ Change
    /\ printer[p].live
    /\ default' = IF default = p THEN NoPrinter ELSE p
    /\ UNCHANGED <<printer, revoked>>

AccessChange(j) ==
    /\ Change
    /\ Exists(j)
    /\ revoked' = IF j \in revoked THEN revoked \ {j} ELSE revoked \cup {j}
    /\ UNCHANGED <<printer, default>>

-----------------------------------------------------------------------------
(* The scheduler task: run_fleet_scheduler and the functions it calls *)

\* Everything but the scheduler and the rows.
Others == <<printer, default, revoked, worker>>
Histories == <<starts, written, stranded, used>>

\* _claim_next_sync: select a batch, route it, look for a candidate.
SchedRead ==
    /\ sched.pc = "idle"
    /\ Waiting # {}
    /\ \E lb \in LeastBusy, c \in Batch \cup {0} :
         /\ IsCandidate(c, lb)
         /\ sched' = [Idle EXCEPT !.pc = "resolved",
                                  !.job = c,
                                  !.vetted = IF c = 0 THEN NoPrinter
                                             ELSE Resolve(c, lb).printer,
                                  !.updates = Updates(c, lb)]
    /\ UNCHANGED <<job, Others, Histories>>

\* _claim_next_sync: write the batch's new assignments by primary key.
SchedApply ==
    /\ sched.pc = "resolved"
    /\ job' = [j \in Jobs |->
                 IF sched.updates[j] # Keep
                 THEN [job[j] EXCEPT !.printer = sched.updates[j].printer,
                                     !.blocked = sched.updates[j].blocked]
                 ELSE job[j]]
    /\ sched' = IF sched.job = 0 THEN Idle
                ELSE [sched EXCEPT !.pc = "claiming", !.updates = NoUpdates]
    /\ UNCHANGED <<Others, Histories>>

\* Mutant: the claim is an UPDATE by primary key alone.
SchedClaimBlind ==
    /\ sched.pc = "claiming"
    /\ job' = [job EXCEPT ![sched.job] =
                 [@ EXCEPT !.state = "uploading", !.claimed = TRUE]]
    /\ sched' = [sched EXCEPT !.pc = "claimed"]
    /\ UNCHANGED <<Others, Histories>>

\* _claim_next_sync: the compare-and-swap that claims the candidate.
SchedClaim ==
    /\ sched.pc = "claiming"
    /\ LET j == sched.job IN
       IF j \in Waiting
       THEN /\ job' = [job EXCEPT ![j] =
                        [@ EXCEPT !.state = "uploading", !.claimed = TRUE]]
            /\ sched' = [sched EXCEPT !.pc = "claimed"]
       ELSE /\ sched' = Idle
            /\ UNCHANGED job
    /\ UNCHANGED <<Others, Histories>>

Fail(code) == sched' = [sched EXCEPT !.pc = "failing", !.code = code]

\* _load_dispatch_context, in a new session: the row's printer as it is now.
SchedLoad ==
    /\ sched.pc = "claimed"
    /\ IF job[sched.job].printer = NoPrinter
       THEN Fail("known")
       ELSE sched' = [sched EXCEPT !.pc = "loaded", !.printer = job[sched.job].printer]
    /\ UNCHANGED <<job, Others, Histories>>

\* Capabilities, the provider's readiness where it must be asked, and the
\* download of the artifact: everything that can fail before provider I/O.
SchedCheck ==
    /\ sched.pc = "loaded"
    /\ \/ /\ sched.printer \in Capable
          /\ sched' = [sched EXCEPT !.pc = "checked"]
       \/ Fail("known")
    /\ UNCHANGED <<job, Others, Histories>>

\* provider.upload: an error leaves the outcome unknown.
SchedUpload ==
    /\ sched.pc = "checked"
    /\ \/ sched' = [sched EXCEPT !.pc = "uploaded"]
       \/ Fail("outcome_unknown")
    /\ UNCHANGED <<job, Others, Histories>>

\* Mutant: an error of provider.start is taken for a refusal.
SchedStartKnown ==
    /\ sched.pc = "uploaded"
    /\ \E accepted \in BOOLEAN :
         /\ starts' = [starts EXCEPT ![sched.job] = IF accepted THEN @ + 1 ELSE @]
         /\ \/ accepted /\ sched' = [sched EXCEPT !.pc = "accepted"]
            \/ Fail("known")
    /\ UNCHANGED <<job, Others, written, stranded, used>>

\* provider.start: the printer may accept the print and the answer still be
\* lost, so an error says nothing about whether it prints.
SchedStart ==
    /\ sched.pc = "uploaded"
    /\ \/ /\ starts' = [starts EXCEPT ![sched.job] = @ + 1]
          /\ \/ sched' = [sched EXCEPT !.pc = "accepted"]
             \/ Fail("outcome_unknown")
       \/ /\ Fail("outcome_unknown")
          /\ UNCHANGED starts
    /\ UNCHANGED <<job, Others, written, stranded, used>>

\* _mark_dispatch_started, first commit: the job row.
SchedMarkStarted ==
    /\ sched.pc = "accepted"
    /\ job' = [job EXCEPT ![sched.job] =
                 [@ EXCEPT !.state = "started", !.retryable = FALSE,
                           !.blocked = "none"]]
    /\ sched' = [sched EXCEPT !.pc = "recorded"]
    /\ UNCHANGED <<Others, Histories>>

\* _mark_dispatch_started, second commit: upsert_printer_file.
SchedUpsert ==
    /\ sched.pc = "recorded"
    /\ sched' = Idle
    /\ UNCHANGED <<job, Others, Histories>>

\* _mark_dispatch_failed.
SchedMarkFailed ==
    /\ sched.pc = "failing"
    /\ job' = [job EXCEPT ![sched.job] =
                 [@ EXCEPT !.state = "failed",
                           !.retryable = (sched.code # "outcome_unknown"),
                           !.finished = TRUE]]
    /\ sched' = Idle
    /\ UNCHANGED <<Others, Histories>>

\* A write of the scheduler fails.  Before the claim the tick is abandoned;
\* between the claim and provider I/O dispatch_next records a failure; so it
\* does after the print was accepted, when the failing write is one of
\* _mark_dispatch_started's or the removal of the temporary file in
\* transfer_artifact's `finally`.  That removal may also replace the error that
\* says the outcome is unknown.  A failing _mark_dispatch_failed abandons the row.
SchedFault ==
    /\ used.faults < MaxFaults
    /\ used' = [used EXCEPT !.faults = @ + 1]
    /\ \/ /\ sched.pc \in {"resolved", "claiming"}
          /\ sched' = Idle
          /\ UNCHANGED <<written, stranded>>
       \/ /\ sched.pc = "claimed"
          /\ Fail("known")
          /\ UNCHANGED <<written, stranded>>
       \/ /\ sched.pc \in {"accepted", "recorded"}
          /\ Fail("known")
          /\ written' = [written EXCEPT ![sched.job] = @ + 1]
          /\ UNCHANGED stranded
       \/ /\ sched.pc = "failing" /\ sched.code = "outcome_unknown"
          /\ Fail("known")
          /\ written' = [written EXCEPT ![sched.job] = starts[sched.job]]
          /\ UNCHANGED stranded
       \/ /\ sched.pc = "failing"
          /\ sched' = Idle
          /\ stranded' = stranded \cup {sched.job}
          /\ UNCHANGED written
    /\ UNCHANGED <<job, Others, starts>>

-----------------------------------------------------------------------------
(* The process *)

Crash ==
    /\ Up
    /\ used.crashes < MaxCrashes
    /\ used' = [used EXCEPT !.crashes = @ + 1]
    /\ sched' = Down
    /\ worker' = [w \in Workers |-> Resting]
    /\ UNCHANGED <<job, printer, default, revoked, starts, written, stranded>>

\* Mutants: startup does not look for stranded rows; it offers them for retry.
RestartOnly ==
    /\ sched.pc = "down"
    /\ sched' = Idle
    /\ stranded' = {}
    /\ UNCHANGED <<job, Others, starts, written, used>>
RestartRetryable ==
    /\ sched.pc = "down"
    /\ job' = [j \in Jobs |->
                 IF job[j].state = "uploading" /\ job[j].claimed
                 THEN [job[j] EXCEPT !.state = "failed", !.retryable = TRUE,
                                     !.finished = TRUE]
                 ELSE job[j]]
    /\ sched' = Idle
    /\ stranded' = {}
    /\ UNCHANGED <<Others, starts, written, used>>

\* Startup: reconcile_stranded_dispatches, then the scheduler task.
Restart ==
    /\ sched.pc = "down"
    /\ job' = [j \in Jobs |->
                 IF job[j].state = "uploading" /\ job[j].claimed
                 THEN [job[j] EXCEPT !.state = "failed",
                                     !.retryable = FALSE,
                                     !.finished = TRUE]
                 ELSE job[j]]
    /\ sched' = Idle
    /\ stranded' = {}
    /\ UNCHANGED <<Others, starts, written, used>>

-----------------------------------------------------------------------------
SchedStep ==
    \/ SchedRead \/ SchedApply \/ SchedClaim \/ SchedLoad \/ SchedCheck
    \/ SchedUpload \/ SchedStart \/ SchedMarkStarted \/ SchedUpsert
    \/ SchedMarkFailed

Requests == {r \in Strategies \X PrinterIds :
               (r[1] = "manual") = (r[2] # NoPrinter)}

Handler(w) ==
    \/ \E j \in Jobs :
         \/ CancelRead(w, j)
         \/ RetryRead(w, j)
         \/ \E r \in Requests \cup {Unrouted}, index \in 0..Cardinality(Queued) :
              PatchRead(w, j, r, index)
    \/ Commit(w)

Next ==
    \/ \E j \in Jobs, r \in Requests : Enqueue(j, r[1], r[2])
    \/ \E w \in Workers : Handler(w)
    \/ \E p \in Printers : PrinterChange(p) \/ DefaultChange(p)
    \/ \E j \in Jobs : AccessChange(j)
    \/ SchedStep
    \/ SchedFault
    \/ Crash
    \/ Restart

Spec == Init /\ [][Next]_vars

\* The scheduler task keeps running, the process is restarted after a crash
\* and a request that has been read commits.
Fairness ==
    /\ WF_vars(SchedStep)
    /\ WF_vars(Restart)
    /\ \A w \in Workers : WF_vars(Commit(w))

FairSpec == Spec /\ Fairness
-----------------------------------------------------------------------------
(* Properties *)

InFlight == {"claimed", "loaded", "checked", "uploaded", "accepted", "recorded",
             "failing"}
Holds(j) == sched.job = j /\ sched.pc \in InFlight

\* A print the printer accepted and that no failing STARTED record accounts for.
Spent(j) == starts[j] > written[j]

\* Every physical print of a job beyond the first is paid for by one whose
\* record, STARTED or outcome unknown, was lost to a failing write: claims, retries, crashes, cancels and edits
\* together never send the same job to a printer twice.
AtMostOnceStart == \A j \in Jobs : starts[j] <= written[j] + 1

\* A job the scheduler may pick, or that an operator is offered to retry, has
\* no print outstanding: an upload or start whose answer was lost is never
\* offered again (retryable = code != "dispatch_outcome_unknown").
NoRetryAfterPrint ==
    \A j \in Jobs :
        (\/ job[j].state = "queued"
         \/ job[j].state = "failed" /\ job[j].retryable)
            => ~Spent(j)

\* A row in UPLOADING always has someone who will move it on: the scheduler
\* that claimed it, the next start of the process, or a failing FAILED record.
UploadsAttended ==
    \A j \in Jobs :
        job[j].state = "uploading" => Holds(j) \/ ~Up \/ j \in stranded

\* A cancel that commits before the claim is final: the claim's WHERE clause
\* sees it, and the job is neither moved nor printed any more.
CancelBeforeClaimIsFinal ==
    [][\A j \in Jobs :
         (job[j].state = "cancelled" /\ ~job[j].claimed)
            => (job'[j].state = "cancelled" /\ starts'[j] = starts[j])]_vars

\* Every claim is resolved: the job leaves UPLOADING, through the dispatch
\* itself or through the reconciliation at the next start, unless the write
\* that records its failure is lost.
ClaimsResolve ==
    \A j \in Jobs :
        (job[j].state = "uploading") ~>
            (job[j].state # "uploading" \/ j \in stranded)

\* A job that could be printed all along does not stay queued for ever, unless
\* as many rows that cannot be printed wait as fill a batch: those may hide it.
Printable(j) == \E lb \in LeastBusy : Accepts(j, lb)
Room == Cardinality({k \in Waiting : ~Printable(k)}) < BatchSize
PrintableJobsLeave ==
    \A j \in Jobs : ~<>[](job[j].state = "queued" /\ Printable(j) /\ Room)

\* The queue seen as offers of jobs: PrintOnce is what the whole machinery of
\* claims, unit-of-work commits, retries and reconciliation implements.
OfferOf(j) == IF Holds(j) THEN "taken"
              ELSE IF job[j].state = "queued" THEN "open" ELSE "closed"
Once == INSTANCE PrintOnce
          WITH offer <- [j \in Jobs |-> OfferOf(j)],
               prints <- starts, writtenOff <- written
ImplementsPrintOnce == Once!Spec
ImplementsFairPrintOnce == Once!FairSpec

-----------------------------------------------------------------------------
(* The inductive invariant: why the safety properties hold *)

\* The retry thread w is about to write row j.
Retries(w, j) == worker[w].kind = "retry" /\ worker[w].new[j] # worker[w].read[j]

\* The scheduler's locals.
SchedInv ==
    /\ sched.pc \in InFlight \cup {"claiming"} => sched.job \in Jobs
    /\ sched.pc = "failing" => sched.code # "none"

\* Rows: what state, claim and retry flag say about each other.
RowInv ==
    \A j \in Jobs :
        /\ job[j].state = "queued" => ~job[j].claimed /\ ~job[j].retryable
        /\ job[j].state = "uploading" => job[j].claimed
        /\ job[j].retryable => job[j].claimed
        /\ job[j].state = "absent" => ~Spent(j)

\* The row of the dispatch in flight is claimed, whatever a stale commit has
\* made of its state, and cannot be claimed or retried.
HeldInv ==
    \A j \in Jobs :
        Holds(j) => /\ job[j].state \notin {"queued", "absent"}
                    /\ job[j].claimed
                    /\ ~job[j].retryable
                    /\ sched.pc = "recorded" => job[j].state # "uploading"

\* How many prints the dispatch in flight has behind it.
PrintInv ==
    \A j \in Jobs :
        /\ written[j] <= starts[j]
        /\ (Holds(j) /\ sched.pc \in {"claimed", "loaded", "checked", "uploaded"})
             => ~Spent(j)
        /\ (Holds(j) /\ sched.pc = "failing" /\ sched.code = "known") => ~Spent(j)
        /\ (Holds(j) /\ sched.pc \in {"accepted", "recorded"}) => Spent(j)

\* Pending units of work: an edit only cancels, and only one retry is under
\* way, of a row nobody else will queue, claim or print.
EditInv ==
    \A w \in Workers : worker[w].kind = "edit" =>
        \A j \in Jobs :
            /\ worker[w].new[j].state \in {worker[w].read[j].state, "cancelled"}
            /\ worker[w].new[j].claimed = worker[w].read[j].claimed
            /\ worker[w].new[j].retryable = worker[w].read[j].retryable
RetryInv ==
    /\ \A v, w \in Workers :
         worker[v].kind = "retry" /\ worker[w].kind = "retry" => v = w
    /\ \A w \in Workers, j \in Jobs : Retries(w, j) =>
         /\ worker[w].read[j].state = "failed"
         /\ worker[w].read[j].retryable /\ worker[w].read[j].claimed
         /\ worker[w].new[j].state = "queued"
         /\ ~worker[w].new[j].retryable /\ ~worker[w].new[j].claimed
         /\ ~Holds(j) /\ ~Spent(j)
         /\ job[j].state \in {"failed", "cancelled"}
         /\ job[j].claimed

\* A unit of work changes the state of one row; a reorder changes positions.
OneRowInv ==
    \A w \in Workers, i, j \in Jobs :
        (/\ worker[w].new[i].state # worker[w].read[i].state
         /\ worker[w].new[j].state # worker[w].read[j].state) => i = j

IInv == /\ TypeOK
        /\ SchedInv /\ RowInv /\ HeldInv /\ PrintInv /\ EditInv /\ RetryInv
        /\ AtMostOnceStart /\ NoRetryAfterPrint /\ UploadsAttended

=============================================================================
