----------------------------- MODULE PrinterHub -----------------------------
(***************************************************************************)
(* One printer as the vault sees it: the printer itself, the hub worker    *)
(* that turns its status reports into rows of print_jobs, and the sends,   *)
(* cancels and retries that write the same rows (services/printer_hub.py,  *)
(* services/printer_jobs.py, services/fleet.py, api/v1/printers.py).       *)
(*                                                                         *)
(* A status report is processed on the event loop up to a call of          *)
(* asyncio.to_thread; from there a worker thread reads the row the report  *)
(* is about and later commits the columns that changed.  Rows carry no     *)
(* identity of the printer's run: they are matched by file name.           *)
(***************************************************************************)
EXTENDS Naturals, FiniteSets

CONSTANTS
    Jobs,         \* row ids, handed out in order of created_at
    Files,        \* remote file names
    NoFile,       \* the printer reports no file
    Endings,      \* how runs end, of the states told apart
    Generations,  \* hub workers of this printer, 0 and one per restart
    MaxRequests,  \* bound on rows created by requests
    MaxRuns,      \* bound on prints the printer starts
    MaxRetries,   \* bound on retries of failed jobs
    MaxMishaps    \* bound on cancels through the API, process restarts, worker
                  \* restarts, failing syncs, failing records of a transfer and
                  \* claims of placeholders, taken together

ASSUME JobsAssumption == Jobs \subseteq Nat \ {0} /\ IsFiniteSet(Jobs)
ASSUME FilesAssumption == NoFile \notin Files
ASSUME EndingsAssumption == Endings \subseteq {"complete", "cancelled", "error", "failed"}
ASSUME GenerationsAssumption == Generations \subseteq Nat /\ 0 \in Generations
ASSUME BoundsAssumption ==
    /\ MaxRequests \in Nat /\ MaxRuns \in Nat
    /\ MaxRetries \in Nat /\ MaxMishaps \in Nat

VARIABLES
    job,       \* job[j]: the columns of row j the hub and the sends use
    phys,      \* the printer's print_stats, and the number of its run
    ready,     \* Printer.status is READY
    transfer,  \* transfer[j]: the send of j that is under way
    pending,   \* the cancel or retry that has read its rows and not committed
    sync,      \* sync[t]: the report worker t is processing
    worker,    \* the generation of the running worker
    cache,     \* _active_job_cache of this printer
    notified,  \* history: terminal notifications enqueued for j
    retried,   \* history: how often j was retried, and how many notifications
               \* had been enqueued for it by the last time
    captured,  \* history: placeholders inserted for reports of a run
    used       \* how much of each bound has been used

vars == <<job, phys, ready, transfer, pending, sync, worker, cache, notified, retried,
          captured, used>>

-----------------------------------------------------------------------------
States == {"absent", "queued", "uploading", "started", "printing", "paused",
           "completed", "cancelled", "failed"}
Terminal == {"completed", "cancelled", "failed"}

Row == [state : States, claimed : BOOLEAN, finished : BOOLEAN, retryable : BOOLEAN,
        file : Files \cup {NoFile}, source : {"vault", "external"}]
NoRow == [state |-> "absent", claimed |-> FALSE, finished |-> FALSE,
          retryable |-> FALSE, file |-> NoFile, source |-> "vault"]

\* print_stats.state: what the printer reports of its current or last run.
Busy == {"printing", "paused"}
Ended == {"complete", "cancelled", "error", "failed"}
PhysStates == {"standby"} \cup Busy \cup Ended

\* _STATE_MAP, as far as READY and the rest are told apart.
MapsToReady(state) == state \in {"standby", "complete", "cancelled"}

\* Mutants: the printer's own words are stored; a cancelled print is not an end.
NewStateRaw(state, now) == state
NewStateNotCancelled(state, now) ==
    CASE state = "printing" -> "printing"
      [] state = "paused" -> "paused"
      [] state = "complete" -> "completed"
      [] state \in {"error", "failed"} -> "failed"
      [] OTHER -> now

\* The state _sync_active_job_db gives a row.
NewState(state, now) ==
    CASE state = "printing" -> "printing"
      [] state = "paused" -> "paused"
      [] state = "complete" -> "completed"
      [] state = "cancelled" -> "cancelled"
      [] state \in {"error", "failed"} -> "failed"
      [] OTHER -> now

Exists(j) == job[j].state # "absent"
NextId(j) == ~Exists(j) /\ \A k \in Jobs : k < j => Exists(k)

Idle == [pc |-> "idle", state |-> "standby", file |-> NoFile, run |-> 0,
         job |-> 0, read |-> "absent"]
NoCache == [file |-> NoFile, job |-> 0]
NoSend == [kind |-> "none", step |-> "done"]
NoPending == [kind |-> "none", rows |-> {}]

TypeOK ==
    /\ job \in [Jobs -> Row]
    /\ phys \in [state : PhysStates, file : Files \cup {NoFile}, run : Nat]
    /\ ready \in BOOLEAN
    /\ transfer \in [Jobs -> [kind : {"none", "fleet", "send", "copy", "start"},
                              step : {"done", "sending", "accepted", "failing", "unknown"}]]
    /\ pending \in [kind : {"none", "cancel", "retry"}, rows : SUBSET Jobs]
    /\ sync \in [Generations -> [pc : {"idle", "called", "missing", "found"},
                                 state : PhysStates, file : Files \cup {NoFile},
                                 run : Nat, job : Jobs \cup {0}, read : States]]
    /\ worker \in Generations
    /\ cache \in [file : Files \cup {NoFile}, job : Jobs \cup {0}]
    /\ notified \in [Jobs -> Nat]
    /\ retried \in [Jobs -> [times : Nat, notices : Nat]]
    /\ captured \in [1..MaxRuns -> Nat]
    /\ used \in [requests : Nat, retries : Nat, mishaps : Nat]

Init ==
    /\ job = [j \in Jobs |-> NoRow]
    /\ phys = [state |-> "standby", file |-> NoFile, run |-> 0]
    /\ ready = FALSE
    /\ transfer = [j \in Jobs |-> NoSend]
    /\ pending = NoPending
    /\ sync = [t \in Generations |-> Idle]
    /\ worker = 0
    /\ cache = NoCache
    /\ notified = [j \in Jobs |-> 0]
    /\ retried = [j \in Jobs |-> [times |-> 0, notices |-> 0]]
    /\ captured = [r \in 1..MaxRuns |-> 0]
    /\ used = [requests |-> 0, retries |-> 0, mishaps |-> 0]

Mishap == /\ used.mishaps < MaxMishaps
          /\ used' = [used EXCEPT !.mishaps = @ + 1]

Hub == <<ready, sync, worker, cache, notified, captured>>
Asked == <<pending, retried>>

-----------------------------------------------------------------------------
(* The printer *)

Run(f) ==
    /\ phys.state \notin Busy
    /\ phys.run < MaxRuns
    /\ phys' = [state |-> "printing", file |-> f, run |-> phys.run + 1]

\* A print started at the printer's own panel, paused, resumed, ended, cleared.
PanelStart(f) == Run(f) /\ UNCHANGED <<job, Hub, transfer, Asked, used>>
PanelStep ==
    /\ \/ /\ phys.state \in Busy
          /\ \E s \in (Busy \cup Endings) \ {phys.state} :
               phys' = [phys EXCEPT !.state = s]
       \/ /\ phys.state \in Ended
          /\ phys' = [phys EXCEPT !.state = "standby", !.file = NoFile]
    /\ UNCHANGED <<job, Hub, transfer, Asked, used>>

-----------------------------------------------------------------------------
(* Requests and sends *)

\* A request inserts row j: enqueue_job, send_to_printer (with or without
\* start_print) and start_printer_file.
Request(j, f, kind, row) ==
    /\ NextId(j)
    /\ used.requests < MaxRequests
    /\ used' = [used EXCEPT !.requests = @ + 1]
    /\ job' = [job EXCEPT ![j] = row]
    /\ transfer' = [transfer EXCEPT ![j] =
                      IF kind = "fleet" THEN NoSend
                      ELSE [kind |-> kind, step |-> "sending"]]
    /\ UNCHANGED <<phys, Hub, Asked>>

Enqueue(j, f) ==
    Request(j, f, "fleet", [NoRow EXCEPT !.state = "queued", !.file = f])
Send(j, f) ==
    \E kind \in {"send", "copy"} :
        Request(j, f, kind, [NoRow EXCEPT !.state = "uploading", !.file = f])
StartFile(j, f, source) ==
    Request(j, f, "start",
            [NoRow EXCEPT !.state = "started", !.file = f, !.source = source])

\* The scheduler claims a queued row for this printer; which one is the
\* queue's business (FleetDispatch).  A placeholder whose second commit is
\* still to come, or failed, is a queued row like any other.
Claim(j) ==
    /\ job[j].state = "queued" /\ ~job[j].claimed
    /\ ready
    /\ \A k \in Jobs : transfer[k].kind # "fleet"
    /\ \/ job[j].source = "vault" /\ UNCHANGED used
       \/ job[j].source = "external" /\ Mishap
    /\ job' = [job EXCEPT ![j] = [@ EXCEPT !.state = "uploading", !.claimed = TRUE]]
    /\ transfer' = [transfer EXCEPT ![j] = [kind |-> "fleet", step |-> "sending"]]
    /\ UNCHANGED <<phys, Hub, Asked>>

Step(j, step) == transfer' = [transfer EXCEPT ![j].step = step]

\* How a transfer fails.  The scheduler tells an upload or start whose outcome it
\* does not know from every other error, but for a temporary file that cannot be
\* removed, whose error takes the place of the first.
Fails(j) ==
    \/ Step(j, "failing")
    \/ transfer[j].kind = "fleet" /\ Step(j, "unknown")

\* transfer_artifact, provider.start: the printer accepts, and the answer may
\* be lost.  A start of a remote file writes nothing when it is accepted.
Accept(j) ==
    /\ transfer[j].step = "sending" /\ transfer[j].kind # "copy"
    /\ Run(job[j].file)
    /\ \/ IF transfer[j].kind = "start"
          THEN transfer' = [transfer EXCEPT ![j] = NoSend]
          ELSE Step(j, "accepted")
       \/ Fails(j)
    /\ UNCHANGED <<job, Hub, Asked, used>>

\* An upload without a start.
Copy(j) ==
    /\ transfer[j].step = "sending" /\ transfer[j].kind = "copy"
    /\ Step(j, "accepted")
    /\ UNCHANGED <<job, phys, Hub, Asked, used>>

\* Any error of the transfer.
Refuse(j) ==
    /\ transfer[j].step = "sending"
    /\ Fails(j)
    /\ UNCHANGED <<job, phys, Hub, Asked, used>>

\* Mutant: recording the start reopens the row.
RecordReopens(j) ==
    /\ transfer[j].step = "accepted"
    /\ job' = [job EXCEPT ![j] = [@ EXCEPT !.state = "started", !.finished = FALSE]]
    /\ transfer' = [transfer EXCEPT ![j] = NoSend]
    /\ UNCHANGED <<phys, Hub, Asked, used>>

\* The row of a finished transfer: STARTED, or COMPLETED for an upload only.  The
\* scheduler then notes the file on the printer, in a commit whose error fails the
\* job it has just started; after a direct send that error leaves the row alone.
Record(j) ==
    /\ transfer[j].step = "accepted"
    /\ job' = [job EXCEPT ![j] =
                 IF transfer[j].kind = "copy"
                 THEN [@ EXCEPT !.state = "completed", !.finished = TRUE]
                 ELSE [@ EXCEPT !.state = "started"]]
    /\ \/ transfer' = [transfer EXCEPT ![j] = NoSend]
       \/ transfer[j].kind = "fleet" /\ Step(j, "failing")
    /\ UNCHANGED <<phys, Hub, Asked, used>>

\* The row of a failed transfer.  Only the scheduler lets it be retried.
RecordFailed(j) ==
    /\ transfer[j].step \in {"failing", "unknown"}
    /\ LET again == IF transfer[j].kind = "fleet"
                    THEN transfer[j].step = "failing"
                    ELSE job[j].retryable
       IN  job' = [job EXCEPT ![j] = [@ EXCEPT !.state = "failed", !.finished = TRUE,
                                               !.retryable = again]]
    /\ transfer' = [transfer EXCEPT ![j] = NoSend]
    /\ UNCHANGED <<phys, Hub, Asked, used>>

\* The commit of a record fails: the scheduler turns a job it could not record as
\* started into a failed one, and gives up on one it could not record as failed.
RecordLost(j) ==
    /\ transfer[j].step \in {"accepted", "failing", "unknown"}
    /\ Mishap
    /\ IF transfer[j].kind = "fleet" /\ transfer[j].step = "accepted"
       THEN Step(j, "failing")
       ELSE transfer' = [transfer EXCEPT ![j] = NoSend]
    /\ UNCHANGED <<job, phys, Hub, Asked>>

-----------------------------------------------------------------------------
(* Cancels and retries: rows are read, and written in a later commit.  The   *)
(* handlers of one printer are taken one at a time, the threads of the hub   *)
(* and of the scheduler go on between the two.                               *)

Ask(kind, rows) ==
    /\ pending = NoPending /\ rows # {}
    /\ IF kind = "cancel" THEN used.mishaps < MaxMishaps ELSE used.retries < MaxRetries
    /\ pending' = [kind |-> kind, rows |-> rows]
    /\ UNCHANGED <<job, Hub, transfer, retried, used>>

\* cancel_printer, once the provider has accepted: print_stats follows now or
\* later, if there is a print to cancel.  Without a job under way nothing is written.
CancelRead ==
    /\ \/ phys.state \in Busy /\ phys' = [phys EXCEPT !.state = "cancelled"]
       \/ UNCHANGED phys
    /\ Ask("cancel", {j \in Jobs : job[j].state \in {"started", "printing", "paused"}})

\* cancel_queue_job.
CancelQueuedRead(j) ==
    /\ job[j].state = "queued"
    /\ Ask("cancel", {j})
    /\ UNCHANGED phys

CancelCommit ==
    /\ pending.kind = "cancel"
    /\ Mishap
    /\ pending' = NoPending
    /\ job' = [j \in Jobs |->
                 IF j \in pending.rows
                 THEN [job[j] EXCEPT !.state = "cancelled", !.finished = TRUE]
                 ELSE job[j]]
    /\ UNCHANGED <<phys, Hub, transfer, retried>>

\* retry_queue_job: a failed job is queued again, its end forgotten.
RetryRead(j) ==
    /\ job[j].state = "failed" /\ job[j].retryable
    /\ Ask("retry", {j})
    /\ UNCHANGED phys

RetryCommit(j) ==
    /\ pending = [kind |-> "retry", rows |-> {j}]
    /\ used.retries < MaxRetries
    /\ used' = [used EXCEPT !.retries = @ + 1]
    /\ pending' = NoPending
    /\ job' = [job EXCEPT ![j] = [@ EXCEPT !.state = "queued", !.claimed = FALSE,
                                           !.finished = FALSE, !.retryable = FALSE]]
    /\ retried' = [retried EXCEPT ![j] = [times |-> @.times + 1, notices |-> notified[j]]]
    /\ UNCHANGED <<phys, Hub, transfer>>

-----------------------------------------------------------------------------
(* The hub worker *)

Vault == <<job, phys, transfer, Asked>>

\* _handle_status: the worker receives a report, writes the printer's status,
\* unless that was done lately, the gate is closed or the write fails, and, when
\* the report names a file, calls _sync_active_job in a thread.  The call is left
\* out when an equal one was made in the last seconds, while the breaker is open
\* and while the maintenance gate is closed.
Report ==
    /\ sync[worker].pc = "idle"
    /\ ready' \in {MapsToReady(phys.state), ready}
    /\ \/ /\ phys.file # NoFile
          /\ sync' = [sync EXCEPT ![worker] =
                        [Idle EXCEPT !.pc = "called", !.state = phys.state,
                                     !.file = phys.file, !.run = phys.run]]
       \/ UNCHANGED sync
    /\ UNCHANGED <<Vault, worker, cache, notified, captured, used>>

\* The printer cannot be reached: _mark_status OFFLINE.
Unreachable ==
    /\ sync[worker].pc = "idle"
    /\ ready' = FALSE
    /\ UNCHANGED <<Vault, sync, worker, cache, notified, captured, used>>

\* The row a report is about: the cached one, else the newest of its file.
Latest(f) ==
    IF \E j \in Jobs : Exists(j) /\ job[j].file = f
    THEN CHOOSE j \in Jobs :
            /\ Exists(j) /\ job[j].file = f
            /\ \A k \in Jobs : Exists(k) /\ job[k].file = f => k <= j
    ELSE 0
Cached(f) == IF cache.file = f THEN cache.job ELSE Latest(f)

\* Mutant: a finished row is taken for the live print.
ReadRevives(t) ==
    /\ sync[t].pc = "called"
    /\ LET s == sync[t]
           j == Cached(s.file)
       IN  IF j # 0
           THEN /\ cache' = [file |-> s.file, job |-> j]
                /\ sync' = [sync EXCEPT ![t] =
                     [s EXCEPT !.pc = "found", !.job = j, !.read = job[j].state]]
           ELSE /\ sync' = [sync EXCEPT ![t].pc = "missing"]
                /\ UNCHANGED cache
    /\ UNCHANGED <<Vault, ready, worker, notified, captured, used>>

\* Mutant: any report about a finished row inserts a placeholder.
ReadDuplicates(t) ==
    /\ sync[t].pc = "called"
    /\ LET j == Cached(sync[t].file) IN
         \/ /\ IF j = 0 THEN TRUE ELSE job[j].finished
            /\ sync' = [sync EXCEPT ![t].pc = "missing"]
            /\ UNCHANGED cache
         \/ /\ IF j = 0 THEN FALSE ELSE ~job[j].finished
            /\ cache' = [file |-> sync[t].file, job |-> j]
            /\ sync' = [sync EXCEPT ![t] =
                          [@ EXCEPT !.pc = "found", !.job = j, !.read = job[j].state]]
    /\ UNCHANGED <<Vault, ready, worker, notified, captured, used>>

\* _sync_active_job_db, up to what it does next: write a row that is not
\* finished, insert a placeholder, or nothing.
Read(t) ==
    /\ sync[t].pc = "called"
    /\ LET s == sync[t]
           j == Cached(s.file)
           live == IF j = 0 THEN FALSE ELSE ~job[j].finished
       IN  \/ /\ live
              /\ cache' = [file |-> s.file, job |-> j]
              /\ sync' = [sync EXCEPT ![t] =
                            [s EXCEPT !.pc = "found", !.job = j,
                                      !.read = job[j].state]]
           \/ /\ ~live
              /\ \/ j # 0 /\ s.state \in Busy
                 \/ j = 0 /\ s.state \in Busy \cup {"complete", "cancelled", "error"}
              /\ cache' = IF j = 0 THEN cache ELSE NoCache
              /\ sync' = [sync EXCEPT ![t].pc = "missing"]
           \/ /\ ~live
              /\ \/ j # 0 /\ s.state \notin Busy
                 \/ j = 0 /\ s.state \in {"standby", "failed"}
              /\ sync' = [sync EXCEPT ![t] = Idle]
              /\ UNCHANGED cache
    /\ UNCHANGED <<Vault, ready, worker, notified, captured, used>>

\* The placeholder's own commit; its state is the column's default.
Capture(t) ==
    /\ sync[t].pc = "missing"
    /\ \E j \in Jobs :
         LET row == [NoRow EXCEPT !.state = "queued", !.file = sync[t].file,
                                  !.source = "external"]
         IN  /\ NextId(j)
             /\ job' = [job EXCEPT ![j] = row]
             /\ cache' = [file |-> sync[t].file, job |-> j]
             /\ sync' = [sync EXCEPT ![t] =
                           [@ EXCEPT !.pc = "found", !.job = j, !.read = row.state]]
    /\ captured' = [captured EXCEPT ![sync[t].run] = @ + 1]
    /\ UNCHANGED <<phys, transfer, Asked, ready, worker, notified, used>>

\* The commit of the row: dirty columns, and with the first terminal state its
\* notification in the same transaction.  The row was not finished when read.
Write(t) ==
    /\ sync[t].pc = "found"
    /\ LET s == sync[t]
           new == NewState(s.state, s.read)
           finished == new \in Terminal
       IN  /\ job' = [job EXCEPT ![s.job].state = IF new # s.read THEN new ELSE @,
                                ![s.job].finished = @ \/ finished]
           /\ notified' = [notified EXCEPT ![s.job] = IF finished THEN @ + 1 ELSE @]
    /\ sync' = [sync EXCEPT ![t] = Idle]
    /\ UNCHANGED <<phys, transfer, Asked, ready, worker, cache, captured, used>>

\* The sync raises; the breaker counts it and later reports try again.
Fault(t) ==
    /\ sync[t].pc # "idle"
    /\ Mishap
    /\ sync' = [sync EXCEPT ![t] = Idle]
    /\ UNCHANGED <<Vault, ready, worker, cache, notified, captured>>

\* restart_printer: the worker task is cancelled and replaced.  A thread that
\* has been started goes on; the cache stays.  A restart between two reports
\* changes nothing.
Restart ==
    /\ Mishap
    /\ sync[worker].pc # "idle"
    /\ worker + 1 \in Generations
    /\ worker' = worker + 1
    /\ UNCHANGED <<Vault, ready, sync, cache, notified, captured>>

\* The process dies and starts again: transfers, requests, threads and the cache
\* are gone and reconcile_stranded_dispatches fails the claimed uploads.
Crash ==
    /\ Mishap
    /\ transfer' = [j \in Jobs |-> NoSend]
    /\ pending' = NoPending
    /\ sync' = [t \in Generations |-> Idle]
    /\ cache' = NoCache
    /\ job' = [j \in Jobs |->
                 IF job[j].state = "uploading" /\ job[j].claimed
                 THEN [job[j] EXCEPT !.state = "failed", !.finished = TRUE,
                                     !.retryable = FALSE]
                 ELSE job[j]]
    /\ UNCHANGED <<phys, ready, worker, notified, retried, captured>>

-----------------------------------------------------------------------------
SyncStep(t) == Read(t) \/ Capture(t) \/ Write(t)

Next ==
    \/ \E f \in Files :
         \/ PanelStart(f)
         \/ \E j \in Jobs : Enqueue(j, f) \/ Send(j, f)
         \/ \E j \in Jobs, source \in {"vault", "external"} : StartFile(j, f, source)
    \/ PanelStep
    \/ \E j \in Jobs :
         \/ Claim(j) \/ Accept(j) \/ Copy(j) \/ Refuse(j)
         \/ Record(j) \/ RecordFailed(j) \/ RecordLost(j)
         \/ CancelQueuedRead(j) \/ RetryRead(j) \/ RetryCommit(j)
    \/ CancelRead \/ CancelCommit
    \/ Report \/ Unreachable \/ Restart \/ Crash
    \/ \E t \in Generations : SyncStep(t) \/ Fault(t)

Spec == Init /\ [][Next]_vars

\* Reports that reach the database keep coming and a sync that was called comes
\* to its end.
Fairness == /\ WF_vars(Report /\ sync' # sync)
            /\ \A t \in Generations : WF_vars(SyncStep(t))
FairSpec == Spec /\ Fairness

-----------------------------------------------------------------------------
(* Properties *)

\* A job's end is announced once.  Announced again it is by a thread left behind
\* by a restart of the worker, once each, and by the reports that come after a
\* retry, once for each retry: a report of an older run of the file ends the job
\* while it is being sent, the send fails, and a retry forgets that end.
NoticesPaidFor ==
    \A j \in Jobs : notified[j] <= 1 + worker + retried[j].times

\* A notification and finished_at are one transaction, and only a retry unfinishes
\* a row: a job announced since it was last queued is finished, whatever sends,
\* cancels and late reports write.
NoticeMeansFinished ==
    \A j \in Jobs : notified[j] > retried[j].notices => job[j].finished

\* A run of the printer is captured by one placeholder.  Each further one has
\* a cause: a cancel overtaken by an older report, a failing sync, a process
\* restart, which loses the cache, a placeholder claimed as if it were a queued
\* job.  A restart of the worker is two: the thread it
\* leaves behind can put the row of an older run into the cache when it reads
\* and again when it inserts a placeholder, and each time the row of the run is
\* to be guessed from its file name.
PlaceholdersPaidFor ==
    \A r \in 1..MaxRuns : captured[r] <= 1 + used.mishaps + worker

\* A printer that rests after a run does not leave the job it is tracked by
\* unfinished for ever.
Unclosed ==
    /\ cache.job \in Jobs /\ cache.file = phys.file
    /\ phys.state \in Ended
    /\ ~job[cache.job].finished
TrackedJobCloses == ~<>[]Unclosed

-----------------------------------------------------------------------------
\* Known not to hold.

\* printer_hub.py: a placeholder is created "if no matching PrintJob exists";
\* the newest row of the file, started and not finished, is one.
PlaceholderOnlyWhenUnmatched ==
    [][\A t \in Generations :
         (sync[t].pc = "called" /\ sync'[t].pc = "missing")
            => LET j == Latest(sync[t].file) IN
               j # 0 => job[j].state # "started" \/ job[j].finished]_vars
=============================================================================
