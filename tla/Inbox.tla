-------------------------------- MODULE Inbox --------------------------------
(***************************************************************************)
(* One pending import (services/inbox.py, api/v1/inbox.py): a captured URL *)
(* is resolved into choices, reviewed and imported by background tasks,    *)
(* while requests edit, retry and dismiss it and the repair of an audit    *)
(* finding takes it back (services/vault_audit.py), its task running or    *)
(* not.  A task and a request alike read the row, decide, and commit the   *)
(* columns they changed; the commit does not ask what has become of the    *)
(* row in between.  Items share nothing, so one item stands for all.       *)
(***************************************************************************)
EXTENDS Naturals, FiniteSets

CONSTANTS
    Procs,      \* requests and background tasks, each used once
    MaxMishaps  \* bound on crashes and failing writes together

ASSUME ProcsAssumption == IsFiniteSet(Procs) /\ "none" \notin Procs
ASSUME BoundsAssumption == MaxMishaps \in Nat

VARIABLES
    row,       \* the InboxItem row
    file,      \* the staged archive is on disk (incoming/inbox/<id>/source)
    proc,      \* proc[p]: the request or task p
    job,       \* job[p]: state of the BackgroundJob of import p
    imported,  \* history: imports that have persisted models
    repairs,   \* history: repairs that took back an item in IMPORTING
    doubt,     \* history: known departures that have happened
    mishaps    \* crashes and failing writes so far

vars == <<row, file, proc, job, imported, repairs, doubt, mishaps>>

-----------------------------------------------------------------------------
States == {"captured", "resolving", "review", "importing", "completed", "failed",
           "dismissed"}
Busy == {"resolving", "importing"}

\* manifest: "choice" is one that holds selected_ids and nothing else.
Row == [exists : BOOLEAN, state : States,
        manifest : {"none", "choice", "archive", "other"},
        staged : BOOLEAN, job : Procs \cup {"none"}, retryable : BOOLEAN]
NoRow == [exists |-> FALSE, state |-> "captured", manifest |-> "none",
          staged |-> FALSE, job |-> "none", retryable |-> FALSE]

\* An item that was resolved some time ago.
Reviewed == [NoRow EXCEPT !.exists = TRUE, !.state = "review", !.manifest = "archive",
                          !.staged = TRUE]

\* seen: the row as the unit of work under way, or the start of the task, read it.
Roles == {"resolve", "import", "dismiss", "retry", "choose", "repair"}
Proc == [role : Roles,
         pc : {"none", "queued", "begun", "working", "ingesting", "persisted",
               "ready", "ending", "broken", "failing", "asked", "done"},
         seen : Row, archive : BOOLEAN]
NoProc == [role |-> "resolve", pc |-> "none", seen |-> NoRow, archive |-> FALSE]

TypeOK ==
    /\ row \in Row
    /\ file \in BOOLEAN
    /\ proc \in [Procs -> Proc]
    /\ job \in [Procs -> {"none", "pending", "running", "completed", "failed"}]
    /\ imported \in Nat
    /\ repairs \in Nat
    /\ doubt \in [stale : BOOLEAN, lost : BOOLEAN, stuck : BOOLEAN]
    /\ mishaps \in Nat

Init ==
    /\ row \in {NoRow, Reviewed}
    /\ file = row.staged
    /\ proc = [p \in Procs |-> NoProc]
    /\ job = [p \in Procs |-> "none"]
    /\ imported = 0
    /\ repairs = 0
    /\ doubt = [stale |-> FALSE, lost |-> FALSE, stuck |-> FALSE]
    /\ mishaps = 0

Mishap == mishaps < MaxMishaps /\ mishaps' = mishaps + 1
Goto(p, pc) == proc' = [proc EXCEPT ![p].pc = pc]
At(p, role, pc) == proc[p].role = role /\ proc[p].pc = pc

\* A unit of work that read seen and leaves new commits the columns it changed.
Dirty(seen, new) == [c \in DOMAIN row |-> IF new[c] # seen[c] THEN new[c] ELSE row[c]]

\* The commit of p rests on a look at the row that is out of date, or it ends a
\* task on a row that is no longer in the state the task put it in.  An item that
\* is stuck is so until it is no longer busy.
Stale(p, busy) == \/ row.state # proc[p].seen.state
                  \/ row.retryable # proc[p].seen.retryable
                  \/ row.state \notin busy
Noted(stale) == [doubt EXCEPT !.stale = @ \/ stale,
                              !.stuck = @ /\ row'.state \in Busy]
Commit(p, new, busy, pc) ==
    /\ row' = Dirty(proc[p].seen, new)
    /\ doubt' = Noted(Stale(p, busy))
    /\ Goto(p, pc)

\* A new request or task, with the row it has looked at.
Enter(p, role, pc) ==
    /\ proc[p].pc = "none"
    /\ proc' = [proc EXCEPT ![p] = [role |-> role, pc |-> pc, seen |-> row,
                                    archive |-> FALSE]]

-----------------------------------------------------------------------------
(* Requests *)

\* create, and the task that resolves the new item
Capture(p) ==
    /\ ~row.exists /\ row.state = "captured"
    /\ row' = [row EXCEPT !.exists = TRUE]
    /\ Enter(p, "resolve", "queued")
    /\ UNCHANGED <<file, job, imported, repairs, doubt, mishaps>>

\* resolve_item, import_item and the import of batch_items look at the state and
\* leave the rest to a background task.
Schedule(p) ==
    /\ row.exists
    /\ \/ row.state \in {"captured", "failed"} /\ Enter(p, "resolve", "queued")
       \/ row.state = "review" /\ Enter(p, "import", "queued")
    /\ UNCHANGED <<row, file, job, imported, repairs, doubt, mishaps>>

\* update_item with selected_ids: the whole manifest is written.
AskChoose(p) ==
    /\ row.exists
    /\ row.state \notin {"importing", "completed", "dismissed"}
    /\ Enter(p, "choose", "asked")
    /\ UNCHANGED <<row, file, job, imported, repairs, doubt, mishaps>>

Choose(p) ==
    /\ At(p, "choose", "asked")
    /\ LET seen == proc[p].seen
           chosen == IF seen.manifest = "none" THEN "choice" ELSE seen.manifest
       IN row' = [row EXCEPT !.manifest = chosen]
    /\ doubt' = Noted(row.manifest # proc[p].seen.manifest \/ Stale(p, States))
    /\ Goto(p, "done")
    /\ UNCHANGED <<file, job, imported, repairs, mishaps>>

AskRetry(p) ==
    /\ row.exists
    /\ row.state = "failed" /\ row.retryable
    /\ Enter(p, "retry", "asked")
    /\ UNCHANGED <<row, file, job, imported, repairs, doubt, mishaps>>

\* retry; an item that goes back to CAPTURED is resolved again.
Retry(p) ==
    /\ At(p, "retry", "asked")
    /\ LET seen == proc[p].seen
           to == IF seen.manifest = "none" THEN "captured" ELSE "review"
       IN /\ row' = Dirty(seen, [seen EXCEPT !.state = to, !.retryable = FALSE])
          /\ proc' = [proc EXCEPT ![p].role = "resolve",
                        ![p].pc = IF to = "captured" THEN "queued" ELSE "done"]
    /\ doubt' = Noted(Stale(p, States))
    /\ UNCHANGED <<file, job, imported, repairs, mishaps>>

\* Mutant: an item is dismissed while it is being imported.
AskDismissBusy(p) ==
    /\ row.exists
    /\ Enter(p, "dismiss", "asked")
    /\ file' = (file /\ ~row.staged)
    /\ UNCHANGED <<row, job, imported, repairs, doubt, mishaps>>

\* dismiss removes the staged file of the row it has read before it commits.
AskDismiss(p) ==
    /\ row.exists
    /\ row.state # "importing"
    /\ Enter(p, "dismiss", "asked")
    /\ file' = (file /\ ~row.staged)
    /\ UNCHANGED <<row, job, imported, repairs, doubt, mishaps>>

Dismiss(p) ==
    /\ At(p, "dismiss", "asked")
    /\ Commit(p, [proc[p].seen EXCEPT !.state = "dismissed", !.staged = FALSE],
              States, "done")
    /\ UNCHANGED <<file, job, imported, repairs, mishaps>>

\* repair_finding, retry_pending_import: an audit lists items that have failed and
\* items that are busy for long; the repair of its finding asks for the state once
\* more, and not whether a task is still at work on the item.
AskRepair(p) ==
    /\ row.exists
    /\ row.state \in Busy \cup {"failed"}
    /\ Enter(p, "repair", "asked")
    /\ UNCHANGED <<row, file, job, imported, repairs, doubt, mishaps>>

Repair(p) ==
    /\ At(p, "repair", "asked")
    /\ LET seen == proc[p].seen
           to == IF seen.manifest = "none" THEN "captured" ELSE "review"
       IN Commit(p, [seen EXCEPT !.state = to, !.retryable = TRUE], States, "done")
    /\ repairs' = IF row.state = "importing" THEN repairs + 1 ELSE repairs
    /\ UNCHANGED <<file, job, imported, mishaps>>

\* prune_history: the row has been completed or dismissed for thirty days, and no
\* request or task lasts that long.
Prune ==
    /\ row.exists
    /\ row.state \in {"completed", "dismissed"}
    /\ \A p \in Procs : proc[p].pc \in {"none", "done"}
    /\ row' = [row EXCEPT !.exists = FALSE]
    /\ file' = FALSE
    /\ UNCHANGED <<proc, job, imported, repairs, doubt, mishaps>>

-----------------------------------------------------------------------------
(* The tasks: resolve and run_import *)

\* Mutant: an import may start whatever the item has become.
StartableAnyTime(role) ==
    row.exists /\ (role = "resolve" => row.state \in {"captured", "failed"})

\* What _begin_resolve and _begin_import require of the row they read.
Startable(role) == row.exists /\ \/ role = "resolve" /\ row.state \in {"captured", "failed"}
                                 \/ role = "import" /\ row.state = "review"

BeginRead(p) ==
    /\ proc[p].pc = "queued"
    /\ proc' = [proc EXCEPT ![p].pc = IF Startable(proc[p].role) THEN "begun" ELSE "done",
                            ![p].seen = row]
    /\ UNCHANGED <<row, file, job, imported, repairs, doubt, mishaps>>

\* The owner may no longer write to the target (_require_target): the exception
\* ends the task, and the row stays as it is.
BeginRefused(p) ==
    /\ At(p, "import", "begun")
    /\ Goto(p, "done")
    /\ UNCHANGED <<row, file, job, imported, repairs, doubt, mishaps>>

BeginResolve(p) ==
    /\ At(p, "resolve", "begun")
    /\ Commit(p, [proc[p].seen EXCEPT !.state = "resolving", !.retryable = FALSE],
              States, "working")
    /\ UNCHANGED <<file, job, imported, repairs, mishaps>>

\* The job is registered, pending, before the row is committed.
BeginImport(p) ==
    /\ At(p, "import", "begun")
    /\ Commit(p, [proc[p].seen EXCEPT !.state = "importing", !.retryable = FALSE,
                                      !.job = p], States, "working")
    /\ job' = [job EXCEPT ![p] = "pending"]
    /\ UNCHANGED <<file, imported, repairs, mishaps>>

\* The page is resolved, or its archive downloaded and moved to the one place the
\* item has for it (_prepare_archive).
Fetch(p) ==
    /\ At(p, "resolve", "working")
    /\ \E archive \in BOOLEAN :
         /\ proc' = [proc EXCEPT ![p].pc = "ready", ![p].archive = archive]
         /\ file' = (file \/ archive)
    /\ UNCHANGED <<row, job, imported, repairs, doubt, mishaps>>

FetchFails(p) ==
    /\ At(p, "resolve", "working")
    /\ Goto(p, "broken")
    /\ UNCHANGED <<row, file, job, imported, repairs, doubt, mishaps>>

\* The files to import are there: of an archive, the staged file of the row that
\* _begin_import read.  import_assets marks the job as running.
Ingest(p) ==
    /\ At(p, "import", "working")
    /\ proc[p].seen.manifest = "archive" => proc[p].seen.staged /\ file
    /\ job' = [job EXCEPT ![p] = "running"]
    /\ Goto(p, "ingesting")
    /\ UNCHANGED <<row, file, imported, repairs, doubt, mishaps>>

\* A download fails, or the staged archive is gone.
AssetsFail(p) ==
    /\ At(p, "import", "working")
    /\ Goto(p, "broken")
    /\ UNCHANGED <<row, file, job, imported, repairs, doubt, mishaps>>

Persist(p) ==
    /\ At(p, "import", "ingesting")
    /\ imported' = imported + 1
    /\ Goto(p, "persisted")
    /\ UNCHANGED <<row, file, job, repairs, doubt, mishaps>>

NothingImported(p) ==
    /\ At(p, "import", "ingesting")
    /\ job' = [job EXCEPT ![p] = "failed"]
    /\ Goto(p, "ready")
    /\ UNCHANGED <<row, file, imported, repairs, doubt, mishaps>>

JobCompletes(p) ==
    /\ At(p, "import", "persisted")
    /\ job' = [job EXCEPT ![p] = "completed"]
    /\ Goto(p, "ready")
    /\ UNCHANGED <<row, file, imported, repairs, doubt, mishaps>>

\* _finish_resolve and _finish_import read the row; the latter removes the staged
\* file of an item whose job is completed before it commits.
Succeeded(p) == proc[p].role = "import" /\ job[p] = "completed"
EndRead(p) ==
    /\ proc[p].pc = "ready"
    /\ proc' = [proc EXCEPT ![p].seen = row,
                            ![p].pc = IF row.exists THEN "ending" ELSE "done"]
    /\ file' = (file /\ ~(row.exists /\ row.staged /\ Succeeded(p)))
    /\ UNCHANGED <<row, job, imported, repairs, doubt, mishaps>>

FinishResolve(p) ==
    /\ At(p, "resolve", "ending")
    /\ LET seen == proc[p].seen
       IN Commit(p, [seen EXCEPT !.state = "review",
                       !.manifest = IF proc[p].archive THEN "archive" ELSE "other",
                       !.staged = @ \/ proc[p].archive], {"resolving"}, "done")
    /\ UNCHANGED <<file, job, imported, repairs, mishaps>>

FinishImport(p) ==
    /\ At(p, "import", "ending")
    /\ LET seen == proc[p].seen
           new == IF Succeeded(p)
                  THEN [seen EXCEPT !.state = "completed", !.retryable = FALSE,
                                    !.staged = FALSE]
                  ELSE [seen EXCEPT !.state = "failed", !.retryable = TRUE]
       IN Commit(p, new, {"importing"}, "done")
    /\ UNCHANGED <<file, job, imported, repairs, mishaps>>

\* The last commit fails: the exception is taken for a failure of the task.
EndFails(p) ==
    /\ proc[p].pc = "ending"
    /\ Mishap
    /\ doubt' = [doubt EXCEPT !.lost = @ \/ (proc[p].seen.staged /\ Succeeded(p))]
    /\ Goto(p, "broken")
    /\ UNCHANGED <<row, file, job, imported, repairs>>

\* The job of an import has failed; _fail_item and _fail_import read the row.
FailRead(p) ==
    /\ proc[p].pc = "broken"
    /\ job' = IF proc[p].role = "import" THEN [job EXCEPT ![p] = "failed"] ELSE job
    /\ proc' = [proc EXCEPT ![p].seen = row,
                            ![p].pc = IF row.exists THEN "failing" ELSE "done"]
    /\ UNCHANGED <<row, file, imported, repairs, doubt, mishaps>>

\* The update of the job raises, or the commit of the failure: nobody is left to
\* take the item out of the state it is in.
FailLost(p) ==
    /\ proc[p].pc \in {"broken", "failing"}
    /\ Mishap
    /\ doubt' = [doubt EXCEPT !.stuck = row.state \in Busy]
    /\ Goto(p, "done")
    /\ UNCHANGED <<row, file, job, imported, repairs>>

FailCommit(p) ==
    /\ proc[p].pc = "failing"
    /\ Commit(p, [proc[p].seen EXCEPT !.state = "failed", !.retryable = TRUE],
              IF proc[p].role = "import" THEN {"importing"} ELSE {"resolving"}, "done")
    /\ UNCHANGED <<file, job, imported, repairs, mishaps>>

-----------------------------------------------------------------------------
\* Mutant: the start does not ask what became of the job.
RecoveredBlindly ==
    IF row.state \notin Busy THEN row
    ELSE [row EXCEPT !.state = "failed", !.retryable = TRUE]

\* Mutant: imports only are looked at.
RecoveredImports ==
    IF row.state # "importing" THEN row
    ELSE IF row.job # "none" /\ job[row.job] = "completed"
    THEN [row EXCEPT !.state = "completed", !.retryable = FALSE]
    ELSE [row EXCEPT !.state = "failed", !.retryable = TRUE]

\* Mutant: the error code is written where the state belongs.
RecoveredMisnamed ==
    IF row.state \notin Busy THEN row
    ELSE [row EXCEPT !.state = "import_interrupted", !.retryable = TRUE]

\* The process dies and starts again.  A running import is replay_safe, so its
\* job is pending again (reconcile_interrupted_jobs), though nothing runs it; a
\* busy item is completed when its job was, and has failed otherwise
\* (reconcile_interrupted_items).
Recovered ==
    IF row.state \notin Busy THEN row
    ELSE IF row.state = "importing" /\ row.job # "none" /\ job[row.job] = "completed"
    THEN [row EXCEPT !.state = "completed", !.retryable = FALSE]
    ELSE [row EXCEPT !.state = "failed", !.retryable = TRUE]

Removing(p) ==
    /\ proc[p].seen.staged
    /\ At(p, "dismiss", "asked") \/ (At(p, "import", "ending") /\ Succeeded(p))

Crash ==
    /\ Mishap
    /\ \E p \in Procs : proc[p].pc \notin {"none", "done"}
    /\ proc' = [p \in Procs |-> IF proc[p].pc = "none" THEN proc[p]
                                ELSE [NoProc EXCEPT !.pc = "done"]]
    /\ job' = [p \in Procs |-> IF job[p] = "running" THEN "pending" ELSE job[p]]
    /\ row' = Recovered
    /\ doubt' = [doubt EXCEPT !.lost = @ \/ \E p \in Procs : Removing(p),
                              !.stuck = FALSE]
    /\ UNCHANGED <<file, imported, repairs>>

Request(p) ==
    \/ Capture(p) \/ Schedule(p)
    \/ AskChoose(p) \/ AskRetry(p) \/ AskDismiss(p) \/ AskRepair(p)
    \/ Choose(p) \/ Retry(p) \/ Dismiss(p) \/ Repair(p)

Task(p) ==
    \/ BeginRead(p) \/ BeginRefused(p) \/ BeginResolve(p) \/ BeginImport(p)
    \/ Fetch(p) \/ FetchFails(p)
    \/ Ingest(p) \/ AssetsFail(p) \/ Persist(p) \/ NothingImported(p) \/ JobCompletes(p)
    \/ EndRead(p) \/ FinishResolve(p) \/ FinishImport(p) \/ EndFails(p)
    \/ FailRead(p) \/ FailCommit(p) \/ FailLost(p)

Next == Prune \/ Crash \/ \E p \in Procs : Request(p) \/ Task(p)

Spec == Init /\ [][Next]_vars

\* Tasks run until they end: each step of theirs has a timeout or needs nobody.
FairSpec == Spec /\ \A p \in Procs : WF_vars(Task(p))

-----------------------------------------------------------------------------
(* Properties *)

\* The life of an item, crashes included; Over: where it ends.
Over == {"completed", "dismissed"}
Moves == {<<"captured", "resolving">>, <<"failed", "resolving">>,
          <<"resolving", "review">>, <<"resolving", "failed">>,
          <<"review", "importing">>, <<"importing", "completed">>,
          <<"importing", "failed">>, <<"failed", "captured">>, <<"failed", "review">>}
         \cup {<<s, "dismissed">> : s \in States \ {"importing"}}
\* The repair of a finding takes a busy item back.
PutBack == Busy \X {"captured", "review"}

\* The item keeps to its life cycle - an import follows a review, a completed item
\* may only be dismissed and a dismissed one stays so - as long as every commit
\* finds the row as it was read and in the state its task left it in; a repair,
\* and nothing else, takes a busy item back as well.
LifeCycleUnlessStale ==
    [][\/ row'.state = row.state \/ doubt'.stale
       \/ <<row.state, row'.state>> \in Moves
       \/ <<row.state, row'.state>> \in PutBack /\ \E p \in Procs : Repair(p)]_vars

\* Models are persisted once, and once more per crash or failed write and per
\* repair of an item that is being imported, unless a commit was stale (two
\* imports begun from one review, for instance).
ImportsPaidFor == doubt.stale \/ imported <= 1 + mishaps + repairs

\* A failed item can be retried; a reviewed archive is still on disk, unless its
\* removal is about to be committed or failed to be; an item whose job is
\* completed is not offered again, also after a crash between the job's last
\* commit and the item's, unless a repair took back an item in IMPORTING.
Consistent ==
    \/ doubt.stale
    \/ /\ row.state = "failed" => row.retryable
       /\ row.state = "review" /\ row.manifest = "archive" =>
              row.staged /\ (file \/ doubt.lost \/ \E p \in Procs : Removing(p))
       /\ row.job # "none" /\ job[row.job] = "completed" =>
              repairs > 0 \/ row.state \in {"importing"} \cup Over

\* An item that is busy does not stay so, stale commits and repairs or not; what
\* leaves it busy, until a repair or the next start, is that the handler of its
\* task's failure fails itself.
BusyEnds == row.state \in Busy ~> row.state \notin Busy \/ doubt.stuck
=============================================================================
