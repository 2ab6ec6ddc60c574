# PrintStash: formal models

PrintStash is a self-hosted vault for 3D-print files: a FastAPI backend (`src/backend/app`), a web
frontend and a browser extension. The backend stores models and their G-code, keeps one connection
to each printer, queues prints on a fleet of printers, imports files from the web and from watched
folders, and notifies people of what happens. All of it runs in **one process** (a file lock keeps a
second one out): an asyncio event loop, a thread pool that serves synchronous handlers and
`asyncio.to_thread` calls, and a handful of background loops, over one SQL database and one blob
store.

This directory models the parts whose correctness depends on the order in which these actors act.

- [1. Inventory](#1-inventory)
- [2. How the code runs, and how that is modelled](#2-how-the-code-runs-and-how-that-is-modelled)
- [3. Modules](#3-modules)
- [4. Runs and bounds](#4-runs-and-bounds)
- [5. Where code and intention part](#5-where-code-and-intention-part)
- [6. What is proved](#6-what-is-proved)
- [7. What is only model-checked, and what is not
  modelled](#7-what-is-only-model-checked-and-what-is-not-modelled)
- [8. Plan](#8-plan)

Run from this directory, `tlc -workers 2 -config Hub.cfg MCPrinterHub` checks one configuration and
`tlapm FleetDispatchProofs.tla` one module of proofs. `PROJECT.json` lists the runs, maps every
definition to the lines it models, and lists the hazards.

## 1. Inventory

Paths are under `src/backend/app/`.

### Fleet queue and dispatcher: `services/fleet.py`, `api/v1/fleet.py`, `services/printer_jobs.py`

*State.* Rows of `print_jobs` (state, `dispatch_claimed_at`, `retryable`, `finished_at`, printer,
strategy, `blocked_reason`, `queue_position`) and of `printers` (status, drain mode, maintenance,
`is_default`). *Operations.* Enqueue, patch (re-route, reorder), cancel and retry; the scheduler's
tick: read a batch of candidates, route them, claim one with a conditional UPDATE, reload it, check
the printer, upload, start, record; reconciliation of stranded claims when the process starts.
*Interactions.* Handlers in pool threads and the scheduler share the rows; the hub moves the same
rows on; the provider is the network. *Hard.* Stale units of work, the claim's bulk UPDATE, lost
answers, failing records after an accepted print, crashes between claim and outcome. *Correct when*
a job is printed at most once per enqueue or retry, a job whose print may have happened is not
offered for retry, a cancel that precedes the claim is final, a printable job leaves the queue unless
unprintable ones fill the scheduler's batch, and no row stays in UPLOADING.

### Printer hub: `services/printer_hub.py`, `print_results.py`, `realtime.py`

*State.* One worker task per printer, `_active_job_cache` (file name and row id), a circuit breaker,
the job rows. *Operations.* Connect and poll, turn each status report into the printer's status and
into the state of the row the report is about, create a placeholder row for prints that were not sent
by the vault, and at the end of a print write `finished_at`, the notification rows, known-good marks
and spool usage. *Interactions.* Direct sends, the dispatcher, cancels and retries write the same
rows. *Hard.* Reports carry no job identity, so rows are matched by file name; the report is taken on
the event loop and written in a thread; cancelling a worker does not stop its thread. *Correct when*
each job's end is announced once, an announced job stays finished until it is retried, each run of a
printer is accounted for by one row, and a tracked job is closed.

### Direct sends and controls: `api/v1/printers.py`

*State.* The same rows. *Operations.* Send a file and start it or not, start a file the printer has,
pause, resume, cancel. *Hard.* The row is written before and after a network call during which the
hub, a cancel or a crash may act.

### Notification outbox: `services/notifications.py`, `api/v1/notifications.py`

*State.* Delivery rows (status, attempts, `next_retry_at`, `updated_at`) and channel rows (`enabled`,
`consecutive_failures`). *Operations.* Enqueue in the transaction of the event; claim a batch, send it
concurrently, record each outcome in a thread; retry with backoff, honour Retry-After, open the
breaker; edit, delete and prune. *Hard.* At-least-once delivery across crashes and failing records; an
error the send does not expect; concurrent recordings of one channel. *Correct when* every delivery is
settled, repeated only for a lost record, given up only after all attempts, and the breaker opens at
its threshold.

### Maintenance gate, backup and restore: `services/backup.py`, `main.py`

*State.* A gate event, a counter of admitted mutating operations, a lock for backup and restore, the
database file and the blobs. *Operations.* Begin and end an operation (HTTP middleware and every
background loop), create, restore with rollback, purge. *Hard.* Drain with a timeout, jobs that start
after they were counted, cancelled tasks and failing ticks that give their admission back while their
threads still write. *Correct when* nothing the gate counts writes while the database is swapped, the
gate always reopens, and a failing restore leaves database and blobs as they were.

### Background jobs and pending imports: `services/jobs.py`, `services/inbox.py`, `services/vault_audit.py`

*State.* An in-memory registry of jobs; inbox rows (CAPTURED, RESOLVING, REVIEW, IMPORTING, COMPLETED,
FAILED, DISMISSED) and staging files. *Operations.* Capture, resolve, import, retry, dismiss,
reconcile at startup, prune; the vault audit's repair of an item that failed or takes long. *Hard.*
The end of a resolve or import does not look at the state it replaces, nor does the repair; the
handler of a failure may fail. *Correct when* a dismissed item stays dismissed, an import happens
once, and no item stays in RESOLVING or IMPORTING.

### Ingestion, trash and garbage collection: `services/ingestion.py`, `trash.py`, `storage_utils.py`

*State.* Model and file rows, version counters, the recommended flag, blobs. *Operations.* Reserve a
version, write the blob, insert the row; soft and hard delete; sweep of blobs no row claims. *Hard.*
Blob and row change in separate steps, in both directions, while the sweep runs. *Correct when* every
live row has its blob, versions are unique, one live revision is recommended, and garbage goes away.

### External libraries: `services/external_library.py`, `library_watcher.py`

*State.* Library rows (scan status, schedule), indexed files, the watcher's pending set. *Operations.*
Scheduled, watched and requested scans; removal of files that vanished; uploads into the folder; trash
and restore of a row by hand; reset at startup. *Hard.* Overlapping scans, walks that fail half way,
files that cannot be read, two paths of one file, a status stranded in RUNNING. *Correct when* a partial
walk removes nothing, a change that was seen is scanned in the end, and no library is skipped for ever.

### Sessions: `services/auth.py`, `services/ws_tickets.py`

*State.* Refresh tokens, session versions, one-time WebSocket tickets. *Hard.* Two rotations of one
token, an invalidation in the middle of one. *Correct when* a token is used once and no session
survives an invalidation.

### The rest

The rest of the vault audit, models, taxonomy, saved views and sharing, importers and resolvers,
parsing, meshes and thumbnails, configuration and identity providers, spool tracking, library
transfer, access control, storage backends, provider clients, migrations, the frontend and the
extension: sequential CRUD, data conversion or I/O, with no interleaving of their own. They are seen
through the parts above. Each has an entry under `components` in `PROJECT.json`.

## 2. How the code runs, and how that is modelled

**ORM units of work.** A SQLAlchemy session reads rows and at commit issues an UPDATE by primary key
of the columns whose value differs from the one it read; there is no version column and, on SQLite
through pysqlite, a SELECT opens no transaction, so nothing refuses a commit computed from a row that
has changed since. Every operation of that kind is therefore **two actions, a read and a commit**, and
the commit changes only the dirty columns of whatever the row is now (`Merge` and `Column` in
FleetDispatch, the guarded columns of `Write` in PrinterHub and of `EditCommit` and `Counted` in
NotificationOutbox, `Dirty` in Inbox and Artifacts). Inbox's `Commit` also notes whether the look at
the row was out of date. In Artifacts a transaction holds the database's write lock from its first
flush to its commit, where nobody else writes (`Unlocked`). Where the code has a conditional UPDATE
(the dispatcher's claim) it is one action with the condition as its guard. Handlers declared `async
def` that do not await between read and commit exclude each other (`EventLoopFree` in FleetDispatch).

**Threads, tasks, process.** A pool thread is a member of `Workers`, `Generations`, `Works` or
`Procs`, a background task a record with a program counter. Cancelling a task does not stop the thread
it awaits. A crash clears what is in memory and keeps what is in the database; a restart runs the
reconciliation of the lifespan before the loops.

**Network calls** succeed, fail, or succeed with their answer lost.

**Time** appears as its effect: a row becomes due, a timeout strikes, nothing more.

**Histories** (`starts`, `delivered`, `notified`, `retried`, `imported`, `repairs`, `paid`, `excused`,
`doubt`, ...) record
what happened outside the database, or that a departure of section 5 has happened; no action is
guarded by one.

**Bounds** are constants named `Max...`; each counter is part of the variable `used`, and their only
effect is to disable what they count.

## 3. Modules

| module | models | extends / uses |
| --- | --- | --- |
| `FleetDispatch` | queue rows, queue handlers, routing, scheduler, reconciliation | `PrintOnce` by refinement |
| `PrintOnce` | what the queue promises for a job | |
| `MCFleetDispatch` | small instances | `FleetDispatch` |
| `FleetDispatchProofs` | the inductive invariant and its consequences; reorders | `FleetDispatch`, `TLAPS` |
| `FleetDispatchRefinement` | the refinement and the finality of cancels | `FleetDispatchProofs` |
| `PrinterHub` | one printer, its hub worker, direct sends, cancel, retry | |
| `PrinterHubProofs` | announcements counted against worker generations and retries, placeholders against mishaps | `PrinterHub`, `TLAPS` |
| `NotificationOutbox` | deliveries, channels, dispatcher loop | `AtLeastOnce` by refinement |
| `AtLeastOnce` | what the outbox promises for a message | |
| `NotificationOutboxProofs` | attempts, repeats, breaker, and the refinement's safety part | `NotificationOutbox`, `TLAPS` |
| `MaintenanceGate` | the gate, backup and restore with rollback, and the writers they meet | |
| `MaintenanceGateProofs` | exclusion of writers, integrity of the vault | `MaintenanceGate`, `TLAPS` |
| `Inbox` | one pending import, its tasks, requests and repairs | |
| `InboxProofs` | the life cycle, imports counted against mishaps and repairs, what each step leaves behind | `Inbox`, `TLAPS` |
| `Artifacts` | the G-code revisions of a model, their blobs, trash and sweep | |
| `ArtifactsProofs` | blobs of rows, the recommended mark | `Artifacts`, `TLAPS` |
| `ExternalScan` | one external library, its scans, uploads into it, trash and restore of its rows | |
| `ExternalScanProofs` | where two live rows with one path come from | `ExternalScan`, `TLAPS` |
| `MCPrinterHub`, `MCNotificationOutbox`, `MCMaintenanceGate`, `MCInbox`, `MCArtifacts`, `MCExternalScan` | small instances | the module of that name |

The components meet in the database and in the process, and each module keeps the part of another it
needs: PrinterHub has the dispatcher's writes to a job's row, MaintenanceGate has requests, loop ticks
and jobs as pieces of writing work that stand for all the others, and Inbox sees ingestion as one step
that persists models, which Artifacts takes apart.

Definitions marked "Mutant" are deliberate mistakes. Each replaces the definition after it in one
check that shows that a property notices the mistake; nothing else uses them.

### FleetDispatch

`job[j]` is the row with id *j*; ids are handed out in order, so they stand for `created_at` as well.
`blocked` folds `blocked_reason` to none, the printer's fault or the requester's access. `held` in a
printer's row stands for drain mode or an active maintenance window. `worker[w]` is the unit of work a
pool thread has read and not yet committed; `sched` is the scheduler task with its locals.

| code | actions |
| --- | --- |
| `enqueue_job` | `Enqueue` |
| `cancel_queue_job`, `update_queue_job`, `retry_queue_job` | `CancelRead`, `PatchRead`, `RetryRead`, then `Commit` |
| `_claim_next_sync` | `SchedRead` (select and route), `SchedApply` (bulk update), `SchedClaim` (conditional update) |
| `_load_dispatch_context`, `_dispatch_claimed`, `transfer_artifact` | `SchedLoad`, `SchedCheck`, `SchedUpload`, `SchedStart` |
| `_mark_dispatch_started` | `SchedMarkStarted`, `SchedUpsert` |
| `_mark_dispatch_failed` and the handlers in `dispatch_next` | `SchedMarkFailed`; `SchedFault` for a write that raises |
| process end, `reconcile_stranded_dispatches` | `Crash`, `Restart` |
| changes of printers, default, permissions | `PrinterChange`, `DefaultChange`, `AccessChange` |

Abstractions. The order in which `least_busy` breaks ties (`last_seen_at`) is any order. A patch with
a stale `expected_updated_at` is refused and changes nothing, so it is left out; the patches that
remain include those that pass the test and are overtaken afterwards. The wake-up queue only shortens
the poll. A provider step succeeds, fails, or has an unknown outcome. What the hub does to a row after
STARTED belongs to PrinterHub. The removal of the temporary file in the `finally` clause of the transfer
may raise and then replaces the error, the one that says the outcome is unknown included (`SchedFault`).
`sched.vetted` is the printer the claim checked, `sched.printer` the
one the reloaded row names: a patch committed between the two makes them differ, and the dispatch
goes to the second, whose drain mode was never looked at. The code states no intention about that
window sharply enough to check, so no property does.

### PrinterHub

One printer's rows. `phys` is what the printer would report, with the number of its run, which the
code never sees. `sync[t]` is the report that worker generation *t* is processing: taken from the
event loop (`Report`), then in a thread `Read` (find the row or decide that a placeholder is needed),
`Capture` (the placeholder's first commit) and `Write` (state, `finished_at`, notification, one
commit). `transfer[j]` is the send of *j* under way.

| code | actions |
| --- | --- |
| `_handle_status`, `_mark_status`, `_sync_active_job` | `Report`, `Fault` |
| `_sync_active_job_db` | `Read`, `Capture`, `Write` |
| disconnection in `_run_printer` | `Unreachable` |
| `restart_printer`, process end and start | `Restart`, `Crash` |
| `send_to_printer`, `start_printer_file` | `Send`, `StartFile`, then `Accept` or `Copy` or `Refuse`, then `Record`, `RecordFailed` or `RecordLost` |
| the dispatcher's part of a row | `Enqueue`, `Claim`, `Accept`, `Record`, `RecordFailed`, `RecordLost` |
| `cancel_printer`, `cancel_queue_job`; `retry_queue_job` | `CancelRead`, `CancelQueuedRead`, `CancelCommit`; `RetryRead`, `RetryCommit` |
| the printer | `PanelStart`, `PanelStep` |

Abstractions. The state and the file name of a report change together. A report dropped by coalescing,
by an open breaker or by the maintenance gate is a report that is not taken; a write of the printer's
status that fails is logged and the sync goes on, so `ready` may keep its old value. Claims are taken
in any order and rows are not edited: that is FleetDispatch. A cancel or a retry reads its rows and
commits later, and the threads of the hub and the scheduler go on in between; such requests are taken
one at a time (`pending`), since two of them are FleetDispatch's matter. When the file list cannot be
updated after a job was recorded as STARTED, the scheduler records the job as failed: `Record` has
that path. A placeholder that is QUEUED between its two commits may be claimed; that counts as a
mishap. The set of row ids is large enough that no action ever waits for one. Progress, temperatures
and broadcasting are left out.

### NotificationOutbox

A delivery is an event and a channel. `ripe` says that `next_retry_at` has come or, of a row in
SENDING, that it is older than `_STUCK_SENDING_SECONDS`. `item[d]` is the send of *d* under way,
including the channel's columns as its recording read them; `edit` is a request that edits a channel.

| code | actions |
| --- | --- |
| `enqueue_for_event` | `Enqueue` |
| `update_channel`, `delete_channel`, `prune_deliveries` | `EditRead`, `EditCommit`, `DeleteChannel`, `Prune` |
| `_claim_due_deliveries` | `Claim` |
| `_send_one` | `Send`, `SendRaises`, `RecordFault` |
| `_record_result` | `RecordRead`, `RecordCommit` |
| `dispatch_due`, `run_dispatcher_loop` | `TickEnd`, `Crash` |

Two details of `_send_one` matter and are kept. Recording an answer happens *inside* the `try`, so a
database error while recording a success is caught and recorded as a failed attempt: the message is
sent again. Recording a failed request happens in the `except`, and recording an unsendable message
before the `try`; an error there ends the whole tick (`gather` without `return_exceptions`), while the
other sends of the tick go on beside the next one.

A URL is resolved before the request is made (`resolve_public_target`). One that resolves to nothing
allowed is refused, which is a permanent failure; one with a port out of range, or with a host that
has no ASCII form, passes the validation of channels and raises an error that `_send_one` does not
expect. `resolves` in the channel's row is FALSE for such a URL, and `SendRaises` is the send that
ends without a record. An edit of the channel may mend or break the URL.

Abstractions. A claim takes any `BatchSize` of the due rows, or all of them: `ORDER BY next_retry_at`
is a fairness device, not a promise. A send is over well before its row counts as stuck (request
timeout 15 s, stuck after 300 s), which is the guard of `Elapse`. Which channels subscribe to an event
is any subset of the enabled ones, and the master switch is the empty subset. Creating a channel, the
test message and rendering are left out. A crash also stands for a cancelled loop.

### MaintenanceGate

`work[w]` is a piece of writing work: a request or a loop's tick (`admitted`, and `half` between blob
and row), or the background task with a job that it leaves behind (`queued`, `running`, `written`),
which the gate does not count. `loose` holds the works whose admission was given back before they
ended: the thread of a watcher's scan or of a hub's write whose task was cancelled, the sends of a
tick that one raising send has ended, and a task that no job stands for, such as the resolving of an
inbox item. The vault is a set of keys the database owns and a set of keys the
storage holds; `job[w]` is the row of the job registry. An archive holds rows, blobs and job states.

| code | actions |
| --- | --- |
| `begin_mutating_operation`, `quiesce_writes_during_restore`, the loops of `main.py` | `Admit`, then `ChangeBlob`, `CommitRow` or `CommitFails`, or `Decline`; `GiveBack` in between |
| `JobRegistry.create`, `update`; the task of an ingestion job | `Register`; `StartJob`, `JobWrites`, `JobCommits`, `JobFails` |
| `create_backup`, `delete_backup` | `RequestBackup`, `Snapshot`, `CopyBlob`, `FinishBackup`; `DeleteArchive` |
| `restore_backup` up to the staged archive | `BeginRestore`, `Drained` or `DrainTimesOut`, `CountJobs`, `Stage` or `StageFails` |
| `_apply_staged_blobs` | `ApplyBlob`, `ApplyFails` |
| `_restore_database_from_path` | `SwapDatabase`, `SwapFails`, `SwapFailsLate` (the integrity check that comes after the copy) |
| `_rollback_applied_blobs`, `_end_restore_maintenance` | `RollBack`, `RollBackFails`, `RolledBack`; `EndRestore` |
| process end, `reconcile_interrupted_jobs` | `Crash` |

Abstractions. The presence of a blob is modelled, not its content. Two kinds of keys are told apart:
those of artifacts, and the secondary ones (thumbnails, images embedded in a text), which
`create_backup` does not copy. There is one archive on disk; one that a crash left half written cannot
be staged. Each piece of work runs once. What the works set out to do is one of `Plans`; the instance
has every plan, but of two that differ by the names of the works it has one (`UnorderedPlans`).

### Inbox

One row, its staged file, the job rows of its imports, and processes: requests and tasks. A process
carries the row as it read it (`seen`); its commit writes the columns that differ from it. `doubt`
records that a commit found the row changed (`stale`), that a removal of the staged file was not
followed by its commit (`lost`), or that the handler of a failure has failed and left the item busy
(`stuck`). `repairs` counts the repairs that took back an item in IMPORTING.

| code | actions |
| --- | --- |
| `create`, `prune_history` | `Capture`, `Prune` |
| `resolve_item`, `import_item` and their batches | `Schedule` |
| `update`, `retry`, `dismiss` | `AskChoose`, `Choose`; `AskRetry`, `Retry`; `AskDismiss`, `Dismiss` |
| `_begin_resolve`, `_begin_import` | `BeginRead`, `BeginRefused`, `BeginResolve`, `BeginImport` |
| `resolve`, `_prepare_archive` | `Fetch`, `FetchFails` |
| `run_import`, `import_assets` | `Ingest`, `AssetsFail`, `Persist`, `NothingImported`, `JobCompletes` |
| `_finish_resolve`, `_finish_import` | `EndRead`, `FinishResolve`, `FinishImport`, `EndFails` |
| `_fail_item`, `_fail_import` | `FailRead`, `FailCommit`, `FailLost` |
| `repair_finding`, `retry_pending_import` | `AskRepair`, `Repair` |
| process end and `reconcile_interrupted_items` | `Crash`, `Recovered` |

Abstractions. A manifest is none, an archive's, another's, or a `choice` that holds `selected_ids` and
nothing else. The audit lists items that have failed or are busy for long, and a repair asks again
whether the item is in one of those states, though not for how long: a repair may read it at any
moment at which it is. The fetch, the resolver and the ingestion behind an import succeed or fail.
Items share nothing but the tables, so one item stands for all.

### Artifacts

`rows[v]` is the File row of version *v* of one model, `blobs[v]` the upload whose bytes lie at its
key, and `proc[p]` a request, task or sweep with the rows as it read them.

| code | actions |
| --- | --- |
| `resolve_or_create_model`, `add_gcode_revision` | `Upload` |
| `_reserve_next_version`, `persist_artifact` | `Reserve`, `MoveIn`, `Persist`, then `ClearRead` and `Clear` for the other marks |
| `update_file_revision`, `delete_file_revision` | `AskPatch`, `Patch`; `AskDelete`, `Delete` with `Promote` |
| the vault audit's `_restore_recommended` | `AskRepair`, `Repair` |
| the administrator's and the trash's edits of rows | `SoftDelete`, `Undelete`, `Drop`; `Trash`, `Restore` |
| `purge_model`, `hard_delete_file`, `gc_soft_deleted` | `PurgeModel`, `PurgeFile`, `Gc`, `PurgeBlob`, `PurgeLock`, `PurgeCommit` |
| `_cleanup_orphan_blobs`, `ownership_snapshot` | `SweepRows`, `SweepWalk`, `SweepBlob`, `SweepEnds` |
| an exception, a crash | `Fail` |

Abstractions. One model; its mesh files, thumbnails and other derived blobs, documents and collections
are left out, and so are files of external libraries, which ExternalScan has. A purged model is not
created again. A model restored from the trash between the read and the commit of its purge is deleted
alive, as in the code.

### ExternalScan

`disk` is the folder, `broken` the files in it that cannot be read or parsed, `rows[x]` the live rows
with path *x*, `proc[p]` a scan, a debounced task or an upload. A file has one resolved path and may
have others through a symbolic link: `Real[x]` is the resolved form of *x*. A scan finds and compares
resolved paths; an upload writes its row under the root as the library has it. A `watch` process whose
task is cancelled while its thread scans becomes a `thread`.

| code | actions |
| --- | --- |
| `_schedule_scan`, `_stop_watcher`, `refresh` | `Cancelled`, `Notice`, `StopWatcher`, `StartWatcher` |
| `_debounced_scan` | `WakeUp` |
| `_run_due_external_scans`, `scan_now` | `CronFires`, `Tick`; `ScanNow` |
| `scan_library` | `Begin`, `Walk`, `ReadRows`, `Index`, `IndexFails`, `Remove`, `ScanEnds`, `Abort`, `ScanFails`, `FlushFails` |
| an upload into the library (`persist_artifact`) | `Choose`, `Place`, `Record`, `UploadFails` |
| process end, `reset_orphaned_scans` | `Restart` |
| `admin_delete_resource`, `delete_file_revision`; `restore_resource` | `SoftDelete`; `Restore` |
| the folder | `Change`: a file, readable or not, appears or goes |

Abstractions. The library is enabled and has a schedule. A file is there or not, readable or not:
changed content and its re-indexing, deletion of a library, scans of a single path and switching a
library off are left out. A walk that meets a dropped mount aborts the scan, and an empty folder is
never believed.

## 4. Runs and bounds

Sizes are distinct states; every run completes within about three minutes on two cores.

| run | instance | shows |
| --- | --- | --- |
| `fleet_stale` | 1 job, 2 printers, 2 threads, one each of fault, crash, retry, change | the inductive invariant, at-most-once printing, safe retries, final cancels and the refinement of `PrintOnce` under every interleaving of two stale units of work with a dispatch |
| `fleet_routing` | 2 jobs, 2 printers, all strategies, a batch of 1, no threads, a crash, two changes, no faults or retries | a printable job leaves the queue unless unprintable ones fill the batch; a claimed row always has someone to move it on |
| `fleet_liveness` | 2 jobs, 1 printer, a batch of 2, 1 thread, a crash, a retry, a change, no faults | claims are resolved, printable jobs leave the queue, `PrintOnce` with its fairness |
| `hub` | 1 request, 1 run, 1 retry, 1 mishap of any kind | announcements, finality, placeholders, closing (1.3 million states) |
| `outbox` | 2 deliveries of 1 channel, 2 attempts, threshold 2, 2 mishaps, 1 edit, of a URL that resolves, is refused or raises | repeats, attempts, breaker, refinement of `AtLeastOnce` with fairness (1.5 million states) |
| `gate` | 2 works, a primary and a secondary key, an archive from before or none, 1 backup, 2 restores, 1 mishap | admitted writers are kept out, the rest is of named kinds, the vault stays whole, the gate opens (1.1 million states) |
| `inbox` | 3 processes, 1 mishap, from no item or a reviewed archive | the life cycle, imports, repairs, what recovery leaves, liveness (449 thousand states) |
| `artifacts` | 2 processes, 3 versions, 5 operations | blobs of rows, the recommended mark (2 million states, with symmetry) |
| `scan` | 2 files, one with a second path, 2 processes, 1 change, 1 mishap | duplicates, convergence, absence of deadlock (1.2 million states) |
| `hub_reprint`, `outbox_breaker`, `scan_overlap` | the smallest instance that shows it | section 5 |

**Why the bounds are enough.** In `fleet_stale` two threads are what it takes for one stale commit to
meet another and the scheduler, and one job suffices because a unit of work changes the state of one
row only (`OneRowInv`, proved); reorders touch positions of other rows, which routing does not read.
`fleet_routing` needs two printers for choice, and a batch of one row, which one of two jobs fills,
for the starvation of the other. In `hub` one run and one request let the request be for the run,
before it, after it or unrelated, one retry reopens a row that was announced, and one mishap splits
any operation. Runs end as complete there and rows as cancelled through cancels; a second run is what
the reprint run is about. In `outbox` two deliveries recorded at the same time are what the breaker's
counter needs, two attempts distinguish a first from a last one, and two mishaps make a lost record
meet a crash. In `gate` two works are one that is admitted and one that runs uncounted, and the second
restore meets what the first has left in the job registry. In `inbox` three processes are two that
contend and the request that lets them. In `artifacts` two processes are two uploads, or an upload, an
edit or a purge and a sweep, and three versions leave a choice when the recommended revision goes. In
`scan` two processes overlap and the second file tells a partial walk from an empty folder; three rows
of one path are enough for two scans and a restore. The proofs of section 6 have no bounds.

**Deadlock** is checked in the scan runs, where the schedule never ends. Elsewhere
`CHECK_DEADLOCK FALSE` is set: when the work is over and the bounds are used up, nothing is left to
happen.

**Fairness.** *Fleet*: weak fairness of the scheduler's step (the loop catches every exception and
goes on), of the restart after a crash (the container's restart policy), and of the commit of a
request that has read. No fairness of requests, changes, faults and crashes. The liveness run has no
faults, because a lost write of FAILED does leave a row in UPLOADING until the next start, which
`ClaimsResolve` says and the safety runs exercise. *Hub*: reports that reach the database keep coming
(the printer is polled or pushes for as long as it is connected) and a sync that was called ends. No
fairness of the printer, of sends, of cancels. *Outbox*: time passes, the loop runs, every send ends;
the request timeout justifies the last. *Gate*: the threads that create and restore a backup go on; no
fairness of the admitted work, so an operation that hangs is included, and the deadline of the drain
has to help. *Inbox*: each task goes on, for every fetch has a timeout and no step waits for another
process; no fairness of requests and repairs. *Scan*: threads and debounced tasks go on, the schedule
fires and is looked at. No fairness of the watcher: the schedule alone has to make the index converge.

**The properties in short.**

- Fleet. `AtMostOnceStart`: every print of a job beyond the first is paid for by a record of STARTED,
  or of an outcome that is not known, that failed to persist or was replaced by another error.
  `NoRetryAfterPrint`: what is queued, or offered for retry, has no print outstanding.
  `UploadsAttended`: a row in UPLOADING has an owner. `CancelBeforeClaimIsFinal`. `ClaimsResolve`.
  `PrintableJobsLeave`: a job does not stay queued for ever while a printer could take it and fewer
  unprintable rows wait than fill a batch (`Room`).
- Hub. `NoticesPaidFor`: a job's end is announced once, and once more at most per restarted worker and
  per retry: a report of an older run of the file ends a job while it is being sent, the send fails,
  and the retry forgets that end. `NoticeMeansFinished`: a job announced since it was last queued is
  finished. `PlaceholdersPaidFor`: one placeholder per run, one more per mishap, and one more again
  per restart of the worker, which counts as a mishap as well: the thread it leaves behind can
  displace the cached row when it reads the table and again when it inserts its own. The second time
  takes another file, which the run `hub` does not have; the theorem of section 6 covers it.
  `TrackedJobCloses`: a resting printer does not leave the row it is tracked by open.
- Outbox. `RepeatsPaidFor`: acceptances beyond the first are paid for by lost records.
  `GivenUpAfterAllAttempts`. `BreakerNotEarly`. `ImplementsAtLeastOnce`: in the end every message is
  sent or given up, unless it is held up (`stuck`) by a URL that raises.
- Gate. `RestoreExcludesAdmitted`: past the drain no work is under way that still holds an admission.
  `OnlyUncountedUnderRestore`: what runs beneath a restore is a task that had not started when the
  jobs were counted, one whose row an earlier restore has replaced, or work that gave its admission
  back. `RunningMeansAtWork`: the registry is right, but for what a restore has replaced.
  `VaultIntact`: every row has its blob, but for keys put in doubt by a departure. `GateOpens`,
  `BackupEnds`.
- Inbox. `LifeCycleUnlessStale`, `ImportsPaidFor`, `Consistent`: as long as each commit found the row
  as it was read, the item keeps to its life cycle, but for a repair, which takes a busy item back; it
  is imported once, and once more per mishap and per repair of an item being imported; and it is left
  such that it can be retried. `BusyEnds`: a busy item moves on, whatever was stale or repaired,
  unless the handler of its task's failure fails itself.
- Artifacts. `BlobsPaidFor`: the blob of a row is there, unless a purge or an overlapping sweep took
  it. `BlobsMatchRows`: it is what the row's own upload brought. `KeepsRecommended`: a model with live
  revisions keeps a recommended one, except through a write of a row that changed since it was read,
  an edit or a request that takes the mark away. The row that an upload inserts is never excused.
- Scan. `DuplicatesPaidFor`: two live rows with one path come from two that were at work together,
  from an upload to the path of a file whose row was still there, or from the restore of a row whose
  path has one again. `Converges`: when folder and rows are left alone, the index comes to show the
  folder, but for files that cannot be read.

Those "paid for" bounds are exact about causes: where the code's comments say "once", the model says
which failures make it twice.

## 5. Where code and intention part

Three are runs in which TLC finds the violation; `PROJECT.json` quotes the line that states the
intention.

- `hub_reprint` (`PlaceholderOnlyWhenUnmatched`): the second print of a file is recorded as an
  external print, because the cache still names the finished row of the first; its own row stays in
  STARTED.
- `outbox_breaker` (`BreakerTrips`): deliveries of one channel that fail at the same time lose
  increments of the failure counter, and the breaker stays closed at its threshold.
- `scan_overlap` (`OneWatchedScan`): a change noticed during a watched scan cancels the task but not
  its thread, and the next scan of the library starts beside it.

The others are in the models as the code has them, and the properties above name them as causes.

*Fleet and hub.* A cancel that read the row while it was queued and commits after the claim marks it
cancelled and finished; the dispatch goes on and flips it back to STARTED. Rows that cannot be printed
fill the scheduler's batch and hide a printable job beyond it, for as long as they stay. The removal of
the temporary file may raise after an upload or start whose answer was lost, and the job that may be
printing is then recorded with a code that allows a retry. A database error while recording
STARTED makes a job retryable although its print was accepted. After a process restart a job that is
still queued is completed by the printer's standing report of an earlier run of the same file. A
placeholder is QUEUED between its two commits, and the scheduler may claim it; its `storage_key` is
`/dev/null`, so the printer would be sent an empty file. A report of an earlier run ends a job that is
being sent; when the send fails and the job is retried, its end is announced twice.

*Outbox.* A rate-limited delivery whose recording fails spends an attempt, which the docstring of
`_record_result` excludes. The deliveries of a channel whose URL raises when it is resolved are
reclaimed every 300 seconds and never settled, until somebody edits the channel: no attempt is spent,
so neither the retry budget nor the breaker stops them, although such a URL passes `validate_channel`.

*Gate.* A job that is pending, or not registered yet, when the running ones are counted starts beneath
the restore, against the docstring of `restore_backup`. So does work that has given its admission
back: the thread of a cancelled watcher's scan or hub write, the rest of a notification batch after
one send has raised, and the resolving of an inbox item, for which there is no job. Running rows that
come out of an archive refuse later restores until the process restarts. When the integrity check
after the copy fails, the blobs are rolled back beneath the database that was already replaced.
Thumbnails are not in an archive, though the repository's README and `docs/disaster-recovery.md` say
they are.

*Inbox.* A task's end puts a dismissed item back to review, or an import's end overwrites it; two
requests may begin two imports from one review; a manifest that holds a choice only makes a retry go
to review instead of resolving again. The audit's repair of an item that is being imported puts it
back to review beside its running task, and a second import may begin. When the handler of a failing
task fails, the item stays busy until a repair or the next start.

*Artifacts.* Blobs go before the purge commits, so a rollback leaves rows without blobs. The sweep
takes the blob of an upload that has not committed its row. A PATCH may take the mark from the only
recommended revision; the administrator's soft delete and undelete promote nobody; two recommending
uploads whose clears cross leave none recommended.

*Scan.* A failing flush leaves the session unusable, so the scan's end is not recorded and the library
stays RUNNING, which keeps the schedule off until a restart, although the code means to "always land
in a terminal state". Two uploads choose the same free path, and one overwrites the other. A scan
beside an upload may index the file twice or trash its row. A file whose `stat` fails counts as gone.
A file that cannot be read or parsed is tried by every scan and never indexed, with the status
PARTIAL. A row restored from the trash beside the row of a file that was indexed again gives two live
rows with one path, and no scan removes either. With a symbolic link in the library's root an uploaded
file has two rows, one as the library writes the path and one as the scan resolves it, until a scan
trashes the first. A change that is noticed while a restore holds the gate is dropped by the watcher.

## 6. What is proved

TLAPS checks the following for every value of the constants that satisfies the named assumptions (sets
are finite, bounds are naturals, row ids are positive).

| module | theorem | statement |
| --- | --- | --- |
| `FleetDispatchProofs` | `Invariance`, `TypeCorrect` | `Spec => []IInv`, `Spec => []TypeOK` |
| | `PrintedAtMostOnce` | `Spec => []AtMostOnceStart` |
| | `RetriesAreSafe` | `Spec => []NoRetryAfterPrint` |
| | `UploadsHaveOwners` | `Spec => []UploadsAttended` |
| | `ReorderIsPermutation` | a reorder numbers the queue 1 to n, and keeps the others in order |
| `FleetDispatchRefinement` | `FleetImplementsPrintOnce` | `Spec => ImplementsPrintOnce` (safety part) |
| | `CancelIsFinal` | `Spec => CancelBeforeClaimIsFinal` |
| `PrinterHubProofs` | `TypeCorrect` | `Spec => []TypeOK` |
| | `AnnouncedIsFinished` | `Spec => []NoticeMeansFinished` |
| | `AnnouncedOncePerCause` | `Spec => []NoticesPaidFor` |
| | `CapturingInvariant` | `Spec => [](Tracking /\ Capturing)` |
| | `CapturedOncePerCause` | `Spec => []PlaceholdersPaidFor` |
| `NotificationOutboxProofs` | `TypeCorrect` | `Spec => []TypeOK` |
| | `RepeatsArePaidFor` | `Spec => []RepeatsPaidFor` |
| | `GivesUpAfterAllAttempts` | `Spec => GivenUpAfterAllAttempts` |
| | `BreakerIsNotEarly` | `Spec => BreakerNotEarly` |
| | `SafelyImplementsAtLeastOnce` | the safety part of `ImplementsAtLeastOnce` |
| `MaintenanceGateProofs` | `TypeCorrect` | `Spec => []TypeOK` |
| | `RestoreRunsAlone` | `Spec => []RestoreExcludesAdmitted` |
| | `NothingCountedUnderRestore` | `Spec => []OnlyUncountedUnderRestore` |
| | `RunningIsAtWork` | `Spec => []RunningMeansAtWork` |
| | `EveryRowHasItsBlob` | `Spec => []VaultIntact` |
| `InboxProofs` | `TypeCorrect` | `Spec => []TypeOK` |
| | `ImportedOnce` | `Spec => []ImportsPaidFor` |
| | `LifeCycleKept` | `Spec => LifeCycleUnlessStale` |
| | `LeftConsistent` | `Spec => []Consistent` |
| `ArtifactsProofs` | `TypeCorrect` | `Spec => []TypeOK` |
| | `BlobsKept`, `BlobsOwned` | `Spec => []BlobsPaidFor`, `Spec => []BlobsMatchRows` |
| | `MarkKept` | `Spec => KeepsRecommended` |
| `ExternalScanProofs` | `TypeCorrect` | `Spec => []TypeOK` |
| | `DuplicatesExplained` | `Spec => []DuplicatesPaidFor` |

*Fleet.* At-most-once printing is not inductive. It rests on the row of the dispatch in flight being
out of everyone's reach, and the state column does not show that, because a stale cancel or patch may
rewrite it. What nobody rewrites is the claim: edits carry the claim and the retry flag as they read
them (`EditInv`), so these are never dirty, and only the retry of a FAILED, retryable row clears them.
Hence `HeldInv`: the row in flight is claimed, not retryable and not queued. `RetryInv` says that a
retry under way, of which there is one because the handler runs on the event loop, is of a row that is
not in flight, whose print is not outstanding, and which only a cancel can have touched since.
`PrintInv` counts the prints behind the dispatch at each of its program counters; `RowInv` ties state,
claim and retry flag together. With the scheduler's locals (`SchedInv`) these are preserved by every
action; `InvariantStep` has one lemma for each group of actions. The refinement maps a job to "taken"
while the scheduler holds it, to "open" while it is queued, and to "closed" otherwise. It needs
`OneRowInv` as well: a commit changes the state of one row, so a step of the queue moves one offer. The
finality of cancels follows from the same invariant: an unclaimed cancelled row is neither in flight
nor about to be retried, and a claim's WHERE clause refuses it.

The positions after a reorder are counted: a
row that comes later in the queue has strictly more rows ahead of it, and the target's place is cut
out of the numbers of the others.

*Hub.* The announcements of a job and the threads that are about to make one are together at most one
more than the worker generations before the current one and the retries of the job, since within a
generation one sync runs at a time and a finished row is not announced again until a retry reopens it.

For the placeholders of a run, add to those inserted the one that may still come, unless the run is
`Covered`, and what threads of replaced workers still owe (`Owed`: two for a thread that has not looked
at the table, one for a thread that is about to insert or to end a row). This sum is at most 1 plus
the mishaps plus the restarts, and each step keeps it so: what a thread does to the cached row it
pays out of what it owes, a restart pays two for the thread it leaves, once as a mishap and once as a
worker, and the rest are mishaps of their own. A run is covered while the cache tracks an unfinished
row of its file, and stays so because reports are looked at in the order of the runs, except by
replaced workers, whose runs are older (`Ordered`); because a run that has been captured has a row in
the table (`Rowed`); because a printer taken for READY is not printing what it has reported
(`Unready`); and because the cache and the threads have a file whenever they have a row (`Named`), and
no transfer goes on for a row that does not exist (`Unsent`).

*Outbox.* A send belongs to a row in SENDING that is not ripe, so no other tick claims it. What was
accepted is recorded, about to be recorded, or lost. A row's attempts are at most the requests made,
and a channel's counter, in the row or as read by a recording, is at most its failed deliveries.

*Gate.* The counter equals the works that are admitted and not loose, and the backup that is under
way; the gate is closed exactly while a restore is; past the drain the counter is zero. An archive's
jobs are a consistent but outdated list, so a job is miscounted only if a restore has excused it. For
the vault: work that adds owns its key, a task the restored database forgot has its key in doubt,
archives hold the blobs of their rows but the secondary ones, and what a restore has applied is there.

*Inbox.* As long as no commit was stale, the imports done and those under way that have yet to persist
their models (`Owing`, a set of processes, counted by its cardinality) are together at most the mishaps,
the repairs of an item in IMPORTING, and 1 if the item is being imported or over (`Counted`). An import
that begins takes the 1, a completed or dismissed item keeps it, and an end that gives it back, leaving
the item FAILED, gives back what the import owed; where it has persisted already, a mishap or a repair
has been paid. As long as there was no repair either, one import at most is under way, and only while
the item is IMPORTING (`Alone`).

What is left behind (`Tidy`) also needs that all commits found the row as it was read. A failed item
can be retried (`Shown`). A job that has not begun is known to nobody, and an import whose failure is
being noted has a job that did not complete (`JobKnown`); but for repairs, the row names the job of the
import under way, and a completed job belongs to an item that is being imported or over (`JobNoted`).
What was read as staged is staged until the item is over (`StagedKept`), an archive's manifest belongs
to a staged item (`ArchiveStaged`), and its file is on disk, or about to be removed by a dismissal or an
import's end, or was removed by one that did not commit (`FileKept`).

*Artifacts.* One transaction holds the write lock. A reserved version has no row yet and is reserved
by one upload; a blob moved in is there or paid for; what a sweep does not know of is paid for. An
edit saw its revision alive, and the newest of a nonempty set of versions exists.

*Scan.* Those who are at work together have met (`Met`). One who has met nobody indexes, or uploads to,
paths that have no row or are already paid for (`Fresh`), which a restore in between pays for, and the
tasks of the watcher and of the schedule are single.

## 7. What is only model-checked, and what is not modelled

**Only model-checked.** All liveness (`ClaimsResolve`, `PrintableJobsLeave`,
`ImplementsFairPrintOnce`, `TrackedJobCloses`, `GateOpens`, `BackupEnds`, `BusyEnds`, `Converges`, the
fair part of `ImplementsAtLeastOnce`), which is out of reach of the prover because it involves fairness
and ENABLED. Every invariant and every action property of a passing run is a theorem.

**Not modelled.** The parts called "the rest" in section 1, which are most of the repository's lines:
`api/v1/models.py`, `model_views.py`, `printers.py` beyond sends and cancels, the resolvers and
importers, the provider clients, parsing and rendering, configuration, transfer. They are sequential:
a handler reads, converts and writes in one transaction, or talks to one machine; what goes wrong in
them depends on data, and a test reaches it. A model of them would restate the code. Sessions
(`auth.py`) have an interleaving of their own and are still to come.

Of the modelled components: the maintenance log and listings of the fleet; pause and resume of
printers; several printers in one PrinterHub (they share only the table); the creation of notification
channels; copies of backups in S3 and their retention; mesh files, documents and derived blobs;
re-indexing of changed files and the removal of a library.

## 8. Plan

Done: FleetDispatch, PrinterHub, NotificationOutbox, MaintenanceGate, Inbox, Artifacts, ExternalScan,
each with its proofs; the refinements of `PrintOnce` and `AtLeastOnce`.

Left, in this order:

1. **RefreshTokens** (`auth.py`): a token is rotated once, an invalidation is final.
2. Changed content and the removal of a library in ExternalScan.
3. Mesh files, thumbnails and documents in Artifacts.
