--------------------------- MODULE MaintenanceGate ---------------------------
(***************************************************************************)
(* Backup and restore of the vault, and the gate that keeps writers away   *)
(* from a restore (services/backup.py, main.py, services/jobs.py).  A      *)
(* writing request or a tick of a loop is admitted while the gate is open  *)
(* and counted until its admission is given back; a restore closes the     *)
(* gate, waits for the count to reach zero, refuses when a job is running, *)
(* and then puts the blobs of an archive in place and its database last.   *)
(* What a request leaves behind as a background task, and the thread of a  *)
(* task that was cancelled, go on after the admission has been given back. *)
(***************************************************************************)
EXTENDS Naturals, FiniteSets

CONSTANTS
    Works,       \* units of writing work: requests and the jobs they leave behind
    Keys,        \* storage keys; a database row owns the key of the same name
    Secondary,   \* the keys that are thumbnails or images embedded in a text
    Stocks,      \* what the vault may hold at the start
    Plans,       \* what the works may set out to do
    MaxMishaps,  \* bound on crashes and failing steps together
    MaxBackups,  \* bound on backups
    MaxRestores  \* bound on restores

ASSUME WorksAssumption == IsFiniteSet(Works)
ASSUME KeysAssumption ==
    IsFiniteSet(Keys) /\ Secondary \subseteq Keys /\ Stocks \subseteq SUBSET Keys
ASSUME PlansAssumption == Plans \subseteq [Works -> [key : Keys, adds : BOOLEAN]]
ASSUME BoundsAssumption == {MaxMishaps, MaxBackups, MaxRestores} \subseteq Nat

VARIABLES
    gate,     \* _restore_gate is set
    active,   \* _active_mutations
    lock,     \* who holds _backup_restore_lock
    loose,    \* works that go on though their admission has been given back
    work,     \* work[w]: the request or job w
    job,      \* job[w]: state of the BackgroundJob row of w
    rows,     \* keys the database owns
    blobs,    \* keys the storage holds
    archive,  \* the backup archive that is on disk
    backup,   \* the request that creates a backup
    restore,  \* the request that restores the archive
    excused,  \* history: keys and works that a known departure has put in doubt
    used      \* how much of each bound has been used

vars == <<gate, active, lock, loose, work, job, rows, blobs, archive, backup,
          restore, excused, used>>
Gate == <<gate, active, lock, loose>>
Vault == <<rows, blobs>>

-----------------------------------------------------------------------------
JobStates == {"none", "pending", "running", "completed", "failed"}

\* What a piece of work does: add or delete the artifact of a key.
\* pc: admitted, half (the blob is changed, the row is not) as a request or tick;
\* queued, running, written (the blob is there, the row is not) as a background
\* task with a job.
Work == [pc : {"idle", "admitted", "half", "queued", "running", "written", "done"},
         key : Keys, adds : BOOLEAN]

\* An archive: the rows, the blobs and the states of the jobs it holds.
Archive == [exists : BOOLEAN, rows : SUBSET Keys, blobs : SUBSET Keys,
            jobs : [Works -> JobStates]]
NoArchive == [exists |-> FALSE, rows |-> {}, blobs |-> {},
              jobs |-> [w \in Works |-> "none"]]

\* A backup being created: todo is what it still has to add to the archive.
Backup == [pc : {"idle", "waiting", "copying"}, copy : Archive, todo : SUBSET Keys]
NoBackup == [pc |-> "idle", copy |-> NoArchive, todo |-> {}]

\* A restore: the staged archive, the keys it has overwritten and created (the
\* list of _AppliedBlob) and, for the properties, the tasks that were still to
\* start when it counted the running jobs.
Restore == [pc : {"idle", "drain", "grace", "stage", "apply", "rollback", "end"},
            staged : Archive, overwrote : SUBSET Keys, created : SUBSET Keys,
            unstarted : SUBSET Works]
NoRestore == [pc |-> "idle", staged |-> NoArchive, overwrote |-> {}, created |-> {},
              unstarted |-> {}]

TypeOK ==
    /\ gate \in BOOLEAN
    /\ active \in Nat
    /\ lock \in {"free", "backup", "restore"}
    /\ loose \subseteq Works
    /\ work \in [Works -> Work]
    /\ job \in [Works -> JobStates]
    /\ rows \subseteq Keys /\ blobs \subseteq Keys
    /\ archive \in Archive
    /\ backup \in Backup
    /\ restore \in Restore
    /\ excused \in [keys : SUBSET Keys, works : SUBSET Works]
    /\ used \in [mishaps : Nat, backups : Nat, restores : Nat]

\* _find_blobs: the keys that go into an archive.
Archived(owned) == owned \ Secondary

\* At the start there may be an archive of the vault as it is.
Init ==
    /\ gate = FALSE /\ active = 0 /\ lock = "free" /\ loose = {}
    /\ \E plan \in Plans :
         work = [w \in Works |-> [pc |-> "idle", key |-> plan[w].key, adds |-> plan[w].adds]]
    /\ job = [w \in Works |-> "none"]
    /\ rows \in Stocks /\ blobs = rows
    /\ archive \in {NoArchive, [NoArchive EXCEPT !.exists = TRUE, !.rows = rows,
                                                 !.blobs = Archived(rows)]}
    /\ backup = NoBackup
    /\ restore = NoRestore
    /\ excused = [keys |-> {}, works |-> {}]
    /\ used = [mishaps |-> 0, backups |-> 0, restores |-> 0]

Mishap == /\ used.mishaps < MaxMishaps
          /\ used' = [used EXCEPT !.mishaps = @ + 1]
Goto(w, pc) == work' = [work EXCEPT ![w].pc = pc]
Done(w) == Goto(w, "done") /\ loose' = loose \ {w}
InDoubt(S) == excused' = [excused EXCEPT !.keys = @ \cup S]

\* The restore has counted the jobs and is not finished: nothing else should write.
Closed == restore.pc \in {"stage", "apply", "rollback"}
InTask(w) == work[w].pc \in {"running", "written"}
AtWork(w) == work[w].pc \in {"admitted", "half"} \/ InTask(w)

-----------------------------------------------------------------------------
(* Writing requests, ticks of loops, and what they leave behind *)

\* Mutant: the gate is not looked at.
AdmitUngated(w) ==
    /\ work[w].pc = "idle"
    /\ active' = active + 1
    /\ Goto(w, "admitted")
    /\ UNCHANGED <<gate, lock, loose, job, Vault, archive, backup, restore, excused, used>>

\* begin_mutating_operation; a request that it refuses is answered with 503.
Admit(w) ==
    /\ work[w].pc = "idle"
    /\ ~gate
    /\ active' = active + 1
    /\ Goto(w, "admitted")
    /\ UNCHANGED <<gate, lock, loose, job, Vault, archive, backup, restore, excused, used>>

\* end_mutating_operation, at the end of the work or before it (GiveBack).
Leave == active' = active - 1
Ends(w) == IF w \in loose THEN UNCHANGED active ELSE Leave

\* The admission ends before the work: a request has answered and left a task
\* that no job stands for (api/v1/inbox.py), a task is cancelled and the thread it
\* waits for goes on (the watcher's scans, the hub's writes), a tick raises while
\* the other deliveries of its batch are being sent.
GiveBack(w) ==
    /\ work[w].pc \in {"admitted", "half"}
    /\ w \notin loose
    /\ Leave
    /\ loose' = loose \cup {w}
    /\ UNCHANGED <<gate, lock, work, job, Vault, archive, backup, restore, excused, used>>

\* A key is free when neither a row nor a blob has it.
Free(k) == k \notin rows \cup blobs

\* A request changes storage first and commits the row afterwards, and so does
\* the hourly collection of the trash.
ChangeBlob(w) ==
    /\ work[w].pc = "admitted"
    /\ \/ work[w].adds /\ Free(work[w].key) /\ blobs' = blobs \cup {work[w].key}
       \/ ~work[w].adds /\ work[w].key \in rows /\ blobs' = blobs \ {work[w].key}
    /\ Goto(w, "half")
    /\ InDoubt(IF Closed THEN {work[w].key} ELSE {})
    /\ UNCHANGED <<Gate, job, rows, archive, backup, restore, used>>

\* The row is committed and the request ends; whoever admitted it ends the
\* admission.
CommitRow(w) ==
    /\ work[w].pc = "half"
    /\ rows' = IF work[w].adds THEN rows \cup {work[w].key} ELSE rows \ {work[w].key}
    /\ Ends(w)
    /\ Done(w)
    /\ UNCHANGED <<gate, lock, job, blobs, archive, backup, restore, excused, used>>

\* The commit fails, and the tick of _gc_loop goes on to its end: an added blob is
\* an orphan, a deleted one is missed.
CommitFails(w) ==
    /\ work[w].pc = "half"
    /\ Mishap
    /\ InDoubt(IF work[w].adds THEN {} ELSE {work[w].key})
    /\ Ends(w)
    /\ Done(w)
    /\ UNCHANGED <<gate, lock, job, Vault, archive, backup, restore>>

\* The request, or the tick of a loop, ends without a change.
Decline(w) ==
    /\ work[w].pc = "admitted"
    /\ Ends(w)
    /\ Done(w)
    /\ UNCHANGED <<gate, lock, job, Vault, archive, backup, restore, excused, used>>

\* An upload registers its job, which is pending, and answers; the admission
\* ends with the answer, and the task starts after it.  The import of an inbox
\* item is a task already when it registers its job.
Register(w) ==
    /\ work[w].pc = "admitted"
    /\ work[w].adds
    /\ job' = [job EXCEPT ![w] = "pending"]
    /\ Ends(w)
    /\ Goto(w, "queued")
    /\ UNCHANGED <<gate, lock, loose, Vault, archive, backup, restore, excused, used>>

StartJob(w) ==
    /\ work[w].pc = "queued"
    /\ job' = [job EXCEPT ![w] = "running"]
    /\ Goto(w, "running")
    /\ excused' = [excused EXCEPT !.works = @ \ {w}]
    /\ UNCHANGED <<Gate, Vault, archive, backup, restore, used>>

\* persist_artifact moves the blob into place and commits its row.
JobWrites(w) ==
    /\ work[w].pc = "running"
    /\ Free(work[w].key)
    /\ blobs' = blobs \cup {work[w].key}
    /\ Goto(w, "written")
    /\ InDoubt(IF Closed \/ w \in excused.works THEN {work[w].key} ELSE {})
    /\ UNCHANGED <<Gate, job, rows, archive, backup, restore, used>>

\* The state of the job goes to the row in whatever database there is, which is
\* inserted if need be (_persist).
JobCommits(w) ==
    /\ work[w].pc = "written"
    /\ rows' = rows \cup {work[w].key}
    /\ job' = [job EXCEPT ![w] = "completed"]
    /\ Done(w)
    /\ excused' = [excused EXCEPT !.works = @ \ {w}]
    /\ UNCHANGED <<gate, active, lock, blobs, archive, backup, restore, used>>

JobFails(w) ==
    /\ InTask(w)
    /\ job' = [job EXCEPT ![w] = "failed"]
    /\ Done(w)
    /\ excused' = [excused EXCEPT !.works = @ \ {w}]
    /\ UNCHANGED <<gate, active, lock, Vault, archive, backup, restore, used>>

-----------------------------------------------------------------------------
(* Creating a backup *)

\* The request is admitted like any other, then waits for the lock.
RequestBackup ==
    /\ backup.pc = "idle"
    /\ used.backups < MaxBackups
    /\ used' = [used EXCEPT !.backups = @ + 1]
    /\ ~gate
    /\ active' = active + 1
    /\ backup' = [backup EXCEPT !.pc = "waiting"]
    /\ UNCHANGED <<gate, lock, loose, work, job, Vault, archive, restore, excused>>

\* A snapshot of the database; the size of every blob it lists is taken, and a
\* missing one ends the backup.
Snapshot ==
    /\ backup.pc = "waiting"
    /\ lock = "free"
    /\ \/ /\ Archived(rows) \subseteq blobs
          /\ lock' = "backup"
          /\ backup' = [pc |-> "copying", todo |-> Archived(rows),
                copy |-> [exists |-> TRUE, rows |-> rows, blobs |-> {}, jobs |-> job]]
          /\ UNCHANGED active
       \/ /\ ~(Archived(rows) \subseteq blobs)
          /\ backup' = NoBackup
          /\ Leave
          /\ UNCHANGED lock
    /\ UNCHANGED <<gate, loose, work, job, Vault, archive, restore, excused, used>>

\* _add_file_to_tar; a blob that has gone since ends the backup.
CopyBlob(k) ==
    /\ backup.pc = "copying"
    /\ k \in backup.todo
    /\ \/ /\ k \in blobs
          /\ backup' = [backup EXCEPT !.todo = @ \ {k}, !.copy.blobs = @ \cup {k}]
          /\ UNCHANGED Gate
       \/ /\ k \notin blobs
          /\ backup' = NoBackup
          /\ lock' = "free" /\ Leave /\ UNCHANGED <<gate, loose>>
    /\ UNCHANGED <<work, job, Vault, archive, restore, excused, used>>

FinishBackup ==
    /\ backup.pc = "copying"
    /\ backup.todo = {}
    /\ archive' = backup.copy
    /\ backup' = NoBackup
    /\ lock' = "free" /\ Leave
    /\ UNCHANGED <<gate, loose, work, job, Vault, restore, excused, used>>

\* delete_backup, also from the background task that purges old archives; it
\* takes neither the lock nor, in that task, an admission.
DeleteArchive ==
    /\ archive.exists
    /\ archive' = NoArchive
    /\ UNCHANGED <<Gate, work, job, Vault, backup, restore, excused, used>>

-----------------------------------------------------------------------------
(* Restoring *)

\* restore_backup takes the lock, finds the archive and closes the gate
\* (_begin_restore_maintenance).
BeginRestore ==
    /\ restore.pc = "idle"
    /\ used.restores < MaxRestores
    /\ used' = [used EXCEPT !.restores = @ + 1]
    /\ lock = "free"
    /\ archive.exists
    /\ lock' = "restore"
    /\ gate' = TRUE
    /\ restore' = [restore EXCEPT !.pc = "drain"]
    /\ UNCHANGED <<active, loose, work, job, Vault, archive, backup, excused>>

Drained ==
    /\ restore.pc = "drain"
    /\ active = 0
    /\ restore' = [restore EXCEPT !.pc = "grace"]
    /\ UNCHANGED <<Gate, work, job, Vault, archive, backup, excused, used>>

\* Mutant: giving up, the restore resets the count.
DrainTimesOutResetting ==
    /\ restore.pc = "drain"
    /\ active > 0
    /\ gate' = FALSE /\ active' = 0
    /\ lock' = "free"
    /\ restore' = NoRestore
    /\ UNCHANGED <<loose, work, job, Vault, archive, backup, excused, used>>

\* Mutant: the drain has no deadline.
DrainNeverTimesOut == FALSE /\ UNCHANGED vars

\* Mutant: the lock is not given back when the drain is abandoned.
DrainTimesOutHolding ==
    /\ restore.pc = "drain"
    /\ active > 0
    /\ gate' = FALSE
    /\ restore' = NoRestore
    /\ UNCHANGED <<active, lock, loose, work, job, Vault, archive, backup, excused, used>>

\* The deadline has passed: the gate opens again and the restore is refused.
DrainTimesOut ==
    /\ restore.pc = "drain"
    /\ active > 0
    /\ gate' = FALSE
    /\ lock' = "free"
    /\ restore' = NoRestore
    /\ UNCHANGED <<active, loose, work, job, Vault, archive, backup, excused, used>>

\* The restore goes on.  The tasks that are still to start are noted, and the
\* keys of loose work between its two steps are in doubt.
PassCount ==
    /\ restore' = [restore EXCEPT !.pc = "stage",
                      !.unstarted = {w \in Works : work[w].pc = "queued"}]
    /\ InDoubt({work[w].key : w \in {v \in Works : work[v].pc = "half"}})

\* Mutant: the jobs that are pending are counted instead.
CountJobsPending ==
    /\ restore.pc = "grace"
    /\ \/ /\ \E w \in Works : job[w] = "pending"
          /\ restore' = [restore EXCEPT !.pc = "end"]
          /\ UNCHANGED excused
       \/ (\A w \in Works : job[w] # "pending") /\ PassCount
    /\ UNCHANGED <<Gate, work, job, Vault, archive, backup, used>>

\* After the grace period: a job whose row says running refuses the restore.
CountJobs ==
    /\ restore.pc = "grace"
    /\ \/ /\ \E w \in Works : job[w] = "running"
          /\ restore' = [restore EXCEPT !.pc = "end"]
          /\ UNCHANGED excused
       \/ (\A w \in Works : job[w] # "running") /\ PassCount
    /\ UNCHANGED <<Gate, work, job, Vault, archive, backup, used>>

\* _stage_restore_archive; the archive may have been deleted, or be unreadable.
Stage ==
    /\ restore.pc = "stage"
    /\ archive.exists
    /\ restore' = [restore EXCEPT !.pc = "apply", !.staged = archive]
    /\ UNCHANGED <<Gate, work, job, Vault, archive, backup, excused, used>>

StageFails ==
    /\ restore.pc = "stage"
    /\ IF archive.exists THEN Mishap ELSE UNCHANGED used
    /\ restore' = [restore EXCEPT !.pc = "end"]
    /\ UNCHANGED <<Gate, work, job, Vault, archive, backup, excused>>

Applied == restore.overwrote \cup restore.created
Record(k) == IF k \in blobs THEN [restore EXCEPT !.overwrote = @ \cup {k}]
                            ELSE [restore EXCEPT !.created = @ \cup {k}]

\* _apply_staged_blobs: what was there is saved, the target recorded, written.
ApplyBlob(k) ==
    /\ restore.pc = "apply"
    /\ k \in restore.staged.blobs \ Applied
    /\ restore' = Record(k)
    /\ blobs' = blobs \cup {k}
    /\ UNCHANGED <<Gate, work, job, rows, archive, backup, excused, used>>

\* A partial write: no intact blob of the key is left.
ApplyFails(k) ==
    /\ restore.pc = "apply"
    /\ k \in restore.staged.blobs \ Applied
    /\ Mishap
    /\ restore' = [Record(k) EXCEPT !.pc = "rollback"]
    /\ blobs' = blobs \ {k}
    /\ UNCHANGED <<Gate, work, job, rows, archive, backup, excused>>

\* What becomes doubtful when the archived database takes over: rows whose blob
\* is not there, none of them put back by the archive, and jobs whose row does
\* not say what their task does.
Doubts == [keys |-> excused.keys \cup ((restore.staged.rows \cap Secondary) \ blobs),
           works |-> {w \in Works : (restore.staged.jobs[w] = "running") # InTask(w)}]

\* Mutant: the database is replaced before the blobs are all there.
SwapDatabaseEarly ==
    /\ restore.pc = "apply"
    /\ rows' = restore.staged.rows
    /\ job' = restore.staged.jobs
    /\ restore' = [restore EXCEPT !.pc = "end"]
    /\ excused' = Doubts
    /\ UNCHANGED <<Gate, work, blobs, archive, backup, used>>

\* _restore_database_from_path
SwapDatabase ==
    /\ restore.pc = "apply"
    /\ restore.staged.blobs = Applied
    /\ rows' = restore.staged.rows
    /\ job' = restore.staged.jobs
    /\ restore' = [restore EXCEPT !.pc = "end"]
    /\ excused' = Doubts
    /\ UNCHANGED <<Gate, work, blobs, archive, backup, used>>

SwapFails ==
    /\ restore.pc = "apply"
    /\ restore.staged.blobs = Applied
    /\ Mishap
    /\ restore' = [restore EXCEPT !.pc = "rollback"]
    /\ UNCHANGED <<Gate, work, job, Vault, archive, backup, excused>>

\* The integrity check fails when the database has been replaced already: the
\* blobs are put back under the archived database.
SwapFailsLate ==
    /\ restore.pc = "apply"
    /\ restore.staged.blobs = Applied
    /\ Mishap
    /\ rows' = restore.staged.rows
    /\ job' = restore.staged.jobs
    /\ restore' = [restore EXCEPT !.pc = "rollback"]
    /\ excused' = [Doubts EXCEPT !.keys = @ \cup restore.created]
    /\ UNCHANGED <<Gate, work, blobs, archive, backup>>

\* _rollback_applied_blobs, one key; an error is logged and the next key follows.
Forget(k) == restore' = [restore EXCEPT !.overwrote = @ \ {k}, !.created = @ \ {k}]
RollBack(k) ==
    /\ restore.pc = "rollback"
    /\ k \in Applied
    /\ blobs' = IF k \in restore.overwrote THEN blobs \cup {k} ELSE blobs \ {k}
    /\ Forget(k)
    /\ UNCHANGED <<Gate, work, job, rows, archive, backup, excused, used>>

RollBackFails(k) ==
    /\ restore.pc = "rollback"
    /\ k \in Applied
    /\ Forget(k)
    /\ InDoubt({k})
    /\ UNCHANGED <<Gate, work, job, Vault, archive, backup, used>>

RolledBack ==
    /\ restore.pc = "rollback"
    /\ Applied = {}
    /\ restore' = [restore EXCEPT !.pc = "end"]
    /\ UNCHANGED <<Gate, work, job, Vault, archive, backup, excused, used>>

\* The finally clause opens the gate (_end_restore_maintenance), whatever the
\* outcome; the lock is given back on return.
EndRestore ==
    /\ restore.pc = "end"
    /\ gate' = FALSE
    /\ lock' = "free"
    /\ restore' = NoRestore
    /\ UNCHANGED <<active, loose, work, job, Vault, archive, backup, excused, used>>

-----------------------------------------------------------------------------
\* Mutant: the start leaves the rows of the jobs as they are.
CrashUnreconciled ==
    /\ Mishap
    /\ gate' = FALSE /\ active' = 0 /\ lock' = "free" /\ loose' = {}
    /\ work' = [w \in Works |-> IF work[w].pc = "idle" THEN work[w]
                                ELSE [work[w] EXCEPT !.pc = "done"]]
    /\ backup' = NoBackup
    /\ restore' = NoRestore
    /\ UNCHANGED <<job, Vault, archive, excused>>

\* The process dies and starts again: requests, tasks and threads are gone, the gate is
\* open, and of the jobs that were running some are pending (replay_safe) and
\* the others failed (reconcile_interrupted_jobs).
Crash ==
    /\ Mishap
    /\ gate' = FALSE /\ active' = 0 /\ lock' = "free" /\ loose' = {}
    /\ work' = [w \in Works |-> IF work[w].pc = "idle" THEN work[w]
                                ELSE [work[w] EXCEPT !.pc = "done"]]
    /\ \E replaySafe \in SUBSET Works :
         job' = [w \in Works |-> IF job[w] # "running" THEN job[w]
                                 ELSE IF w \in replaySafe THEN "pending" ELSE "failed"]
    /\ backup' = NoBackup
    /\ restore' = NoRestore
    /\ excused' = [keys |-> excused.keys
                      \cup {work[w].key : w \in {v \in Works : /\ work[v].pc = "half"
                                                               /\ ~work[v].adds}}
                      \cup (restore.overwrote \ blobs),
                   works |-> {}]
    /\ UNCHANGED <<Vault, archive>>

WorkStep(w) ==
    \/ Admit(w) \/ ChangeBlob(w) \/ CommitRow(w) \/ CommitFails(w)
    \/ Decline(w) \/ Register(w) \/ GiveBack(w)
    \/ StartJob(w) \/ JobWrites(w) \/ JobCommits(w) \/ JobFails(w)
BackupStep == Snapshot \/ FinishBackup \/ \E k \in Keys : CopyBlob(k)
RestoreStep ==
    \/ Drained \/ DrainTimesOut \/ CountJobs \/ Stage \/ StageFails
    \/ SwapDatabase \/ SwapFails \/ SwapFailsLate \/ RolledBack \/ EndRestore
    \/ \E k \in Keys : ApplyBlob(k) \/ ApplyFails(k) \/ RollBack(k) \/ RollBackFails(k)

Next ==
    \/ \E w \in Works : WorkStep(w)
    \/ RequestBackup \/ BackupStep \/ DeleteArchive
    \/ BeginRestore \/ RestoreStep
    \/ Crash

Spec == Init /\ [][Next]_vars

\* The threads that create a backup and restore one are never abandoned.
FairSpec == Spec /\ WF_vars(BackupStep) /\ WF_vars(RestoreStep)

-----------------------------------------------------------------------------
(* Properties *)

\* Once a restore has got past the drain, no backup is under way, and no writing
\* request or tick of a loop but those whose admission was given back before they
\* ended.  The counter of admissions and the gate are tested under one condition
\* variable, and nothing is admitted or let through on the strength of an older
\* look at either.
RestoreExcludesAdmitted ==
    restore.pc \notin {"idle", "drain"} =>
        /\ \A w \in Works : work[w].pc \in {"admitted", "half"} => w \in loose
        /\ backup.pc = "idle"

\* What is at work underneath a restore that has counted the jobs is a task that
\* had not started when they were counted, one whose row an earlier restore has
\* replaced by a row that does not say "running", or work whose admission was
\* given back before it ended: a task no job stands for, or a thread whose task
\* was cancelled.
OnlyUncountedUnderRestore ==
    Closed => \A w \in Works :
        AtWork(w) => w \in restore.unstarted \cup excused.works \cup loose

\* A job is counted as running exactly while its task runs, whatever crashes
\* come between.  Only a restore breaks it: the archived database says what was
\* running when it was made, and refuses the next restore until a restart.
RunningMeansAtWork ==
    \A w \in Works : (job[w] = "running") # InTask(w) => w \in excused.works

\* Every row has its blob.  The exceptions are a deletion between its two
\* steps, a blob half-written until the rollback gets to it, and the keys in
\* doubt: a deletion that did not commit, a rollback that failed, an integrity
\* check that failed with the database replaced, a task or a thread that wrote
\* underneath a restore or that a restore has made the database forget, and the
\* secondary blobs, which no archive holds.
VaultIntact ==
    \A k \in rows \ blobs :
        \/ k \in excused.keys
        \/ \E w \in Works : work[w] = [pc |-> "half", key |-> k, adds |-> FALSE]
        \/ restore.pc = "rollback" /\ k \in restore.overwrote

\* A gate that was closed opens again, also when admitted work never ends: a
\* backup that waits for the lock of the restore that waits for it to end is let
\* go by the deadline of the drain.
GateOpens == gate ~> ~gate

\* And the backup gets its turn.
BackupEnds == backup.pc # "idle" ~> backup.pc = "idle"

=============================================================================
