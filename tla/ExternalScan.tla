----------------------------- MODULE ExternalScan -----------------------------
(***************************************************************************)
(* One external library: a folder on a NAS and the index of its files      *)
(* (services/external_library.py).  The schedule (main.py), the watcher    *)
(* (services/library_watcher.py) and requests (api/v1/                     *)
(* external_libraries.py) start scans; a scan lists the folder, then reads *)
(* the index, then adds and trashes rows one by one.  Uploads write back   *)
(* into the folder (services/ingestion.py); rows go to the trash and come  *)
(* back by hand (api/v1/admin.py).  The library is enabled, has a          *)
(* schedule, and may be watched.                                           *)
(***************************************************************************)
EXTENDS Naturals, FiniteSets, FiniteSetsExt

CONSTANTS
    Paths,       \* paths of files under the root, as rows may have them
    Real,        \* Real[x]: x with the symbolic links of the root resolved
    Procs,       \* scans, debounced tasks and uploads
    MaxRows,     \* bound on the live rows of one path
    MaxChanges,  \* bound on uploads and on what people do to the folder and rows
    MaxMishaps   \* bound on crashes, failing reads and writes, mounts that drop

ASSUME SetsAssumption == IsFiniteSet(Paths) /\ IsFiniteSet(Procs)
ASSUME RealAssumption ==
    Real \in [Paths -> Paths] /\ \A x \in Paths : Real[Real[x]] = Real[x]
ASSUME BoundsAssumption ==
    MaxRows \in Nat \ {0} /\ MaxChanges \in Nat /\ MaxMishaps \in Nat

VARIABLES
    disk,     \* the files in the folder, by their resolved paths
    broken,   \* those that cannot be read or parsed
    rows,     \* rows[x]: the live rows with path x, numbered by path
    running,  \* last_scan_status is RUNNING
    due,      \* the schedule has fired since last_scanned_at
    watch,    \* the watcher has a task for the library
    proc,     \* proc[p]: what p is doing
    paid,     \* history: paths indexed by one of two that were at work together,
              \* uploaded to while a row still had them, or restored to a second row
    stranded, \* history: a scan has died of a failing write, and none has ended since
    changes,  \* changes so far
    mishaps   \* mishaps so far

vars == <<disk, broken, rows, running, due, watch, proc, paid, stranded, changes, mishaps>>

-----------------------------------------------------------------------------
Ids == 1..MaxRows

\* What a scan can find.
Files == {Real[x] : x \in Paths}

\* walk: the files p found, then those it has to index, or the path it uploads to;
\* seen: the rows it has to trash, by path, 0 if none; met: somebody else has been
\* at work since p began.
Proc == [kind : {"cron", "manual", "watch", "thread", "upload"},
         pc : {"none", "sleeping", "queued", "begun", "walked", "syncing", "emptied",
               "chosen", "placed"},
         walk : SUBSET Paths, seen : [Paths -> 0..MaxRows], met : BOOLEAN]
NoProc == [kind |-> "manual", pc |-> "none", walk |-> {},
           seen |-> [x \in Paths |-> 0], met |-> FALSE]

AtWork(kind) == {p \in Procs : proc[p].kind = kind /\ proc[p].pc # "none"}

TypeOK ==
    /\ disk \subseteq Files /\ broken \subseteq disk
    /\ rows \in [Paths -> SUBSET Ids]
    /\ running \in BOOLEAN /\ due \in BOOLEAN /\ watch \in BOOLEAN
    /\ proc \in [Procs -> Proc]
    /\ paid \subseteq Paths /\ stranded \in BOOLEAN
    /\ changes \in 0..MaxChanges /\ mishaps \in 0..MaxMishaps
    /\ \A kind \in {"watch", "cron"} : Cardinality(AtWork(kind)) <= 1

Init ==
    /\ disk \in SUBSET Files /\ broken = {}
    /\ rows \in [Paths -> {{}, {1}}]
    /\ \A x \in Paths \ Files : rows[x] = {}
    /\ running = FALSE /\ due = TRUE
    /\ watch \in BOOLEAN
    /\ proc = [p \in Procs |-> NoProc]
    /\ paid = {} /\ stranded = FALSE
    /\ changes = 0 /\ mishaps = 0

At(p, pc) == proc[p].pc = pc
Goto(p, pc) == proc' = [proc EXCEPT ![p].pc = pc]
Mishap == mishaps < MaxMishaps /\ mishaps' = mishaps + 1
Indexed == {x \in Paths : rows[x] # {}}

Scanning(p) == proc[p].pc \in {"begun", "walked", "syncing", "emptied"}
Working(p) == Scanning(p) \/ proc[p].pc \in {"chosen", "placed"}

\* p gets to work; those at work already and p have met.
Meet(p, q, me) ==
    IF q = p THEN [me EXCEPT !.met = \E r \in Procs \ {p} : Working(r)]
    ELSE IF Working(q) THEN [proc[q] EXCEPT !.met = TRUE] ELSE proc[q]
Work(p, me) == proc' = [q \in Procs |-> Meet(p, q, me)]

\* Numbers that no row with path x has, and that no scan means to trash.
Free(x) == {i \in Ids \ rows[x] : \A q \in Procs : proc[q].seen[x] # i}

\* A row with path x, by p.
Insert(p, x) ==
    /\ Free(x) # {}
    /\ rows' = [rows EXCEPT ![x] = @ \cup {Min(Free(x))}]
    /\ paid' = IF proc[p].met THEN paid \cup {x} ELSE paid

-----------------------------------------------------------------------------
(* The watcher *)

\* _schedule_scan and _stop_watcher cancel the library's task, asleep or in a scan:
\* the thread of the scan goes on, and the task lets go of _scanning.  So a task
\* that wakes up never finds the library in _scanning, and _rescan_requested
\* stays empty.
Cancelled(now) ==
    [q \in Procs |->
        IF now[q].kind # "watch" \/ now[q].pc = "none" THEN now[q]
        ELSE IF now[q].pc \in {"sleeping", "queued"} THEN NoProc
        ELSE [now[q] EXCEPT !.kind = "thread"]]

\* awatch reports a change of the folder; a debounced task takes the place of the
\* one there may be.  A change that finds all of Procs at work goes unnoticed, as
\* one does when awatch has failed.
Notice(now) ==
    LET free == {p \in Procs : watch /\ Cancelled(now)[p].pc = "none"}
        task == [NoProc EXCEPT !.kind = "watch", !.pc = "sleeping"]
    IN IF free = {} THEN proc' = now
       ELSE \E p \in free : proc' = [Cancelled(now) EXCEPT ![p] = task]

\* _debounced_scan wakes up; it gives up while a restore holds the gate.
WakeUp(p) ==
    /\ At(p, "sleeping")
    /\ \/ Goto(p, "queued")
       \/ proc' = [proc EXCEPT ![p] = NoProc]
    /\ UNCHANGED <<disk, broken, rows, running, due, watch, paid, stranded, changes, mishaps>>

\* refresh, after the library's settings have been changed
StartWatcher ==
    /\ ~watch
    /\ watch' = TRUE
    /\ UNCHANGED <<disk, broken, rows, running, due, proc, paid, stranded, changes, mishaps>>

StopWatcher ==
    /\ watch
    /\ watch' = FALSE
    /\ proc' = Cancelled(proc)
    /\ UNCHANGED <<disk, broken, rows, running, due, paid, stranded, changes, mishaps>>

-----------------------------------------------------------------------------
(* Scans that are due or asked for *)

CronFires ==
    /\ ~due
    /\ due' = TRUE
    /\ UNCHANGED <<disk, broken, rows, running, watch, proc, paid, stranded, changes, mishaps>>

Enter(p, kind) ==
    /\ At(p, "none")
    /\ proc' = [proc EXCEPT ![p] = [NoProc EXCEPT !.kind = kind, !.pc = "queued"]]
    /\ UNCHANGED <<disk, broken, rows, running, due, watch, paid, stranded, changes, mishaps>>

\* Mutant: the loop does not wait for the scan it has started.
TickAgain(p) ==
    /\ due /\ ~running
    /\ Enter(p, "cron")

\* _run_due_external_scans: libraries_due_for_scan, and the loop waits for the scan.
Tick(p) ==
    /\ due /\ ~running
    /\ AtWork("cron") = {}
    /\ Enter(p, "cron")

\* scan_now
ScanNow(p) == Enter(p, "manual")

-----------------------------------------------------------------------------
(* scan_library *)

\* RUNNING is committed whatever the status was.
Begin(p) ==
    /\ At(p, "queued")
    /\ running' = TRUE
    /\ Work(p, [proc[p] EXCEPT !.pc = "begun"])
    /\ UNCHANGED <<disk, broken, rows, due, watch, paid, stranded, changes, mishaps>>

\* _finish: any end of a scan is a status other than RUNNING, and a last_scanned_at.
Finish(p) ==
    /\ running' = FALSE /\ due' = FALSE /\ stranded' = FALSE
    /\ proc' = [proc EXCEPT ![p] = NoProc]

\* The root is missing, or the scan ends by an exception that is not the
\* database's.
ScanFails(p) ==
    /\ Scanning(p)
    /\ Mishap
    /\ Finish(p)
    /\ UNCHANGED <<disk, broken, rows, watch, paid, changes>>

\* A flush fails: the session refuses the UPDATE of _finish as well, and RUNNING
\* stays.
FlushFails(p) ==
    /\ Scanning(p)
    /\ Mishap
    /\ stranded' = TRUE
    /\ proc' = [proc EXCEPT ![p] = NoProc]
    /\ UNCHANGED <<disk, broken, rows, running, due, watch, paid, changes>>

\* _walk; a file that cannot be looked at counts as absent.
Walk(p) ==
    /\ At(p, "begun")
    /\ \/ /\ proc' = [proc EXCEPT ![p].pc = "walked", ![p].walk = disk]
          /\ UNCHANGED mishaps
       \/ \E f \in disk : /\ Mishap
                           /\ proc' = [proc EXCEPT ![p].pc = "walked",
                                                   ![p].walk = disk \ {f}]
    /\ UNCHANGED <<disk, broken, rows, running, due, watch, paid, stranded, changes>>

\* Mutant: the rows of files that are still there are not looked up.
KnownGone == Indexed \ disk

\* The live rows of the library, uploads included.
Known == Indexed

\* Files without a row are to be indexed, rows without a file to be trashed, also
\* those whose path is written in another way; of two rows with one path, the
\* dictionary keeps either.  An empty folder is not
\* believed (root_empty_aborted).
ReadRows(p) ==
    /\ At(p, "walked")
    /\ LET found == proc[p].walk
           gone == Known \ found IN
       \E row \in [gone -> Ids] :
          /\ \A x \in gone : row[x] \in rows[x]
          /\ proc' = [proc EXCEPT
                ![p].pc = IF found = {} /\ Known # {} THEN "emptied" ELSE "syncing",
                ![p].walk = found \ Known,
                ![p].seen = [x \in Paths |-> IF x \in gone THEN row[x] ELSE 0]]
    /\ UNCHANGED <<disk, broken, rows, running, due, watch, paid, stranded, changes, mishaps>>

ToIndex(p) == proc[p].walk
ToRemove(p) == {x \in Paths : proc[p].seen[x] # 0}

Abort(p) ==
    /\ At(p, "emptied")
    /\ Finish(p)
    /\ UNCHANGED <<disk, broken, rows, watch, paid, changes, mishaps>>

\* _index_external_file; a file that has gone meanwhile, or that cannot be read or
\* parsed, is an error of its own (PARTIAL), and the scan goes on.
Index(p, x) ==
    /\ At(p, "syncing")
    /\ x \in ToIndex(p)
    /\ IF x \in disk \ broken THEN Insert(p, x) ELSE UNCHANGED <<rows, paid>>
    /\ proc' = [proc EXCEPT ![p].walk = @ \ {x}]
    /\ UNCHANGED <<disk, broken, running, due, watch, stranded, changes, mishaps>>

\* The same of a file that can be read the next time.
IndexFails(p, x) ==
    /\ At(p, "syncing")
    /\ x \in ToIndex(p)
    /\ Mishap
    /\ proc' = [proc EXCEPT ![p].walk = @ \ {x}]
    /\ UNCHANGED <<disk, broken, rows, running, due, watch, paid, stranded, changes>>

\* _remove_external_file; the row may be in the trash already.
Remove(p, x) ==
    /\ At(p, "syncing")
    /\ ToIndex(p) = {} /\ x \in ToRemove(p)
    /\ rows' = [rows EXCEPT ![x] = @ \ {proc[p].seen[x]}]
    /\ paid' = IF Cardinality(rows'[x]) > 1 THEN paid ELSE paid \ {x}
    /\ proc' = [proc EXCEPT ![p].seen[x] = 0]
    /\ UNCHANGED <<disk, broken, running, due, watch, stranded, changes, mishaps>>

ScanEnds(p) ==
    /\ At(p, "syncing")
    /\ ToIndex(p) = {} /\ ToRemove(p) = {}
    /\ Finish(p)
    /\ UNCHANGED <<disk, broken, rows, watch, paid, changes, mishaps>>

-----------------------------------------------------------------------------
(* The folder, and the rows by hand *)

Changes == changes < MaxChanges /\ changes' = changes + 1

\* Somebody adds or removes a file on the NAS.
Change(f) ==
    /\ Changes
    /\ IF f \in disk
       THEN disk' = disk \ {f} /\ broken' = broken \ {f}
       ELSE disk' = disk \cup {f} /\ broken' \in {broken, broken \cup {f}}
    /\ Notice(proc)
    /\ UNCHANGED <<rows, running, due, watch, paid, stranded, mishaps>>

\* resolve_write_target: a path that is free in the folder, whatever the rows say,
\* written as the library has its root, which may have been set anew
Choose(p, x) ==
    /\ At(p, "none")
    /\ Real[x] \notin disk /\ Changes
    /\ Work(p, [NoProc EXCEPT !.kind = "upload", !.pc = "chosen", !.walk = {x}])
    /\ paid' = IF x \in Indexed THEN paid \cup {x} ELSE paid
    /\ UNCHANGED <<disk, broken, rows, running, due, watch, stranded, mishaps>>

\* persist_artifact: move_in, over whatever has come to the path since
Place(p, x) ==
    /\ At(p, "chosen") /\ x \in proc[p].walk
    /\ disk' = disk \cup {Real[x]} /\ broken' = broken \ {Real[x]}
    /\ Notice([proc EXCEPT ![p].pc = "placed"])
    /\ UNCHANGED <<rows, running, due, watch, paid, stranded, changes, mishaps>>

\* persist_artifact: the row
Record(p, x) ==
    /\ At(p, "placed") /\ x \in proc[p].walk
    /\ Insert(p, x)
    /\ proc' = [proc EXCEPT ![p] = NoProc]
    /\ UNCHANGED <<disk, broken, running, due, watch, stranded, changes, mishaps>>

\* admin_delete_resource, delete_file_revision: the file stays in the folder.
SoftDelete(x) ==
    /\ Changes
    /\ \E i \in rows[x] : rows' = [rows EXCEPT ![x] = @ \ {i}]
    /\ paid' = IF rows'[x] = {} THEN paid \ {x} ELSE paid
    /\ UNCHANGED <<disk, broken, running, due, watch, proc, stranded, mishaps>>

\* Somebody who knows of no row with path x is about to add one.
Coming(x) == \E p \in Procs : /\ proc[p].pc \in {"syncing", "chosen", "placed"}
                               /\ x \in proc[p].walk

\* restore_resource: rows with any path may be in the trash from before, and one
\* that a scan means to trash may have been trashed by another; nothing asks
\* whether the path has a row again.
Restore(x) ==
    /\ Changes
    /\ \E i \in Ids \ rows[x] : /\ i \in Free(x) => i = Min(Free(x))
                              /\ rows' = [rows EXCEPT ![x] = @ \cup {i}]
    /\ paid' = IF x \in Indexed \/ Coming(x) THEN paid \cup {x} ELSE paid
    /\ UNCHANGED <<disk, broken, running, due, watch, proc, stranded, mishaps>>

UploadFails(p) ==
    /\ proc[p].pc \in {"chosen", "placed"}
    /\ Mishap
    /\ proc' = [proc EXCEPT ![p] = NoProc]
    /\ UNCHANGED <<disk, broken, rows, running, due, watch, paid, stranded, changes>>

\* Mutant: a scan stranded in RUNNING is left as it is.
RestartBlindly ==
    /\ Mishap
    /\ proc' = [p \in Procs |-> NoProc]
    /\ UNCHANGED <<disk, broken, rows, running, due, watch, paid, stranded, changes>>

\* The process dies; reset_orphaned_scans runs before anything else.
Restart ==
    /\ Mishap
    /\ proc' = [p \in Procs |-> NoProc]
    /\ running' = FALSE /\ stranded' = FALSE
    /\ due' = (due /\ ~running)
    /\ UNCHANGED <<disk, broken, rows, watch, paid, changes>>

-----------------------------------------------------------------------------
Step(p) ==
    \/ WakeUp(p) \/ Begin(p) \/ Walk(p) \/ ReadRows(p) \/ Abort(p) \/ ScanEnds(p)
    \/ \E x \in Paths : Index(p, x) \/ Remove(p, x) \/ Place(p, x) \/ Record(p, x)

Next ==
    \/ \E p \in Procs : \/ Step(p) \/ Tick(p) \/ ScanNow(p)
                        \/ ScanFails(p) \/ FlushFails(p) \/ UploadFails(p)
                        \/ \E x \in Paths : Choose(p, x) \/ IndexFails(p, x)
    \/ \E f \in Files : Change(f)
    \/ \E x \in Paths : SoftDelete(x) \/ Restore(x)
    \/ CronFires \/ StartWatcher \/ StopWatcher \/ Restart

Spec == Init /\ [][Next]_vars

\* Threads run, the schedule fires, and the scheduler looks at it every minute.
Fairness ==
    /\ \A p \in Procs : WF_vars(Step(p))
    /\ WF_vars(CronFires)
    /\ WF_vars(\E p \in Procs : Tick(p))
FairSpec == Spec /\ Fairness

-----------------------------------------------------------------------------
(* Properties *)

\* Two live rows with one path come from two scans, or a scan and an upload, that
\* were at work together (scan_library marks RUNNING without looking, and an upload
\* into the library does not mark it at all), from an upload to the path of a file
\* that had been removed and not been missed yet (_collision_safe_path asks the
\* folder only), or from the restore of a trashed row whose path has a row again or
\* is about to; otherwise a scan knows the rows of all scans and uploads before it.
DuplicatesPaidFor ==
    \A x \in Paths : Cardinality(rows[x]) > 1 => x \in paid

\* Once the folder and the rows are left alone, the index comes to show just the
\* files of the folder, by the paths a scan gives them, whatever crashed, overlapped,
\* was missed, restored or written under another path before; except that a file
\* that cannot be read is not added, an emptied folder is never believed, and a
\* stranded scan keeps the schedule off until a restart.
Converges ==
    <>[](disk = {} \/ stranded \/ (disk \ broken \subseteq Indexed /\ Indexed \subseteq disk))

-----------------------------------------------------------------------------
(* Known not to hold *)

\* "Don't overlap scans for the same library; remember to rescan after."
\* (services/library_watcher.py:217) A change that is noticed during a scan cancels
\* the task, but not its thread, and the next scan starts beside it.
OneWatchedScan ==
    Cardinality({p \in Procs : Scanning(p) /\ proc[p].kind \in {"watch", "thread"}}) <= 1
=============================================================================
