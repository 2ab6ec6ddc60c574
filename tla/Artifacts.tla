------------------------------ MODULE Artifacts ------------------------------
(***************************************************************************)
(* The G-code revisions of one Model and their blobs: uploads              *)
(* (services/ingestion.py), edits and deletions (api/v1/models.py,         *)
(* api/v1/admin.py), the trash and the orphan sweep (services/trash.py,    *)
(* services/storage_utils.py).  Rows change in transactions, blobs at      *)
(* once; a transaction reads what is committed when it asks, holds the     *)
(* database's write lock from its first write to its commit, and writes    *)
(* the columns it has changed.                                             *)
(***************************************************************************)
EXTENDS Naturals, FiniteSets, FiniteSetsExt

CONSTANTS
    Procs,      \* requests, background tasks and the GC
    MaxVersion, \* bound on the versions handed out
    MaxOps      \* bound on the operations started

ASSUME ProcsAssumption == IsFiniteSet(Procs) /\ "nobody" \notin Procs /\ "missing" \notin Procs
ASSUME BoundsAssumption == MaxVersion \in Nat \ {0} /\ MaxOps \in Nat

VARIABLES
    model,  \* the Model row: its state and its counter next_file_version
    rows,   \* rows[v]: the File row of version v
    blobs,  \* blobs[v]: whose upload the blob at the key of version v comes from
    proc,   \* proc[p]: what p is doing
    paid,   \* history: versions whose blob a purge took, or whose upload and a
            \* sweep ran together
    ops     \* operations started so far

vars == <<model, rows, blobs, proc, paid, ops>>

-----------------------------------------------------------------------------
Versions == 1..MaxVersion

\* rec: is_recommended; by: the upload the row comes from.
Row == [exists : BOOLEAN, live : BOOLEAN, rec : BOOLEAN, by : Procs \cup {"nobody"}]
NoRow == [exists |-> FALSE, live |-> FALSE, rec |-> FALSE, by |-> "nobody"]

\* A revision of an older integration; its counter may never have been set.
Legacy == [exists |-> TRUE, live |-> TRUE, rec |-> TRUE, by |-> "nobody"]
NoBlob == "missing"

\* What later decides a write is the part of a row that it may change.
Look == [live : BOOLEAN, rec : BOOLEAN]
Glance(row) == [live |-> row.live, rec |-> row.rec]
Rows == [v \in Versions |-> Glance(rows[v])]

\* v: the revision worked on; flag: is_recommended as asked for, or a blob is gone
\* before the lock; seen: the rows as read; todo: rows to delete, or keys claimed;
\* keys: blobs still to remove; whole: the Model goes too; gc: a sweep follows.
Proc == [pc : {"idle", "resolved", "reserved", "moved", "persisted", "clearing",
               "patching", "deleting", "repairing", "purge", "purging", "purged",
               "claimed", "sweeping"},
         v : Versions, flag : BOOLEAN, seen : [Versions -> Look],
         todo : SUBSET Versions, keys : SUBSET Versions,
         whole : BOOLEAN, gc : BOOLEAN]
Idle == [pc |-> "idle", v |-> 1, flag |-> FALSE, seen |-> [v \in Versions |-> Glance(NoRow)],
         todo |-> {}, keys |-> {}, whole |-> FALSE, gc |-> FALSE]

\* uq_files_live_recommended_gcode
Unique(r) == Cardinality({v \in Versions : r[v].live /\ r[v].rec}) <= 1

TypeOK ==
    /\ model \in [state : {"live", "trashed", "gone"}, next : 1..(MaxVersion + 1)]
    /\ rows \in [Versions -> Row]
    /\ blobs \in [Versions -> Procs \cup {"nobody", NoBlob}]
    /\ proc \in [Procs -> Proc]
    /\ paid \subseteq Versions
    /\ ops \in 0..MaxOps
    /\ Unique(rows)

Init ==
    /\ rows \in {[v \in Versions |-> NoRow],
                 [v \in Versions |-> IF v = 1 THEN Legacy ELSE NoRow]}
    /\ blobs = [v \in Versions |-> IF rows[v].exists THEN "nobody" ELSE NoBlob]
    /\ model = [state |-> "live", next |-> 1]
    /\ proc = [p \in Procs |-> Idle]
    /\ paid = {}
    /\ ops = 0

At(p, pc) == proc[p].pc = pc
Goto(p, pc) == proc' = [proc EXCEPT ![p].pc = pc]
Done(p) == proc' = [proc EXCEPT ![p] = Idle]
Begin == ops < MaxOps /\ ops' = ops + 1
Start(p, op) == Begin /\ At(p, "idle") /\ proc' = [proc EXCEPT ![p] = op]

Existing == {v \in Versions : rows[v].exists}
Live == {v \in Versions : rows[v].live}
Recommended == {v \in Live : rows[v].rec}

\* A transaction that has written: nobody else may.
Unlocked == \A p \in Procs : proc[p].pc \notin {"reserved", "moved", "purging"}

\* A session that read seen and leaves new writes what it has changed.
Changed(seen, new) == {v \in Versions : new[v] # seen[v]}
Dirty(seen, new) ==
    [v \in Versions |->
        [rows[v] EXCEPT !.live = IF new[v].live # seen[v].live THEN new[v].live ELSE @,
                        !.rec = IF new[v].rec # seen[v].rec THEN new[v].rec ELSE @]]

\* p commits r, unless the index or a row that is gone refuses.
Write(p, touched, r) ==
    /\ Unlocked
    /\ rows' = IF Unique(r) /\ touched \subseteq Existing THEN r ELSE rows
    /\ Done(p)
    /\ UNCHANGED <<model, blobs, paid, ops>>

-----------------------------------------------------------------------------
(* Uploads *)

\* resolve_or_create_model takes the Model out of the trash; a revision is added
\* to a live Model, and may ask to be recommended.
Upload(p, flag) ==
    /\ model.state # "gone"
    /\ flag => model.state = "live"
    /\ model' = [model EXCEPT !.state = "live"]
    /\ Start(p, [Idle EXCEPT !.pc = "resolved", !.flag = flag])
    /\ UNCHANGED <<rows, blobs, paid>>

\* The counter, or the version after the newest file when the counter is behind.
NextVersion ==
    LET floor == IF Existing = {} THEN 1 ELSE Max(Existing) + 1
    IN IF model.next < floor THEN floor ELSE model.next

\* Mutant: the version is read without the lock of the counter's UPDATE.
ReserveRacy(p) ==
    /\ At(p, "resolved")
    /\ model.state # "gone" /\ NextVersion <= MaxVersion
    /\ proc' = [proc EXCEPT ![p].pc = "reserved", ![p].v = NextVersion]
    /\ UNCHANGED <<model, rows, blobs, paid, ops>>

\* persist_artifact, to the UPDATE of the counter
Reserve(p) ==
    /\ At(p, "resolved") /\ Unlocked
    /\ model.state # "gone" /\ NextVersion <= MaxVersion
    /\ proc' = [proc EXCEPT ![p].pc = "reserved", ![p].v = NextVersion]
    /\ UNCHANGED <<model, rows, blobs, paid, ops>>

\* A sweep has read which keys are claimed and is not done.
Sweeping == \E p \in Procs : proc[p].pc \in {"claimed", "sweeping"}

MoveIn(p) ==
    /\ At(p, "reserved")
    /\ blobs' = [blobs EXCEPT ![proc[p].v] = p]
    /\ paid' = IF Sweeping THEN paid \cup {proc[p].v} ELSE paid \ {proc[p].v}
    /\ Goto(p, "moved")
    /\ UNCHANGED <<model, rows, ops>>

\* Mutant: the recommended revisions keep the mark next to the new one.
PersistBoth(p) ==
    /\ At(p, "moved")
    /\ rows' = [rows EXCEPT ![proc[p].v] =
           [exists |-> TRUE, live |-> TRUE, by |-> p,
            rec |-> proc[p].flag \/ Recommended = {}]]
    /\ model' = [model EXCEPT !.next = proc[p].v + 1]
    /\ IF proc[p].flag THEN Goto(p, "persisted") ELSE Done(p)
    /\ UNCHANGED <<blobs, paid, ops>>

\* Mutant: the others are cleared and the new one is not marked.
PersistUnmarked(p) ==
    /\ At(p, "moved")
    /\ rows' = [w \in Versions |->
           IF w = proc[p].v
           THEN [exists |-> TRUE, live |-> TRUE, by |-> p, rec |-> Recommended = {}]
           ELSE [rows[w] EXCEPT !.rec = @ /\ (rows[w].live => ~proc[p].flag)]]
    /\ model' = [model EXCEPT !.next = proc[p].v + 1]
    /\ IF proc[p].flag THEN Goto(p, "persisted") ELSE Done(p)
    /\ UNCHANGED <<blobs, paid, ops>>

\* The rest of persist_artifact: a recommended revision takes the mark from the
\* others, and the first live one claims it; the counter is committed with the row.
Persist(p) ==
    /\ At(p, "moved")
    /\ rows' = [w \in Versions |->
           IF w = proc[p].v
           THEN [exists |-> TRUE, live |-> TRUE, by |-> p,
                 rec |-> proc[p].flag \/ Recommended = {}]
           ELSE [rows[w] EXCEPT !.rec = @ /\ (rows[w].live => ~proc[p].flag)]]
    /\ model' = [model EXCEPT !.next = proc[p].v + 1]
    /\ IF proc[p].flag THEN Goto(p, "persisted") ELSE Done(p)
    /\ UNCHANGED <<blobs, paid, ops>>

\* add_gcode_revision_to_model clears the others once more.
ClearRead(p) ==
    /\ At(p, "persisted")
    /\ proc' = [proc EXCEPT ![p].pc = "clearing", ![p].seen = Rows]
    /\ UNCHANGED <<model, rows, blobs, paid, ops>>

\* The other live revisions lose the mark, v is as given.
Others(seen, v, row) ==
    [w \in Versions |-> IF w = v THEN row
                        ELSE [seen[w] EXCEPT !.rec = @ /\ ~seen[w].live]]

Clear(p) ==
    /\ At(p, "clearing")
    /\ LET seen == proc[p].seen
           new == Others(seen, proc[p].v, seen[proc[p].v])
       IN Write(p, Changed(seen, new), Dirty(seen, new))

-----------------------------------------------------------------------------
(* Edits of a revision *)

\* update_file_revision with is_recommended
AskPatch(p, v, flag) ==
    /\ rows[v].live
    /\ Start(p, [Idle EXCEPT !.pc = "patching", !.v = v, !.flag = flag, !.seen = Rows])
    /\ UNCHANGED <<model, rows, blobs, paid>>

Patch(p) ==
    /\ At(p, "patching")
    /\ LET seen == proc[p].seen
           mine == [seen[proc[p].v] EXCEPT !.rec = proc[p].flag]
           new == IF proc[p].flag THEN Others(seen, proc[p].v, mine)
                  ELSE [seen EXCEPT ![proc[p].v] = mine]
       IN Write(p, Changed(seen, new), Dirty(seen, new))

\* delete_file_revision
AskDelete(p, v) ==
    /\ rows[v].live
    /\ Start(p, [Idle EXCEPT !.pc = "deleting", !.v = v, !.seen = Rows])
    /\ UNCHANGED <<model, rows, blobs, paid>>

\* The newest live revision but v becomes the recommended one.
Promote(r, v) ==
    LET left == {w \in Versions \ {v} : r[w].live}
    IN IF left = {} THEN r ELSE [r EXCEPT ![Max(left)].rec = TRUE]

Delete(p) ==
    /\ At(p, "deleting")
    /\ LET seen == proc[p].seen
           v == proc[p].v
           new == [seen EXCEPT ![v].live = FALSE, ![v].rec = FALSE]
           gone == Dirty(seen, new)
       IN Write(p, {v}, IF seen[v].rec THEN Promote(gone, v) ELSE gone)

\* _restore_recommended, a repair of the vault audit
AskRepair(p) ==
    /\ Live # {}
    /\ Start(p, [Idle EXCEPT !.pc = "repairing", !.seen = Rows])
    /\ UNCHANGED <<model, rows, blobs, paid>>

Repair(p) ==
    /\ At(p, "repairing")
    /\ LET seen == proc[p].seen
           best == Max({v \in Versions : seen[v].live})
           bare == Others(seen, best, [seen[best] EXCEPT !.rec = FALSE])
       IN Write(p, Changed(seen, bare) \cup {best},
                [Dirty(seen, bare) EXCEPT ![best].rec = TRUE])

\* admin_delete_resource and restore_resource of a File; they leave the mark alone.
SoftDelete(v) ==
    /\ rows[v].live /\ Unlocked
    /\ rows' = [rows EXCEPT ![v].live = FALSE]
    /\ Begin
    /\ UNCHANGED <<model, blobs, proc, paid>>

Undelete(v) ==
    /\ rows[v].exists /\ ~rows[v].live /\ Unlocked
    /\ rows' = [rows EXCEPT ![v].live = TRUE]
    /\ Unique(rows')
    /\ Begin
    /\ UNCHANGED <<model, blobs, proc, paid>>

\* soft_delete_model, restore_model
Trash ==
    /\ model.state = "live" /\ Unlocked
    /\ model' = [model EXCEPT !.state = "trashed"]
    /\ Begin
    /\ UNCHANGED <<rows, blobs, proc, paid>>

Restore ==
    /\ model.state = "trashed" /\ Unlocked
    /\ model' = [model EXCEPT !.state = "live"]
    /\ Begin
    /\ UNCHANGED <<rows, blobs, proc, paid>>

\* admin_delete_resource of the Model with hard: the rows go with it, and their
\* blobs are left to the sweep.
Drop ==
    /\ Begin
    /\ model.state # "gone" /\ Unlocked
    /\ model' = [model EXCEPT !.state = "gone"]
    /\ rows' = [v \in Versions |-> NoRow]
    /\ UNCHANGED <<blobs, proc, paid>>

-----------------------------------------------------------------------------
(* Permanent deletion: blobs first, then the rows in one transaction *)

StartPurge(p, S, whole, gc) ==
    /\ Start(p, [Idle EXCEPT !.pc = "purge", !.seen = Rows, !.todo = S, !.keys = S,
                             !.whole = whole, !.gc = gc])
    /\ UNCHANGED <<model, rows, blobs, paid>>

\* purge_model, purge_expired_trash; admin_delete_resource with hard
PurgeModel(p) == model.state = "trashed" /\ StartPurge(p, Existing, TRUE, FALSE)
PurgeFile(p, v) == rows[v].exists /\ StartPurge(p, {v}, FALSE, FALSE)

\* gc_soft_deleted: what has expired goes; S may be anything in the trash.
Gc(p) ==
    \/ (model.state = "trashed" /\ StartPurge(p, Existing, TRUE, TRUE))
    \/ \E S \in SUBSET (Existing \ Live) : StartPurge(p, S, FALSE, TRUE)

\* hard_delete_file, the blob; the lock comes with the first row deleted.
PurgeBlob(p, v) ==
    /\ At(p, "purging") \/ (At(p, "purge") /\ ~proc[p].flag)
    /\ v \in proc[p].keys
    /\ blobs' = [blobs EXCEPT ![v] = NoBlob]
    /\ paid' = paid \cup {v}
    /\ proc' = [proc EXCEPT ![p].keys = @ \ {v}, ![p].flag = TRUE]
    /\ UNCHANGED <<model, rows, ops>>

PurgeLock(p) ==
    /\ At(p, "purge") /\ Unlocked
    /\ Goto(p, "purging")
    /\ UNCHANGED <<model, rows, blobs, paid, ops>>

\* Rows are deleted by their id, which SQLite hands out again.
PurgeCommit(p) ==
    /\ At(p, "purging") /\ proc[p].keys = {}
    /\ LET me == proc[p]
           gone == [v \in Versions |->
                       IF me.whole \/ v \in me.todo THEN NoRow ELSE rows[v]]
           marked == {v \in me.todo : ~me.whole /\ me.seen[v].live /\ me.seen[v].rec}
           left == IF marked = {} THEN gone ELSE Promote(gone, Max(marked))
       IN IF Unique(left) /\ marked \subseteq Existing
          THEN /\ rows' = left
               /\ model' = IF me.whole THEN [model EXCEPT !.state = "gone"] ELSE model
               /\ IF me.gc THEN Goto(p, "purged") ELSE Done(p)
          ELSE Done(p) /\ UNCHANGED <<rows, model>>
    /\ UNCHANGED <<blobs, paid, ops>>

-----------------------------------------------------------------------------
(* The orphan sweep *)

\* Mutant: the trash claims nothing.
ClaimedLive == Live

\* ownership_snapshot: rows in the trash claim their blobs as well.
Claimed == Existing

SweepRows(p) ==
    /\ At(p, "purged")
    /\ proc' = [proc EXCEPT ![p].pc = "claimed", ![p].todo = Claimed, ![p].keys = {}]
    /\ paid' = paid \cup {proc[q].v : q \in {q \in Procs : proc[q].pc = "moved"}}
    /\ UNCHANGED <<model, rows, blobs, ops>>

SweepWalk(p) ==
    /\ At(p, "claimed")
    /\ proc' = [proc EXCEPT ![p].pc = "sweeping",
                 ![p].keys = {v \in Versions : blobs[v] # NoBlob} \ proc[p].todo]
    /\ UNCHANGED <<model, rows, blobs, paid, ops>>

SweepBlob(p, v) ==
    /\ At(p, "sweeping")
    /\ v \in proc[p].keys
    /\ blobs' = [blobs EXCEPT ![v] = NoBlob]
    /\ proc' = [proc EXCEPT ![p].keys = @ \ {v}]
    /\ UNCHANGED <<model, rows, paid, ops>>

SweepEnds(p) ==
    /\ At(p, "sweeping") /\ proc[p].keys = {}
    /\ Done(p)
    /\ UNCHANGED <<model, rows, blobs, paid, ops>>

\* An exception or a crash: the transaction is rolled back, the blobs stay as
\* they are.  Nothing else is remembered, so a crash is all of them at once.
Fail(p) ==
    /\ ~At(p, "idle")
    /\ Done(p)
    /\ UNCHANGED <<model, rows, blobs, paid, ops>>

-----------------------------------------------------------------------------
Uploading(p) ==
    \/ \E flag \in BOOLEAN : Upload(p, flag)
    \/ Reserve(p) \/ MoveIn(p) \/ Persist(p) \/ ClearRead(p) \/ Clear(p)

Editing(p) ==
    \/ \E v \in Versions, flag \in BOOLEAN : AskPatch(p, v, flag)
    \/ \E v \in Versions : AskDelete(p, v)
    \/ Patch(p) \/ Delete(p) \/ AskRepair(p) \/ Repair(p)

Purging(p) ==
    \/ PurgeModel(p) \/ Gc(p)
    \/ \E v \in Versions : PurgeFile(p, v) \/ PurgeBlob(p, v) \/ SweepBlob(p, v)
    \/ PurgeLock(p) \/ PurgeCommit(p) \/ SweepRows(p) \/ SweepWalk(p) \/ SweepEnds(p)

Next ==
    \/ \E p \in Procs : Uploading(p) \/ Editing(p) \/ Purging(p) \/ Fail(p)
    \/ \E v \in Versions : SoftDelete(v) \/ Undelete(v)
    \/ Trash \/ Restore \/ Drop

Spec == Init /\ [][Next]_vars

-----------------------------------------------------------------------------
(* Properties *)

\* The blob of a row is there, in the trash or not, unless a purge took it (and
\* was rolled back) or the upload overlapped a sweep: hard_delete_file removes
\* blobs before the commit, and _cleanup_orphan_blobs knows of no upload.
BlobsPaidFor == \A v \in Existing : blobs[v] = NoBlob => v \in paid

\* The blob of a row is what its upload brought: no other upload is given the
\* same version, and so the same key, not even after failures and deletions
\* (_reserve_next_version).
BlobsMatchRows ==
    \A v \in Existing : blobs[v] # NoBlob => blobs[v] = rows[v].by

Marked == Live = {} \/ Recommended # {}

\* p commits what it decided on rows that have changed since it read them, clears
\* the others though its own revision has lost the mark, or takes a mark away as it
\* was asked to.  The row of an upload is never excused: it is written under the
\* lock under which the marks were read.
Excused(p) ==
    /\ proc'[p] # proc[p]
    /\ \/ /\ proc[p].pc \in {"clearing", "patching", "deleting", "repairing", "purging"}
          /\ proc[p].seen # Rows
       \/ (At(p, "clearing") /\ proc[p].v \notin Recommended)
       \/ (At(p, "patching") /\ ~proc[p].flag)

\* "A Model with at least one live G-code revision has exactly one recommended
\* revision" (CONTEXT.md:28-29): every step keeps that, except an administrator's
\* edit of the row, a request to take the mark away, and a stale write.
KeepsRecommended ==
    [][Marked => \/ Marked'
                 \/ \E v \in Versions : SoftDelete(v) \/ Undelete(v)
                 \/ \E p \in Procs : Excused(p)]_vars
=============================================================================
