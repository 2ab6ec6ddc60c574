--------------------------- MODULE ArtifactsProofs ---------------------------
(***************************************************************************)
(* Proofs about Artifacts, for every set of processes and every value of   *)
(* the bounds.                                                             *)
(***************************************************************************)
EXTENDS Artifacts, FiniteSetTheorems, WellFoundedInduction, TLAPS

-----------------------------------------------------------------------------
(* The newest of a set of versions, and the index *)

\* A set of versions that is not empty has a newest one.
LEMMA Newest ==
    ASSUME NEW S \in SUBSET Versions, S # {}
    PROVE  /\ Max(S) \in S /\ Max(S) \in Versions
           /\ \A v \in S : v <= Max(S)
<1> DEFINE R == OpToRel(<, Nat)
           T == {n \in Nat : MaxVersion - n \in S}
<1>1. MaxVersion \in Nat /\ S \subseteq Nat /\ \A v \in S : v <= MaxVersion
  BY BoundsAssumption DEF Versions
<1>2. \A v \in S : MaxVersion - v \in T
  BY <1>1
<1>3. T # {} /\ T \subseteq Nat
  BY <1>2
<1>4. \A x, y \in Nat : <<y, x>> \in R <=> y < x
  BY DEF OpToRel
<1>5. \E x \in T : \A y \in T : ~ (<<y, x>> \in R)
  <2> HIDE DEF T
  <2>1. IsWellFoundedOn(R, Nat)
    BY NatLessThanWellFounded
  <2> HIDE DEF R
  <2> QED BY <1>3, <2>1, WFMin
<1>6. PICK x \in T : \A y \in T : ~ (y < x)
  BY <1>3, <1>4, <1>5
<1>7. \A v \in S : MaxVersion - x >= v
  BY <1>1, <1>2, <1>6
<1>8. Max(S) \in S /\ \A v \in S : Max(S) >= v
  BY <1>6, <1>7 DEF Max
<1> QED BY <1>1, <1>8

\* The index allows one live recommended revision.
LEMMA UniqueMeans ==
    ASSUME NEW r
    PROVE  Unique(r) <=> \A v, w \in Versions : r[v].live /\ r[v].rec /\ r[w].live /\ r[w].rec
                                                => v = w
<1> DEFINE S == {v \in Versions : r[v].live /\ r[v].rec}
<1>1. IsFiniteSet(S)
  <2>1. IsFiniteSet(Versions)
    BY FS_Interval, BoundsAssumption DEF Versions
  <2>2. S \in SUBSET Versions
    OBVIOUS
  <2> HIDE DEF S
  <2> QED BY <2>1, <2>2, FS_Subset
<1>2. Unique(r) <=> Cardinality(S) <= 1
  BY DEF Unique
<1>3. \A v, w : v \in S /\ w \in S <=> /\ v \in Versions /\ w \in Versions
                                       /\ r[v].live /\ r[v].rec /\ r[w].live /\ r[w].rec
  OBVIOUS
<1> HIDE DEF S
<1>4. ASSUME Cardinality(S) <= 1
      PROVE  \A v, w \in S : v = w
  <2>1. Cardinality(S) = 0 \/ Cardinality(S) = 1
    BY <1>1, <1>4, FS_CardinalityType
  <2>2. S = {} \/ \E v : S = {v}
    BY <1>1, <2>1, FS_EmptySet, FS_Singleton
  <2> QED BY <2>2
<1>5. ASSUME \A v, w \in S : v = w
      PROVE  Cardinality(S) <= 1
  <2>1. S = {} \/ \E v : S = {v}
    BY <1>5
  <2>2. Cardinality(S) = 0 \/ Cardinality(S) = 1
    BY <1>1, <2>1, FS_EmptySet, FS_Singleton
  <2> QED BY <2>2
<1> QED BY <1>2, <1>3, <1>4, <1>5

-----------------------------------------------------------------------------
(* The invariant *)

Locks == {"reserved", "moved", "purging"}
Sweeps == {"claimed", "sweeping"}

\* A revision that is live has a row.
LiveExists == \A v \in Versions : rows[v].live => rows[v].exists

\* One transaction at most holds the write lock.
OneWriter == \A p, q \in Procs : proc[p].pc \in Locks /\ proc[q].pc \in Locks => p = q

\* A version that is reserved has no row.
Free == \A p \in Procs : proc[p].pc \in {"reserved", "moved"} => ~rows[proc[p].v].exists

\* A blob that has been moved in is there, until somebody pays for it.
MovedIn ==
    \A p \in Procs : proc[p].pc = "moved" =>
        /\ blobs[proc[p].v] \in {p, NoBlob}
        /\ blobs[proc[p].v] = NoBlob => proc[p].v \in paid

\* What a sweep does not know of is paid for.
SweepKnows(q) ==
    /\ q.keys \cap q.todo = {}
    /\ \A v \in Existing \ q.todo : v \in paid
    /\ \A r \in Procs : proc[r].pc = "moved" => proc[r].v \in paid
Swept == \A p \in Procs : proc[p].pc \in Sweeps => SweepKnows(proc[p])

\* What a request has read of the rows it works on.
Saw(q) ==
    /\ q.pc = "patching" => q.seen[q.v].live
    /\ q.pc = "repairing" => \E v \in Versions : q.seen[v].live
Sight == \A p \in Procs : Saw(proc[p])

Inv ==
    /\ TypeOK /\ LiveExists /\ OneWriter /\ Free /\ MovedIn /\ Swept /\ Sight
    /\ BlobsPaidFor /\ BlobsMatchRows

\* What a step of p may leave p in, uploads that move their blob in aside.
Fits(p) ==
    /\ proc'[p].pc \in Locks => proc[p].pc \in Locks \/ Unlocked
    /\ proc'[p].pc # "moved"
    /\ proc'[p].pc = "reserved" => ~rows'[proc'[p].v].exists
    /\ proc'[p].pc \in Sweeps =>
         /\ proc'[p].keys \cap proc'[p].todo = {}
         /\ \A v \in Existing \ proc'[p].todo : v \in paid'
         /\ \A r \in Procs : proc[r].pc = "moved" => proc[r].v \in paid'
    /\ Saw(proc'[p])

\* A row that is left comes from the same upload.
Lessens(r) ==
    /\ r \in [Versions -> Row] /\ Unique(r)
    /\ \A v \in Versions : /\ r[v].exists => rows[v].exists /\ r[v].by = rows[v].by
                           /\ r[v].live => r[v].exists

\* A blob that goes is nobody's, or paid for.
Loses(v) ==
    /\ blobs'[v] = NoBlob
    /\ v \in Existing => v \in paid'
    /\ \A p \in Procs : proc[p].pc = "moved" /\ proc[p].v = v => v \in paid'

\* A step that adds no row and no blob keeps the invariant.
LEMMA QuietKeeps ==
    ASSUME Inv, TypeOK', Lessens(rows'), paid \subseteq paid',
           \A v \in Versions : blobs'[v] = blobs[v] \/ Loses(v),
           \A p \in Procs : proc'[p] = proc[p] \/ Fits(p),
           \A p, q \in Procs : proc'[p] # proc[p] /\ proc'[q] # proc[q] => p = q
    PROVE  Inv'
<1>1. LiveExists'
  BY DEF Lessens, LiveExists
<1>2. \A p \in Procs : proc[p].v \in Versions /\ proc'[p].v \in Versions
  BY DEF Inv, TypeOK, Proc
<1>3. OneWriter'
  <2>1. \A p \in Procs : proc'[p] # proc[p] /\ proc'[p].pc \in Locks =>
          proc[p].pc \in Locks \/ \A q \in Procs : proc[q].pc \notin Locks
    BY DEF Fits, Unlocked, Locks
  <2>2. OneWriter
    BY DEF Inv
  <2> QED BY <2>1, <2>2 DEF OneWriter
<1>4. \A p \in Procs : proc'[p].pc = "moved" => proc'[p] = proc[p]
  BY DEF Fits
<1>5. Free'
  <2>1. \A v \in Versions : rows'[v].exists => rows[v].exists
    BY DEF Lessens
  <2> QED BY <1>2, <2>1 DEF Free, Fits, Inv
<1>6. MovedIn'
  BY <1>2, <1>4 DEF MovedIn, Inv, Loses
<1>7. Existing' \subseteq Existing
  BY DEF Lessens, Existing
<1>8. Swept'
  <2> SUFFICES ASSUME NEW p \in Procs, proc'[p].pc \in Sweeps
               PROVE  SweepKnows(proc[p])'
    BY DEF Swept
  <2>1. CASE proc'[p] = proc[p]
    <3>1. SweepKnows(proc[p])
      BY <2>1 DEF Inv, Swept
    <3> QED BY <1>4, <1>7, <2>1, <3>1 DEF SweepKnows
  <2>2. CASE Fits(p)
    BY <1>4, <1>7, <2>2 DEF Fits, SweepKnows
  <2> QED BY <2>1, <2>2
<1>9. Sight'
  BY DEF Sight, Fits, Inv
<1>10. BlobsPaidFor'
  <2>1. \A v \in Existing' : blobs'[v] = blobs[v] \/ v \in paid'
    BY <1>7 DEF Loses, Existing
  <2> QED BY <1>7, <2>1 DEF BlobsPaidFor, Inv
<1>11. BlobsMatchRows'
  <2>1. \A v \in Existing' : blobs'[v] = blobs[v] \/ blobs'[v] = NoBlob
    BY DEF Loses, Existing
  <2>2. \A v \in Existing' : v \in Existing /\ rows'[v].by = rows[v].by
    BY <1>7 DEF Lessens, Existing
  <2> QED BY <2>1, <2>2 DEF BlobsMatchRows, Inv, NoBlob
<1> QED BY <1>1, <1>3, <1>5, <1>6, <1>8, <1>9, <1>10, <1>11 DEF Inv

-----------------------------------------------------------------------------
(* Steps that write no row *)

\* The mark is kept, or the step is excused.
Keeps == Marked => \/ Marked'
                   \/ \E v \in Versions : SoftDelete(v) \/ Undelete(v)
                   \/ \E p \in Procs : Excused(p)

\* The types, one by one.
LEMMA Types ==
    ASSUME TypeOK
    PROVE  /\ model \in [state : {"live", "trashed", "gone"}, next : 1..(MaxVersion + 1)]
           /\ rows \in [Versions -> Row] /\ proc \in [Procs -> Proc]
           /\ blobs \in [Versions -> Procs \cup {"nobody", NoBlob}]
           /\ paid \subseteq Versions /\ ops \in 0..MaxOps /\ Unique(rows)
           /\ \A p \in Procs : /\ proc[p] \in Proc /\ proc[p].v \in Versions
                               /\ proc[p].seen \in [Versions -> Look]
                               /\ proc[p].todo \in SUBSET Versions
                               /\ proc[p].keys \in SUBSET Versions
BY DEF TypeOK, Proc

\* The records the steps start from.
LEMMA RecordTypes ==
    /\ NoRow \in Row /\ Legacy \in Row /\ 1 \in Versions
    /\ Idle \in Proc /\ Idle.pc = "idle"
    /\ \A row \in Row : Glance(row) \in Look
<1>1. NoRow \in Row /\ Legacy \in Row /\ 1 \in Versions
  BY BoundsAssumption DEF NoRow, Legacy, Row, Versions
<1>2. \A row \in Row : Glance(row) \in Look
  BY DEF Row, Glance, Look
<1>3. Idle \in Proc /\ Idle.pc = "idle"
  BY <1>1, <1>2 DEF Idle, Proc
<1> QED BY <1>1, <1>2, <1>3

\* What is read of rows.
LEMMA RowsType ==
    ASSUME TypeOK
    PROVE  Rows \in [Versions -> Look]
<1>1. \A v \in Versions : Glance(rows[v]) \in Look
  BY RecordTypes DEF TypeOK
<1> QED BY <1>1 DEF Rows

\* Rows that stay are no more than they were.
LEMMA SameLessens ==
    ASSUME Inv, rows' = rows
    PROVE  Lessens(rows')
BY DEF Inv, TypeOK, LiveExists, Lessens

\* A step of p that writes no row.
LEMMA StepKeeps ==
    ASSUME Inv, NEW p \in Procs, NEW q \in Proc, proc' = [proc EXCEPT ![p] = q],
           Fits(p), rows' = rows, paid \subseteq paid', paid' \subseteq Versions,
           blobs' \in [Versions -> Procs \cup {"nobody", NoBlob}],
           \A v \in Versions : blobs'[v] = blobs[v] \/ Loses(v),
           model' \in [state : {"live", "trashed", "gone"}, next : 1..(MaxVersion + 1)],
           ops' \in 0..MaxOps
    PROVE  Inv' /\ Keeps
<1>1. TypeOK /\ proc \in [Procs -> Proc] /\ Lessens(rows')
  BY SameLessens DEF Inv, TypeOK
<1>2. \A r \in Procs : r # p => proc'[r] = proc[r]
  BY <1>1
<1>3. TypeOK'
  BY <1>1 DEF TypeOK
<1>4. \A r \in Procs : proc'[r] = proc[r] \/ Fits(r)
  BY <1>2
<1>5. Inv'
  BY <1>1, <1>2, <1>3, <1>4, QuietKeeps
<1>6. Marked' = Marked
  BY DEF Marked, Live, Recommended
<1> QED BY <1>5, <1>6 DEF Keeps

\* A step of p that only moves p on.
LEMMA GoneKeeps ==
    ASSUME Inv, NEW p \in Procs, NEW q \in Proc, proc' = [proc EXCEPT ![p] = q],
           UNCHANGED <<rows, blobs, paid>>, q.pc \notin Sweeps, q.pc # "moved",
           q.pc \in Locks => proc[p].pc \in Locks \/ Unlocked,
           q.pc = "reserved" => ~rows[q.v].exists, Saw(q),
           model' \in [state : {"live", "trashed", "gone"}, next : 1..(MaxVersion + 1)],
           ops' \in 0..MaxOps
    PROVE  Inv' /\ Keeps
<1>1. TypeOK /\ proc'[p] = q
  BY DEF Inv, TypeOK
<1>2. Fits(p)
  BY <1>1 DEF Fits
<1> QED BY <1>1, <1>2, Types, StepKeeps

\* A request that begins by reading the rows.
LEMMA StartKeeps ==
    ASSUME Inv, NEW p \in Procs, NEW q \in Proc, Start(p, q),
           UNCHANGED <<rows, blobs, paid>>,
           q.pc \in {"resolved", "patching", "deleting", "repairing", "purge"}, Saw(q),
           model' \in [state : {"live", "trashed", "gone"}, next : 1..(MaxVersion + 1)]
    PROVE  Inv' /\ Keeps
<1>1. ops' \in 0..MaxOps /\ proc' = [proc EXCEPT ![p] = q]
  BY BoundsAssumption DEF Start, Begin, Inv, TypeOK
<1>2. q.pc \notin Sweeps \cup Locks /\ q.pc # "moved" /\ q.pc # "reserved"
  BY DEF Sweeps, Locks
<1> QED BY <1>1, <1>2, GoneKeeps

\* Requests that begin.
LEMMA AskKeeps ==
    ASSUME Inv, NEW p \in Procs, NEW v \in Versions, NEW flag \in BOOLEAN,
           Upload(p, flag) \/ AskPatch(p, v, flag) \/ AskDelete(p, v) \/ AskRepair(p)
    PROVE  Inv' /\ Keeps
<1>1. TypeOK /\ Idle \in Proc /\ Rows \in [Versions -> Look]
      /\ model \in [state : {"live", "trashed", "gone"}, next : 1..(MaxVersion + 1)]
  BY Types, RecordTypes, RowsType DEF Inv
<1>2. \A w \in Versions : Rows[w].live = rows[w].live
  BY DEF Rows, Glance
<1>3. CASE Upload(p, flag)
  <2> DEFINE q == [Idle EXCEPT !.pc = "resolved", !.flag = flag]
  <2>1. q \in Proc /\ q.pc = "resolved"
    BY <1>1 DEF Proc
  <2>2. Start(p, q) /\ UNCHANGED <<rows, blobs, paid>>
        /\ model' \in [state : {"live", "trashed", "gone"}, next : 1..(MaxVersion + 1)]
    BY <1>1, <1>3 DEF Upload
  <2> HIDE DEF q
  <2> QED BY <2>1, <2>2, StartKeeps DEF Saw
<1>4. CASE AskPatch(p, v, flag)
  <2> DEFINE q == [Idle EXCEPT !.pc = "patching", !.v = v, !.flag = flag, !.seen = Rows]
  <2>1. q \in Proc /\ q.pc = "patching" /\ q.v = v /\ q.seen = Rows
    BY <1>1 DEF Proc
  <2>2. Start(p, q) /\ UNCHANGED <<model, rows, blobs, paid>> /\ rows[v].live
    BY <1>4 DEF AskPatch
  <2> HIDE DEF q
  <2> QED BY <1>1, <1>2, <2>1, <2>2, StartKeeps DEF Saw
<1>5. CASE AskDelete(p, v)
  <2> DEFINE q == [Idle EXCEPT !.pc = "deleting", !.v = v, !.seen = Rows]
  <2>1. q \in Proc /\ q.pc = "deleting"
    BY <1>1 DEF Proc
  <2>2. Start(p, q) /\ UNCHANGED <<model, rows, blobs, paid>>
    BY <1>5 DEF AskDelete
  <2> HIDE DEF q
  <2> QED BY <1>1, <2>1, <2>2, StartKeeps DEF Saw
<1>6. CASE AskRepair(p)
  <2> DEFINE q == [Idle EXCEPT !.pc = "repairing", !.seen = Rows]
  <2>1. q \in Proc /\ q.pc = "repairing" /\ q.seen = Rows
    BY <1>1 DEF Proc
  <2>2. Start(p, q) /\ UNCHANGED <<model, rows, blobs, paid>>
        /\ \E w \in Versions : rows[w].live
    BY <1>6 DEF AskRepair, Live
  <2> HIDE DEF q
  <2> QED BY <1>1, <1>2, <2>1, <2>2, StartKeeps DEF Saw
<1> QED BY <1>3, <1>4, <1>5, <1>6

\* Purges that begin.
LEMMA AskPurgeKeeps ==
    ASSUME Inv, NEW p \in Procs, NEW v \in Versions,
           PurgeModel(p) \/ PurgeFile(p, v) \/ Gc(p)
    PROVE  Inv' /\ Keeps
<1>1. TypeOK /\ Idle \in Proc /\ Rows \in [Versions -> Look] /\ Existing \subseteq Versions
  BY Types, RecordTypes, RowsType DEF Inv, Existing
<1>2. PICK S \in SUBSET Versions, whole \in BOOLEAN, gc \in BOOLEAN :
        StartPurge(p, S, whole, gc)
  BY <1>1 DEF PurgeModel, PurgeFile, Gc
<1> DEFINE q == [Idle EXCEPT !.pc = "purge", !.seen = Rows, !.todo = S, !.keys = S,
                             !.whole = whole, !.gc = gc]
<1>3. q \in Proc /\ q.pc = "purge"
  BY <1>1 DEF Proc
<1>4. Start(p, q) /\ UNCHANGED <<model, rows, blobs, paid>>
  BY <1>2 DEF StartPurge
<1> HIDE DEF q
<1> QED BY <1>1, <1>3, <1>4, StartKeeps, Types DEF Saw

\* The version an upload is given has no row (_reserve_next_version).
LEMMA FreshVersion ==
    ASSUME TypeOK, NextVersion <= MaxVersion
    PROVE  NextVersion \in Versions /\ ~rows[NextVersion].exists
<1>1. model.next \in 1..(MaxVersion + 1) /\ MaxVersion \in Nat
  BY BoundsAssumption DEF TypeOK
<1>2. Existing \in SUBSET Versions /\ Versions \subseteq Nat
  BY DEF Existing, Versions
<1> DEFINE floor == IF Existing = {} THEN 1 ELSE Max(Existing) + 1
<1>3. floor \in Nat /\ floor >= 1 /\ \A v \in Existing : v < floor
  <2>1. CASE Existing = {}
    BY <2>1
  <2>2. CASE Existing # {}
    <3> DEFINE m == Max(Existing)
    <3>1. m \in Versions /\ \A v \in Existing : v <= m
      BY <1>2, <2>2, Newest
    <3>2. floor = m + 1
      BY <2>2
    <3> HIDE DEF m, floor
    <3> QED BY <1>2, <3>1, <3>2 DEF Versions
  <2> QED BY <2>1, <2>2
<1>4. NextVersion = IF model.next < floor THEN floor ELSE model.next
  BY DEF NextVersion
<1> HIDE DEF floor
<1>5. NextVersion \in Nat /\ NextVersion >= 1 /\ NextVersion >= floor
  BY <1>1, <1>3, <1>4
<1>6. NextVersion \in Versions
  BY <1>1, <1>5 DEF Versions
<1>7. NextVersion \notin Existing
  BY <1>2, <1>3, <1>5
<1> QED BY <1>6, <1>7 DEF Existing

\* Steps that only move p on.
LEMMA MoveKeeps ==
    ASSUME Inv, NEW p \in Procs,
           Reserve(p) \/ ClearRead(p) \/ PurgeLock(p) \/ SweepEnds(p) \/ Fail(p)
    PROVE  Inv' /\ Keeps
<1>1. /\ TypeOK /\ Idle \in Proc /\ Idle.pc = "idle" /\ Rows \in [Versions -> Look]
      /\ proc[p] \in Proc /\ ops \in 0..MaxOps
      /\ model \in [state : {"live", "trashed", "gone"}, next : 1..(MaxVersion + 1)]
  BY Types, RecordTypes, RowsType DEF Inv
<1>2. CASE Reserve(p)
  <2> DEFINE q == [proc[p] EXCEPT !.pc = "reserved", !.v = NextVersion]
  <2>1. NextVersion \in Versions /\ ~rows[NextVersion].exists /\ Unlocked
        /\ UNCHANGED <<model, rows, blobs, paid, ops>>
    BY <1>1, <1>2, FreshVersion DEF Reserve
  <2>2. q \in Proc /\ q.pc = "reserved" /\ q.v = NextVersion
    BY <1>1, <2>1 DEF Proc
  <2>3. proc' = [proc EXCEPT ![p] = q]
    BY <1>2 DEF Reserve
  <2> HIDE DEF q
  <2> QED BY <1>1, <2>1, <2>2, <2>3, GoneKeeps DEF Saw, Sweeps
<1>3. CASE ClearRead(p)
  <2> DEFINE q == [proc[p] EXCEPT !.pc = "clearing", !.seen = Rows]
  <2>1. q \in Proc /\ q.pc = "clearing"
    BY <1>1 DEF Proc
  <2>2. proc' = [proc EXCEPT ![p] = q] /\ UNCHANGED <<model, rows, blobs, paid, ops>>
    BY <1>3 DEF ClearRead
  <2> HIDE DEF q
  <2> QED BY <1>1, <2>1, <2>2, GoneKeeps DEF Saw, Sweeps, Locks
<1>4. CASE PurgeLock(p)
  <2> DEFINE q == [proc[p] EXCEPT !.pc = "purging"]
  <2>1. q \in Proc /\ q.pc = "purging"
    BY <1>1 DEF Proc
  <2>2. proc' = [proc EXCEPT ![p] = q] /\ Unlocked /\ UNCHANGED <<model, rows, blobs, paid, ops>>
    BY <1>4 DEF PurgeLock, Goto
  <2> HIDE DEF q
  <2> QED BY <1>1, <2>1, <2>2, GoneKeeps DEF Saw, Sweeps
<1>5. CASE SweepEnds(p) \/ Fail(p)
  <2>1. proc' = [proc EXCEPT ![p] = Idle] /\ UNCHANGED <<model, rows, blobs, paid, ops>>
    BY <1>5 DEF SweepEnds, Fail, Done
  <2> QED BY <1>1, <2>1, GoneKeeps DEF Saw, Sweeps, Locks
<1> QED BY <1>2, <1>3, <1>4, <1>5

\* The sweep reads what is claimed, lists the blobs, and deletes the others.
LEMMA SweepKeeps ==
    ASSUME Inv, NEW p \in Procs, NEW v \in Versions,
           SweepRows(p) \/ SweepWalk(p) \/ SweepBlob(p, v)
    PROVE  Inv' /\ Keeps
<1>1. /\ TypeOK /\ proc[p] \in Proc /\ proc \in [Procs -> Proc] /\ ops \in 0..MaxOps
      /\ proc[p].todo \in SUBSET Versions /\ proc[p].keys \in SUBSET Versions
      /\ blobs \in [Versions -> Procs \cup {"nobody", NoBlob}]
      /\ model \in [state : {"live", "trashed", "gone"}, next : 1..(MaxVersion + 1)]
      /\ paid \subseteq Versions /\ UNCHANGED <<model, rows, ops>>
  BY Types DEF Inv, SweepRows, SweepWalk, SweepBlob
<1>2. proc[p].pc \in Sweeps => SweepKnows(proc[p])
  BY DEF Inv, Swept
<1>3. CASE SweepRows(p)
  <2> DEFINE q == [proc[p] EXCEPT !.pc = "claimed", !.todo = Existing, !.keys = {}]
  <2>1. q \in Proc /\ q.pc = "claimed" /\ q.todo = Existing /\ q.keys = {}
    BY <1>1 DEF Proc, Existing
  <2>2. proc' = [proc EXCEPT ![p] = q] /\ blobs' = blobs
    BY <1>3 DEF SweepRows, Claimed
  <2>3. /\ paid' = paid \cup {proc[r].v : r \in {r \in Procs : proc[r].pc = "moved"}}
        /\ paid' \subseteq Versions
    BY <1>1, <1>3, Types DEF SweepRows
  <2>4. \A r \in Procs : proc[r].pc = "moved" => proc[r].v \in paid'
    BY <2>3
  <2> HIDE DEF q
  <2>5. Fits(p)
    BY <1>1, <2>1, <2>2, <2>4 DEF Fits, Saw, Locks
  <2> QED BY <1>1, <2>1, <2>2, <2>3, <2>5, StepKeeps
<1>4. CASE SweepWalk(p)
  <2> DEFINE q == [proc[p] EXCEPT !.pc = "sweeping",
                     !.keys = {w \in Versions : blobs[w] # NoBlob} \ proc[p].todo]
  <2>1. q \in Proc /\ q.pc = "sweeping" /\ q.todo = proc[p].todo
        /\ q.keys \cap q.todo = {}
    BY <1>1 DEF Proc
  <2>2. proc' = [proc EXCEPT ![p] = q] /\ UNCHANGED <<blobs, paid>>
        /\ SweepKnows(proc[p])
    BY <1>2, <1>4 DEF SweepWalk, At, Sweeps
  <2> HIDE DEF q
  <2>3. Fits(p)
    BY <1>1, <2>1, <2>2 DEF Fits, Saw, Locks, SweepKnows
  <2> QED BY <1>1, <2>1, <2>2, <2>3, StepKeeps
<1>5. CASE SweepBlob(p, v)
  <2> DEFINE q == [proc[p] EXCEPT !.keys = @ \ {v}]
  <2>1. /\ proc[p].pc = "sweeping" /\ v \in proc[p].keys /\ paid' = paid
        /\ blobs' = [blobs EXCEPT ![v] = NoBlob] /\ proc' = [proc EXCEPT ![p] = q]
    BY <1>5 DEF SweepBlob, At
  <2>2. q \in Proc /\ q.pc = "sweeping" /\ q.todo = proc[p].todo
        /\ q.keys \subseteq proc[p].keys
    BY <1>1, <2>1 DEF Proc
  <2>3. SweepKnows(proc[p])
    BY <1>2, <2>1 DEF Sweeps
  <2> HIDE DEF q
  <2>4. Fits(p)
    BY <1>1, <2>1, <2>2, <2>3 DEF Fits, Saw, Locks, SweepKnows
  <2>5. Loses(v)
    BY <1>1, <2>1, <2>3 DEF Loses, SweepKnows
  <2>6. /\ blobs' \in [Versions -> Procs \cup {"nobody", NoBlob}]
        /\ \A w \in Versions : w # v => blobs'[w] = blobs[w]
    BY <1>1, <2>1
  <2>7. \A w \in Versions : blobs'[w] = blobs[w] \/ Loses(w)
    BY <2>5, <2>6
  <2> QED BY <1>1, <2>1, <2>2, <2>4, <2>6, <2>7, StepKeeps
<1> QED BY <1>3, <1>4, <1>5

\* A purge deletes a blob and pays for it.
LEMMA PurgeBlobKeeps ==
    ASSUME Inv, NEW p \in Procs, NEW v \in Versions, PurgeBlob(p, v)
    PROVE  Inv' /\ Keeps
<1> DEFINE q == [proc[p] EXCEPT !.keys = @ \ {v}, !.flag = TRUE]
<1>1. /\ TypeOK /\ proc[p] \in Proc /\ proc \in [Procs -> Proc] /\ ops \in 0..MaxOps
      /\ blobs \in [Versions -> Procs \cup {"nobody", NoBlob}]
      /\ model \in [state : {"live", "trashed", "gone"}, next : 1..(MaxVersion + 1)]
      /\ paid \subseteq Versions /\ UNCHANGED <<model, rows, ops>>
  BY Types DEF Inv, PurgeBlob
<1>2. /\ proc[p].pc \in {"purge", "purging"} /\ paid' = paid \cup {v}
      /\ blobs' = [blobs EXCEPT ![v] = NoBlob] /\ proc' = [proc EXCEPT ![p] = q]
  BY DEF PurgeBlob, At
<1>3. q \in Proc /\ q.pc = proc[p].pc
  BY <1>1 DEF Proc
<1> HIDE DEF q
<1>4. Fits(p)
  BY <1>1, <1>2, <1>3 DEF Fits, Saw, Sweeps
<1>5. Loses(v)
  BY <1>1, <1>2 DEF Loses
<1>6. /\ blobs' \in [Versions -> Procs \cup {"nobody", NoBlob}]
      /\ \A w \in Versions : w # v => blobs'[w] = blobs[w]
  BY <1>1, <1>2
<1>7. \A w \in Versions : blobs'[w] = blobs[w] \/ Loses(w)
  BY <1>5, <1>6
<1> QED BY <1>1, <1>2, <1>3, <1>4, <1>6, <1>7, StepKeeps

-----------------------------------------------------------------------------
(* Steps that write rows *)

Marks(r) == \/ \A v \in Versions : ~r[v].live
            \/ \E v \in Versions : r[v].live /\ r[v].rec

\* What excuses p.
Excuse(p) == \/ /\ proc[p].pc \in {"clearing", "patching", "deleting", "repairing", "purging"}
                /\ proc[p].seen # Rows
             \/ (At(p, "clearing") /\ proc[p].v \notin Recommended)
             \/ (At(p, "patching") /\ ~proc[p].flag)

\* The mark is about the rows alone.
LEMMA MarkedMeans == (Marked <=> Marks(rows)) /\ (Marked' <=> Marks(rows'))
BY DEF Marked, Marks, Live, Recommended

\* A step that takes or changes rows, and is done or moves on.
LEMMA RowsKeep ==
    ASSUME Inv, TypeOK', Lessens(rows'), NEW p \in Procs, NEW q \in Proc,
           proc' = [proc EXCEPT ![p] = q], proc[p] # q,
           q.pc \notin Sweeps \cup Locks, Saw(q), UNCHANGED <<blobs, paid>>,
           Excuse(p) \/ (Marked => Marks(rows'))
    PROVE  Inv' /\ Keeps
<1>1. proc'[p] = q /\ \A r \in Procs : r # p => proc'[r] = proc[r]
  BY DEF Inv, TypeOK
<1>2. Fits(p)
  BY <1>1 DEF Fits, Locks
<1>3. \A r \in Procs : proc'[r] = proc[r] \/ Fits(r)
  BY <1>1, <1>2
<1>4. Inv'
  BY <1>1, <1>3, QuietKeeps
<1>5. Excuse(p) => Excused(p)
  BY <1>1 DEF Excuse, Excused
<1> QED BY <1>4, <1>5, MarkedMeans DEF Keeps

\* A commit that keeps which rows there are, if the index and the rows allow it.
LEMMA WriteKeeps ==
    ASSUME Inv, NEW p \in Procs, ~At(p, "idle"), NEW touched, NEW r \in [Versions -> Row],
           Write(p, touched, r),
           \A v \in Versions : /\ r[v].exists = rows[v].exists /\ r[v].by = rows[v].by
                               /\ r[v].live => rows[v].live,
           Excuse(p) \/ (Marked => Marks(r))
    PROVE  Inv' /\ Keeps
<1>1. /\ TypeOK /\ Idle \in Proc /\ Idle.pc = "idle" /\ proc \in [Procs -> Proc]
      /\ UNCHANGED <<model, blobs, paid, ops>> /\ proc' = [proc EXCEPT ![p] = Idle]
  BY Types, RecordTypes DEF Inv, Write, Done
<1>2. rows' = r \/ rows' = rows
  BY DEF Write
<1>3. Lessens(rows')
  <2>1. CASE rows' = rows
    BY <2>1, SameLessens
  <2>2. CASE rows' = r /\ Unique(r)
    BY <2>2 DEF Lessens, Inv, LiveExists
  <2> QED BY <2>1, <2>2 DEF Write
<1>4. TypeOK'
  BY <1>1, <1>3 DEF TypeOK, Lessens
<1>5. Excuse(p) \/ (Marked => Marks(rows'))
  BY <1>2, MarkedMeans
<1>6. proc[p] # Idle
  BY <1>1 DEF At
<1> QED BY <1>1, <1>3, <1>4, <1>5, <1>6, RowsKeep DEF Saw, Sweeps, Locks

\* What a session that changes new has written.
LEMMA DirtyRows ==
    ASSUME TypeOK, NEW seen \in [Versions -> Look], NEW new \in [Versions -> Look],
           \A v \in Versions : new[v].live => seen[v].live
    PROVE  /\ Dirty(seen, new) \in [Versions -> Row]
           /\ \A v \in Versions :
                /\ Dirty(seen, new)[v].exists = rows[v].exists
                /\ Dirty(seen, new)[v].by = rows[v].by
                /\ Dirty(seen, new)[v].live => rows[v].live
                /\ seen = Rows => /\ Dirty(seen, new)[v].live = new[v].live
                                  /\ Dirty(seen, new)[v].rec = new[v].rec
<1> DEFINE live == [v \in Versions |-> IF new[v].live # seen[v].live THEN new[v].live ELSE rows[v].live]
           rec == [v \in Versions |-> IF new[v].rec # seen[v].rec THEN new[v].rec ELSE rows[v].rec]
<1>1. ASSUME NEW v \in Versions
      PROVE  /\ rows[v] \in Row /\ new[v] \in Look /\ seen[v] \in Look
             /\ live[v] \in BOOLEAN /\ rec[v] \in BOOLEAN
             /\ live[v] => rows[v].live
             /\ seen = Rows => live[v] = new[v].live /\ rec[v] = new[v].rec
  <2>1. /\ rows[v] \in Row /\ new[v] \in Look /\ seen[v] \in Look
    BY DEF TypeOK
  <2>2. live[v] \in BOOLEAN /\ rec[v] \in BOOLEAN
    BY <2>1 DEF Row, Look
  <2>3. live[v] => rows[v].live
    BY <2>1 DEF Row, Look
  <2>4. seen = Rows => seen[v].live = rows[v].live /\ seen[v].rec = rows[v].rec
    BY DEF Rows, Glance
  <2>5. seen = Rows => live[v] = new[v].live /\ rec[v] = new[v].rec
    BY <2>4
  <2> QED BY <2>1, <2>2, <2>3, <2>5
<1>2. \A v \in Versions :
        Dirty(seen, new)[v] = [rows[v] EXCEPT !.live = live[v], !.rec = rec[v]]
  BY DEF Dirty
<1> HIDE DEF live, rec
<1>3. ASSUME NEW v \in Versions
      PROVE  /\ Dirty(seen, new)[v] \in Row
             /\ Dirty(seen, new)[v].exists = rows[v].exists
             /\ Dirty(seen, new)[v].by = rows[v].by
             /\ Dirty(seen, new)[v].live = live[v]
             /\ Dirty(seen, new)[v].rec = rec[v]
  <2> DEFINE l == live[v]
             m == rec[v]
             row == [rows[v] EXCEPT !.live = l, !.rec = m]
  <2>1. rows[v] \in Row /\ l \in BOOLEAN /\ m \in BOOLEAN
    BY <1>1
  <2>2. Dirty(seen, new)[v] = row
    BY <1>2
  <2> HIDE DEF l, m
  <2>3. row \in Row /\ row.exists = rows[v].exists /\ row.by = rows[v].by
        /\ row.live = l /\ row.rec = m
    BY <2>1 DEF Row
  <2> HIDE DEF row
  <2> QED BY <2>2, <2>3 DEF l, m
<1>4. Dirty(seen, new) \in [Versions -> Row]
  BY <1>3 DEF Dirty
<1> QED BY <1>1, <1>3, <1>4

\* Other live revisions lose the mark.
LEMMA OthersLook ==
    ASSUME NEW seen \in [Versions -> Look], NEW v \in Versions, NEW row \in Look,
           row.live => seen[v].live
    PROVE  /\ Others(seen, v, row) \in [Versions -> Look]
           /\ Others(seen, v, row)[v] = row
           /\ \A w \in Versions : /\ Others(seen, v, row)[w].live => seen[w].live
<1>1. ASSUME NEW w \in Versions
      PROVE  /\ [seen[w] EXCEPT !.rec = @ /\ ~seen[w].live] \in Look
             /\ [seen[w] EXCEPT !.rec = @ /\ ~seen[w].live].live = seen[w].live
  <2>1. seen[w] \in Look /\ (seen[w].rec /\ ~seen[w].live) \in BOOLEAN
    BY DEF Look
  <2> QED BY <2>1 DEF Look
<1>2. /\ Others(seen, v, row)[v] = row
      /\ \A w \in Versions \ {v} :
           Others(seen, v, row)[w] = [seen[w] EXCEPT !.rec = @ /\ ~seen[w].live]
  BY DEF Others
<1>3. \A w \in Versions : Others(seen, v, row)[w] \in Look
  BY <1>1, <1>2
<1>4. Others(seen, v, row) \in [Versions -> Look]
  BY <1>3 DEF Others
<1> QED BY <1>1, <1>2, <1>4

\* update_file_revision and the clearing that ends an upload.
LEMMA PatchKeeps ==
    ASSUME Inv, NEW p \in Procs, Clear(p) \/ Patch(p)
    PROVE  Inv' /\ Keeps
<1> DEFINE seen == proc[p].seen
           v == proc[p].v
           mine == [seen[v] EXCEPT !.rec = proc[p].flag]
<1>1. /\ TypeOK /\ seen \in [Versions -> Look] /\ v \in Versions /\ seen[v] \in Look
      /\ proc[p].flag \in BOOLEAN
  BY Types DEF Inv, TypeOK, Proc
<1>2. mine \in Look /\ mine.live = seen[v].live /\ mine.rec = proc[p].flag
  BY <1>1 DEF Look
<1>3. \A w \in Versions : seen = Rows => seen[w].live = rows[w].live /\ seen[w].rec = rows[w].rec
  BY DEF Rows, Glance
<1>4. Saw(proc[p])
  BY DEF Inv, Sight
<1> HIDE DEF seen, v, mine
<1>5. CASE Clear(p)
  <2> DEFINE new == Others(seen, v, seen[v])
  <2>1. Write(p, Changed(seen, new), Dirty(seen, new)) /\ At(p, "clearing") /\ ~At(p, "idle")
    BY <1>5 DEF Clear, seen, v, At
  <2>2. /\ new \in [Versions -> Look] /\ new[v] = seen[v]
        /\ \A w \in Versions : new[w].live => seen[w].live
    BY <1>1, OthersLook
  <2> HIDE DEF new
  <2>3. /\ Dirty(seen, new) \in [Versions -> Row]
        /\ \A w \in Versions :
             /\ Dirty(seen, new)[w].exists = rows[w].exists
             /\ Dirty(seen, new)[w].by = rows[w].by
             /\ Dirty(seen, new)[w].live => rows[w].live
             /\ seen = Rows => /\ Dirty(seen, new)[w].live = new[w].live
                               /\ Dirty(seen, new)[w].rec = new[w].rec
    BY <1>1, <2>2, DirtyRows
  <2>4. ASSUME ~Excuse(p) PROVE Marks(Dirty(seen, new))
    <3>1. seen = Rows /\ v \in Versions /\ rows[v].live /\ rows[v].rec
      BY <2>1, <2>4 DEF Excuse, Recommended, Live, seen, v, At
    <3> QED BY <1>3, <2>2, <2>3, <3>1 DEF Marks
  <2> QED BY <2>1, <2>3, <2>4, WriteKeeps
<1>6. CASE Patch(p)
  <2> DEFINE new == IF proc[p].flag THEN Others(seen, v, mine)
                    ELSE [seen EXCEPT ![v] = mine]
  <2>1. Write(p, Changed(seen, new), Dirty(seen, new)) /\ At(p, "patching") /\ ~At(p, "idle")
    BY <1>6 DEF Patch, seen, v, mine, At
  <2>2. /\ new \in [Versions -> Look] /\ new[v] = mine
        /\ \A w \in Versions : new[w].live => seen[w].live
    <3>1. CASE proc[p].flag = TRUE
      BY <1>1, <1>2, <3>1, OthersLook
    <3>2. CASE proc[p].flag = FALSE
      BY <1>1, <1>2, <3>2
    <3> QED BY <1>1, <3>1, <3>2
  <2> HIDE DEF new
  <2>3. /\ Dirty(seen, new) \in [Versions -> Row]
        /\ \A w \in Versions :
             /\ Dirty(seen, new)[w].exists = rows[w].exists
             /\ Dirty(seen, new)[w].by = rows[w].by
             /\ Dirty(seen, new)[w].live => rows[w].live
             /\ seen = Rows => /\ Dirty(seen, new)[w].live = new[w].live
                               /\ Dirty(seen, new)[w].rec = new[w].rec
    BY <1>1, <2>2, DirtyRows
  <2>4. ASSUME ~Excuse(p) PROVE Marks(Dirty(seen, new))
    <3>1. seen = Rows /\ proc[p].flag /\ seen[v].live
      BY <1>4, <2>1, <2>4 DEF Excuse, Saw, At, seen, v
    <3> QED BY <1>1, <1>2, <2>2, <2>3, <3>1 DEF Marks
  <2> QED BY <2>1, <2>3, <2>4, WriteKeeps
<1> QED BY <1>5, <1>6

\* The newest live revision gets the mark.
LEMMA Promoted ==
    ASSUME NEW r \in [Versions -> Row], NEW v
    PROVE  /\ Promote(r, v) \in [Versions -> Row]
           /\ \A w \in Versions : /\ Promote(r, v)[w].exists = r[w].exists
                                  /\ Promote(r, v)[w].by = r[w].by
                                  /\ Promote(r, v)[w].live = r[w].live
           /\ (\A w \in Versions : r[w].live => w # v) => Marks(Promote(r, v))
<1> DEFINE left == {w \in Versions \ {v} : r[w].live}
           best == Max(left)
<1>1. left \in SUBSET Versions
  OBVIOUS
<1>2. CASE left = {}
  <2>1. Promote(r, v) = r
    BY <1>2 DEF Promote
  <2>2. (\A w \in Versions : r[w].live => w # v) => \A w \in Versions : ~r[w].live
    BY <1>2
  <2> QED BY <2>1, <2>2 DEF Marks
<1>3. CASE left # {}
  <2>1. Promote(r, v) = [r EXCEPT ![best] = [r[best] EXCEPT !.rec = TRUE]]
    BY <1>3 DEF Promote
  <2>2. best \in Versions /\ best \in left
    <3> HIDE DEF left
    <3> QED BY <1>1, <1>3, Newest
  <2>3. r[best].live
    BY <2>2
  <2> HIDE DEF best
  <2>4. /\ [r[best] EXCEPT !.rec = TRUE] \in Row
        /\ [r[best] EXCEPT !.rec = TRUE].exists = r[best].exists
        /\ [r[best] EXCEPT !.rec = TRUE].by = r[best].by
        /\ [r[best] EXCEPT !.rec = TRUE].live = r[best].live
        /\ [r[best] EXCEPT !.rec = TRUE].rec
    BY <2>2 DEF Row
  <2>5. Promote(r, v)[best].live /\ Promote(r, v)[best].rec
    BY <2>1, <2>2, <2>3, <2>4
  <2> QED BY <2>1, <2>2, <2>4, <2>5 DEF Marks
<1> QED BY <1>2, <1>3

\* delete_file_revision
LEMMA DeleteKeeps ==
    ASSUME Inv, NEW p \in Procs, Delete(p)
    PROVE  Inv' /\ Keeps
<1> DEFINE seen == proc[p].seen
           v == proc[p].v
           new == [seen EXCEPT ![v].live = FALSE, ![v].rec = FALSE]
           gone == Dirty(seen, new)
           r == IF seen[v].rec THEN Promote(gone, v) ELSE gone
<1>1. TypeOK /\ seen \in [Versions -> Look] /\ v \in Versions /\ seen[v] \in Look
  BY Types DEF Inv
<1>2. At(p, "deleting") /\ ~At(p, "idle") /\ Write(p, {v}, r)
  BY DEF Delete, At
<1>3. \A w \in Versions : seen = Rows => seen[w].live = rows[w].live /\ seen[w].rec = rows[w].rec
  BY DEF Rows, Glance
<1> HIDE DEF seen, v
<1>4. /\ new \in [Versions -> Look] /\ ~new[v].live
      /\ \A w \in Versions : w # v => new[w] = seen[w]
  <2>1. [seen[v] EXCEPT !.live = FALSE, !.rec = FALSE] \in Look
        /\ ~[seen[v] EXCEPT !.live = FALSE, !.rec = FALSE].live
    BY <1>1 DEF Look
  <2>2. new = [seen EXCEPT ![v] = [seen[v] EXCEPT !.live = FALSE, !.rec = FALSE]]
    BY <1>1
  <2> HIDE DEF new
  <2> QED BY <1>1, <2>1, <2>2
<1>5. \A w \in Versions : new[w].live => seen[w].live
  BY <1>4
<1> HIDE DEF new
<1>6. /\ gone \in [Versions -> Row]
      /\ \A w \in Versions :
           /\ gone[w].exists = rows[w].exists
           /\ gone[w].by = rows[w].by
           /\ gone[w].live => rows[w].live
           /\ seen = Rows => gone[w].live = new[w].live /\ gone[w].rec = new[w].rec
  BY <1>1, <1>4, <1>5, DirtyRows
<1> HIDE DEF gone
<1>7. /\ Promote(gone, v) \in [Versions -> Row]
      /\ \A w \in Versions : /\ Promote(gone, v)[w].exists = gone[w].exists
                             /\ Promote(gone, v)[w].by = gone[w].by
                             /\ Promote(gone, v)[w].live = gone[w].live
      /\ (\A w \in Versions : gone[w].live => w # v) => Marks(Promote(gone, v))
  BY <1>6, Promoted
<1>8. /\ r \in [Versions -> Row]
      /\ \A w \in Versions : /\ r[w].exists = rows[w].exists /\ r[w].by = rows[w].by
                             /\ r[w].live => rows[w].live
  BY <1>6, <1>7
<1>9. ASSUME ~Excuse(p), Marked PROVE Marks(r)
  <2>1. seen = Rows
    BY <1>2, <1>9 DEF Excuse, seen, At
  <2>2. \A w \in Versions : gone[w].live => w # v
    BY <1>4, <1>6, <2>1
  <2>3. CASE seen[v].rec
    BY <1>7, <2>2, <2>3
  <2>4. CASE ~seen[v].rec
    <3>1. r = gone
      BY <2>4
    <3>2. CASE \A w \in Versions : ~rows[w].live
      BY <1>6, <3>1, <3>2 DEF Marks
    <3>3. CASE \E w \in Versions : rows[w].live /\ rows[w].rec
      <4>1. PICK w \in Versions : rows[w].live /\ rows[w].rec
        BY <3>3
      <4>2. w # v
        BY <1>3, <2>1, <2>4, <4>1
      <4>3. gone[w].live /\ gone[w].rec
        BY <1>3, <1>4, <1>6, <2>1, <4>1, <4>2
      <4> QED BY <3>1, <4>3 DEF Marks
    <3> QED BY <1>9, <3>2, <3>3, MarkedMeans DEF Marks
  <2> QED BY <2>3, <2>4
<1> HIDE DEF r
<1> QED BY <1>2, <1>8, <1>9, WriteKeeps

\* _restore_recommended
LEMMA RepairKeeps ==
    ASSUME Inv, NEW p \in Procs, Repair(p)
    PROVE  Inv' /\ Keeps
<1> DEFINE seen == proc[p].seen
           best == Max({v \in Versions : seen[v].live})
           mine == [seen[best] EXCEPT !.rec = FALSE]
           bare == Others(seen, best, mine)
           r == [Dirty(seen, bare) EXCEPT ![best].rec = TRUE]
<1>1. TypeOK /\ seen \in [Versions -> Look] /\ \A v \in Versions : seen[v] \in Look
  BY Types DEF Inv
<1>2. At(p, "repairing") /\ ~At(p, "idle") /\ Write(p, Changed(seen, bare) \cup {best}, r)
  BY DEF Repair, At
<1>3. \A w \in Versions : seen = Rows => seen[w].live = rows[w].live /\ seen[w].rec = rows[w].rec
  BY DEF Rows, Glance
<1>4. \E v \in Versions : seen[v].live
  BY <1>2 DEF Inv, Sight, Saw, At
<1> HIDE DEF seen
<1>5. best \in Versions /\ seen[best].live
  <2> DEFINE S == {v \in Versions : seen[v].live}
  <2>1. S \in SUBSET Versions /\ S # {}
    BY <1>4
  <2>2. Max(S) \in S
    <3> HIDE DEF S
    <3> QED BY <2>1, Newest
  <2> QED BY <2>2
<1> HIDE DEF best
<1>6. mine \in Look /\ mine.live = seen[best].live
  BY <1>1, <1>5 DEF Look
<1> HIDE DEF mine
<1>7. /\ bare \in [Versions -> Look] /\ bare[best] = mine
      /\ \A w \in Versions : bare[w].live => seen[w].live
  BY <1>1, <1>5, <1>6, OthersLook
<1> HIDE DEF bare
<1> DEFINE d == Dirty(seen, bare)
<1>8. /\ d \in [Versions -> Row]
      /\ \A w \in Versions : /\ d[w].exists = rows[w].exists
                             /\ d[w].by = rows[w].by
                             /\ d[w].live => rows[w].live
                             /\ seen = Rows => d[w].live = bare[w].live
  BY <1>1, <1>7, DirtyRows
<1>9. r = [d EXCEPT ![best] = [d[best] EXCEPT !.rec = TRUE]]
  BY <1>8
<1> HIDE DEF d, r
<1>10. /\ [d[best] EXCEPT !.rec = TRUE] \in Row
       /\ [d[best] EXCEPT !.rec = TRUE].exists = d[best].exists
       /\ [d[best] EXCEPT !.rec = TRUE].by = d[best].by
       /\ [d[best] EXCEPT !.rec = TRUE].live = d[best].live
       /\ [d[best] EXCEPT !.rec = TRUE].rec
  BY <1>5, <1>8 DEF Row
<1>11. /\ r \in [Versions -> Row]
       /\ \A w \in Versions : /\ r[w].exists = rows[w].exists /\ r[w].by = rows[w].by
                              /\ r[w].live => rows[w].live
       /\ r[best].live = d[best].live /\ r[best].rec
  BY <1>5, <1>8, <1>9, <1>10
<1>12. ASSUME ~Excuse(p) PROVE Marks(r)
  <2>1. seen = Rows
    BY <1>2, <1>12 DEF Excuse, seen, At
  <2>2. r[best].live
    BY <1>5, <1>6, <1>7, <1>8, <1>11, <2>1
  <2> QED BY <1>5, <1>11, <2>2 DEF Marks
<1> QED BY <1>2, <1>11, <1>12, WriteKeeps

\* A purge commits: its rows go, and the mark is handed on.
LEMMA PurgeCommitKeeps ==
    ASSUME Inv, NEW p \in Procs, PurgeCommit(p)
    PROVE  Inv' /\ Keeps
<1> DEFINE me == proc[p]
           gone == [v \in Versions |-> IF me.whole \/ v \in me.todo THEN NoRow ELSE rows[v]]
           marked == {v \in me.todo : ~me.whole /\ me.seen[v].live /\ me.seen[v].rec}
           left == IF marked = {} THEN gone ELSE Promote(gone, Max(marked))
           q == [me EXCEPT !.pc = "purged"]
<1>1. /\ TypeOK /\ me \in Proc /\ me.todo \in SUBSET Versions /\ Idle \in Proc
      /\ Idle.pc = "idle" /\ me.pc = "purging" /\ UNCHANGED <<blobs, paid, ops>>
      /\ model \in [state : {"live", "trashed", "gone"}, next : 1..(MaxVersion + 1)]
  BY Types, RecordTypes DEF Inv, PurgeCommit, At
<1>2. q \in Proc /\ q.pc = "purged"
  BY <1>1 DEF Proc
<1>3. /\ proc' = [proc EXCEPT ![p] = q] \/ proc' = [proc EXCEPT ![p] = Idle]
      /\ \/ /\ Unique(left) /\ rows' = left
            /\ model' = IF me.whole THEN [model EXCEPT !.state = "gone"] ELSE model
         \/ UNCHANGED <<rows, model>>
  BY DEF PurgeCommit, Goto, Done
<1>4. \A v \in Versions : me.seen = Rows => /\ me.seen[v].live = rows[v].live
                                           /\ me.seen[v].rec = rows[v].rec
  BY DEF Rows, Glance
<1>5. marked \in SUBSET Versions /\ \A v \in marked : ~me.whole /\ v \in me.todo
  BY <1>1
<1>6. /\ gone \in [Versions -> Row]
      /\ \A v \in Versions : IF me.whole \/ v \in me.todo THEN gone[v] = NoRow
                             ELSE gone[v] = rows[v]
  BY <1>1, RecordTypes DEF TypeOK
<1>7. ASSUME me.seen = Rows, Marked, marked = {}
      PROVE  Marks(gone)
  <2>1. CASE \A v \in Versions : ~rows[v].live
    BY <1>6, <2>1 DEF Marks, NoRow
  <2>2. CASE \E v \in Versions : rows[v].live /\ rows[v].rec
    <3>1. PICK v \in Versions : rows[v].live /\ rows[v].rec
      BY <2>2
    <3>2. v \notin me.todo \/ me.whole
      BY <1>4, <1>7, <3>1
    <3> QED BY <1>6, <3>1, <3>2 DEF Marks, NoRow
  <2> QED BY <1>7, <2>1, <2>2, MarkedMeans DEF Marks
<1> HIDE DEF me, gone, marked, q
<1>8. /\ left \in [Versions -> Row]
      /\ \A v \in Versions : /\ left[v].exists = gone[v].exists /\ left[v].by = gone[v].by
                             /\ left[v].live = gone[v].live
      /\ marked # {} => Marks(left)
  <2>1. CASE marked = {}
    BY <1>6, <2>1
  <2>2. CASE marked # {}
    <3> DEFINE best == Max(marked)
    <3>1. best \in marked
      BY <1>5, <2>2, Newest
    <3>2. left = Promote(gone, best)
      BY <2>2
    <3> HIDE DEF best
    <3>3. \A w \in Versions : gone[w].live => w # best
      BY <1>5, <1>6, <3>1 DEF NoRow
    <3> HIDE DEF left
    <3> QED BY <1>6, <3>2, <3>3, Promoted
  <2> QED BY <2>1, <2>2
<1>9. ASSUME ~Excuse(p), Marked PROVE Marks(left)
  <2>1. me.seen = Rows
    BY <1>1, <1>9 DEF Excuse, me
  <2> QED BY <1>7, <1>8, <1>9, <2>1
<1> HIDE DEF left
<1>10. \A v \in Versions : /\ left[v].exists => rows[v].exists /\ left[v].by = rows[v].by
                           /\ left[v].live => left[v].exists
  BY <1>6, <1>8 DEF Inv, LiveExists, NoRow
<1>11. Lessens(rows')
  <2>1. CASE UNCHANGED rows
    BY <2>1, SameLessens
  <2>2. CASE rows' = left /\ Unique(left)
    BY <1>8, <1>10, <2>2 DEF Lessens
  <2> QED BY <1>3, <2>1, <2>2
<1>12. model' \in [state : {"live", "trashed", "gone"}, next : 1..(MaxVersion + 1)]
  BY <1>1, <1>3
<1>13. TypeOK'
  BY <1>1, <1>2, <1>3, <1>11, <1>12 DEF TypeOK, Lessens
<1>14. Excuse(p) \/ (Marked => Marks(rows'))
  BY <1>3, <1>9, MarkedMeans
<1>15. proc[p] # q /\ proc[p] # Idle
  BY <1>1, <1>2 DEF me
<1>16. CASE proc' = [proc EXCEPT ![p] = q]
  BY <1>1, <1>2, <1>11, <1>13, <1>14, <1>15, <1>16, RowsKeep DEF Saw, Sweeps, Locks
<1>17. CASE proc' = [proc EXCEPT ![p] = Idle]
  BY <1>1, <1>11, <1>13, <1>14, <1>15, <1>17, RowsKeep DEF Saw, Sweeps, Locks
<1> QED BY <1>3, <1>16, <1>17

\* An administrator's edits, the trash, and the deletion of the Model.
LEMMA AdminKeeps ==
    ASSUME Inv, NEW v \in Versions,
           SoftDelete(v) \/ Undelete(v) \/ Trash \/ Restore \/ Drop
    PROVE  Inv' /\ Keeps
<1>1. /\ TypeOK /\ rows \in [Versions -> Row] /\ rows[v] \in Row /\ ops \in 0..MaxOps
      /\ model \in [state : {"live", "trashed", "gone"}, next : 1..(MaxVersion + 1)]
      /\ UNCHANGED <<blobs, proc, paid>> /\ NoRow \in Row
  BY Types, RecordTypes DEF Inv, SoftDelete, Undelete, Trash, Restore, Drop
<1>2. ops' \in 0..MaxOps
  BY <1>1, BoundsAssumption DEF Begin, SoftDelete, Undelete, Trash, Restore, Drop
<1>3. model' \in [state : {"live", "trashed", "gone"}, next : 1..(MaxVersion + 1)]
  BY <1>1 DEF SoftDelete, Undelete, Trash, Restore, Drop
<1>4. Lessens(rows')
  <2>1. \A live \in BOOLEAN : /\ [rows[v] EXCEPT !.live = live] \in Row
                             /\ [rows[v] EXCEPT !.live = live].live = live
                             /\ [rows[v] EXCEPT !.live = live].rec = rows[v].rec
                             /\ [rows[v] EXCEPT !.live = live].exists = rows[v].exists
                             /\ [rows[v] EXCEPT !.live = live].by = rows[v].by
    BY <1>1 DEF Row
  <2>2. Unique(rows) /\ LiveExists
    BY DEF Inv, TypeOK
  <2>3. CASE SoftDelete(v)
    <3>1. /\ rows' = [rows EXCEPT ![v] = [rows[v] EXCEPT !.live = FALSE]] /\ rows[v].live
      BY <2>3 DEF SoftDelete
    <3>2. /\ rows' \in [Versions -> Row] /\ ~rows'[v].live
          /\ \A w \in Versions : /\ rows'[w].exists = rows[w].exists
                                 /\ rows'[w].by = rows[w].by
                                 /\ rows'[w].live => rows[w].live /\ rows'[w].rec = rows[w].rec
      BY <1>1, <2>1, <3>1
    <3>3. Unique(rows')
      BY <2>2, <3>2, UniqueMeans
    <3> QED BY <2>2, <3>2, <3>3 DEF Lessens, LiveExists
  <2>4. CASE Undelete(v)
    <3>1. /\ rows' = [rows EXCEPT ![v] = [rows[v] EXCEPT !.live = TRUE]] /\ rows[v].exists
          /\ Unique(rows')
      BY <2>4 DEF Undelete
    <3>2. /\ rows' \in [Versions -> Row]
          /\ \A w \in Versions : /\ rows'[w].exists = rows[w].exists
                                 /\ rows'[w].by = rows[w].by
                                 /\ w # v => rows'[w].live = rows[w].live
      BY <1>1, <2>1, <3>1
    <3> QED BY <2>2, <3>1, <3>2 DEF Lessens, LiveExists
  <2>5. CASE Trash \/ Restore
    BY <2>5, SameLessens DEF Trash, Restore
  <2>6. CASE Drop
    <3>1. rows' \in [Versions -> Row] /\ \A w \in Versions : ~rows'[w].live /\ ~rows'[w].exists
      BY <1>1, <2>6 DEF Drop, NoRow
    <3>2. Unique(rows')
      BY <3>1, UniqueMeans
    <3> QED BY <3>1, <3>2 DEF Lessens
  <2> QED BY <2>3, <2>4, <2>5, <2>6
<1>5. TypeOK'
  BY <1>1, <1>2, <1>3, <1>4 DEF TypeOK, Lessens
<1>6. Inv'
  BY <1>1, <1>4, <1>5, QuietKeeps
<1>7. CASE Trash \/ Restore \/ Drop
  <2>1. Marked => Marks(rows')
    BY <1>1, <1>7, MarkedMeans DEF Marks, Trash, Restore, Drop, NoRow
  <2> QED BY <1>6, <2>1, MarkedMeans DEF Keeps
<1> QED BY <1>6, <1>7 DEF Keeps

-----------------------------------------------------------------------------
(* The steps of an upload that add a blob and a row *)

\* The blob is moved to its key.
LEMMA MoveInKeeps ==
    ASSUME Inv, NEW p \in Procs, MoveIn(p)
    PROVE  Inv' /\ Keeps
<1> DEFINE v == proc[p].v
           q == [proc[p] EXCEPT !.pc = "moved"]
<1>1. /\ TypeOK /\ proc[p] \in Proc /\ v \in Versions /\ paid \subseteq Versions
      /\ proc[p].pc = "reserved" /\ proc' = [proc EXCEPT ![p] = q]
      /\ blobs' = [blobs EXCEPT ![v] = p] /\ UNCHANGED <<model, rows, ops>>
      /\ paid' = IF Sweeping THEN paid \cup {v} ELSE paid \ {v}
  BY Types DEF Inv, MoveIn, At, Goto
<1>2. q \in Proc /\ q.pc = "moved" /\ q.v = v
  BY <1>1 DEF Proc
<1> HIDE DEF q, v
<1>3. /\ proc'[p] = q /\ \A r \in Procs : r # p => proc'[r] = proc[r]
      /\ blobs'[v] = p /\ \A w \in Versions : w # v => blobs'[w] = blobs[w]
      /\ \A w : w # v => (w \in paid' <=> w \in paid)
  BY <1>1 DEF TypeOK
<1>4. TypeOK'
  BY <1>1, <1>2 DEF TypeOK
<1>5. \A r \in Procs : r # p => proc[r].pc \notin Locks
  BY <1>1 DEF Inv, OneWriter, Locks
<1>6. v \notin Existing
  BY <1>1 DEF Inv, Free, Existing, v
<1>7. LiveExists' /\ OneWriter'
  BY <1>1, <1>3, <1>5 DEF LiveExists, OneWriter, Inv
<1>8. Free'
  BY <1>1, <1>2, <1>3, <1>5, <1>6 DEF Free, Existing, Locks
<1>9. MovedIn'
  BY <1>2, <1>3, <1>5, ProcsAssumption DEF MovedIn, NoBlob, Locks
<1>10. Swept'
  <2> SUFFICES ASSUME NEW r \in Procs, proc'[r].pc \in Sweeps
               PROVE  SweepKnows(proc[r])'
    BY DEF Swept
  <2>1. r # p /\ proc'[r] = proc[r]
    BY <1>2, <1>3 DEF Sweeps
  <2>2. SweepKnows(proc[r]) /\ Sweeping
    BY <2>1 DEF Inv, Swept, Sweeps, Sweeping
  <2>3. paid' = paid \cup {v} /\ Existing' = Existing
    BY <1>1, <2>2 DEF Existing
  <2>4. \A t \in Procs : proc'[t].pc = "moved" => proc'[t].v \in paid'
    BY <1>2, <1>3, <1>5, <2>3 DEF Locks
  <2> QED BY <2>1, <2>2, <2>3, <2>4 DEF SweepKnows
<1>11. Sight'
  BY <1>2, <1>3 DEF Inv, Sight, Saw
<1>12. Existing' = Existing /\ Existing \subseteq Versions
  BY <1>1 DEF Existing
<1>13. BlobsPaidFor' /\ BlobsMatchRows'
  BY <1>1, <1>3, <1>6, <1>12 DEF BlobsPaidFor, BlobsMatchRows, Inv
<1>14. Marked' = Marked
  BY <1>1 DEF Marked, Live, Recommended
<1> QED BY <1>4, <1>7, <1>8, <1>9, <1>10, <1>11, <1>13, <1>14 DEF Inv, Keeps

\* persist_artifact commits the row, its mark and the counter.
LEMMA PersistKeeps ==
    ASSUME Inv, NEW p \in Procs, Persist(p)
    PROVE  Inv' /\ Keeps
<1> DEFINE v == proc[p].v
           rec == proc[p].flag \/ Recommended = {}
           new == [exists |-> TRUE, live |-> TRUE, by |-> p, rec |-> rec]
           old(w) == [rows[w] EXCEPT !.rec = @ /\ (rows[w].live => ~proc[p].flag)]
           q == [proc[p] EXCEPT !.pc = "persisted"]
<1>1. /\ TypeOK /\ proc[p] \in Proc /\ v \in Versions /\ rows \in [Versions -> Row]
      /\ proc[p].pc = "moved" /\ UNCHANGED <<blobs, paid, ops>> /\ Idle \in Proc
      /\ Idle.pc = "idle" /\ Unique(rows) /\ LiveExists /\ proc[p].flag \in BOOLEAN
      /\ proc \in [Procs -> Proc]
  BY Types, RecordTypes DEF Inv, Persist, At, Proc
<1>2. /\ rows' = [w \in Versions |-> IF w = v THEN new ELSE old(w)]
      /\ model' = [model EXCEPT !.next = v + 1]
      /\ proc' = [proc EXCEPT ![p] = q] \/ proc' = [proc EXCEPT ![p] = Idle]
  BY DEF Persist, Goto, Done
<1>3. q \in Proc /\ q.pc = "persisted"
  BY <1>1 DEF Proc
<1>4. v \notin Existing /\ ~rows[v].exists /\ ~rows[v].live
  BY <1>1 DEF Inv, Free, Existing, LiveExists
<1>5. new \in Row /\ new.exists /\ new.live /\ new.by = p /\ new.rec = rec
  BY <1>1 DEF Row
<1>6. ASSUME NEW w \in Versions
      PROVE  /\ old(w) \in Row /\ old(w).exists = rows[w].exists /\ old(w).by = rows[w].by
             /\ old(w).live = rows[w].live
             /\ old(w).rec = (rows[w].rec /\ (rows[w].live => ~proc[p].flag))
  <2> DEFINE m == rows[w].rec /\ (rows[w].live => ~proc[p].flag)
  <2>1. rows[w] \in Row /\ m \in BOOLEAN
    BY <1>1 DEF Row
  <2> HIDE DEF m
  <2>2. [rows[w] EXCEPT !.rec = m] \in Row /\ [rows[w] EXCEPT !.rec = m].rec = m
    BY <2>1 DEF Row
  <2>3. old(w) = [rows[w] EXCEPT !.rec = m]
    BY DEF m
  <2> QED BY <2>1, <2>2, <2>3 DEF m, Row
<1>7. /\ rows'[v] = new /\ rows' \in [Versions -> Row]
      /\ \A w \in Versions : w # v =>
           /\ rows'[w].exists = rows[w].exists /\ rows'[w].by = rows[w].by
           /\ rows'[w].live = rows[w].live
           /\ rows'[w].rec = (rows[w].rec /\ (rows[w].live => ~proc[p].flag))
  <2> HIDE DEF new
  <2> QED BY <1>1, <1>2, <1>5, <1>6
<1>8. \A w \in Versions : rows'[w].live /\ rows'[w].rec =>
        \/ w = v /\ rec
        \/ w # v /\ rows[w].live /\ rows[w].rec /\ ~proc[p].flag
  BY <1>5, <1>7
<1>9. Unique(rows')
  <2>1. ASSUME NEW w \in Versions, NEW x \in Versions,
               rows'[w].live /\ rows'[w].rec /\ rows'[x].live /\ rows'[x].rec
        PROVE  w = x
    <3>1. (rec /\ ~proc[p].flag) => \A u \in Versions : ~(rows[u].live /\ rows[u].rec)
      BY DEF Recommended, Live
    <3>2. CASE w = v /\ rec
      BY <1>8, <2>1, <3>1, <3>2
    <3>3. CASE w # v /\ rows[w].live /\ rows[w].rec /\ ~proc[p].flag
      <4>1. x # v /\ rows[x].live /\ rows[x].rec
        BY <1>8, <2>1, <3>1, <3>3
      <4> QED BY <1>1, <3>3, <4>1, UniqueMeans
    <3> QED BY <1>8, <2>1, <3>2, <3>3
  <2> QED BY <2>1, UniqueMeans
<1>10. model' \in [state : {"live", "trashed", "gone"}, next : 1..(MaxVersion + 1)]
  <2>1. v + 1 \in 1..(MaxVersion + 1)
    BY <1>1, BoundsAssumption DEF Versions
  <2>2. model \in [state : {"live", "trashed", "gone"}, next : 1..(MaxVersion + 1)]
    BY <1>1 DEF TypeOK
  <2> HIDE DEF v
  <2> QED BY <1>2, <2>1, <2>2
<1>11. proc' \in [Procs -> Proc]
  BY <1>1, <1>2, <1>3
<1>12. TypeOK'
  BY <1>1, <1>7, <1>9, <1>10, <1>11 DEF TypeOK
<1>13. /\ proc'[p] # proc[p] /\ proc'[p].pc \in {"persisted", "idle"}
       /\ \A r \in Procs : r # p => proc'[r] = proc[r]
  BY <1>1, <1>2, <1>3
<1>14. \A r \in Procs : r # p => proc[r].pc \notin Locks
  BY <1>1 DEF Inv, OneWriter, Locks
<1>15. Existing' = Existing \cup {v} /\ Existing \subseteq Versions
  BY <1>1, <1>5, <1>7 DEF Existing
<1>16. LiveExists'
  BY <1>1, <1>5, <1>7 DEF LiveExists
<1>17. OneWriter' /\ Free' /\ MovedIn'
  BY <1>13, <1>14 DEF OneWriter, Free, MovedIn, Locks
<1>18. Swept'
  <2> SUFFICES ASSUME NEW r \in Procs, proc'[r].pc \in Sweeps
               PROVE  SweepKnows(proc[r])'
    BY DEF Swept
  <2>1. r # p /\ proc'[r] = proc[r]
    BY <1>13 DEF Sweeps
  <2>2. SweepKnows(proc[r])
    BY <2>1 DEF Inv, Swept
  <2>3. v \in paid /\ \A t \in Procs : proc'[t].pc # "moved"
    BY <1>1, <1>13, <1>14, <2>2 DEF SweepKnows, Locks
  <2> QED BY <1>1, <1>15, <2>1, <2>2, <2>3 DEF SweepKnows
<1>19. Sight'
  BY <1>13 DEF Inv, Sight, Saw
<1>20. blobs[v] \in {p, NoBlob} /\ (blobs[v] = NoBlob => v \in paid)
  BY <1>1 DEF Inv, MovedIn
<1>21. BlobsPaidFor'
  BY <1>1, <1>15, <1>20 DEF Inv, BlobsPaidFor
<1>22. BlobsMatchRows'
  BY <1>1, <1>5, <1>7, <1>15, <1>20 DEF Inv, BlobsMatchRows
<1>23. Marked => Marks(rows')
  <2>1. CASE rec
    BY <1>1, <1>5, <1>7, <2>1 DEF Marks
  <2>2. CASE ~rec
    <3>1. PICK w \in Versions : rows[w].live /\ rows[w].rec
      BY <2>2 DEF Recommended, Live
    <3>2. rows'[w].live /\ rows'[w].rec
      BY <1>1, <1>4, <1>7, <2>2, <3>1
    <3> QED BY <3>2 DEF Marks
  <2> QED BY <2>1, <2>2
<1> QED BY <1>12, <1>16, <1>17, <1>18, <1>19, <1>21, <1>22, <1>23, MarkedMeans
        DEF Inv, Keeps

-----------------------------------------------------------------------------
(* Theorems *)

\* The initial states.
LEMMA InitInv == Init => Inv
<1> SUFFICES ASSUME Init PROVE Inv
  OBVIOUS
<1>1. /\ NoRow \in Row /\ Legacy \in Row /\ Idle \in Proc /\ Idle.pc = "idle"
      /\ proc = [p \in Procs |-> Idle]
  BY RecordTypes DEF Init
<1>2. /\ rows \in [Versions -> Row]
      /\ \A v \in Versions : rows[v] = NoRow \/ (v = 1 /\ rows[v] = Legacy)
  BY <1>1 DEF Init
<1>3. blobs = [v \in Versions |-> IF rows[v].exists THEN "nobody" ELSE NoBlob]
  BY DEF Init
<1>4. Unique(rows)
  BY <1>2, UniqueMeans DEF NoRow
<1>5. /\ model \in [state : {"live", "trashed", "gone"}, next : 1..(MaxVersion + 1)]
      /\ paid \subseteq Versions /\ ops \in 0..MaxOps
  BY BoundsAssumption DEF Init
<1>6. TypeOK
  BY <1>1, <1>2, <1>3, <1>4, <1>5 DEF TypeOK
<1>7. LiveExists
  BY <1>2 DEF LiveExists, NoRow, Legacy
<1>8. OneWriter /\ Free /\ MovedIn /\ Swept /\ Sight
  BY <1>1 DEF OneWriter, Free, MovedIn, Swept, Sight, Saw, Locks, Sweeps
<1>9. BlobsPaidFor /\ BlobsMatchRows
  BY <1>2, <1>3 DEF BlobsPaidFor, BlobsMatchRows, Existing, NoBlob, NoRow, Legacy
<1> QED BY <1>6, <1>7, <1>8, <1>9 DEF Inv

\* Every step keeps the invariant, and the mark unless it is excused.
LEMMA NextKeeps ==
    ASSUME Inv, Next
    PROVE  Inv' /\ Keeps
<1>1. ASSUME NEW p \in Procs, Uploading(p)
      PROVE  Inv' /\ Keeps
  <2>1. 1 \in Versions
    BY RecordTypes
  <2>2. CASE \E flag \in BOOLEAN : Upload(p, flag)
    BY <2>1, <2>2, AskKeeps
  <2>3. CASE Reserve(p) \/ ClearRead(p)
    BY <2>3, MoveKeeps
  <2>4. CASE MoveIn(p) \/ Persist(p) \/ Clear(p)
    BY <2>4, MoveInKeeps, PersistKeeps, PatchKeeps
  <2> QED BY <1>1, <2>2, <2>3, <2>4 DEF Uploading
<1>2. ASSUME NEW p \in Procs, Editing(p)
      PROVE  Inv' /\ Keeps
  <2>1. 1 \in Versions
    BY RecordTypes
  <2>2. CASE \E v \in Versions, flag \in BOOLEAN : AskPatch(p, v, flag)
    BY <2>2, AskKeeps
  <2>3. CASE (\E v \in Versions : AskDelete(p, v)) \/ AskRepair(p)
    BY <2>1, <2>3, AskKeeps
  <2>4. CASE Patch(p) \/ Delete(p) \/ Repair(p)
    BY <2>4, PatchKeeps, DeleteKeeps, RepairKeeps
  <2> QED BY <1>2, <2>2, <2>3, <2>4 DEF Editing
<1>3. ASSUME NEW p \in Procs, Purging(p)
      PROVE  Inv' /\ Keeps
  <2>1. 1 \in Versions
    BY RecordTypes
  <2>2. CASE PurgeModel(p) \/ Gc(p) \/ \E v \in Versions : PurgeFile(p, v)
    BY <2>1, <2>2, AskPurgeKeeps
  <2>3. CASE \E v \in Versions : PurgeBlob(p, v) \/ SweepBlob(p, v)
    BY <2>3, PurgeBlobKeeps, SweepKeeps
  <2>4. CASE SweepRows(p) \/ SweepWalk(p)
    BY <2>1, <2>4, SweepKeeps
  <2>5. CASE PurgeLock(p) \/ PurgeCommit(p) \/ SweepEnds(p)
    BY <2>5, MoveKeeps, PurgeCommitKeeps
  <2> QED BY <1>3, <2>2, <2>3, <2>4, <2>5 DEF Purging
<1>4. ASSUME NEW p \in Procs, Fail(p)
      PROVE  Inv' /\ Keeps
  BY <1>4, MoveKeeps
<1>5. CASE (\E v \in Versions : SoftDelete(v) \/ Undelete(v)) \/ Trash \/ Restore \/ Drop
  BY <1>5, AdminKeeps, RecordTypes
<1> QED BY <1>1, <1>2, <1>3, <1>4, <1>5 DEF Next

\* A step that changes nothing keeps everything.
LEMMA StutterKeeps ==
    ASSUME Inv, UNCHANGED vars
    PROVE  Inv'
<1>1. /\ TypeOK' /\ Lessens(rows') /\ paid \subseteq paid'
      /\ \A v \in Versions : blobs'[v] = blobs[v]
      /\ \A p \in Procs : proc'[p] = proc[p]
  BY SameLessens DEF vars, Inv, TypeOK
<1> QED BY <1>1, QuietKeeps

\* In every reachable state one transaction writes, the version of an upload is
\* its own, and blobs that rows need are there or paid for.
THEOREM ArtifactsInvariant == Spec => []Inv
<1>1. Init => Inv
  BY InitInv
<1>2. Inv /\ [Next]_vars => Inv'
  BY NextKeeps, StutterKeeps
<1> QED BY <1>1, <1>2, PTL DEF Spec

\* The variables keep their types, and the index on recommended revisions holds.
THEOREM TypeCorrect == Spec => []TypeOK
<1>1. Inv => TypeOK
  BY DEF Inv
<1> QED BY <1>1, ArtifactsInvariant, PTL

\* A row is without its blob only after a purge that was rolled back or a sweep
\* beside its upload (hard_delete_file, _cleanup_orphan_blobs).
THEOREM BlobsKept == Spec => []BlobsPaidFor
<1>1. Inv => BlobsPaidFor
  BY DEF Inv
<1> QED BY <1>1, ArtifactsInvariant, PTL

\* The blob of a row is what its own upload brought (_reserve_next_version).
THEOREM BlobsOwned == Spec => []BlobsMatchRows
<1>1. Inv => BlobsMatchRows
  BY DEF Inv
<1> QED BY <1>1, ArtifactsInvariant, PTL

\* A live revision keeps a recommended one beside it, but for an administrator's
\* edit, a request to take the mark away and a stale write.
THEOREM MarkKept == Spec => KeepsRecommended
<1>1. Inv /\ [Next]_vars => [Keeps]_vars
  BY NextKeeps
<1> QED BY <1>1, ArtifactsInvariant, PTL DEF Spec, KeepsRecommended, Keeps
=============================================================================
