-------------------------- MODULE ExternalScanProofs --------------------------
(***************************************************************************)
(* Proofs about ExternalScan, for every set of paths and processes and     *)
(* every value of the bounds.                                              *)
(***************************************************************************)
EXTENDS ExternalScan, FiniteSetTheorems, WellFoundedInduction, TLAPS

-----------------------------------------------------------------------------
(* The invariant *)

\* The types without the count of tasks.
Bare ==
    /\ disk \subseteq Files /\ broken \subseteq disk
    /\ rows \in [Paths -> SUBSET Ids]
    /\ running \in BOOLEAN /\ due \in BOOLEAN /\ watch \in BOOLEAN
    /\ proc \in [Procs -> Proc]
    /\ paid \subseteq Paths /\ stranded \in BOOLEAN
    /\ changes \in 0..MaxChanges /\ mishaps \in 0..MaxMishaps

\* One task at most of a kind.
Single(kind) ==
    \A p, q \in Procs : /\ proc[p].kind = kind /\ proc[p].pc # "none"
                        /\ proc[q].kind = kind /\ proc[q].pc # "none"
                        => p = q
Singles == Single("watch") /\ Single("cron")

Resting == {"none", "sleeping", "queued"}
Holding == {"syncing", "chosen", "placed"}

\* Two that are at work have met.
Met ==
    \A p, q \in Procs : p # q /\ proc[p].pc \notin Resting /\ proc[q].pc \notin Resting
                        => proc[p].met

\* A file that one who has met nobody is about to index has no row, or is paid for.
Fresh ==
    \A p \in Procs : proc[p].pc \in Holding /\ ~proc[p].met =>
        \A f \in proc[p].walk : rows[f] = {} \/ f \in paid

Books == Met /\ Fresh /\ DuplicatesPaidFor
Inv == Bare /\ Singles /\ Books

-----------------------------------------------------------------------------
(* Sets *)

\* Counting the tasks of a kind.
LEMMA SingleMeans ==
    ASSUME NEW kind
    PROVE  Cardinality(AtWork(kind)) <= 1 <=> Single(kind)
<1> DEFINE S == AtWork(kind)
<1>1. IsFiniteSet(S)
  <2>1. S \in SUBSET Procs
    BY DEF AtWork
  <2> HIDE DEF S
  <2> QED BY <2>1, FS_Subset, SetsAssumption
<1>2. \A p : p \in S <=> p \in Procs /\ proc[p].kind = kind /\ proc[p].pc # "none"
  BY DEF AtWork
<1>3. Single(kind) <=> \A p, q \in S : p = q
  BY <1>2 DEF Single
<1> HIDE DEF S
<1>4. ASSUME Cardinality(S) <= 1
      PROVE  \A p, q \in S : p = q
  <2>1. Cardinality(S) = 0 \/ Cardinality(S) = 1
    BY <1>1, <1>4, FS_CardinalityType
  <2>2. S = {} \/ \E p : S = {p}
    BY <1>1, <2>1, FS_EmptySet, FS_Singleton
  <2> QED BY <2>2
<1>5. ASSUME \A p, q \in S : p = q
      PROVE  Cardinality(S) <= 1
  <2>1. S = {} \/ \E p : S = {p}
    BY <1>5
  <2>2. Cardinality(S) = 0 \/ Cardinality(S) = 1
    BY <1>1, <2>1, FS_EmptySet, FS_Singleton
  <2> QED BY <2>2
<1> QED BY <1>3, <1>4, <1>5 DEF S

\* The type invariant, with the count said otherwise.
LEMMA TypeMeans == TypeOK <=> Bare /\ Singles
BY SingleMeans DEF TypeOK, Bare, Singles

\* A set of row numbers that is not empty has a least one.
LEMMA Least ==
    ASSUME NEW S \in SUBSET Ids, S # {}
    PROVE  Min(S) \in S
<1> DEFINE R == OpToRel(<, Nat)
<1>1. S \subseteq Nat
  BY DEF Ids
<1>2. \A x, y \in Nat : <<y, x>> \in R <=> y < x
  BY DEF OpToRel
<1>3. IsWellFoundedOn(R, Nat)
  BY NatLessThanWellFounded
<1> HIDE DEF R
<1>4. \E x \in S : \A y \in S : ~ (<<y, x>> \in R)
  BY <1>1, <1>3, WFMin
<1>5. \E x \in S : \A y \in S : x <= y
  <2>1. PICK x \in S : \A y \in S : ~ (<<y, x>> \in R)
    BY <1>4
  <2>2. \A y \in S : x \in Nat /\ y \in Nat /\ ~ (y < x)
    BY <1>1, <1>2, <2>1
  <2>3. \A y \in S : x <= y
    BY <2>2
  <2> QED BY <2>3
<1> QED BY <1>5 DEF Min

\* Rows about a file are finitely many.
LEMMA RowCounts ==
    ASSUME NEW S \in SUBSET Ids, NEW T \in SUBSET S, NEW i \in Ids
    PROVE  /\ Cardinality(T) > 1 => Cardinality(S) > 1
           /\ ~(Cardinality({i}) > 1) /\ ~(Cardinality({}) > 1)
<1>1. IsFiniteSet(Ids)
  BY FS_Interval, BoundsAssumption DEF Ids
<1>2. IsFiniteSet(S)
  BY <1>1, FS_Subset
<1>3. IsFiniteSet(T) /\ Cardinality(T) <= Cardinality(S)
  BY <1>2, FS_Subset
<1>4. Cardinality(S) \in Nat /\ Cardinality(T) \in Nat
  BY <1>2, <1>3, FS_CardinalityType
<1>5. Cardinality({i}) = 1
  BY FS_Singleton
<1>6. Cardinality({}) = 0
  BY FS_EmptySet
<1> QED BY <1>3, <1>4, <1>5, <1>6

-----------------------------------------------------------------------------
(* Steps that leave the rows alone *)

\* o becomes n without getting to work or reading what to index.
Tame(o, n) ==
    \/ n.pc \in Resting
    \/ /\ o.pc \notin Resting
       /\ o.met => n.met
       /\ n.pc \in Holding => o.pc \in Holding /\ n.walk \subseteq o.walk

\* o becomes n without becoming another task of the watcher or the schedule.
Modest(o, n) ==
    n.pc # "none" => \/ o.pc # "none" /\ n.kind = o.kind
                     \/ n.kind \notin {"watch", "cron"}

\* Such steps keep the books.
LEMMA TameKeeps ==
    ASSUME Books, \A q \in Procs : Tame(proc[q], proc'[q]), UNCHANGED <<rows, paid>>
    PROVE  Books'
<1>1. Met'
  BY DEF Books, Met, Tame
<1>2. Fresh'
  <2>1. \A q \in Procs : proc'[q].pc \in Holding =>
          proc'[q].pc \notin Resting
    BY DEF Holding, Resting
  <2> QED BY <2>1 DEF Books, Fresh, Tame
<1>3. DuplicatesPaidFor'
  BY DEF Books, DuplicatesPaidFor
<1> QED BY <1>1, <1>2, <1>3 DEF Books

\* Such steps keep the tasks single.
LEMMA ModestKeeps ==
    ASSUME Singles, \A q \in Procs : Modest(proc[q], proc'[q])
    PROVE  Singles'
BY DEF Singles, Single, Modest

\* The record of no process.
LEMMA NoProcType == NoProc \in Proc /\ NoProc.pc = "none"
<1>1. 0 \in 0..MaxRows
  BY BoundsAssumption
<1> QED BY <1>1 DEF NoProc, Proc

\* A step of p alone that is tame and modest.
LEMMA OneKeeps ==
    ASSUME Inv, NEW p \in Procs, NEW n \in Proc, proc' = [proc EXCEPT ![p] = n],
           Tame(proc[p], n), Modest(proc[p], n), UNCHANGED <<rows, paid, disk, broken>>,
           running' \in BOOLEAN, due' \in BOOLEAN, watch' \in BOOLEAN,
           stranded' \in BOOLEAN, changes' \in 0..MaxChanges, mishaps' \in 0..MaxMishaps
    PROVE  Inv'
<1>1. Bare /\ Singles /\ Books /\ proc \in [Procs -> Proc]
  BY DEF Inv, Bare
<1>2. proc'[p] = n /\ \A q \in Procs : q # p => proc'[q] = proc[q]
  BY <1>1
<1>3. \A q \in Procs : Tame(proc[q], proc'[q]) /\ Modest(proc[q], proc'[q])
  BY <1>2 DEF Tame, Modest
<1>4. Bare'
  BY <1>1 DEF Bare
<1> QED BY <1>1, <1>3, <1>4, TameKeeps, ModestKeeps DEF Inv

\* A resolved path is a path.
LEMMA FilesArePaths == Files \subseteq Paths /\ \A x \in Paths : Real[x] \in Files
BY RealAssumption DEF Files

\* The types, one by one.
LEMMA Types ==
    ASSUME Bare
    PROVE  /\ disk \subseteq Files /\ broken \subseteq disk /\ disk \subseteq Paths
           /\ rows \in [Paths -> SUBSET Ids]
           /\ running \in BOOLEAN /\ due \in BOOLEAN /\ watch \in BOOLEAN
           /\ proc \in [Procs -> Proc] /\ paid \subseteq Paths /\ stranded \in BOOLEAN
           /\ changes \in 0..MaxChanges /\ mishaps \in 0..MaxMishaps
           /\ \A p \in Procs : /\ proc[p] \in Proc /\ proc[p].walk \in SUBSET Paths
                               /\ proc[p].seen \in [Paths -> 0..MaxRows]
                               /\ proc[p].met \in BOOLEAN
                               /\ proc[p].kind \in {"cron", "manual", "watch", "thread",
                                                    "upload"}
BY FilesArePaths DEF Bare, Proc

\* A mishap is counted within its bound.
LEMMA MishapType ==
    ASSUME Bare, Mishap
    PROVE  mishaps' \in 0..MaxMishaps
BY BoundsAssumption DEF Bare, Mishap

\* Ends of scans and uploads.
LEMMA EndKeeps ==
    ASSUME Inv, NEW p \in Procs,
           ScanFails(p) \/ FlushFails(p) \/ UploadFails(p) \/ Abort(p) \/ ScanEnds(p)
    PROVE  Inv'
<1>1. Bare
  BY DEF Inv
<1>2. /\ proc' = [proc EXCEPT ![p] = NoProc] /\ UNCHANGED <<rows, paid, disk, broken, watch, changes>>
      /\ running' \in BOOLEAN /\ due' \in BOOLEAN /\ stranded' \in BOOLEAN
  BY <1>1, Types DEF ScanFails, FlushFails, UploadFails, Abort, ScanEnds, Finish
<1>3. mishaps' \in 0..MaxMishaps
  BY <1>1, Types, MishapType DEF ScanFails, FlushFails, UploadFails, Abort, ScanEnds
<1>4. Tame(proc[p], NoProc) /\ Modest(proc[p], NoProc)
  BY NoProcType DEF Tame, Modest, Resting
<1> QED BY <1>1, <1>2, <1>3, <1>4, NoProcType, Types, OneKeeps

\* Steps that start nothing and change no process.
LEMMA IdleKeeps ==
    ASSUME Inv, StartWatcher \/ CronFires \/ UNCHANGED vars
    PROVE  Inv'
<1>1. Bare'
  BY DEF Inv, Bare, StartWatcher, CronFires, vars
<1>2. Singles'
  BY DEF Inv, Singles, Single, StartWatcher, CronFires, vars
<1>3. Books'
  BY DEF Inv, Books, Met, Fresh, DuplicatesPaidFor, StartWatcher, CronFires, vars
<1> QED BY <1>1, <1>2, <1>3 DEF Inv

\* A debounced task wakes up.
LEMMA WakeUpKeeps ==
    ASSUME Inv, NEW p \in Procs, WakeUp(p)
    PROVE  Inv'
<1>1. Bare /\ proc[p] \in Proc
  BY Types DEF Inv
<1>2. UNCHANGED <<disk, broken, rows, running, due, watch, paid, stranded, changes, mishaps>>
      /\ proc[p].pc = "sleeping"
  BY DEF WakeUp, At
<1>3. CASE Goto(p, "queued")
  <2> DEFINE n == [proc[p] EXCEPT !.pc = "queued"]
  <2>1. n \in Proc /\ n.pc = "queued" /\ n.kind = proc[p].kind
    BY <1>1 DEF Proc
  <2>2. proc' = [proc EXCEPT ![p] = n]
    BY <1>3 DEF Goto
  <2> HIDE DEF n
  <2>3. Tame(proc[p], n) /\ Modest(proc[p], n)
    BY <1>2, <2>1 DEF Tame, Modest, Resting
  <2> QED BY <1>1, <1>2, <2>1, <2>2, <2>3, Types, OneKeeps
<1>4. CASE proc' = [proc EXCEPT ![p] = NoProc]
  <2>1. Tame(proc[p], NoProc) /\ Modest(proc[p], NoProc)
    BY NoProcType DEF Tame, Modest, Resting
  <2> QED BY <1>1, <1>2, <1>4, <2>1, NoProcType, Types, OneKeeps
<1> QED BY <1>3, <1>4 DEF WakeUp

\* A scan looks at the folder.
LEMMA WalkKeeps ==
    ASSUME Inv, NEW p \in Procs, Walk(p)
    PROVE  Inv'
<1>1. Bare /\ proc[p] \in Proc /\ disk \subseteq Paths
  BY Types DEF Inv
<1>2. PICK walk \in SUBSET Paths : proc' = [proc EXCEPT ![p].pc = "walked", ![p].walk = walk]
  BY <1>1 DEF Walk
<1> DEFINE n == [proc[p] EXCEPT !.pc = "walked", !.walk = walk]
<1>3. n \in Proc /\ n.pc = "walked" /\ n.kind = proc[p].kind /\ n.met = proc[p].met
  BY <1>1 DEF Proc
<1>4. /\ proc' = [proc EXCEPT ![p] = n] /\ proc[p].pc = "begun"
      /\ UNCHANGED <<disk, broken, rows, running, due, watch, paid, stranded, changes>>
  BY <1>2 DEF Walk, At
<1>5. mishaps' \in 0..MaxMishaps
  BY <1>1, Types, MishapType DEF Walk
<1> HIDE DEF n
<1>6. Tame(proc[p], n) /\ Modest(proc[p], n)
  BY <1>3, <1>4 DEF Tame, Modest, Resting, Holding
<1> QED BY <1>1, <1>3, <1>4, <1>5, <1>6, Types, OneKeeps

\* A new scan of the schedule or of a request.
LEMMA EnterKeeps ==
    ASSUME Inv, NEW p \in Procs, Tick(p) \/ ScanNow(p)
    PROVE  Inv'
<1>1. PICK kind \in {"cron", "manual"} :
        Enter(p, kind) /\ (kind = "cron" => AtWork("cron") = {})
  BY DEF Tick, ScanNow
<1> DEFINE n == [NoProc EXCEPT !.kind = kind, !.pc = "queued"]
<1>2. n \in Proc /\ n.pc = "queued" /\ n.kind = kind
  BY NoProcType DEF Proc
<1>3. /\ proc' = [proc EXCEPT ![p] = n]
      /\ UNCHANGED <<disk, broken, rows, running, due, watch, paid, stranded, changes, mishaps>>
  BY <1>1 DEF Enter
<1> HIDE DEF n
<1>4. Bare /\ Singles /\ Books /\ proc \in [Procs -> Proc]
  BY DEF Inv, Bare
<1>5. proc'[p] = n /\ \A q \in Procs : q # p => proc'[q] = proc[q]
  BY <1>3, <1>4
<1>6. Bare'
  BY <1>2, <1>3, <1>4 DEF Bare
<1>7. Books'
  <2>1. \A q \in Procs : Tame(proc[q], proc'[q])
    BY <1>2, <1>5 DEF Tame, Resting
  <2> QED BY <1>3, <1>4, <2>1, TameKeeps
<1>8. Single("watch")'
  BY <1>1, <1>2, <1>4, <1>5 DEF Singles, Single
<1>9. Single("cron")'
  BY <1>1, <1>2, <1>4, <1>5 DEF Singles, Single, AtWork
<1> QED BY <1>6, <1>7, <1>8, <1>9 DEF Inv, Singles

-----------------------------------------------------------------------------
(* The watcher *)

\* Cancelling a task makes it go, or leaves its thread.
LEMMA CancelledMeans ==
    ASSUME NEW now \in [Procs -> Proc]
    PROVE  /\ Cancelled(now) \in [Procs -> Proc]
           /\ \A q \in Procs :
                /\ Tame(now[q], Cancelled(now)[q]) /\ Modest(now[q], Cancelled(now)[q])
                /\ Cancelled(now)[q].kind = "watch" => Cancelled(now)[q].pc = "none"
<1> SUFFICES ASSUME NEW q \in Procs
             PROVE  /\ Cancelled(now)[q] \in Proc
                    /\ Tame(now[q], Cancelled(now)[q]) /\ Modest(now[q], Cancelled(now)[q])
                    /\ Cancelled(now)[q].kind = "watch" => Cancelled(now)[q].pc = "none"
  BY DEF Cancelled
<1> DEFINE o == now[q]
           n == [o EXCEPT !.kind = "thread"]
<1>1. o \in Proc
  OBVIOUS
<1>2. /\ n \in Proc /\ n.kind = "thread" /\ n.pc = o.pc /\ n.met = o.met /\ n.walk = o.walk
  BY <1>1 DEF Proc
<1>3. Cancelled(now)[q] = IF o.kind # "watch" \/ o.pc = "none" THEN o
                          ELSE IF o.pc \in {"sleeping", "queued"} THEN NoProc ELSE n
  BY DEF Cancelled
<1> HIDE DEF n, o
<1>4. CASE o.kind # "watch" \/ o.pc = "none"
  <2>1. Cancelled(now)[q] = o
    BY <1>3, <1>4
  <2>2. Tame(o, o) /\ Modest(o, o)
    BY DEF Tame, Modest
  <2> QED BY <1>1, <1>4, <2>1, <2>2 DEF o
<1>5. CASE ~(o.kind # "watch" \/ o.pc = "none") /\ o.pc \in {"sleeping", "queued"}
  <2>1. Cancelled(now)[q] = NoProc
    BY <1>3, <1>5
  <2>2. Tame(o, NoProc) /\ Modest(o, NoProc)
    BY NoProcType DEF Tame, Modest, Resting
  <2> QED BY <2>1, <2>2, NoProcType DEF o
<1>6. CASE ~(o.kind # "watch" \/ o.pc = "none") /\ o.pc \notin {"sleeping", "queued"}
  <2>1. Cancelled(now)[q] = n
    BY <1>3, <1>6
  <2>2. Tame(o, n) /\ Modest(o, n)
    BY <1>2, <1>6 DEF Tame, Modest, Resting
  <2> QED BY <1>2, <2>1, <2>2 DEF o
<1> QED BY <1>4, <1>5, <1>6

\* A noticed change starts one task of the watcher.
LEMMA NoticeMeans ==
    ASSUME NEW now \in [Procs -> Proc], Notice(now), Singles,
           \A q \in Procs : Tame(proc[q], now[q]) /\ Modest(proc[q], now[q])
    PROVE  /\ proc' \in [Procs -> Proc] /\ Singles'
           /\ \A q \in Procs : Tame(proc[q], proc'[q])
<1> DEFINE task == [NoProc EXCEPT !.kind = "watch", !.pc = "sleeping"]
           c == Cancelled(now)
<1>1. CASE proc' = now
  BY <1>1, ModestKeeps
<1>2. ASSUME NEW p \in Procs, proc' = [c EXCEPT ![p] = task]
      PROVE  /\ proc' \in [Procs -> Proc] /\ Singles'
             /\ \A q \in Procs : Tame(proc[q], proc'[q])
  <2>1. task \in Proc /\ task.pc = "sleeping" /\ task.kind = "watch"
    BY NoProcType DEF Proc
  <2>2. /\ c \in [Procs -> Proc]
        /\ \A q \in Procs : /\ Tame(now[q], c[q]) /\ Modest(now[q], c[q])
                            /\ c[q].kind = "watch" => c[q].pc = "none"
    BY CancelledMeans
  <2> HIDE DEF task, c
  <2>3. proc'[p] = task /\ \A q \in Procs : q # p => proc'[q] = c[q]
    BY <1>2, <2>2
  <2>4. \A q \in Procs : Tame(proc[q], proc'[q])
    BY <2>1, <2>2, <2>3 DEF Tame, Resting
  <2>5. Single("watch")'
    BY <2>2, <2>3 DEF Single
  <2>6. \A q \in Procs : proc'[q].pc # "none" /\ proc'[q].kind = "cron" =>
          proc[q].pc # "none" /\ proc[q].kind = "cron"
    BY <2>1, <2>2, <2>3 DEF Modest
  <2>7. Single("cron")'
    BY <2>6 DEF Singles, Single
  <2> QED BY <1>2, <2>1, <2>2, <2>4, <2>5, <2>7 DEF Singles
<1> QED BY <1>1, <1>2 DEF Notice

\* The folder changes from outside.
LEMMA ChangeKeeps ==
    ASSUME Inv, NEW f \in Files, Change(f)
    PROVE  Inv'
<1>1. Bare /\ Singles /\ Books /\ proc \in [Procs -> Proc]
  BY DEF Inv, Bare
<1>2. \A q \in Procs : Tame(proc[q], proc[q]) /\ Modest(proc[q], proc[q])
  BY DEF Tame, Modest
<1>3. /\ Notice(proc)
      /\ UNCHANGED <<rows, running, due, watch, paid, stranded, mishaps>>
  BY DEF Change
<1>4. /\ proc' \in [Procs -> Proc] /\ Singles'
      /\ \A q \in Procs : Tame(proc[q], proc'[q])
  BY <1>1, <1>2, <1>3, NoticeMeans
<1>5. disk' \subseteq Files /\ broken' \subseteq disk' /\ changes' \in 0..MaxChanges
  BY <1>1, Types, BoundsAssumption DEF Change, Changes
<1>6. Bare'
  BY <1>1, <1>3, <1>4, <1>5 DEF Bare
<1> QED BY <1>1, <1>3, <1>4, <1>6, TameKeeps DEF Inv

\* The watcher is stopped.
LEMMA StopKeeps ==
    ASSUME Inv, StopWatcher
    PROVE  Inv'
<1>1. Bare /\ Singles /\ Books /\ proc \in [Procs -> Proc]
  BY DEF Inv, Bare
<1>2. /\ proc' = Cancelled(proc) /\ watch' = FALSE
      /\ UNCHANGED <<disk, broken, rows, running, due, paid, stranded, changes, mishaps>>
  BY DEF StopWatcher
<1>3. Bare'
  BY <1>1, <1>2, CancelledMeans DEF Bare
<1> QED BY <1>1, <1>2, <1>3, CancelledMeans, TameKeeps, ModestKeeps DEF Inv

\* An upload moves its file in.
LEMMA PlaceKeeps ==
    ASSUME Inv, NEW p \in Procs, NEW f \in Paths, Place(p, f)
    PROVE  Inv'
<1> DEFINE n == [proc[p] EXCEPT !.pc = "placed"]
           now == [proc EXCEPT ![p] = n]
<1>1. Bare /\ Singles /\ Books /\ proc \in [Procs -> Proc] /\ proc[p] \in Proc
  BY DEF Inv, Bare
<1>2. /\ Notice(now) /\ disk' = disk \cup {Real[f]} /\ broken' = broken \ {Real[f]}
      /\ proc[p].pc = "chosen"
      /\ UNCHANGED <<rows, running, due, watch, paid, stranded, changes, mishaps>>
  BY DEF Place, At
<1>3. n \in Proc /\ n.pc = "placed" /\ n.kind = proc[p].kind /\ n.met = proc[p].met
      /\ n.walk = proc[p].walk
  BY <1>1 DEF Proc
<1> HIDE DEF n
<1>4. now \in [Procs -> Proc] /\ now[p] = n /\ \A q \in Procs : q # p => now[q] = proc[q]
  BY <1>1, <1>3
<1>5. \A q \in Procs : Tame(proc[q], now[q]) /\ Modest(proc[q], now[q])
  BY <1>2, <1>3, <1>4 DEF Tame, Modest, Resting, Holding
<1> HIDE DEF now
<1>6. /\ proc' \in [Procs -> Proc] /\ Singles'
      /\ \A q \in Procs : Tame(proc[q], proc'[q])
  BY <1>1, <1>2, <1>4, <1>5, NoticeMeans
<1>7. Bare'
  BY <1>1, <1>2, <1>6, FilesArePaths DEF Bare
<1> QED BY <1>1, <1>2, <1>6, <1>7, TameKeeps DEF Inv

\* The process dies.
LEMMA RestartKeeps ==
    ASSUME Inv, Restart
    PROVE  Inv'
<1>1. /\ Bare /\ Singles /\ Books /\ proc' = [p \in Procs |-> NoProc]
      /\ UNCHANGED <<disk, broken, rows, watch, paid, changes>>
  BY DEF Inv, Restart
<1>2. running' \in BOOLEAN /\ stranded' \in BOOLEAN /\ due' \in BOOLEAN
      /\ mishaps' \in 0..MaxMishaps
  BY <1>1, MishapType DEF Restart, Bare
<1>3. Bare'
  BY <1>1, <1>2, NoProcType DEF Bare
<1>4. \A q \in Procs : Tame(proc[q], proc'[q]) /\ Modest(proc[q], proc'[q])
  BY <1>1, NoProcType DEF Tame, Modest, Resting
<1> QED BY <1>1, <1>3, <1>4, TameKeeps, ModestKeeps DEF Inv

-----------------------------------------------------------------------------
(* Getting to work *)

\* Who is at work.
LEMMA WorkingMeans ==
    ASSUME Bare, NEW p \in Procs
    PROVE  Working(p) <=> proc[p].pc \notin Resting
BY DEF Bare, Proc, Working, Scanning, Resting

\* p gets to work, and meets those who are.
LEMMA WorkKeeps ==
    ASSUME Inv, NEW p \in Procs, NEW me \in Proc, Work(p, me), proc[p].pc \in Resting,
           me.pc \in Holding => \A f \in me.walk : rows[f] = {} \/ f \in paid',
           me.kind \notin {"watch", "cron"} \/ (proc[p].pc # "none" /\ me.kind = proc[p].kind),
           rows' = rows, paid \subseteq paid', me.pc # "none"
    PROVE  proc' \in [Procs -> Proc] /\ Singles' /\ Books'
<1>1. Bare /\ Singles /\ Books /\ proc \in [Procs -> Proc]
  BY DEF Inv, Bare
<1> DEFINE meets == \E r \in Procs \ {p} : Working(r)
           n == [me EXCEPT !.met = meets]
<1>2. n \in Proc /\ n.pc = me.pc /\ n.walk = me.walk /\ n.kind = me.kind /\ n.met = meets
  BY DEF Proc
<1>3. ASSUME NEW q \in Procs
      PROVE  /\ [proc[q] EXCEPT !.met = TRUE] \in Proc
             /\ [proc[q] EXCEPT !.met = TRUE].met
             /\ [proc[q] EXCEPT !.met = TRUE].pc = proc[q].pc
             /\ [proc[q] EXCEPT !.met = TRUE].kind = proc[q].kind
             /\ [proc[q] EXCEPT !.met = TRUE].walk = proc[q].walk
  <2>1. proc[q] \in Proc
    BY <1>1
  <2> QED BY <2>1 DEF Proc
<1>4. /\ proc'[p] = n
      /\ \A q \in Procs \ {p} : proc'[q] = IF Working(q) THEN [proc[q] EXCEPT !.met = TRUE]
                                           ELSE proc[q]
  BY DEF Work, Meet
<1> HIDE DEF n
<1>5. ASSUME NEW q \in Procs \ {p}
      PROVE  /\ proc'[q] \in Proc /\ proc'[q].pc = proc[q].pc /\ proc'[q].kind = proc[q].kind
             /\ proc'[q].walk = proc[q].walk
             /\ proc'[q].met <=> proc[q].pc \notin Resting \/ proc[q].met
  <2>1. CASE Working(q)
    BY <1>1, <1>3, <1>4, <2>1, WorkingMeans
  <2>2. CASE ~Working(q)
    BY <1>1, <1>4, <2>2, WorkingMeans
  <2> QED BY <2>1, <2>2
<1>6. proc' \in [Procs -> Proc]
  <2>1. \A q \in Procs : proc'[q] \in Proc
    BY <1>2, <1>4, <1>5
  <2> QED BY <2>1 DEF Work
<1>7. Singles'
  BY <1>1, <1>2, <1>4, <1>5 DEF Singles, Single
<1>8. Met'
  <2> SUFFICES ASSUME NEW q \in Procs, NEW r \in Procs, q # r,
                      proc'[q].pc \notin Resting, proc'[r].pc \notin Resting
               PROVE  proc'[q].met
    BY DEF Met
  <2>1. CASE q = p
    <3>1. Working(r)
      BY <1>1, <1>5, <2>1, WorkingMeans
    <3> QED BY <1>2, <1>4, <2>1, <3>1
  <2>2. CASE q # p
    BY <1>5, <2>2
  <2> QED BY <2>1, <2>2
<1>9. Fresh'
  <2> SUFFICES ASSUME NEW q \in Procs, proc'[q].pc \in Holding, ~proc'[q].met,
                      NEW f \in proc'[q].walk
               PROVE  rows[f] = {} \/ f \in paid'
    BY DEF Fresh
  <2>1. CASE q = p
    BY <1>2, <1>4, <2>1
  <2>2. CASE q # p
    BY <1>1, <1>5, <2>2 DEF Books, Fresh
  <2> QED BY <2>1, <2>2
<1>10. DuplicatesPaidFor'
  BY <1>1 DEF Books, DuplicatesPaidFor
<1> QED BY <1>6, <1>7, <1>8, <1>9, <1>10 DEF Books

\* A scan starts.
LEMMA BeginKeeps ==
    ASSUME Inv, NEW p \in Procs, Begin(p)
    PROVE  Inv'
<1> DEFINE me == [proc[p] EXCEPT !.pc = "begun"]
<1>1. Bare /\ proc[p] \in Proc
  BY Types DEF Inv
<1>2. me \in Proc /\ me.pc = "begun" /\ me.kind = proc[p].kind
  BY <1>1 DEF Proc
<1>3. /\ Work(p, me) /\ proc[p].pc = "queued" /\ running' = TRUE
      /\ UNCHANGED <<disk, broken, rows, due, watch, paid, stranded, changes, mishaps>>
  BY DEF Begin, At
<1> HIDE DEF me
<1>4. proc[p].pc \in Resting /\ proc[p].pc # "none" /\ me.pc \notin Holding
  BY <1>2, <1>3 DEF Resting, Holding
<1>5. proc' \in [Procs -> Proc] /\ Singles' /\ Books'
  BY <1>2, <1>3, <1>4, WorkKeeps
<1>6. Bare'
  BY <1>1, <1>3, <1>5 DEF Bare
<1> QED BY <1>5, <1>6 DEF Inv

\* An upload chooses its path.
LEMMA ChooseKeeps ==
    ASSUME Inv, NEW p \in Procs, NEW f \in Paths, Choose(p, f)
    PROVE  Inv'
<1> DEFINE me == [NoProc EXCEPT !.kind = "upload", !.pc = "chosen", !.walk = {f}]
<1>1. Bare
  BY DEF Inv
<1>2. me \in Proc /\ me.pc = "chosen" /\ me.kind = "upload" /\ me.walk = {f}
  BY NoProcType DEF Proc
<1>3. /\ Work(p, me) /\ proc[p].pc = "none"
      /\ changes < MaxChanges /\ changes' = changes + 1
      /\ paid' = IF f \in Indexed THEN paid \cup {f} ELSE paid
      /\ UNCHANGED <<disk, broken, rows, running, due, watch, stranded, mishaps>>
  BY DEF Choose, Changes, At
<1> HIDE DEF me
<1>4. proc[p].pc \in Resting /\ paid \subseteq paid'
  BY <1>3 DEF Resting
<1>5. \A g \in me.walk : rows[g] = {} \/ g \in paid'
  BY <1>2, <1>3 DEF Indexed
<1>6. proc' \in [Procs -> Proc] /\ Singles' /\ Books'
  BY <1>2, <1>3, <1>4, <1>5, WorkKeeps
<1>7. paid' \subseteq Paths /\ changes' \in 0..MaxChanges
  BY <1>1, <1>3, Types, BoundsAssumption
<1>8. Bare'
  BY <1>1, <1>3, <1>6, <1>7 DEF Bare
<1> QED BY <1>6, <1>8 DEF Inv

-----------------------------------------------------------------------------
(* Reading and writing rows *)

\* A scan that reads the rows is to index files that have none.
LEMMA ReadRowsKeeps ==
    ASSUME Inv, NEW p \in Procs, ReadRows(p)
    PROVE  Inv'
<1>1. Bare /\ Singles /\ Books /\ proc[p] \in Proc /\ proc \in [Procs -> Proc]
  BY DEF Inv, Bare
<1>2. PICK seen \in [Paths -> 0..MaxRows], pc \in {"emptied", "syncing"} :
        proc' = [proc EXCEPT ![p].pc = pc, ![p].walk = proc[p].walk \ Known,
                             ![p].seen = seen]
  <2> DEFINE gone == Known \ proc[p].walk
  <2>1. PICK row \in [gone -> Ids], pc \in {"emptied", "syncing"} :
          proc' = [proc EXCEPT ![p].pc = pc, ![p].walk = proc[p].walk \ Known,
                     ![p].seen = [x \in Paths |-> IF x \in gone THEN row[x] ELSE 0]]
    BY DEF ReadRows
  <2>2. \A x \in gone : row[x] \in 0..MaxRows
    BY DEF Ids
  <2>3. 0 \in 0..MaxRows
    BY BoundsAssumption
  <2> HIDE DEF gone
  <2>4. [x \in Paths |-> IF x \in gone THEN row[x] ELSE 0] \in [Paths -> 0..MaxRows]
    BY <2>2, <2>3
  <2> QED BY <2>1, <2>4
<1> DEFINE walk == proc[p].walk \ Known
           n == [proc[p] EXCEPT !.pc = pc, !.walk = walk, !.seen = seen]
<1>3. walk \in SUBSET Paths /\ \A f \in walk : rows[f] = {}
  BY <1>1, Types DEF Known, Indexed
<1>4. proc' = [proc EXCEPT ![p] = n]
  BY <1>2
<1> HIDE DEF walk
<1>5. n \in Proc /\ n.pc = pc /\ n.walk = walk /\ n.kind = proc[p].kind /\ n.met = proc[p].met
  BY <1>1, <1>3 DEF Proc
<1> HIDE DEF n
<1>6. proc'[p] = n /\ \A q \in Procs : q # p => proc'[q] = proc[q]
  BY <1>1, <1>4
<1>7. /\ proc[p].pc = "walked"
      /\ UNCHANGED <<disk, broken, rows, running, due, watch, paid, stranded, changes, mishaps>>
  BY DEF ReadRows, At
<1>8. Bare'
  BY <1>1, <1>4, <1>5, <1>7 DEF Bare
<1>9. Singles'
  <2>1. \A q \in Procs : Modest(proc[q], proc'[q])
    BY <1>5, <1>6, <1>7 DEF Modest
  <2> QED BY <1>1, <2>1, ModestKeeps
<1>10. Met'
  BY <1>1, <1>5, <1>6, <1>7 DEF Books, Met, Resting
<1>11. Fresh'
  BY <1>1, <1>3, <1>5, <1>6, <1>7 DEF Books, Fresh
<1>12. DuplicatesPaidFor'
  BY <1>1, <1>7 DEF Books, DuplicatesPaidFor
<1> QED BY <1>8, <1>9, <1>10, <1>11, <1>12 DEF Inv, Books

\* A row that is added is the first, or paid for.
LEMMA InsertKeeps ==
    ASSUME Inv, NEW p \in Procs, NEW f \in Paths, NEW n \in Proc, Insert(p, f),
           proc[p].pc \in Holding, f \in proc[p].walk, proc' = [proc EXCEPT ![p] = n],
           Tame(proc[p], n), Modest(proc[p], n), n.pc \in Holding => f \notin n.walk,
           UNCHANGED <<disk, broken, running, due, watch, stranded, changes, mishaps>>
    PROVE  Inv'
<1> DEFINE free == Free(f)
           i == Min(free)
<1>1. Bare /\ Singles /\ Books /\ proc \in [Procs -> Proc] /\ rows[f] \in SUBSET Ids
      /\ rows \in [Paths -> SUBSET Ids]
  BY DEF Inv, Bare
<1>2. proc'[p] = n /\ \A q \in Procs : q # p => proc'[q] = proc[q]
  BY <1>1
<1>3. free # {} /\ rows' = [rows EXCEPT ![f] = rows[f] \cup {i}]
      /\ paid' = IF proc[p].met THEN paid \cup {f} ELSE paid
  BY <1>1 DEF Insert
<1>4. i \in Ids
  <2>1. free \in SUBSET Ids
    BY DEF Free
  <2> HIDE DEF free
  <2>2. Min(free) \in free
    BY <1>3, <2>1, Least
  <2> QED BY <2>1, <2>2
<1> HIDE DEF i, free
<1>5. /\ rows' \in [Paths -> SUBSET Ids] /\ rows'[f] = rows[f] \cup {i}
      /\ \A g \in Paths : g # f => rows'[g] = rows[g]
  BY <1>1, <1>3, <1>4
<1>6. paid \subseteq paid' /\ paid' \subseteq Paths
  BY <1>1, <1>3, Types
<1>7. Bare'
  BY <1>1, <1>5, <1>6 DEF Bare
<1>8. \A q \in Procs : Tame(proc[q], proc'[q]) /\ Modest(proc[q], proc'[q])
  BY <1>2 DEF Tame, Modest
<1>9. Singles'
  BY <1>1, <1>8, ModestKeeps
<1>10. Met'
  BY <1>1, <1>8 DEF Books, Met, Tame
<1>11. Fresh'
  <2> SUFFICES ASSUME NEW q \in Procs, proc'[q].pc \in Holding, ~proc'[q].met,
                      NEW g \in proc'[q].walk
               PROVE  rows'[g] = {} \/ g \in paid'
    BY DEF Fresh
  <2>1. proc'[q].pc \notin Resting /\ proc[p].pc \notin Resting
    BY DEF Holding, Resting
  <2>2. /\ proc[q].pc \in Holding /\ proc[q].pc \notin Resting /\ ~proc[q].met
        /\ g \in proc[q].walk
    BY <1>8, <2>1 DEF Tame
  <2>3. q = p
    BY <1>1, <2>1, <2>2 DEF Books, Met
  <2>4. g # f /\ g \in Paths
    BY <1>1, <1>2, <2>2, <2>3, Types
  <2> QED BY <1>1, <1>5, <1>6, <2>2, <2>4 DEF Books, Fresh
<1>12. DuplicatesPaidFor'
  <2> SUFFICES ASSUME NEW g \in Paths, Cardinality(rows'[g]) > 1, g \notin paid'
               PROVE  FALSE
    BY DEF DuplicatesPaidFor
  <2>1. g = f
    BY <1>1, <1>5, <1>6 DEF Books, DuplicatesPaidFor
  <2>2. ~proc[p].met /\ f \notin paid
    BY <1>3, <2>1
  <2>3. rows[f] = {}
    BY <1>1, <2>2 DEF Books, Fresh
  <2>4. rows'[f] = {i}
    BY <1>5, <2>3
  <2> QED BY <1>1, <1>4, <2>1, <2>4, RowCounts
<1> QED BY <1>7, <1>9, <1>10, <1>11, <1>12 DEF Inv, Books

\* A scan indexes a file, or an upload records its own.
LEMMA IndexKeeps ==
    ASSUME Inv, NEW p \in Procs, NEW f \in Paths, Index(p, f) \/ Record(p, f)
    PROVE  Inv'
<1>1. Bare /\ proc[p] \in Proc /\ proc[p].walk \in SUBSET Paths
  BY Types DEF Inv
<1>2. UNCHANGED <<disk, broken, running, due, watch, stranded, changes, mishaps>>
  BY DEF Index, Record
<1>3. CASE Index(p, f)
  <2> DEFINE walk == proc[p].walk \ {f}
             n == [proc[p] EXCEPT !.walk = walk]
  <2>1. walk \in SUBSET Paths /\ walk \subseteq proc[p].walk /\ f \notin walk
    BY <1>1
  <2>2. /\ proc' = [proc EXCEPT ![p] = n] /\ proc[p].pc = "syncing" /\ f \in proc[p].walk
        /\ IF f \in disk \ broken THEN Insert(p, f) ELSE UNCHANGED <<rows, paid>>
    BY <1>3 DEF Index, At, ToIndex
  <2> HIDE DEF walk
  <2>3. n \in Proc /\ n.pc = proc[p].pc /\ n.walk = walk /\ n.kind = proc[p].kind
        /\ n.met = proc[p].met
    BY <1>1, <2>1 DEF Proc
  <2> HIDE DEF n
  <2>4. Tame(proc[p], n) /\ Modest(proc[p], n) /\ proc[p].pc \in Holding
    BY <2>1, <2>2, <2>3 DEF Tame, Modest, Resting, Holding
  <2>5. CASE f \in disk \ broken
    BY <1>2, <2>1, <2>2, <2>3, <2>4, <2>5, InsertKeeps
  <2>6. CASE f \notin disk \ broken
    BY <1>1, <1>2, <2>2, <2>3, <2>4, <2>6, Types, OneKeeps
  <2> QED BY <2>5, <2>6
<1>4. CASE Record(p, f)
  <2>1. /\ proc' = [proc EXCEPT ![p] = NoProc] /\ proc[p].pc = "placed"
        /\ f \in proc[p].walk /\ Insert(p, f)
    BY <1>4 DEF Record, At
  <2>2. Tame(proc[p], NoProc) /\ Modest(proc[p], NoProc) /\ NoProc.pc \notin Holding
        /\ proc[p].pc \in Holding
    BY <2>1, NoProcType DEF Tame, Modest, Resting, Holding
  <2> QED BY <1>2, <2>1, <2>2, NoProcType, InsertKeeps
<1> QED BY <1>3, <1>4

\* A scan fails to index a file, and goes on.
LEMMA IndexFailsKeeps ==
    ASSUME Inv, NEW p \in Procs, NEW x \in Paths, IndexFails(p, x)
    PROVE  Inv'
<1> DEFINE walk == proc[p].walk \ {x}
           n == [proc[p] EXCEPT !.walk = walk]
<1>1. Bare /\ proc[p] \in Proc /\ walk \in SUBSET Paths /\ walk \subseteq proc[p].walk
  BY Types DEF Inv
<1>2. /\ proc' = [proc EXCEPT ![p] = n] /\ proc[p].pc = "syncing"
      /\ UNCHANGED <<disk, broken, rows, running, due, watch, paid, stranded, changes>>
  BY DEF IndexFails, At
<1>3. mishaps' \in 0..MaxMishaps
  BY <1>1, MishapType DEF IndexFails
<1> HIDE DEF walk
<1>4. n \in Proc /\ n.pc = proc[p].pc /\ n.walk = walk /\ n.kind = proc[p].kind
      /\ n.met = proc[p].met
  BY <1>1 DEF Proc
<1> HIDE DEF n
<1>5. Tame(proc[p], n) /\ Modest(proc[p], n)
  BY <1>1, <1>2, <1>4 DEF Tame, Modest, Resting, Holding
<1> QED BY <1>1, <1>2, <1>3, <1>4, <1>5, Types, OneKeeps

\* A row goes to the trash, or comes back, by hand.
LEMMA HandKeeps ==
    ASSUME Inv, NEW x \in Paths, SoftDelete(x) \/ Restore(x)
    PROVE  Inv'
<1>1. Bare /\ Singles /\ Books /\ rows \in [Paths -> SUBSET Ids] /\ paid \subseteq Paths
  BY Types DEF Inv
<1>2. /\ changes' \in 0..MaxChanges
      /\ UNCHANGED <<disk, broken, running, due, watch, proc, stranded, mishaps>>
  BY <1>1, Types, BoundsAssumption DEF SoftDelete, Restore, Changes
<1>3. /\ rows' \in [Paths -> SUBSET Ids] /\ paid' \subseteq Paths
      /\ \A y \in Paths : y # x => rows'[y] = rows[y] /\ (y \in paid' <=> y \in paid)
  BY <1>1 DEF SoftDelete, Restore
<1>4. Bare' /\ Singles' /\ Met'
  BY <1>1, <1>2, <1>3 DEF Bare, Singles, Single, Books, Met
<1>5. ASSUME NEW p \in Procs, proc[p].pc \in Holding, x \in proc[p].walk
      PROVE  Coming(x)
  BY <1>5 DEF Coming, Holding
<1>6. CASE SoftDelete(x)
  <2>1. PICK i \in rows[x] : rows' = [rows EXCEPT ![x] = rows[x] \ {i}]
    BY <1>6 DEF SoftDelete
  <2>2. rows'[x] \subseteq rows[x] /\ (rows'[x] = {} \/ (x \in paid' <=> x \in paid))
    BY <1>1, <1>6, <2>1 DEF SoftDelete
  <2>3. Fresh'
    BY <1>1, <1>2, <1>3, <2>2, Types DEF Books, Fresh
  <2>4. Cardinality(rows'[x]) > 1 => x \in paid'
    <3>1. 1 \in Ids /\ rows[x] \in SUBSET Ids
      BY <1>1, BoundsAssumption DEF Ids
    <3>2. Cardinality(rows'[x]) > 1 => Cardinality(rows[x]) > 1 /\ rows'[x] # {}
      BY <2>2, <3>1, RowCounts
    <3> QED BY <1>1, <2>2, <3>2 DEF Books, DuplicatesPaidFor
  <2>5. DuplicatesPaidFor'
    BY <1>1, <1>3, <2>4 DEF Books, DuplicatesPaidFor
  <2> QED BY <1>4, <2>3, <2>5 DEF Inv, Books
<1>7. CASE Restore(x)
  <2>1. PICK i \in Ids \ rows[x] : rows' = [rows EXCEPT ![x] = rows[x] \cup {i}]
    BY <1>7 DEF Restore
  <2>2. rows'[x] = rows[x] \cup {i}
    BY <1>1, <2>1
  <2>3. /\ paid' = IF x \in Indexed \/ Coming(x) THEN paid \cup {x} ELSE paid
        /\ x \in Indexed <=> rows[x] # {}
    BY <1>7 DEF Restore, Indexed
  <2>4. Fresh'
    <3> SUFFICES ASSUME NEW p \in Procs, proc[p].pc \in Holding, ~proc[p].met,
                        NEW y \in proc[p].walk
                 PROVE  rows'[y] = {} \/ y \in paid'
      BY <1>2 DEF Fresh
    <3>1. CASE y = x
      BY <1>5, <2>3, <3>1
    <3>2. CASE y # x
      BY <1>1, <1>3, <3>2, Types DEF Books, Fresh
    <3> QED BY <3>1, <3>2
  <2>5. Cardinality(rows'[x]) > 1 => x \in paid'
    <3>1. CASE rows[x] = {}
      BY <1>1, <2>1, <2>2, <3>1, RowCounts
    <3>2. CASE rows[x] # {}
      BY <2>3, <3>2
    <3> QED BY <3>1, <3>2
  <2>6. DuplicatesPaidFor'
    BY <1>1, <1>3, <2>5 DEF Books, DuplicatesPaidFor
  <2> QED BY <1>4, <2>4, <2>6 DEF Inv, Books
<1> QED BY <1>6, <1>7

\* A scan trashes the row of a file that has gone.
LEMMA RemoveKeeps ==
    ASSUME Inv, NEW p \in Procs, NEW f \in Paths, Remove(p, f)
    PROVE  Inv'
<1> DEFINE seen == [proc[p].seen EXCEPT ![f] = 0]
           n == [proc[p] EXCEPT !.seen = seen]
           left == rows[f] \ {proc[p].seen[f]}
<1>1. Bare /\ Singles /\ Books /\ proc \in [Procs -> Proc] /\ rows[f] \in SUBSET Ids
      /\ rows \in [Paths -> SUBSET Ids] /\ proc[p] \in Proc
      /\ proc[p].seen \in [Paths -> 0..MaxRows]
  BY Types DEF Inv, Bare
<1>2. /\ proc' = [proc EXCEPT ![p] = n] /\ proc[p].pc = "syncing" /\ proc[p].walk = {}
      /\ rows' = [rows EXCEPT ![f] = left]
      /\ paid' = IF Cardinality(rows'[f]) > 1 THEN paid ELSE paid \ {f}
      /\ UNCHANGED <<disk, broken, running, due, watch, stranded, changes, mishaps>>
  BY DEF Remove, At, ToIndex
<1>3. seen \in [Paths -> 0..MaxRows]
  BY <1>1, BoundsAssumption
<1>4. left \in SUBSET rows[f]
  OBVIOUS
<1> HIDE DEF seen, left
<1>5. n \in Proc /\ n.pc = proc[p].pc /\ n.walk = proc[p].walk /\ n.kind = proc[p].kind
      /\ n.met = proc[p].met
  BY <1>1, <1>3 DEF Proc
<1> HIDE DEF n
<1>6. proc'[p] = n /\ \A q \in Procs : q # p => proc'[q] = proc[q]
  BY <1>1, <1>2
<1>7. /\ rows' \in [Paths -> SUBSET Ids] /\ rows'[f] = left
      /\ \A g \in Paths : g # f => rows'[g] = rows[g]
  BY <1>1, <1>2, <1>4
<1>8. Bare'
  BY <1>1, <1>2, <1>5, <1>7 DEF Bare
<1>9. \A q \in Procs : Tame(proc[q], proc'[q]) /\ Modest(proc[q], proc'[q])
  BY <1>2, <1>5, <1>6 DEF Tame, Modest, Resting
<1>10. Met'
  BY <1>1, <1>9 DEF Books, Met, Tame
<1>11. Fresh'
  <2> SUFFICES ASSUME NEW q \in Procs, proc'[q].pc \in Holding, ~proc'[q].met,
                      NEW g \in proc'[q].walk
               PROVE  FALSE
    BY DEF Fresh
  <2>1. q # p /\ proc'[q] = proc[q]
    BY <1>2, <1>5, <1>6
  <2>2. proc[q].pc \notin Resting /\ proc[p].pc \notin Resting
    BY <1>2, <2>1 DEF Holding, Resting
  <2> QED BY <1>1, <2>1, <2>2 DEF Books, Met
<1>12. DuplicatesPaidFor'
  <2> SUFFICES ASSUME NEW g \in Paths, Cardinality(rows'[g]) > 1
               PROVE  g \in paid'
    BY DEF DuplicatesPaidFor
  <2>1. CASE g = f
    <3>1. Cardinality(rows[f]) > 1
      <4>1. 1 \in Ids
        BY BoundsAssumption DEF Ids
      <4> QED BY <1>1, <1>4, <1>7, <2>1, <4>1, RowCounts
    <3>2. f \in paid
      BY <1>1, <3>1 DEF Books, DuplicatesPaidFor
    <3> QED BY <1>2, <2>1, <3>2
  <2>2. CASE g # f
    BY <1>1, <1>2, <1>7, <2>2 DEF Books, DuplicatesPaidFor
  <2> QED BY <2>1, <2>2
<1> QED BY <1>1, <1>8, <1>9, <1>10, <1>11, <1>12, ModestKeeps DEF Inv, Books

-----------------------------------------------------------------------------
(* Theorems *)

\* The initial states.
LEMMA InitInv == Init => Inv
<1> SUFFICES ASSUME Init PROVE Inv
  OBVIOUS
<1>1. 1 \in Ids
  BY BoundsAssumption DEF Ids
<1>2. Bare
  <2>1. rows \in [Paths -> SUBSET Ids] /\ proc \in [Procs -> Proc]
    BY <1>1, NoProcType DEF Init
  <2>2. changes \in 0..MaxChanges /\ mishaps \in 0..MaxMishaps
    BY BoundsAssumption DEF Init
  <2> QED BY <2>1, <2>2 DEF Init, Bare
<1>3. \A p \in Procs : proc[p].pc = "none"
  BY NoProcType DEF Init
<1>4. Singles /\ Met /\ Fresh
  BY <1>3 DEF Singles, Single, Met, Fresh, Resting, Holding
<1>5. \A f \in Paths : rows[f] = {} \/ rows[f] = {1}
  BY DEF Init
<1>6. DuplicatesPaidFor
  BY <1>1, <1>5, RowCounts DEF DuplicatesPaidFor
<1> QED BY <1>2, <1>4, <1>6 DEF Inv, Books

\* Every step keeps the invariant.
LEMMA NextKeeps ==
    ASSUME Inv, [Next]_vars
    PROVE  Inv'
<1>1. ASSUME NEW p \in Procs, Step(p)
      PROVE  Inv'
  <2>1. CASE WakeUp(p) \/ Begin(p) \/ Walk(p) \/ ReadRows(p)
    BY <2>1, WakeUpKeeps, BeginKeeps, WalkKeeps, ReadRowsKeeps
  <2>2. CASE Abort(p) \/ ScanEnds(p)
    BY <2>2, EndKeeps
  <2>3. ASSUME NEW f \in Paths, Index(p, f) \/ Remove(p, f) \/ Place(p, f) \/ Record(p, f)
        PROVE  Inv'
    BY <2>3, IndexKeeps, RemoveKeeps, PlaceKeeps
  <2> QED BY <1>1, <2>1, <2>2, <2>3 DEF Step
<1>2. ASSUME NEW p \in Procs, Tick(p) \/ ScanNow(p)
      PROVE  Inv'
  BY <1>2, EnterKeeps
<1>3. ASSUME NEW p \in Procs, ScanFails(p) \/ FlushFails(p) \/ UploadFails(p)
      PROVE  Inv'
  BY <1>3, EndKeeps
<1>4. ASSUME NEW p \in Procs, NEW x \in Paths, Choose(p, x) \/ IndexFails(p, x)
      PROVE  Inv'
  BY <1>4, ChooseKeeps, IndexFailsKeeps
<1>5. ASSUME NEW f \in Files, Change(f)
      PROVE  Inv'
  BY <1>5, ChangeKeeps
<1>6. CASE StopWatcher
  BY <1>6, StopKeeps
<1>7. CASE CronFires \/ StartWatcher \/ UNCHANGED vars
  BY <1>7, IdleKeeps
<1>8. CASE Restart
  BY <1>8, RestartKeeps
<1>9. ASSUME NEW x \in Paths, SoftDelete(x) \/ Restore(x)
      PROVE  Inv'
  BY <1>9, HandKeeps
<1> QED BY <1>1, <1>2, <1>3, <1>4, <1>5, <1>6, <1>7, <1>8, <1>9 DEF Next

\* In every reachable state those at work together have met, and who has met
\* nobody indexes files that have no row.
THEOREM ScanInvariant == Spec => []Inv
<1>1. Init => Inv
  BY InitInv
<1>2. Inv /\ [Next]_vars => Inv'
  BY NextKeeps
<1> QED BY <1>1, <1>2, PTL DEF Spec

\* The variables keep their types, and the watcher and the schedule have one task
\* each (_schedule_scan, _run_due_external_scans).
THEOREM TypeCorrect == Spec => []TypeOK
<1>1. Inv => TypeOK
  BY TypeMeans DEF Inv
<1> QED BY <1>1, ScanInvariant, PTL

\* Two live rows with one path come from scans and uploads that were at work together,
\* from an upload to the path of a row, or from a row restored beside another
\* (scan_library, persist_artifact, restore_resource).
THEOREM DuplicatesExplained == Spec => []DuplicatesPaidFor
<1>1. Inv => DuplicatesPaidFor
  BY DEF Inv, Books
<1> QED BY <1>1, ScanInvariant, PTL
=============================================================================
