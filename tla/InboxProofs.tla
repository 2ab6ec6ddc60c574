----------------------------- MODULE InboxProofs -----------------------------
(***************************************************************************)
(* Proofs about Inbox, for any number of requests, tasks and mishaps.      *)
(*                                                                         *)
(* As long as no commit was stale, each import has been let in by an item  *)
(* in REVIEW that it put into IMPORTING.  There is room for one such item; *)
(* a mishap or a repair makes room for one more.  So what has been imported*)
(* and what is still owed by imports under way is counted (Counted), while *)
(* the item keeps to its life cycle.  What is left behind - flags,         *)
(* manifest, staged file and job - fits the state of the item (Tidy), also *)
(* when a task is killed in between.                                       *)
(***************************************************************************)
EXTENDS Inbox, FiniteSetTheorems, TLAPS

-----------------------------------------------------------------------------
(* Lemmas *)

\* What a commit leaves: of each column, the new value or the row's own.
LEMMA DirtyRow ==
    ASSUME row \in Row, NEW seen \in Row, NEW new \in Row
    PROVE  /\ Dirty(seen, new) \in Row
           /\ Dirty(seen, new).state = IF new.state # seen.state THEN new.state
                                       ELSE row.state
           /\ Dirty(seen, new).exists = IF new.exists # seen.exists THEN new.exists
                                        ELSE row.exists
<1>1. DOMAIN row = {"exists", "state", "manifest", "staged", "job", "retryable"}
  BY DEF Row
<1>2. \A c \in DOMAIN row :
        Dirty(seen, new)[c] = IF new[c] # seen[c] THEN new[c] ELSE row[c]
  BY DEF Dirty
<1>3. Dirty(seen, new) =
        [exists |-> Dirty(seen, new).exists, state |-> Dirty(seen, new).state,
         manifest |-> Dirty(seen, new).manifest, staged |-> Dirty(seen, new).staged,
         job |-> Dirty(seen, new).job, retryable |-> Dirty(seen, new).retryable]
  BY <1>1 DEF Dirty
<1> QED BY <1>1, <1>2, <1>3 DEF Row

\* Where a request or task may be.
PCs == {"none", "queued", "begun", "working", "ingesting", "persisted", "ready",
        "ending", "broken", "failing", "asked", "done"}

\* What the steps make of one.
Gone(q, pc) == [q EXCEPT !.pc = pc]
Looked(q, pc, seen) == [q EXCEPT !.pc = pc, !.seen = seen]
Fetched(q, pc, archive) == [q EXCEPT !.pc = pc, !.archive = archive]
Entered(role, pc, seen) == [role |-> role, pc |-> pc, seen |-> seen, archive |-> FALSE]
Turned(q, role, pc) == [q EXCEPT !.role = role, !.pc = pc]

Doubt == [stale : BOOLEAN, lost : BOOLEAN, stuck : BOOLEAN]

\* The types, one by one.
LEMMA Types ==
    ASSUME TypeOK
    PROVE  /\ row \in Row /\ row.state \in States /\ row.exists \in BOOLEAN
           /\ file \in BOOLEAN /\ proc \in [Procs -> Proc]
           /\ job \in [Procs -> {"none", "pending", "running", "completed", "failed"}]
           /\ imported \in Nat /\ repairs \in Nat /\ mishaps \in Nat
           /\ doubt \in Doubt
           /\ \A p \in Procs : /\ proc[p] \in Proc /\ proc[p].pc \in PCs
                               /\ proc[p].seen \in Row /\ proc[p].role \in Roles
                               /\ proc[p].seen.state \in States
                               /\ proc[p].seen.exists \in BOOLEAN
                               /\ proc[p].seen.retryable \in BOOLEAN
<1>1. \A p \in Procs : /\ proc[p] \in Proc /\ proc[p].pc \in PCs
                      /\ proc[p].seen \in Row /\ proc[p].role \in Roles
  BY DEF TypeOK, Proc, PCs
<1>2. \A r \in Row : r.state \in States /\ r.exists \in BOOLEAN /\ r.retryable \in BOOLEAN
  BY DEF Row
<1> QED BY <1>1, <1>2 DEF TypeOK, Doubt

\* doubt grows.
LEMMA DoubtGrows ==
    ASSUME doubt \in Doubt, NEW b, NEW stuck \in BOOLEAN
    PROVE  /\ [doubt EXCEPT !.stale = @ \/ b, !.stuck = stuck] \in Doubt
           /\ [doubt EXCEPT !.stale = @ \/ b, !.stuck = stuck].stale <=> (doubt.stale \/ b)
           /\ [doubt EXCEPT !.stale = @ \/ b, !.stuck = stuck].lost = doubt.lost
           /\ [doubt EXCEPT !.lost = @ \/ b, !.stuck = stuck] \in Doubt
           /\ [doubt EXCEPT !.lost = @ \/ b, !.stuck = stuck].stale = doubt.stale
           /\ [doubt EXCEPT !.lost = @ \/ b, !.stuck = stuck].lost <=> (doubt.lost \/ b)
           /\ [doubt EXCEPT !.stuck = stuck] \in Doubt
           /\ [doubt EXCEPT !.stuck = stuck].stale = doubt.stale
           /\ [doubt EXCEPT !.stuck = stuck].lost = doubt.lost
<1>1. doubt.stale \in BOOLEAN /\ doubt.lost \in BOOLEAN /\ doubt.stuck \in BOOLEAN
  BY DEF Doubt
<1>2. (doubt.stale \/ b) \in BOOLEAN /\ (doubt.lost \/ b) \in BOOLEAN
  OBVIOUS
<1>3. \A stale, lost \in BOOLEAN :
        /\ [doubt EXCEPT !.stale = stale, !.stuck = stuck] \in Doubt
        /\ [doubt EXCEPT !.stale = stale, !.stuck = stuck].stale = stale
        /\ [doubt EXCEPT !.stale = stale, !.stuck = stuck].lost = doubt.lost
        /\ [doubt EXCEPT !.lost = lost, !.stuck = stuck] \in Doubt
        /\ [doubt EXCEPT !.lost = lost, !.stuck = stuck].stale = doubt.stale
        /\ [doubt EXCEPT !.lost = lost, !.stuck = stuck].lost = lost
  BY <1>1 DEF Doubt
<1>4. /\ [doubt EXCEPT !.stuck = stuck] \in Doubt
      /\ [doubt EXCEPT !.stuck = stuck].stale = doubt.stale
      /\ [doubt EXCEPT !.stuck = stuck].lost = doubt.lost
  BY <1>1 DEF Doubt
<1> QED BY <1>2, <1>3, <1>4

\* What a commit notes.
LEMMA NotedDoubt ==
    ASSUME doubt \in Doubt, NEW b, doubt' = Noted(b)
    PROVE  /\ doubt' \in Doubt
           /\ doubt'.stale <=> (doubt.stale \/ b)
           /\ doubt'.lost = doubt.lost
<1>1. (doubt.stuck /\ row'.state \in Busy) \in BOOLEAN
  OBVIOUS
<1> QED BY <1>1, DoubtGrows DEF Noted

-----------------------------------------------------------------------------
(* The invariant *)

\* An import is under way from the commit of IMPORTING to its own last commit,
\* and owes models until it has persisted them, and again when it has lost the
\* record of it.
ActiveAs(q) ==
    /\ q.role = "import"
    /\ q.pc \in {"working", "ingesting", "persisted", "ready", "ending", "broken",
                 "failing"}
Active(p) == ActiveAs(proc[p])
OwesAs(q, now) == /\ q.role = "import"
                  /\ \/ q.pc \in {"working", "ingesting", "broken", "failing"}
                     \/ q.pc \in {"ready", "ending"} /\ now # "completed"
Owes(p) == OwesAs(proc[p], job[p])

\* What a request or task that is about to commit has read.
Looks(q) ==
    /\ q.role = "resolve" /\ q.pc = "begun" => q.seen.state \in {"captured", "failed"}
    /\ q.role = "import" /\ q.pc = "begun" => q.seen.state = "review"
    /\ q.role = "retry" /\ q.pc = "asked" => q.seen.state = "failed"
    /\ q.role = "dismiss" /\ q.pc = "asked" => q.seen.state # "importing"
    /\ q.role = "repair" /\ q.pc = "asked" => q.seen.state \in Busy \cup {"failed"}

Present == \A p \in Procs : proc[p].pc \notin {"none", "done"} => row.exists
Looking == \A p \in Procs : Looks(proc[p])
Alone == repairs = 0 => \A p \in Procs : Active(p) => /\ row.state = "importing"
                                                    /\ \A q \in Procs : Active(q) => q = p

One(b) == IF b THEN 1 ELSE 0
Room == One(row.state \in Over \cup {"importing"})
Owing == {p \in Procs : Owes(p)}
Counted == imported + Cardinality(Owing) <= mishaps + repairs + Room

Inv == /\ TypeOK /\ Present /\ Looking
       /\ doubt.stale \/ (Alone /\ Counted)

-----------------------------------------------------------------------------
(* One request or task moves *)

\* A step of p pays for the models it persists and for what it comes to owe: with
\* what it owed, a mishap, a repair, or the room that the item had or gives up.
Pays(p) == imported' + One(Owes(p)') + mishaps + repairs + Room
             <= imported + One(Owes(p)) + mishaps' + repairs' + Room'

\* It leaves the state, starts to import an item that was not being imported, or
\* ends its import.
Moved(p) ==
    /\ Pays(p)
    /\ \/ row'.state = row.state /\ (Active(p)' => Active(p))
       \/ row.state # "importing" /\ (Active(p)' => row'.state = "importing")
       \/ Active(p) /\ ~Active(p)'
       \/ repairs' # 0

\* The life cycle in one step.
Lives == \/ row'.state = row.state
         \/ <<row.state, row'.state>> \in Moves
         \/ <<row.state, row'.state>> \in PutBack /\ \E p \in Procs : Repair(p)

\* A step of p that is a good one unless it is stale.
Good(p) ==
    /\ TypeOK'
    /\ \A q \in Procs \ {p} : proc'[q] = proc[q] /\ job'[q] = job[q]
    /\ Looks(proc'[p])
    /\ row.exists => row'.exists
    /\ proc'[p].pc \notin {"none", "done"} => row'.exists
    /\ doubt.stale => doubt'.stale
    /\ repairs' \in {repairs, repairs + 1}
    /\ doubt'.stale \/ (Moved(p) /\ Lives)

\* Who owes changes by one at most.
LEMMA OwingMoved ==
    ASSUME NEW p \in Procs,
           \A q \in Procs \ {p} : proc'[q] = proc[q] /\ job'[q] = job[q]
    PROVE  /\ Cardinality(Owing) \in Nat /\ Cardinality(Owing)' \in Nat
           /\ Cardinality(Owing)' + One(Owes(p)) = Cardinality(Owing) + One(Owes(p)')
<1> DEFINE Rest == {q \in Procs \ {p} : Owes(q)}
<1>1. Rest = {q \in Procs \ {p} : Owes(q)'}
  BY DEF Owes
<1>2. /\ Owing = IF Owes(p) THEN Rest \cup {p} ELSE Rest
      /\ Owing' = IF Owes(p)' THEN Rest \cup {p} ELSE Rest
  BY <1>1 DEF Owing
<1>3. IsFiniteSet(Rest) /\ p \notin Rest
  BY ProcsAssumption, FS_Subset
<1>4. /\ Cardinality(Rest) \in Nat
      /\ Cardinality(Rest \cup {p}) = Cardinality(Rest) + 1
  BY <1>3, FS_CardinalityType, FS_AddElement
<1> QED BY <1>2, <1>4 DEF One

\* A good step keeps imports alone and counted.
LEMMA MovedKeeps ==
    ASSUME Inv, TypeOK', NEW p \in Procs, ~doubt.stale, Moved(p),
           repairs' \in {repairs, repairs + 1},
           \A q \in Procs \ {p} : proc'[q] = proc[q] /\ job'[q] = job[q]
    PROVE  (Alone /\ Counted)'
<1>1. /\ Alone /\ Counted
      /\ imported \in Nat /\ mishaps \in Nat /\ repairs \in Nat
      /\ imported' \in Nat /\ mishaps' \in Nat /\ repairs' \in Nat
  BY DEF Inv, TypeOK
<1>2. \A q \in Procs \ {p} : Active(q)' <=> Active(q)
  BY DEF Active
<1>3. Alone'
  <2>1. SUFFICES ASSUME repairs' = 0
                 PROVE  \A q \in Procs : Active(q)' =>
                          row'.state = "importing" /\ \A r \in Procs : Active(r)' => r = q
    BY DEF Alone
  <2>2. \A q \in Procs : Active(q) => /\ row.state = "importing"
                                     /\ \A r \in Procs : Active(r) => r = q
    BY <1>1, <2>1 DEF Alone
  <2>3. CASE row'.state = row.state /\ (Active(p)' => Active(p))
    BY <1>2, <2>2, <2>3
  <2>4. CASE row.state # "importing" /\ (Active(p)' => row'.state = "importing")
    BY <1>2, <2>2, <2>4
  <2>5. CASE Active(p) /\ ~Active(p)'
    BY <1>2, <2>2, <2>5
  <2> QED BY <2>1, <2>3, <2>4, <2>5 DEF Moved
<1>4. Counted'
  <2>1. Room \in {0, 1} /\ Room' \in {0, 1}
    BY DEF Room, One
  <2>2. One(Owes(p)) \in {0, 1} /\ One(Owes(p)') \in {0, 1}
    BY DEF One
  <2>3. /\ Cardinality(Owing) \in Nat /\ Cardinality(Owing)' \in Nat
        /\ Cardinality(Owing)' + One(Owes(p)) = Cardinality(Owing) + One(Owes(p)')
    BY OwingMoved
  <2>4. imported + Cardinality(Owing) <= mishaps + repairs + Room
    BY <1>1 DEF Counted
  <2>5. imported' + One(Owes(p)') + mishaps + repairs + Room
          <= imported + One(Owes(p)) + mishaps' + repairs' + Room'
    BY DEF Moved, Pays
  <2>6. imported' + Cardinality(Owing)' <= mishaps' + repairs' + Room'
    BY <1>1, <2>1, <2>2, <2>3, <2>4, <2>5
  <2> QED BY <2>6 DEF Counted
<1> QED BY <1>3, <1>4

\* A good step keeps the invariant and the life cycle.
LEMMA GoodKeeps ==
    ASSUME Inv, NEW p \in Procs, Good(p)
    PROVE  Inv' /\ (doubt'.stale \/ Lives)
<1>1. Present'
  <2>1. \A q \in Procs \ {p} : proc'[q].pc \notin {"none", "done"} => row.exists
    BY DEF Inv, Present, Good
  <2>2. proc'[p].pc \notin {"none", "done"} => row'.exists
    BY DEF Good
  <2> QED BY <2>1, <2>2 DEF Present, Good
<1>2. Looking'
  BY DEF Inv, Looking, Good
<1>3. ASSUME ~doubt'.stale
      PROVE  (Alone /\ Counted)'
  <2>1. ~doubt.stale /\ Moved(p)
    BY <1>3 DEF Good
  <2> QED BY <2>1, MovedKeeps DEF Good
<1>4. TypeOK'
  BY DEF Good
<1>5. (doubt.stale \/ (Alone /\ Counted))'
  BY <1>3
<1> QED BY <1>1, <1>2, <1>4, <1>5 DEF Inv, Good

\* A step of p that changes its own program counter, and perhaps its job, and
\* leaves the state of the item is a good one.
LEMMA QuietGood ==
    ASSUME Inv, NEW p \in Procs, NEW q \in Proc, proc' = [proc EXCEPT ![p] = q],
           row' \in Row, row'.state = row.state, row.exists => row'.exists,
           file' \in BOOLEAN, UNCHANGED <<imported, repairs>>,
           mishaps' \in {mishaps, mishaps + 1},
           job' \in [Procs -> {"none", "pending", "running", "completed", "failed"}],
           \A r \in Procs \ {p} : job'[r] = job[r],
           doubt' \in Doubt, doubt.stale => doubt'.stale,
           Looks(q), q.pc \notin {"none", "done"} => row'.exists,
           ActiveAs(q) => Active(p),
           OwesAs(q, job'[p]) => Owes(p) \/ mishaps' = mishaps + 1
    PROVE  Good(p)
<1>1. /\ TypeOK /\ proc \in [Procs -> Proc]
      /\ imported \in Nat /\ repairs \in Nat /\ mishaps \in Nat
  BY DEF Inv, TypeOK
<1>2. proc'[p] = q /\ \A r \in Procs \ {p} : proc'[r] = proc[r]
  BY <1>1
<1>3. TypeOK'
  BY <1>1 DEF TypeOK, Doubt
<1>4. /\ Active(p)' => Active(p)
      /\ Owes(p)' => Owes(p) \/ mishaps' = mishaps + 1
  BY <1>2 DEF Active, Owes
<1>5. Moved(p)
  <2>1. Room' = Room /\ Room \in {0, 1}
    BY DEF Room, One
  <2>2. One(Owes(p)) \in {0, 1} /\ One(Owes(p)') \in {0, 1}
    BY DEF One
  <2>3. One(Owes(p)') + mishaps <= One(Owes(p)) + mishaps'
    <3>1. CASE mishaps' = mishaps + 1
      BY <1>1, <2>2, <3>1
    <3>2. CASE mishaps' # mishaps + 1
      <4>1. mishaps' = mishaps /\ (Owes(p)' => Owes(p))
        BY <1>4, <3>2
      <4>2. One(Owes(p)') <= One(Owes(p))
        BY <4>1 DEF One
      <4> QED BY <1>1, <2>2, <4>1, <4>2
    <3> QED BY <3>1, <3>2
  <2> QED BY <1>1, <1>4, <2>1, <2>2, <2>3 DEF Moved, Pays
<1>6. Lives
  BY DEF Lives
<1> QED BY <1>2, <1>3, <1>5, <1>6 DEF Good

\* A commit that is not stale finds the row in the state that was read, which is
\* one that its task expects, and leaves it in the new one.
LEMMA Committed ==
    ASSUME TypeOK, NEW p \in Procs, NEW new \in Row, new.exists = proc[p].seen.exists,
           NEW busy, NEW pc \in PCs, Commit(p, new, busy, pc)
    PROVE  /\ row' \in Row /\ row'.exists = row.exists
           /\ doubt' \in Doubt /\ doubt'.lost = doubt.lost
           /\ doubt.stale => doubt'.stale
           /\ proc' = [proc EXCEPT ![p] = Gone(proc[p], pc)]
           /\ ~doubt'.stale => /\ row.state = proc[p].seen.state
                              /\ row.retryable = proc[p].seen.retryable
                              /\ row.state \in busy /\ row'.state = new.state
<1>1. /\ row \in Row /\ proc[p].seen \in Row /\ proc[p] \in Proc
      /\ doubt \in Doubt
  BY Types
<1>2. row' = Dirty(proc[p].seen, new)
  BY DEF Commit
<1>3. /\ row' \in Row
      /\ row'.state = IF new.state # proc[p].seen.state THEN new.state ELSE row.state
      /\ row'.exists = IF new.exists # proc[p].seen.exists THEN new.exists ELSE row.exists
  BY <1>1, <1>2, DirtyRow
<1>4. /\ doubt' \in Doubt /\ doubt'.lost = doubt.lost
      /\ doubt'.stale <=> doubt.stale \/ Stale(p, busy)
  BY <1>1, NotedDoubt DEF Commit
<1>5. proc' = [proc EXCEPT ![p] = Gone(proc[p], pc)]
  BY DEF Commit, Goto, Gone
<1> QED BY <1>3, <1>4, <1>5 DEF Stale

\* A commit that ends without a stale look is a good step when it moves the item
\* within its life cycle.
LEMMA CommitGood ==
    ASSUME Inv, NEW p \in Procs, NEW new \in Row, new.exists = proc[p].seen.exists,
           NEW busy, NEW pc \in PCs, Commit(p, new, busy, pc),
           proc[p].pc \notin {"none", "done"}, pc # "begun", pc # "asked",
           file' \in BOOLEAN, UNCHANGED <<imported, mishaps>>,
           repairs' \in {repairs, repairs + 1},
           job' \in [Procs -> {"none", "pending", "running", "completed", "failed"}],
           \A r \in Procs \ {p} : job'[r] = job[r],
           row.state = proc[p].seen.state /\ row.state \in busy /\ row'.state = new.state
             /\ ~doubt.stale => Moved(p) /\ Lives
    PROVE  Good(p)
<1>1. TypeOK /\ proc \in [Procs -> Proc] /\ proc[p] \in Proc /\ row.exists
  BY Types DEF Inv, Present
<1>2. /\ row' \in Row /\ row'.exists = row.exists
      /\ doubt' \in Doubt
      /\ doubt.stale => doubt'.stale
      /\ proc' = [proc EXCEPT ![p] = Gone(proc[p], pc)]
      /\ ~doubt'.stale => /\ row.state = proc[p].seen.state
                         /\ row.state \in busy /\ row'.state = new.state
  <2>1. /\ row' \in Row /\ row'.exists = row.exists
        /\ doubt' \in Doubt /\ doubt'.lost = doubt.lost
        /\ doubt.stale => doubt'.stale
        /\ proc' = [proc EXCEPT ![p] = Gone(proc[p], pc)]
        /\ ~doubt'.stale => /\ row.state = proc[p].seen.state
                           /\ row.retryable = proc[p].seen.retryable
                           /\ row.state \in busy /\ row'.state = new.state
    BY <1>1, Committed
  <2> QED BY <2>1
<1>3. Gone(proc[p], pc) \in Proc /\ Gone(proc[p], pc).pc = pc
  BY <1>1 DEF Gone, Proc, PCs
<1>4. proc'[p] = Gone(proc[p], pc) /\ \A r \in Procs \ {p} : proc'[r] = proc[r]
  BY <1>1, <1>2
<1>5. TypeOK'
  <2>1. repairs' \in Nat /\ imported' \in Nat /\ mishaps' \in Nat
    BY <1>1 DEF TypeOK
  <2> QED BY <1>1, <1>2, <1>3, <2>1 DEF TypeOK, Doubt
<1>6. Looks(proc'[p])
  BY <1>3, <1>4 DEF Looks
<1>7. doubt'.stale \/ (Moved(p) /\ Lives)
  BY <1>2
<1> QED BY <1>1, <1>2, <1>4, <1>5, <1>6, <1>7 DEF Good

\* A commit of an item that is not being imported, or by the end of its import.
LEMMA CommitMoves ==
    ASSUME Inv, NEW p \in Procs, UNCHANGED <<imported, repairs, mishaps>>,
           \/ /\ row.state # "importing" /\ (Active(p)' => row'.state = "importing")
              /\ row.state \notin Over \/ row'.state \in Over
              /\ Owes(p)' => row.state \notin Over /\ row'.state = "importing"
           \/ /\ Active(p) /\ ~Active(p)' /\ ~Owes(p)'
              /\ Owes(p) \/ row'.state \in Over
    PROVE  Moved(p)
<1>1. imported \in Nat /\ repairs \in Nat /\ mishaps \in Nat
  BY DEF Inv, TypeOK
<1>2. /\ Room = (IF row.state \in Over \cup {"importing"} THEN 1 ELSE 0)
      /\ Room' = (IF row'.state \in Over \cup {"importing"} THEN 1 ELSE 0)
      /\ One(Owes(p)) = (IF Owes(p) THEN 1 ELSE 0)
      /\ One(Owes(p)') = (IF Owes(p)' THEN 1 ELSE 0)
  BY DEF Room, One
<1>3. One(Owes(p)') + Room <= One(Owes(p)) + Room'
  BY <1>2
<1>4. /\ Room \in {0, 1} /\ Room' \in {0, 1}
      /\ One(Owes(p)) \in {0, 1} /\ One(Owes(p)') \in {0, 1}
  BY <1>2
<1>5. Pays(p)
  BY <1>1, <1>3, <1>4 DEF Pays
<1> QED BY <1>5 DEF Moved

-----------------------------------------------------------------------------
(* The actions *)

\* A new request or task.
LEMMA EnterGood ==
    ASSUME Inv, NEW p \in Procs, NEW role \in Roles, NEW pc \in {"queued", "asked"},
           Enter(p, role, pc), role = "retry" /\ pc = "asked" => row.state = "failed",
           role = "dismiss" /\ pc = "asked" => row.state # "importing",
           role = "repair" /\ pc = "asked" => row.state \in Busy \cup {"failed"},
           row' \in Row, row'.state = row.state, row'.exists, file' \in BOOLEAN,
           UNCHANGED <<job, imported, repairs, doubt, mishaps>>
    PROVE  Good(p)
<1> DEFINE q == Entered(role, pc, row)
<1>1. TypeOK /\ row \in Row /\ proc[p].pc = "none"
  BY DEF Inv, TypeOK, Enter
<1>2. q \in Proc /\ q.role = role /\ q.pc = pc /\ q.seen = row
  BY <1>1 DEF Entered, Proc, Roles
<1>3. proc' = [proc EXCEPT ![p] = q]
  BY DEF Enter, Entered
<1> HIDE DEF q
<1>4. Looks(q) /\ ~ActiveAs(q) /\ ~OwesAs(q, job'[p])
  BY <1>1, <1>2 DEF Looks, ActiveAs, OwesAs
<1> QED BY <1>1, <1>2, <1>3, <1>4, Types, QuietGood

\* Requests that are new look at the row; one adds it.
LEMMA RequestGood ==
    ASSUME Inv, NEW p \in Procs,
           Capture(p) \/ Schedule(p) \/ AskChoose(p) \/ AskRetry(p) \/ AskDismiss(p)
             \/ AskRepair(p)
    PROVE  Good(p)
<1>1. row \in Row /\ file \in BOOLEAN /\ row.staged \in BOOLEAN
  BY Types DEF Inv, Row
<1>2. CASE Capture(p)
  <2>1. row' \in Row /\ row'.state = row.state /\ row'.exists
    BY <1>1, <1>2 DEF Capture, Row
  <2> QED BY <1>1, <1>2, <2>1, EnterGood DEF Capture, Roles
<1>3. CASE Schedule(p)
  BY <1>1, <1>3, EnterGood DEF Schedule, Roles
<1>4. CASE AskChoose(p)
  BY <1>1, <1>4, EnterGood DEF AskChoose, Roles
<1>5. CASE AskRetry(p)
  BY <1>1, <1>5, EnterGood DEF AskRetry, Roles
<1>6. CASE AskDismiss(p)
  BY <1>1, <1>6, EnterGood DEF AskDismiss, Roles
<1>7. CASE AskRepair(p)
  BY <1>1, <1>7, EnterGood DEF AskRepair, Roles
<1> QED BY <1>2, <1>3, <1>4, <1>5, <1>6, <1>7

\* A step that only moves p on, or ends its job.
LEMMA GoneGood ==
    ASSUME Inv, NEW p \in Procs, NEW pc \in PCs, Goto(p, pc),
           proc[p].pc \notin {"none", "done"}, pc \notin {"begun", "asked"},
           UNCHANGED <<row, file, imported, repairs, doubt, mishaps>>,
           NEW now \in {"none", "pending", "running", "completed", "failed"},
           job' = [job EXCEPT ![p] = now],
           proc[p].role = "import" /\ pc \notin {"none", "queued", "done"} => Active(p),
           Active(p) /\ pc # "done" => Owes(p) \/ (now = "completed" /\ pc = "ready")
    PROVE  Good(p)
<1> DEFINE q == Gone(proc[p], pc)
<1>1. /\ TypeOK /\ proc[p] \in Proc /\ row \in Row /\ row.exists
      /\ doubt \in Doubt /\ file \in BOOLEAN
      /\ proc \in [Procs -> Proc]
      /\ job \in [Procs -> {"none", "pending", "running", "completed", "failed"}]
  BY Types DEF Inv, Present
<1>2. q \in Proc /\ q.role = proc[p].role /\ q.pc = pc
  BY <1>1 DEF Gone, Proc, PCs
<1>3. proc' = [proc EXCEPT ![p] = q]
  BY DEF Goto, Gone
<1> HIDE DEF q
<1>4. Looks(q)
  BY <1>2 DEF Looks
<1>5. ActiveAs(q) => Active(p)
  BY <1>2 DEF ActiveAs
<1>6. OwesAs(q, job'[p]) => Owes(p)
  <2>1. job'[p] = now
    BY <1>1
  <2>2. OwesAs(q, now) => Active(p) /\ pc # "done" /\ ~(now = "completed" /\ pc = "ready")
    BY <1>2, <1>5 DEF OwesAs, ActiveAs
  <2> QED BY <2>1, <2>2
<1>7. /\ job' \in [Procs -> {"none", "pending", "running", "completed", "failed"}]
      /\ \A r \in Procs \ {p} : job'[r] = job[r]
  BY <1>1
<1> QED BY <1>1, <1>2, <1>3, <1>4, <1>5, <1>6, <1>7, QuietGood

\* The steps of a task between its commits.
LEMMA TaskGood ==
    ASSUME Inv, NEW p \in Procs,
           \/ BeginRefused(p) \/ FetchFails(p) \/ Ingest(p) \/ AssetsFail(p)
           \/ NothingImported(p) \/ JobCompletes(p)
    PROVE  Good(p)
<1>1. job = [job EXCEPT ![p] = job[p]]
      /\ job[p] \in {"none", "pending", "running", "completed", "failed"}
  BY Types DEF Inv
<1>2. CASE BeginRefused(p)
  BY <1>1, <1>2, GoneGood DEF BeginRefused, At, PCs, Active, ActiveAs
<1>3. CASE FetchFails(p)
  BY <1>1, <1>3, GoneGood DEF FetchFails, At, PCs, Active, ActiveAs
<1>4. CASE Ingest(p)
  <2>1. /\ Goto(p, "ingesting") /\ proc[p].pc = "working" /\ Active(p) /\ Owes(p)
    BY <1>4 DEF Ingest, At, Active, ActiveAs, Owes, OwesAs
  <2>2. /\ job' = [job EXCEPT ![p] = "running"]
        /\ UNCHANGED <<row, file, imported, repairs, doubt, mishaps>>
    BY <1>4 DEF Ingest
  <2>3. "ingesting" \in PCs
    BY DEF PCs
  <2> QED BY <2>1, <2>2, <2>3, GoneGood
<1>5. CASE AssetsFail(p)
  <2>1. /\ Goto(p, "broken") /\ proc[p].pc = "working" /\ Active(p) /\ Owes(p)
    BY <1>5 DEF AssetsFail, At, Active, ActiveAs, Owes, OwesAs
  <2>2. UNCHANGED <<row, file, job, imported, repairs, doubt, mishaps>>
    BY <1>5 DEF AssetsFail
  <2>3. "broken" \in PCs
    BY DEF PCs
  <2>4. job' = [job EXCEPT ![p] = job[p]]
    BY <1>1, <2>2
  <2> QED BY <1>1, <2>1, <2>2, <2>3, <2>4, GoneGood
<1>6. CASE NothingImported(p)
  <2>1. /\ Goto(p, "ready") /\ proc[p].pc = "ingesting" /\ Active(p) /\ Owes(p)
    BY <1>6 DEF NothingImported, At, Active, ActiveAs, Owes, OwesAs
  <2> QED BY <1>6, <2>1, GoneGood DEF NothingImported, PCs
<1>7. CASE JobCompletes(p)
  <2>1. /\ Goto(p, "ready") /\ proc[p].pc = "persisted" /\ Active(p) 
    BY <1>7 DEF JobCompletes, At, Active, ActiveAs, Owes, OwesAs
  <2> QED BY <1>7, <2>1, GoneGood DEF JobCompletes, PCs
<1> QED BY <1>2, <1>3, <1>4, <1>5, <1>6, <1>7

\* A task looks at the row, or has fetched its files.
LEMMA LookGood ==
    ASSUME Inv, NEW p \in Procs,
           BeginRead(p) \/ FailRead(p) \/ EndRead(p) \/ Fetch(p)
    PROVE  Good(p)
<1>1. /\ TypeOK /\ proc[p] \in Proc /\ row \in Row /\ row.staged \in BOOLEAN
      /\ doubt \in Doubt /\ file \in BOOLEAN
      /\ job \in [Procs -> {"none", "pending", "running", "completed", "failed"}]
  BY Types DEF Inv, Row
<1>2. proc[p].pc \notin {"none", "done"}
  BY DEF BeginRead, FailRead, EndRead, Fetch, At
<1>3. row.exists
  BY <1>2 DEF Inv, Present
<1>4. CASE BeginRead(p)
  <2> DEFINE pc == IF Startable(proc[p].role) THEN "begun" ELSE "done"
             q == Looked(proc[p], pc, row)
  <2>1. /\ q \in Proc /\ q.role = proc[p].role /\ q.seen = row /\ q.pc = pc
    BY <1>1 DEF Looked, Proc
  <2>2. proc' = [proc EXCEPT ![p] = q]
    BY <1>4 DEF BeginRead, Looked
  <2> HIDE DEF q
  <2>3. Looks(q) /\ ~ActiveAs(q)
    BY <2>1 DEF Looks, ActiveAs, Startable
  <2>4. ~OwesAs(q, job'[p])
    BY <2>1 DEF OwesAs
  <2> QED BY <1>1, <1>3, <1>4, <2>1, <2>2, <2>3, <2>4, QuietGood DEF BeginRead
<1>5. CASE FailRead(p)
  <2> DEFINE q == Looked(proc[p], "failing", row)
  <2>1. /\ q \in Proc /\ q.role = proc[p].role /\ q.seen = row /\ q.pc = "failing"
    BY <1>1 DEF Looked, Proc
  <2>2. proc' = [proc EXCEPT ![p] = q]
    BY <1>3, <1>5 DEF FailRead, Looked
  <2> HIDE DEF q
  <2>3. Looks(q) /\ (ActiveAs(q) => Active(p))
    BY <1>5, <2>1 DEF Looks, ActiveAs, Active, FailRead
  <2>4. OwesAs(q, job'[p]) => Owes(p)
    BY <1>5, <2>1 DEF FailRead, OwesAs, Owes
  <2>5. /\ job' \in [Procs -> {"none", "pending", "running", "completed", "failed"}]
        /\ \A r \in Procs \ {p} : job'[r] = job[r]
    BY <1>1, <1>5 DEF FailRead
  <2> QED BY <1>1, <1>3, <1>5, <2>1, <2>2, <2>3, <2>4, <2>5, QuietGood DEF FailRead
<1>6. CASE EndRead(p)
  <2> DEFINE q == Looked(proc[p], "ending", row)
  <2>1. /\ q \in Proc /\ q.role = proc[p].role /\ q.seen = row /\ q.pc = "ending"
    BY <1>1 DEF Looked, Proc
  <2>2. proc' = [proc EXCEPT ![p] = q]
    BY <1>3, <1>6 DEF EndRead, Looked
  <2> HIDE DEF q
  <2>3. Looks(q) /\ (ActiveAs(q) => Active(p))
    BY <1>6, <2>1 DEF Looks, ActiveAs, Active, EndRead
  <2>4. OwesAs(q, job'[p]) => Owes(p)
    BY <1>6, <2>1 DEF EndRead, OwesAs, Owes
  <2>5. file' \in BOOLEAN
    BY <1>6 DEF EndRead
  <2> QED BY <1>1, <1>3, <1>6, <2>1, <2>2, <2>3, <2>4, <2>5, QuietGood DEF EndRead
<1>7. CASE Fetch(p)
  <2>1. PICK archive \in BOOLEAN :
          /\ proc' = [proc EXCEPT ![p] = Fetched(proc[p], "ready", archive)]
          /\ file' = (file \/ archive)
    BY <1>7 DEF Fetch, Fetched
  <2> DEFINE q == Fetched(proc[p], "ready", archive)
  <2>2. q \in Proc /\ q.role = proc[p].role /\ q.pc = "ready"
    BY <1>1 DEF Fetched, Proc
  <2> HIDE DEF q
  <2>3. Looks(q) /\ ~ActiveAs(q)
    BY <1>7, <2>2 DEF Looks, ActiveAs, Fetch, At
  <2>4. ~OwesAs(q, job'[p])
    BY <1>7, <2>2 DEF Fetch, At, OwesAs
  <2>5. file' \in BOOLEAN /\ proc' = [proc EXCEPT ![p] = q]
    BY <2>1 DEF q
  <2> QED BY <1>1, <1>3, <1>7, <2>2, <2>3, <2>4, <2>5, QuietGood DEF Fetch
<1> QED BY <1>4, <1>5, <1>6, <1>7

\* The selection is written, also over a newer manifest.
LEMMA ChooseGood ==
    ASSUME Inv, NEW p \in Procs, Choose(p)
    PROVE  Good(p)
<1> DEFINE q == Gone(proc[p], "done")
<1>1. /\ TypeOK /\ proc[p] \in Proc /\ row \in Row
      /\ doubt \in Doubt /\ file \in BOOLEAN
      /\ job \in [Procs -> {"none", "pending", "running", "completed", "failed"}]
      /\ proc[p].seen.manifest \in {"none", "choice", "archive", "other"}
  BY Types DEF Inv, Row
<1>2. q \in Proc /\ q.pc = "done" /\ proc' = [proc EXCEPT ![p] = q]
  BY <1>1 DEF Gone, Proc, Choose, Goto
<1>3. PICK manifest \in {"none", "choice", "archive", "other"} :
        row' = [row EXCEPT !.manifest = manifest]
  BY <1>1 DEF Choose
<1>4. row' \in Row /\ row'.state = row.state /\ row'.exists = row.exists
  BY <1>1, <1>3 DEF Row
<1>5. doubt' \in Doubt /\ (doubt.stale => doubt'.stale)
  BY <1>1, NotedDoubt DEF Choose
<1> HIDE DEF q
<1>6. Looks(q) /\ ~ActiveAs(q)
  BY <1>2 DEF Looks, ActiveAs
<1>7. ~OwesAs(q, job'[p])
  BY <1>2 DEF OwesAs
<1> QED BY <1>1, <1>2, <1>4, <1>5, <1>6, <1>7, QuietGood DEF Choose

\* A failed item is offered again.
LEMMA RetryGood ==
    ASSUME Inv, NEW p \in Procs, Retry(p)
    PROVE  Good(p)
<1> DEFINE seen == proc[p].seen
           to == IF seen.manifest = "none" THEN "captured" ELSE "review"
           new == [seen EXCEPT !.state = to, !.retryable = FALSE]
           q == Turned(proc[p], "resolve", IF to = "captured" THEN "queued" ELSE "done")
<1>1. /\ TypeOK /\ proc \in [Procs -> Proc] /\ proc[p] \in Proc /\ row \in Row
      /\ seen \in Row /\ row.exists
      /\ doubt \in Doubt
      /\ proc[p].role = "retry" /\ proc[p].pc = "asked"
  BY Types DEF Inv, Present, Retry, At
<1>2. new \in Row /\ new.state = to /\ new.exists = seen.exists
  BY <1>1 DEF Row, States
<1>3. q \in Proc /\ q.role = "resolve" /\ q.pc \in {"queued", "done"}
  BY <1>1 DEF Turned, Proc, Roles
<1>4. row' = Dirty(seen, new) /\ proc' = [proc EXCEPT ![p] = q]
  BY DEF Retry, Turned
<1>5. seen.state = "failed"
  BY <1>1 DEF Inv, Looking, Looks
<1>6. /\ doubt' \in Doubt
      /\ doubt'.stale <=> doubt.stale \/ Stale(p, States)
  BY <1>1, NotedDoubt DEF Retry
<1> HIDE DEF new, q
<1>7. /\ row' \in Row /\ row'.exists = row.exists
      /\ row'.state = IF to # "failed" THEN to ELSE row.state
  BY <1>1, <1>2, <1>4, <1>5, DirtyRow
<1>8. TypeOK'
  <2>1. proc' \in [Procs -> Proc]
    BY <1>1, <1>3, <1>4
  <2>2. UNCHANGED <<file, job, imported, repairs, mishaps>>
    BY DEF Retry
  <2> QED BY <1>1, <1>6, <1>7, <2>1, <2>2 DEF TypeOK, Doubt
<1>9. proc'[p] = q /\ \A r \in Procs \ {p} : proc'[r] = proc[r]
  BY <1>1, <1>4
<1>10. ~Active(p)' /\ ~Owes(p)' /\ Looks(q)
  BY <1>3, <1>9 DEF Active, ActiveAs, Owes, OwesAs, Looks
<1>11. CASE doubt'.stale
  BY <1>1, <1>6, <1>7, <1>8, <1>9, <1>10, <1>11 DEF Good, Retry
<1>12. CASE ~doubt'.stale
  <2>1. row.state = "failed" /\ row'.state = to
    BY <1>5, <1>6, <1>7, <1>12 DEF Stale
  <2>2. Moved(p)
    BY <1>10, <2>1, CommitMoves DEF Over, Retry
  <2>3. Lives
    BY <2>1 DEF Lives, Moves
  <2> QED BY <1>1, <1>6, <1>7, <1>8, <1>9, <1>10, <2>2, <2>3 DEF Good, Retry
<1> QED BY <1>11, <1>12

\* The item is dismissed.
LEMMA DismissGood ==
    ASSUME Inv, NEW p \in Procs, Dismiss(p)
    PROVE  Good(p)
<1> DEFINE seen == proc[p].seen
           new == [seen EXCEPT !.state = "dismissed", !.staged = FALSE]
<1>1. /\ TypeOK /\ seen \in Row /\ proc \in [Procs -> Proc] /\ file \in BOOLEAN
      /\ job \in [Procs -> {"none", "pending", "running", "completed", "failed"}]
      /\ proc[p].role = "dismiss" /\ proc[p].pc = "asked" /\ seen.state \in States
  BY Types DEF Inv, Dismiss, At
<1>2. new \in Row /\ new.state = "dismissed" /\ new.exists = seen.exists
  BY <1>1 DEF Row, States
<1>3. seen.state # "importing"
  BY <1>1 DEF Inv, Looking, Looks
<1>4. proc' = [proc EXCEPT ![p].pc = "done"]
  BY DEF Dismiss, Commit, Goto
<1>5. ~Active(p)' /\ ~Owes(p)'
  BY <1>1, <1>4 DEF Active, ActiveAs, Owes, OwesAs
<1>6. Commit(p, new, States, "done") /\ UNCHANGED <<file, job, imported, repairs, mishaps>>
  BY DEF Dismiss
<1> HIDE DEF new
<1>7. ASSUME row.state = seen.state, row'.state = new.state
      PROVE  Moved(p) /\ Lives
  <2>1. Moved(p)
    BY <1>2, <1>3, <1>5, <1>6, <1>7, CommitMoves DEF Over
  <2>2. Lives
    BY <1>1, <1>2, <1>3, <1>7 DEF Lives, Moves
  <2> QED BY <2>1, <2>2
<1> QED BY <1>1, <1>2, <1>6, <1>7, CommitGood DEF PCs

\* A task begins.
LEMMA BeginGood ==
    ASSUME Inv, NEW p \in Procs, BeginResolve(p) \/ BeginImport(p)
    PROVE  Good(p)
<1> DEFINE seen == proc[p].seen
<1>1. /\ TypeOK /\ seen \in Row /\ proc \in [Procs -> Proc] /\ file \in BOOLEAN
      /\ job \in [Procs -> {"none", "pending", "running", "completed", "failed"}]
  BY Types DEF Inv
<1>2. CASE BeginResolve(p)
  <2> DEFINE new == [seen EXCEPT !.state = "resolving", !.retryable = FALSE]
  <2>1. new \in Row /\ new.state = "resolving" /\ new.exists = seen.exists
    BY <1>1 DEF Row, States
  <2>2. proc[p].role = "resolve" /\ proc[p].pc = "begun"
    BY <1>2 DEF BeginResolve, At
  <2>3. seen.state \in {"captured", "failed"}
    BY <2>2 DEF Inv, Looking, Looks
  <2>4. proc' = [proc EXCEPT ![p].pc = "working"]
    BY <1>2 DEF BeginResolve, Commit, Goto
  <2>5. ~Active(p)' /\ ~Owes(p)'
    BY <1>1, <2>2, <2>4 DEF Active, ActiveAs, Owes, OwesAs
  <2>6. Commit(p, new, States, "working") /\ UNCHANGED <<file, job, imported, repairs, mishaps>>
    BY <1>2 DEF BeginResolve
  <2> HIDE DEF new
  <2>7. ASSUME row.state = seen.state, row'.state = new.state
        PROVE  Moved(p) /\ Lives
    <3>1. Moved(p)
      BY <2>1, <2>3, <2>5, <2>6, <2>7, CommitMoves DEF Over
    <3>2. Lives
      BY <2>1, <2>3, <2>7 DEF Lives, Moves
    <3> QED BY <3>1, <3>2
  <2> QED BY <1>1, <2>1, <2>2, <2>6, <2>7, CommitGood DEF PCs
<1>3. CASE BeginImport(p)
  <2> DEFINE new == [seen EXCEPT !.state = "importing", !.retryable = FALSE, !.job = p]
  <2>1. new \in Row /\ new.state = "importing" /\ new.exists = seen.exists
    BY <1>1 DEF Row, States
  <2>2. proc[p].role = "import" /\ proc[p].pc = "begun"
    BY <1>3 DEF BeginImport, At
  <2>3. seen.state = "review"
    BY <2>2 DEF Inv, Looking, Looks
  <2>4. /\ Commit(p, new, States, "working") /\ job' = [job EXCEPT ![p] = "pending"]
        /\ UNCHANGED <<file, imported, repairs, mishaps>>
    BY <1>3 DEF BeginImport
  <2> HIDE DEF new
  <2>5. ASSUME row.state = seen.state, row'.state = new.state
        PROVE  Moved(p) /\ Lives
    <3>1. Moved(p)
      BY <2>1, <2>3, <2>4, <2>5, CommitMoves DEF Over
    <3>2. Lives
      BY <2>1, <2>3, <2>5 DEF Lives, Moves
    <3> QED BY <3>1, <3>2
  <2>6. /\ job' \in [Procs -> {"none", "pending", "running", "completed", "failed"}]
        /\ \A r \in Procs \ {p} : job'[r] = job[r]
    BY <1>1, <2>4
  <2> QED BY <1>1, <2>1, <2>2, <2>4, <2>5, <2>6, CommitGood DEF PCs
<1> QED BY <1>2, <1>3

\* A task ends, well or not.
LEMMA EndGood ==
    ASSUME Inv, NEW p \in Procs,
           FinishResolve(p) \/ FinishImport(p) \/ FailCommit(p)
    PROVE  Good(p)
<1> DEFINE seen == proc[p].seen
<1>1. /\ TypeOK /\ seen \in Row /\ proc \in [Procs -> Proc] /\ file \in BOOLEAN
      /\ job \in [Procs -> {"none", "pending", "running", "completed", "failed"}]
      /\ proc[p].archive \in BOOLEAN /\ seen.staged \in BOOLEAN
      /\ proc[p] \in Proc
  BY Types DEF Inv, Proc, Row
<1>2. proc' = [proc EXCEPT ![p].pc = "done"]
  BY DEF FinishResolve, FinishImport, FailCommit, Commit, Goto
<1>3. ~Active(p)' /\ ~Owes(p)' /\ UNCHANGED <<file, job, imported, repairs, mishaps>>
  BY <1>1, <1>2 DEF Active, ActiveAs, Owes, OwesAs, FinishResolve, FinishImport, FailCommit
<1>4. proc[p].pc \in {"ending", "failing"}
  BY DEF FinishResolve, FinishImport, FailCommit, At
<1>5. CASE FinishResolve(p)
  <2> DEFINE new == [seen EXCEPT !.state = "review",
                       !.manifest = IF proc[p].archive THEN "archive" ELSE "other",
                       !.staged = @ \/ proc[p].archive]
  <2>1. (seen.staged \/ proc[p].archive) \in BOOLEAN
    BY <1>1
  <2>2. new \in Row /\ new.state = "review" /\ new.exists = seen.exists
    BY <1>1, <2>1 DEF Row, States
  <2>3. Commit(p, new, {"resolving"}, "done")
    BY <1>5 DEF FinishResolve
  <2> HIDE DEF new
  <2>4. ASSUME row.state \in {"resolving"}, row'.state = new.state
        PROVE  Moved(p) /\ Lives
    <3>1. Moved(p)
      BY <1>3, <2>2, <2>4, CommitMoves DEF Over
    <3>2. Lives
      BY <2>2, <2>4 DEF Lives, Moves
    <3> QED BY <3>1, <3>2
  <2> QED BY <1>1, <1>3, <1>4, <2>2, <2>3, <2>4, CommitGood DEF PCs
<1>6. CASE FinishImport(p)
  <2> DEFINE new == IF Succeeded(p)
                    THEN [seen EXCEPT !.state = "completed", !.retryable = FALSE,
                                      !.staged = FALSE]
                    ELSE [seen EXCEPT !.state = "failed", !.retryable = TRUE]
  <2>1. /\ new \in Row /\ new.exists = seen.exists
        /\ new.state = IF Succeeded(p) THEN "completed" ELSE "failed"
    BY <1>1 DEF Row, States
  <2>2. Commit(p, new, {"importing"}, "done")
    BY <1>6 DEF FinishImport
  <2>3. Active(p) /\ (Owes(p) \/ Succeeded(p))
    BY <1>6 DEF FinishImport, At, Active, ActiveAs, Owes, OwesAs, Succeeded
  <2> HIDE DEF new
  <2>4. ASSUME row.state \in {"importing"}, row'.state = new.state
        PROVE  Moved(p) /\ Lives
    <3>1. Moved(p)
      BY <1>3, <2>1, <2>3, <2>4, CommitMoves DEF Over
    <3>2. Lives
      BY <2>1, <2>4 DEF Lives, Moves
    <3> QED BY <3>1, <3>2
  <2> QED BY <1>1, <1>3, <1>4, <2>1, <2>2, <2>4, CommitGood DEF PCs
<1>7. CASE FailCommit(p)
  <2> DEFINE new == [seen EXCEPT !.state = "failed", !.retryable = TRUE]
             busy == IF proc[p].role = "import" THEN {"importing"} ELSE {"resolving"}
  <2>1. new \in Row /\ new.exists = seen.exists /\ new.state = "failed"
    BY <1>1 DEF Row, States
  <2>2. Commit(p, new, busy, "done") /\ proc[p].pc = "failing"
    BY <1>7 DEF FailCommit
  <2> HIDE DEF new
  <2>3. ASSUME row.state \in busy, row'.state = new.state
        PROVE  Moved(p) /\ Lives
    <3>1. Lives
      BY <2>1, <2>3 DEF Lives, Moves
    <3>2. CASE proc[p].role = "import"
      <4>1. Active(p) /\ Owes(p)
        BY <2>2, <3>2 DEF Active, ActiveAs, Owes, OwesAs
      <4> QED BY <1>3, <3>1, <4>1, CommitMoves
    <3>3. CASE proc[p].role # "import"
      <4>1. row.state = "resolving"
        BY <2>3, <3>3
      <4> QED BY <1>3, <3>1, <4>1, CommitMoves DEF Over
    <3> QED BY <3>2, <3>3
  <2> HIDE DEF busy
  <2> QED BY <1>1, <1>3, <1>4, <2>1, <2>2, <2>3, CommitGood DEF PCs
<1> QED BY <1>5, <1>6, <1>7

\* Models are persisted.
LEMMA PersistGood ==
    ASSUME Inv, NEW p \in Procs, Persist(p)
    PROVE  Good(p)
<1> DEFINE q == Gone(proc[p], "persisted")
<1>1. /\ TypeOK /\ proc[p] \in Proc /\ proc \in [Procs -> Proc] /\ imported \in Nat
      /\ proc[p].role = "import" /\ proc[p].pc = "ingesting"
      /\ imported' = imported + 1
      /\ UNCHANGED <<row, file, job, repairs, doubt, mishaps>>
  BY Types DEF Inv, Persist, At
<1>2. /\ q \in Proc /\ q.role = "import" /\ q.pc = "persisted"
      /\ proc' = [proc EXCEPT ![p] = q]
  BY <1>1 DEF Gone, Proc, Persist, Goto
<1> HIDE DEF q
<1>3. proc'[p] = q /\ \A r \in Procs \ {p} : proc'[r] = proc[r]
  BY <1>1, <1>2
<1>4. TypeOK' /\ repairs \in Nat /\ mishaps \in Nat
  BY <1>1, <1>2 DEF TypeOK
<1>5. Active(p) /\ Owes(p) /\ ~Owes(p)' /\ Looks(q)
  BY <1>1, <1>2, <1>3 DEF Active, ActiveAs, Owes, OwesAs, Looks
<1>6. Moved(p) /\ Lives
  <2>1. Room' = Room /\ Room \in {0, 1}
    BY <1>1 DEF Room, One
  <2>2. One(Owes(p)) = 1 /\ One(Owes(p)') = 0
    BY <1>5 DEF One
  <2>3. Pays(p)
    BY <1>1, <1>4, <2>1, <2>2 DEF Pays
  <2>4. row'.state = row.state
    BY <1>1
  <2> QED BY <1>5, <2>3, <2>4 DEF Moved, Lives
<1>7. row.exists
  BY <1>1 DEF Inv, Present
<1> QED BY <1>1, <1>3, <1>4, <1>5, <1>6, <1>7 DEF Good

\* The last commit of a task fails, or the one that notes its failure: it counts.
LEMMA MishapGood ==
    ASSUME Inv, NEW p \in Procs, EndFails(p) \/ FailLost(p)
    PROVE  Good(p)
<1>1. PICK pc \in {"broken", "done"} : proc' = [proc EXCEPT ![p].pc = pc]
  BY DEF EndFails, FailLost, Goto
<1> DEFINE q == Gone(proc[p], pc)
<1>2. /\ TypeOK /\ proc[p] \in Proc /\ proc \in [Procs -> Proc] /\ row \in Row
      /\ job \in [Procs -> {"none", "pending", "running", "completed", "failed"}]
      /\ doubt \in Doubt /\ file \in BOOLEAN
      /\ proc[p].pc \in {"ending", "broken", "failing"} /\ mishaps' = mishaps + 1
      /\ UNCHANGED <<row, file, job, imported, repairs>>
  BY Types DEF Inv, EndFails, FailLost, Mishap
<1>3. /\ q \in Proc /\ q.role = proc[p].role /\ q.pc \in {"broken", "done"}
      /\ proc' = [proc EXCEPT ![p] = q]
  BY <1>1, <1>2 DEF Gone, Proc
<1> HIDE DEF q
<1>4. doubt' \in Doubt /\ doubt'.stale = doubt.stale
  <2>1. CASE EndFails(p)
    <3>1. doubt' = [doubt EXCEPT !.lost = @ \/ (proc[p].seen.staged /\ Succeeded(p))]
      BY <2>1 DEF EndFails
    <3>2. (doubt.lost \/ (proc[p].seen.staged /\ Succeeded(p))) \in BOOLEAN
      OBVIOUS
    <3> QED BY <1>2, <3>1, <3>2 DEF Doubt
  <2>2. CASE FailLost(p)
    <3>1. doubt' = [doubt EXCEPT !.stuck = row.state \in Busy]
      BY <2>2 DEF FailLost
    <3>2. (row.state \in Busy) \in BOOLEAN
      OBVIOUS
    <3> QED BY <1>2, <3>1, <3>2, DoubtGrows
  <2> QED BY <2>1, <2>2
<1>5. (ActiveAs(q) => Active(p)) /\ Looks(q)
  BY <1>2, <1>3 DEF Active, ActiveAs, Looks
<1>6. row.exists
  BY <1>2 DEF Inv, Present
<1> QED BY <1>2, <1>3, <1>4, <1>5, <1>6, QuietGood

\* A finding is repaired: the room of an item that was being imported is made good.
LEMMA RepairGood ==
    ASSUME Inv, NEW p \in Procs, Repair(p)
    PROVE  Good(p)
<1> DEFINE seen == proc[p].seen
           to == IF seen.manifest = "none" THEN "captured" ELSE "review"
           new == [seen EXCEPT !.state = to, !.retryable = TRUE]
<1>1. /\ TypeOK /\ seen \in Row /\ proc \in [Procs -> Proc] /\ file \in BOOLEAN
      /\ job \in [Procs -> {"none", "pending", "running", "completed", "failed"}]
      /\ imported \in Nat /\ repairs \in Nat /\ mishaps \in Nat
      /\ proc[p].role = "repair" /\ proc[p].pc = "asked"
      /\ UNCHANGED <<file, job, imported, mishaps>>
      /\ Commit(p, new, States, "done")
      /\ repairs' = IF row.state = "importing" THEN repairs + 1 ELSE repairs
  BY Types DEF Inv, Repair, At
<1>2. new \in Row /\ new.state \in {"captured", "review"} /\ new.exists = seen.exists
  BY <1>1 DEF Row, States
<1>3. seen.state \in Busy \cup {"failed"}
  BY <1>1 DEF Inv, Looking, Looks
<1>4. proc' = [proc EXCEPT ![p].pc = "done"]
  BY <1>1 DEF Commit, Goto
<1>5. ~Active(p)' /\ ~Owes(p)' /\ ~Owes(p)
  BY <1>1, <1>4 DEF Active, ActiveAs, Owes, OwesAs
<1> HIDE DEF new
<1>6. ASSUME row.state = seen.state, row'.state = new.state
      PROVE  Moved(p) /\ Lives
  <2>1. Lives
    BY <1>2, <1>3, <1>6 DEF Lives, Moves, PutBack, Busy
  <2>2. Room = One(row.state = "importing") /\ Room' = 0
    BY <1>2, <1>3, <1>6 DEF Room, One, Over, Busy
  <2>3. Pays(p)
    BY <1>1, <1>5, <2>2 DEF Pays, One
  <2> QED BY <1>1, <1>5, <2>1, <2>3 DEF Moved
<1> QED BY <1>1, <1>2, <1>6, CommitGood DEF PCs

\* Pruning takes the row when nothing works on the item.
LEMMA PruneKeeps ==
    ASSUME Inv, Prune
    PROVE  Inv' /\ Lives
<1>1. /\ TypeOK /\ row \in Row
      /\ row' = [row EXCEPT !.exists = FALSE] /\ file' = FALSE
      /\ UNCHANGED <<proc, job, imported, repairs, doubt, mishaps>>
      /\ \A p \in Procs : proc[p].pc \in {"none", "done"}
  BY Types DEF Inv, Prune
<1>2. row' \in Row /\ row'.state = row.state
  BY <1>1 DEF Row
<1>3. TypeOK'
  BY <1>1, <1>2 DEF TypeOK
<1>4. Present' /\ Looking'
  BY <1>1 DEF Present, Looking, Inv
<1>5. Alone' <=> Alone
  BY <1>1, <1>2 DEF Alone, Active
<1>6. Counted' <=> Counted
  BY <1>1, <1>2 DEF Counted, Owing, Owes, Room
<1> QED BY <1>1, <1>2, <1>3, <1>4, <1>5, <1>6 DEF Inv, Lives

\* A crash ends every request and task, and the start puts busy items right.
LEMMA CrashKeeps ==
    ASSUME Inv, Crash
    PROVE  Inv' /\ Lives
<1> DEFINE Idle == [NoProc EXCEPT !.pc = "done"]
<1>1. /\ TypeOK /\ row \in Row /\ proc \in [Procs -> Proc] /\ mishaps \in Nat
      /\ imported \in Nat /\ repairs \in Nat /\ file \in BOOLEAN
      /\ job \in [Procs -> {"none", "pending", "running", "completed", "failed"}]
      /\ doubt \in Doubt
      /\ mishaps' = mishaps + 1 /\ UNCHANGED <<file, imported, repairs>>
      /\ row' = Recovered
      /\ proc' = [p \in Procs |-> IF proc[p].pc = "none" THEN proc[p] ELSE Idle]
      /\ job' = [p \in Procs |-> IF job[p] = "running" THEN "pending" ELSE job[p]]
  BY Types DEF Inv, Crash, Mishap
<1>2. Idle \in Proc /\ Idle.pc = "done"
  BY DEF NoProc, NoRow, Proc, Row, Roles, States
<1> HIDE DEF Idle
<1>3. /\ proc' \in [Procs -> Proc]
      /\ job' \in [Procs -> {"none", "pending", "running", "completed", "failed"}]
      /\ \A p \in Procs : proc'[p].pc \in {"none", "done"}
  BY <1>1, <1>2
<1>4. row' \in Row /\ Lives
  <2>1. \A state \in States, retryable \in BOOLEAN :
          /\ [row EXCEPT !.state = state, !.retryable = retryable] \in Row
          /\ [row EXCEPT !.state = state, !.retryable = retryable].state = state
    BY <1>1 DEF Row
  <2>2. CASE row' = row
    BY <1>1, <2>2 DEF Lives
  <2>3. CASE /\ row.state = "importing"
             /\ row' = [row EXCEPT !.state = "completed", !.retryable = FALSE]
    <3>1. row' \in Row /\ row'.state = "completed"
      BY <2>1, <2>3 DEF States
    <3> QED BY <2>3, <3>1 DEF Lives, Moves
  <2>4. CASE /\ row.state \in Busy
             /\ row' = [row EXCEPT !.state = "failed", !.retryable = TRUE]
    <3>1. row' \in Row /\ row'.state = "failed"
      BY <2>1, <2>4 DEF States
    <3> QED BY <2>4, <3>1 DEF Lives, Moves, Busy
  <2> QED BY <1>1, <2>2, <2>3, <2>4 DEF Recovered
<1>5. doubt' \in Doubt /\ (doubt'.stale <=> doubt.stale)
  BY <1>1, DoubtGrows DEF Crash
<1>6. TypeOK'
  BY <1>1, <1>3, <1>4, <1>5 DEF TypeOK, Doubt
<1>7. Present' /\ Looking' /\ Alone'
  BY <1>3 DEF Present, Looking, Looks, Alone, Active, ActiveAs
<1>8. ASSUME Counted PROVE Counted'
  <2>1. Owing' = {}
    BY <1>3 DEF Owing, Owes, OwesAs
  <2>2. IsFiniteSet(Owing) /\ Cardinality(Owing) \in Nat /\ Cardinality(Owing') = 0
    BY <2>1, ProcsAssumption, FS_Subset, FS_CardinalityType, FS_EmptySet DEF Owing
  <2>3. Room \in {0, 1} /\ Room' \in {0, 1}
    BY DEF Room, One
  <2>4. imported + Cardinality(Owing) <= mishaps + repairs + Room
    BY <1>8 DEF Counted
  <2>5. imported' <= mishaps' + repairs'
    BY <1>1, <2>2, <2>3, <2>4
  <2>6. imported' \in Nat /\ mishaps' \in Nat /\ repairs' \in Nat /\ Room' \in Nat
    BY <1>1, <2>3
  <2>7. \A i, m, r, s \in Nat : i <= m + r => i + 0 <= m + r + s
    OBVIOUS
  <2> QED BY <2>2, <2>5, <2>6, <2>7 DEF Counted
<1> QED BY <1>4, <1>5, <1>6, <1>7, <1>8 DEF Inv

-----------------------------------------------------------------------------
(* Theorems *)

\* The initial state.
LEMMA InitInv == Init => Inv
<1> SUFFICES ASSUME Init PROVE Inv
  OBVIOUS
<1>1. NoRow \in Row /\ Reviewed \in Row /\ NoProc \in Proc /\ NoProc.pc = "none"
  BY DEF NoRow, Reviewed, NoProc, Proc, Row, Roles, States
<1>2. TypeOK
  <2>1. row \in Row
    BY <1>1 DEF Init
  <2>2. file \in BOOLEAN
    BY <2>1 DEF Init, Row
  <2> QED BY <1>1, <2>1, <2>2 DEF Init, TypeOK
<1>3. \A p \in Procs : proc[p].pc = "none"
  BY <1>1 DEF Init
<1>4. Present /\ Looking /\ Alone
  BY <1>3 DEF Present, Looking, Looks, Alone, Active, ActiveAs
<1>5. Counted
  <2>1. Owing = {}
    BY <1>3 DEF Owing, Owes, OwesAs
  <2>2. Room \in {0, 1} /\ Cardinality(Owing) = 0
    BY <2>1, FS_EmptySet DEF Room, One
  <2> QED BY <2>2 DEF Init, Counted
<1> QED BY <1>2, <1>4, <1>5 DEF Inv

\* Every step keeps the invariant and, unless a commit was stale, the life cycle.
LEMMA NextKeeps ==
    ASSUME Inv, [Next]_vars
    PROVE  Inv' /\ (doubt'.stale \/ Lives)
<1>1. CASE UNCHANGED vars
  BY <1>1 DEF vars, Inv, TypeOK, Present, Looking, Alone, Counted, Active, Owing, Owes,
              Room, Lives
<1>2. ASSUME NEW p \in Procs, Request(p) \/ Task(p)
      PROVE  Good(p)
  BY <1>2, RequestGood, TaskGood, LookGood, ChooseGood, RetryGood, DismissGood,
     BeginGood, EndGood, PersistGood, MishapGood, RepairGood DEF Request, Task
<1>3. ASSUME NEW p \in Procs, Request(p) \/ Task(p)
      PROVE  Inv' /\ (doubt'.stale \/ Lives)
  BY <1>2, <1>3, GoodKeeps
<1> QED BY <1>1, <1>3, PruneKeeps, CrashKeeps DEF Next

\* In every reachable state what is busy has a row, one import is under way at
\* most, and imports are counted.
THEOREM InboxInvariant == Spec => []Inv
<1>1. Init => Inv
  BY InitInv
<1>2. Inv /\ [Next]_vars => Inv'
  BY NextKeeps
<1> QED BY <1>1, <1>2, PTL DEF Spec

\* The variables keep their types.
THEOREM TypeCorrect == Spec => []TypeOK
<1>1. Inv => TypeOK
  BY DEF Inv
<1> QED BY <1>1, InboxInvariant, PTL

\* run_import persists the models of an item once, and once more per crash or
\* failed write and per repair of an item in IMPORTING, unless a commit was stale.
THEOREM ImportedOnce == Spec => []ImportsPaidFor
<1>1. ASSUME Inv PROVE ImportsPaidFor
  <2>1. imported \in Nat /\ repairs \in Nat /\ mishaps \in Nat
    BY <1>1 DEF Inv, TypeOK
  <2>2. Room \in {0, 1}
    BY DEF Room, One
  <2>3. Cardinality(Owing) \in Nat
    BY ProcsAssumption, FS_Subset, FS_CardinalityType DEF Owing
  <2>4. doubt.stale \/ imported + Cardinality(Owing) <= mishaps + repairs + Room
    BY <1>1 DEF Inv, Counted
  <2> QED BY <2>1, <2>2, <2>3, <2>4 DEF ImportsPaidFor
<1> QED BY <1>1, InboxInvariant, PTL

\* The handlers and tasks of inbox.py keep an item to its life cycle, crashes
\* included, and only the repair of a finding takes a busy item back, unless a
\* commit was stale.
THEOREM LifeCycleKept == Spec => LifeCycleUnlessStale
<1> DEFINE Kept == \/ row'.state = row.state \/ doubt'.stale
                   \/ <<row.state, row'.state>> \in Moves
                   \/ <<row.state, row'.state>> \in PutBack /\ \E p \in Procs : Repair(p)
<1>1. Inv /\ [Next]_vars => [Kept]_vars
  BY NextKeeps DEF Lives
<1> QED BY <1>1, InboxInvariant, PTL DEF Spec, LifeCycleUnlessStale

-----------------------------------------------------------------------------
(* What is left behind *)

\* No import of p's own has begun.
Before == {"none", "queued", "begun", "asked"}

\* An import that has not begun has no job that anyone could know of, and one whose
\* failure is being noted has a job that failed.
JobKnown ==
    /\ row.job # "none" => job[row.job] # "none"
    /\ \A p \in Procs :
         /\ proc[p].seen.job # "none" => job[proc[p].seen.job] # "none"
         /\ proc[p].pc \in Before => job[p] = "none"
         /\ Active(p) /\ proc[p].pc = "failing" => job[p] # "completed"

\* Without a repair, the row names the job of the import under way.
JobNoted ==
    /\ row.job # "none" /\ job[row.job] = "completed" => row.state \in {"importing"} \cup Over
    /\ \A p \in Procs : Active(p) => row.job = p

\* A failed item can be retried.
Shown == row.state = "failed" => row.retryable

\* What was seen staged stays so, and an archive is staged, until the item is over.
StagedKept == \A p \in Procs : proc[p].seen.staged => row.staged \/ row.state \in Over
ArchiveStaged == row.manifest = "archive" => row.staged \/ row.state \in Over

\* What is staged, or has been fetched to be, is on disk, or about to go with its item.
HasArchive(q) == q.role = "resolve" /\ q.pc \in {"ready", "ending"} /\ q.archive
FileKept ==
    row.staged \/ (\E p \in Procs : HasArchive(proc[p]))
        => file \/ doubt.lost \/ row.state \in Over \/ \E p \in Procs : Removing(p)

Tidy == /\ Shown /\ JobKnown /\ (repairs = 0 => JobNoted)
        /\ StagedKept /\ ArchiveStaged /\ FileKept

\* What a step of p leaves as it should, when no commit was stale.
Fits(p) ==
    /\ proc'[p].seen \in {proc[p].seen, row}
    /\ row'.state = "failed" => row'.retryable
    /\ row.staged => row'.staged \/ row'.state \in Over
    /\ row'.manifest = "archive" => row.manifest = "archive" \/ row'.staged
    /\ row'.staged => row.staged \/ HasArchive(proc[p])
    /\ \/ row'.job = row.job /\ (Active(p)' => Active(p))
       \/ /\ row.state = "review" /\ row'.state = "importing"
          /\ row'.job = p /\ job'[p] = "pending"
    /\ job[p] # "none" => job'[p] # "none"
    /\ proc'[p].pc \in Before => job'[p] = "none"
    /\ Active(p)' /\ proc'[p].pc = "failing" => job'[p] # "completed"
    /\ job'[p] = "completed" => job[p] = "completed" \/ Active(p)'
    /\ row.state = "importing" =>
         \/ row'.state \in {"importing"} \cup Over
         \/ Active(p) /\ job'[p] # "completed"
         \/ repairs' # 0
    /\ HasArchive(proc'[p]) => HasArchive(proc[p]) \/ file'
    /\ file => file' \/ row'.state \in Over \/ Removing(p)'
    /\ Removing(p) => Removing(p)' \/ row'.state \in Over \/ doubt'.lost
    /\ doubt.lost => doubt'.lost

\* The other columns of a commit.
LEMMA DirtyColumns ==
    ASSUME row \in Row, NEW seen \in Row, NEW new \in Row
    PROVE  /\ Dirty(seen, new).manifest = IF new.manifest # seen.manifest
                                          THEN new.manifest ELSE row.manifest
           /\ Dirty(seen, new).staged = IF new.staged # seen.staged THEN new.staged
                                        ELSE row.staged
           /\ Dirty(seen, new).job = IF new.job # seen.job THEN new.job ELSE row.job
           /\ Dirty(seen, new).retryable = IF new.retryable # seen.retryable
                                           THEN new.retryable ELSE row.retryable
<1>1. DOMAIN row = {"exists", "state", "manifest", "staged", "job", "retryable"}
  BY DEF Row
<1> QED BY <1>1 DEF Dirty

\* What is over stays over, and only Capture and Prune touch a row that is gone.
LEMMA OverStays ==
    ASSUME Lives, row.state \in Over
    PROVE  row'.state \in Over
BY DEF Lives, Moves, PutBack, Busy, Over, States

\* The parts of a row.
LEMMA Columns ==
    ASSUME NEW r \in Row
    PROVE  /\ r.state \in States /\ r.exists \in BOOLEAN /\ r.staged \in BOOLEAN
           /\ r.retryable \in BOOLEAN /\ r.job \in Procs \cup {"none"}
           /\ r.manifest \in {"none", "choice", "archive", "other"}
BY DEF Row

\* A fitting step keeps an item tidy.
LEMMA FitsKeeps ==
    ASSUME Inv, Inv', Tidy, ~doubt.stale, ~doubt'.stale, Lives, NEW p \in Procs, Fits(p),
           repairs' \in {repairs, repairs + 1},
           \A q \in Procs \ {p} : proc'[q] = proc[q] /\ job'[q] = job[q]
    PROVE  Tidy'
<1> USE DEF Tidy
<1>1. /\ Alone /\ Alone' /\ (repairs' = 0 => repairs = 0) /\ row \in Row /\ row' \in Row
      /\ \A q \in Procs : proc[q].seen \in Row /\ proc'[q].seen \in Row
  <2>1. TypeOK /\ TypeOK' /\ Alone /\ Alone'
    BY DEF Inv
  <2>2. proc' \in [Procs -> Proc] /\ row' \in Row
    BY <2>1 DEF TypeOK
  <2>3. \A q \in Proc : q.seen \in Row
    BY DEF Proc
  <2>4. repairs' = 0 => repairs = 0
    BY <2>1 DEF TypeOK
  <2> QED BY <2>1, <2>2, <2>3, <2>4, Types
<1>2. \A q \in Procs : proc'[q].seen \in {proc[q].seen, row}
  BY DEF Fits
<1>3. row.staged \/ row.state \in Over => row'.staged \/ row'.state \in Over
  BY OverStays DEF Fits
<1>4. Shown'
  BY DEF Fits, Shown
<1>5. StagedKept'
  BY <1>2, <1>3 DEF StagedKept
<1>6. ArchiveStaged'
  BY <1>3 DEF ArchiveStaged, Fits
<1>7. JobKnown'
  <2>1. \A q \in Procs : job[q] # "none" => job'[q] # "none"
    BY DEF Fits
  <2>2. row'.job # "none" => job'[row'.job] # "none"
    BY <1>1, <2>1, Columns DEF Fits, JobKnown
  <2>3. ASSUME NEW q \in Procs
        PROVE  /\ proc'[q].seen.job # "none" => job'[proc'[q].seen.job] # "none"
               /\ proc'[q].pc \in Before => job'[q] = "none"
               /\ Active(q)' /\ proc'[q].pc = "failing" => job'[q] # "completed"
    <3>1. proc'[q].seen.job # "none" => job'[proc'[q].seen.job] # "none"
      BY <1>1, <1>2, <2>1, Columns DEF JobKnown
    <3>2. proc'[q].pc \in Before => job'[q] = "none"
      BY DEF Fits, JobKnown
    <3>3. Active(q)' /\ proc'[q].pc = "failing" => job'[q] # "completed"
      <4>1. CASE q = p
        BY <4>1 DEF Fits
      <4>2. CASE q # p
        BY <4>2 DEF JobKnown, Active
      <4> QED BY <4>1, <4>2
    <3> QED BY <3>1, <3>2, <3>3
  <2> QED BY <2>2, <2>3 DEF JobKnown
<1>8. ASSUME repairs' = 0
      PROVE  JobNoted'
  <2>1. /\ JobNoted
        /\ \A q \in Procs : Active(q) => row.state = "importing"
        /\ \A q \in Procs : Active(q)' => row'.state = "importing"
    BY <1>1, <1>8 DEF Alone
  <2>2. \A q \in Procs : Active(q)' /\ ~Active(q) => q = p
    BY DEF Active
  <2>3. ASSUME NEW q \in Procs, Active(q)'
        PROVE  row'.job = q
    <3>1. CASE Active(q)
      <4>1. row.job = q /\ row.state = "importing"
        BY <2>1, <3>1 DEF JobNoted
      <4> QED BY <4>1 DEF Fits
    <3>2. CASE ~Active(q)
      BY <2>2, <2>3, <3>2 DEF Fits
    <3> QED BY <3>1, <3>2
  <2>4. ASSUME row'.job # "none", job'[row'.job] = "completed"
        PROVE  row'.state \in {"importing"} \cup Over
    <3>1. CASE row'.job # row.job
      BY <3>1 DEF Fits
    <3>2. CASE row'.job = row.job /\ job[row.job] = "completed"
      <4>1. row.state \in {"importing"} \cup Over
        BY <2>1, <2>4, <3>2 DEF JobNoted
      <4>2. CASE row.state \in Over
        BY <4>2, OverStays
      <4>3. CASE row.state = "importing" /\ row'.state \notin {"importing"} \cup Over
        <5>1. Active(p) /\ job'[p] # "completed"
          BY <1>8, <4>3 DEF Fits
        <5>2. row.job = p
          BY <2>1, <5>1 DEF JobNoted
        <5> QED BY <2>4, <3>2, <5>1, <5>2
      <4> QED BY <4>1, <4>2, <4>3
    <3>3. CASE row'.job = row.job /\ job[row.job] # "completed"
      <4>1. row'.job \in Procs
        BY <1>1, <2>4, Columns
      <4>2. row'.job = p /\ Active(p)'
        BY <2>4, <3>3, <4>1 DEF Fits
      <4> QED BY <2>1, <4>2
    <3> QED BY <3>1, <3>2, <3>3
  <2> QED BY <2>3, <2>4 DEF JobNoted
<1>9. FileKept'
  <2>1. SUFFICES ASSUME row'.staged \/ \E q \in Procs : HasArchive(proc'[q])
                 PROVE  \/ file' \/ doubt'.lost \/ row'.state \in Over
                        \/ \E q \in Procs : Removing(q)'
    BY DEF FileKept
  <2>2. \A q \in Procs \ {p} : Removing(q) => Removing(q)'
    BY DEF Removing, At, Succeeded
  <2>3. file' \/ row.staged \/ \E q \in Procs : HasArchive(proc[q])
    BY <2>1 DEF Fits
  <2>4. \/ file' \/ file \/ doubt.lost \/ row.state \in Over
        \/ \E q \in Procs : Removing(q)
    BY <2>3 DEF FileKept
  <2> QED BY <2>2, <2>4, OverStays DEF Fits
<1> QED BY <1>4, <1>5, <1>6, <1>7, <1>8, <1>9


\* What every step of p may take for granted.
LEMMA Given ==
    ASSUME Inv, Tidy, NEW p \in Procs
    PROVE  /\ row \in Row /\ Shown /\ proc \in [Procs -> Proc] /\ proc[p] \in Proc
           /\ proc[p].seen \in Row /\ proc[p].archive \in BOOLEAN
           /\ proc[p].role \in Roles /\ proc[p].pc \in PCs
           /\ job \in [Procs -> {"none", "pending", "running", "completed", "failed"}]
           /\ file \in BOOLEAN /\ doubt \in Doubt
           /\ doubt.lost \in BOOLEAN
           /\ proc[p].pc \in Before => job[p] = "none"
           /\ Active(p) /\ proc[p].pc = "failing" => job[p] # "completed"
<1>1. proc[p] \in Proc /\ TypeOK
  BY Types DEF Inv
<1>2. doubt.lost \in BOOLEAN /\ proc[p].archive \in BOOLEAN
  BY <1>1 DEF TypeOK, Proc
<1> QED BY <1>1, <1>2, Types DEF Tidy, JobKnown

\* A step that leaves most of the row alone fits, if it does with the job and the file.
LEMMA LeavesRow ==
    ASSUME Inv, Tidy, NEW p \in Procs, NEW q \in Proc, proc' = [proc EXCEPT ![p] = q],
           row'.state = row.state, row'.staged = row.staged, row'.job = row.job,
           row'.retryable = row.retryable,
           row'.manifest = "archive" => row.manifest = "archive",
           q.seen \in {proc[p].seen, row}, doubt'.lost = doubt.lost,
           NEW now \in {"none", "pending", "running", "completed", "failed"},
           job' = [job EXCEPT ![p] = now],
           ActiveAs(q) => Active(p),
           job[p] # "none" => now # "none",
           q.pc \in Before => now = "none",
           ActiveAs(q) /\ q.pc = "failing" => now # "completed",
           now = "completed" => job[p] = "completed" \/ ActiveAs(q),
           HasArchive(q) => HasArchive(proc[p]) \/ file',
           file => file' \/ Removing(p)',
           Removing(p) => Removing(p)'
    PROVE  Fits(p)
<1>1. proc'[p] = q /\ job'[p] = now
  BY Given
<1>2. Active(p)' <=> ActiveAs(q)
  BY <1>1 DEF Active
<1>3. row'.state = "failed" => row'.retryable
  BY Given DEF Shown
<1> QED BY <1>1, <1>2, <1>3, Given DEF Fits

\* Requests look at the row; a dismissal takes the staged file along.
LEMMA RequestFits ==
    ASSUME Inv, Tidy, NEW p \in Procs,
           Schedule(p) \/ AskChoose(p) \/ AskRetry(p) \/ AskDismiss(p) \/ AskRepair(p)
    PROVE  Fits(p)
<1>1. PICK role \in Roles, pc \in {"queued", "asked"} :
        /\ Enter(p, role, pc)
        /\ UNCHANGED <<row, job, imported, repairs, doubt, mishaps>>
        /\ \/ UNCHANGED file /\ role # "dismiss"
           \/ role = "dismiss" /\ pc = "asked" /\ file' = (file /\ ~row.staged)
  BY DEF Schedule, AskChoose, AskRetry, AskDismiss, AskRepair, Roles
<1> DEFINE q == Entered(role, pc, row)
<1>2. /\ q \in Proc /\ q.role = role /\ q.pc = pc /\ q.seen = row /\ ~q.archive
      /\ proc' = [proc EXCEPT ![p] = q] /\ proc[p].pc = "none"
  BY <1>1, Given DEF Enter, Entered, Proc
<1> HIDE DEF q
<1>3. ~ActiveAs(q) /\ ~HasArchive(q)
  BY <1>2 DEF ActiveAs, HasArchive
<1>4. ~Removing(p) /\ job[p] = "none" /\ job' = [job EXCEPT ![p] = "none"]
  BY <1>1, <1>2, Given DEF Before, Removing, At, Succeeded
<1>5. file => file' \/ Removing(p)'
  <2>1. proc'[p] = q
    BY <1>2, Given
  <2> QED BY <1>1, <1>2, <2>1 DEF Removing, At
<1> QED BY <1>1, <1>2, <1>3, <1>4, <1>5, LeavesRow

\* A step that moves p on, or ends its job, while its files stay.
LEMMA GoneFits ==
    ASSUME Inv, Tidy, NEW p \in Procs, NEW pc \in PCs, Goto(p, pc),
           proc[p].pc \notin {"none", "queued", "ready", "ending", "asked"},
           pc \notin Before \cup {"ending", "failing"}, pc = "ready" => Active(p),
           pc = "done" \/ Active(p) \/ proc[p].role # "import",
           UNCHANGED <<row, file>>, doubt'.lost = doubt.lost,
           NEW now \in {"none", "pending", "running", "completed", "failed"},
           job' = [job EXCEPT ![p] = now],
           job[p] # "none" => now # "none",
           now = "completed" => job[p] = "completed" \/ (Active(p) /\ pc = "ready")
    PROVE  Fits(p)
<1> DEFINE q == Gone(proc[p], pc)
<1>1. /\ q \in Proc /\ q.role = proc[p].role /\ q.pc = pc /\ q.seen = proc[p].seen
      /\ q.archive = proc[p].archive /\ proc' = [proc EXCEPT ![p] = q]
  BY Given DEF Gone, Proc, PCs, Goto
<1> HIDE DEF q
<1>2. ~HasArchive(q) /\ ~Removing(p)
  BY <1>1 DEF Before, HasArchive, Removing, At, Active, ActiveAs
<1>3. /\ ActiveAs(q) => Active(p)
      /\ Active(p) /\ pc = "ready" => ActiveAs(q)
  BY <1>1 DEF ActiveAs, Active
<1> QED BY <1>1, <1>2, <1>3, LeavesRow DEF Before

\* The steps of a task between its commits, and a failure that nobody notes.
LEMMA TaskFits ==
    ASSUME Inv, Tidy, NEW p \in Procs,
           \/ BeginRefused(p) \/ FetchFails(p) \/ Ingest(p) \/ AssetsFail(p)
           \/ Persist(p) \/ NothingImported(p) \/ JobCompletes(p) \/ FailLost(p)
    PROVE  Fits(p)
<1>1. job = [job EXCEPT ![p] = job[p]]
      /\ job[p] \in {"none", "pending", "running", "completed", "failed"}
      /\ doubt \in Doubt
  BY Given
<1> USE DEF At, PCs, Before, Active, ActiveAs
<1>2. CASE BeginRefused(p)
  BY <1>1, <1>2, GoneFits DEF BeginRefused
<1>3. CASE FetchFails(p)
  BY <1>1, <1>3, GoneFits DEF FetchFails
<1>4. CASE Ingest(p)
  BY <1>4, GoneFits DEF Ingest
<1>5. CASE AssetsFail(p)
  BY <1>1, <1>5, GoneFits DEF AssetsFail
<1>6. CASE Persist(p)
  BY <1>1, <1>6, GoneFits DEF Persist
<1>7. CASE NothingImported(p)
  BY <1>7, GoneFits DEF NothingImported
<1>8. CASE JobCompletes(p)
  BY <1>8, GoneFits DEF JobCompletes
<1>9. CASE FailLost(p)
  <2>1. (row.state \in Busy) \in BOOLEAN
    OBVIOUS
  <2>2. doubt'.lost = doubt.lost
    BY <1>1, <1>9, <2>1, DoubtGrows DEF FailLost
  <2> QED BY <1>1, <1>9, <2>2, GoneFits DEF FailLost
<1> QED BY <1>2, <1>3, <1>4, <1>5, <1>6, <1>7, <1>8, <1>9

\* A task looks at the row, or has fetched its files; an import that has completed
\* takes the staged file along.
LEMMA LookFits ==
    ASSUME Inv, Tidy, NEW p \in Procs,
           BeginRead(p) \/ FailRead(p) \/ EndRead(p) \/ Fetch(p)
    PROVE  Fits(p)
<1>1. /\ job = [job EXCEPT ![p] = job[p]]
      /\ job[p] \in {"none", "pending", "running", "completed", "failed"}
      /\ ~Removing(p) /\ UNCHANGED <<row, doubt>>
  BY Given DEF BeginRead, FailRead, EndRead, Fetch, Removing, At
<1>2. CASE BeginRead(p)
  <2> DEFINE pc == IF Startable(proc[p].role) THEN "begun" ELSE "done"
             q == Looked(proc[p], pc, row)
  <2>1. /\ q \in Proc /\ q.seen = row /\ q.pc = pc
        /\ proc' = [proc EXCEPT ![p] = q] /\ UNCHANGED <<file, job>> /\ job[p] = "none"
    BY <1>2, Given DEF Before, Looked, Proc, PCs, BeginRead
  <2> HIDE DEF q
  <2>2. ~ActiveAs(q) /\ ~HasArchive(q)
    BY <2>1 DEF ActiveAs, HasArchive
  <2> QED BY <1>1, <2>1, <2>2, LeavesRow DEF Before
<1>3. CASE FailRead(p)
  <2> DEFINE pc == IF row.exists THEN "failing" ELSE "done"
             q == Looked(proc[p], pc, row)
  <2>1. /\ q \in Proc /\ q.role = proc[p].role /\ q.seen = row /\ q.pc = pc
        /\ proc' = [proc EXCEPT ![p] = q] /\ UNCHANGED file /\ proc[p].pc = "broken"
    BY <1>3, Given DEF Looked, Proc, PCs, FailRead
  <2> HIDE DEF q
  <2>2. (ActiveAs(q) => Active(p)) /\ ~HasArchive(q)
    BY <2>1 DEF ActiveAs, Active, HasArchive
  <2> DEFINE now == IF proc[p].role = "import" THEN "failed" ELSE job[p]
  <2>3. /\ job' = [job EXCEPT ![p] = now]
        /\ ActiveAs(q) => now # "completed"
        /\ now \in {"none", "pending", "running", "completed", "failed"}
        /\ job[p] # "none" => now # "none"
        /\ now = "completed" => job[p] = "completed"
    BY <1>1, <1>3, <2>1 DEF FailRead, ActiveAs
  <2> HIDE DEF now
  <2> QED BY <1>1, <2>1, <2>2, <2>3, LeavesRow DEF Before
<1>4. CASE EndRead(p)
  <2> DEFINE pc == IF row.exists THEN "ending" ELSE "done"
             q == Looked(proc[p], pc, row)
  <2>1. /\ q \in Proc /\ q.role = proc[p].role /\ q.seen = row /\ q.pc = pc
        /\ q.archive = proc[p].archive
        /\ proc' = [proc EXCEPT ![p] = q] /\ proc[p].pc = "ready" /\ proc'[p] = q
        /\ UNCHANGED job
    BY <1>4, Given DEF Looked, Proc, PCs, EndRead
  <2> HIDE DEF q
  <2>2. (ActiveAs(q) => Active(p)) /\ (HasArchive(q) => HasArchive(proc[p]))
    BY <2>1 DEF ActiveAs, Active, HasArchive
  <2>3. file => file' \/ Removing(p)'
    BY <1>1, <1>4, <2>1 DEF EndRead, Removing, At, Succeeded
  <2>4. row.exists /\ q.pc = "ending"
    BY <2>1 DEF Inv, Present
  <2> QED BY <1>1, <2>1, <2>2, <2>3, <2>4, LeavesRow DEF Before
<1>5. CASE Fetch(p)
  <2>1. PICK archive \in BOOLEAN :
          /\ proc' = [proc EXCEPT ![p] = Fetched(proc[p], "ready", archive)]
          /\ file' = (file \/ archive)
    BY <1>5 DEF Fetch, Fetched
  <2> DEFINE q == Fetched(proc[p], "ready", archive)
  <2>2. /\ q \in Proc /\ q.role = "resolve" /\ q.pc = "ready" /\ q.archive = archive
        /\ q.seen = proc[p].seen /\ proc[p].role = "resolve" /\ proc[p].pc = "working"
        /\ UNCHANGED job
    BY <1>5, Given DEF Fetched, Proc, PCs, Fetch, At
  <2> HIDE DEF q
  <2>3. ~ActiveAs(q) /\ (HasArchive(q) => file')
    BY <2>1, <2>2 DEF ActiveAs, HasArchive
  <2>4. proc' = [proc EXCEPT ![p] = q]
    BY <2>1 DEF q
  <2>5. file => file'
    BY <2>1
  <2> QED BY <1>1, <2>1, <2>2, <2>3, <2>4, <2>5, LeavesRow DEF Before
<1> QED BY <1>2, <1>3, <1>4, <1>5

\* The last commit of a task fails: of an import that has completed, the staged
\* file is gone and the row is not.
LEMMA EndFailsFits ==
    ASSUME Inv, Tidy, NEW p \in Procs, EndFails(p)
    PROVE  Fits(p)
<1> DEFINE q == Gone(proc[p], "broken")
<1>1. /\ q \in Proc /\ q.role = proc[p].role /\ q.pc = "broken" /\ q.seen = proc[p].seen
      /\ proc[p].pc = "ending" /\ proc'[p] = q 
      /\ UNCHANGED <<row, file, job, imported, repairs>>
  BY Given DEF EndFails, Goto, Gone, Proc, PCs
<1> HIDE DEF q
<1>3. (Active(p)' <=> Active(p)) /\ ~HasArchive(proc'[p])
  BY <1>1 DEF Active, ActiveAs, HasArchive
<1>4. Removing(p) => doubt'.lost
  <2>1. doubt' = [doubt EXCEPT !.lost = @ \/ (proc[p].seen.staged /\ Succeeded(p))]
    BY DEF EndFails
  <2>2. doubt'.lost <=> doubt.lost \/ (proc[p].seen.staged /\ Succeeded(p))
    BY <2>1, Given DEF Doubt
  <2> QED BY <1>1, <2>2 DEF Removing, At
<1>5. doubt.lost => doubt'.lost
  BY Given DEF EndFails, Doubt
<1>6. row'.state = "failed" => row'.retryable
  BY <1>1, Given DEF Shown
<1> QED BY <1>1, <1>3, <1>4, <1>5, <1>6, Given DEF Before, Fits

\* A commit that finds the row in the state that was read fits, if it does with what
\* was read.
LEMMA WriteFits ==
    ASSUME Inv, Tidy, NEW p \in Procs, NEW q \in Proc, proc' = [proc EXCEPT ![p] = q],
           q.seen = proc[p].seen, q.pc \in {"queued", "working", "done"},
           NEW new \in Row, row' = Dirty(proc[p].seen, new),
           row.state = proc[p].seen.state, row.retryable = proc[p].seen.retryable,
           doubt'.lost = doubt.lost, UNCHANGED file,
           NEW now \in {"none", "pending", "running", "completed", "failed"},
           job' = [job EXCEPT ![p] = now],
           new.state = "failed" => new.retryable,
           proc[p].seen.staged => new.staged \/ new.state \in Over,
           new.manifest = "archive" => \/ proc[p].seen.manifest = "archive"
                                       \/ new.staged /\ row.state \notin Over,
           new.staged => proc[p].seen.staged \/ HasArchive(proc[p]),
           \/ new.job = proc[p].seen.job /\ (ActiveAs(q) => Active(p))
           \/ /\ row.state = "review" /\ new.state = "importing"
              /\ new.job = p /\ proc[p].seen.job # p /\ now = "pending",
           job[p] # "none" => now # "none", q.pc = "queued" => now = "none",
           now = "completed" => job[p] = "completed",
           row.state = "importing" => \/ new.state \in Over
                                      \/ Active(p) /\ now # "completed"
                                      \/ repairs' # 0,
           Removing(p) => new.state \in Over
    PROVE  Fits(p)
<1> DEFINE seen == proc[p].seen
<1>1. /\ seen \in Row /\ row \in Row
      /\ proc'[p] = q /\ job'[p] = now
  BY Given
<1>2. /\ row'.state = new.state
      /\ row'.manifest = IF new.manifest # seen.manifest THEN new.manifest ELSE row.manifest
      /\ row'.staged = IF new.staged # seen.staged THEN new.staged ELSE row.staged
      /\ row'.job = IF new.job # seen.job THEN new.job ELSE row.job
      /\ row'.retryable = new.retryable
  <2>1. Dirty(seen, new).state = IF new.state # seen.state THEN new.state ELSE row.state
    BY <1>1, DirtyRow
  <2>2. row'.state = new.state
    BY <2>1
  <2> QED BY <1>1, <2>2, DirtyColumns
<1>3. row'.state = "failed" => row'.retryable
  BY <1>2
<1>4. /\ row.staged => row'.staged \/ row'.state \in Over
      /\ row'.staged => row.staged \/ HasArchive(proc[p])
  BY <1>1, <1>2, Columns
<1>5. row'.manifest = "archive" => row.manifest = "archive" \/ row'.staged
  <2>1. seen.staged => row.staged \/ row.state \in Over
    BY DEF Tidy, StagedKept
  <2> QED BY <1>1, <1>2, <2>1, Columns
<1>6. (Active(p)' <=> ActiveAs(q)) /\ ~HasArchive(q)
  BY <1>1 DEF Active, HasArchive
<1>7. \/ row'.job = row.job /\ (Active(p)' => Active(p))
      \/ /\ row.state = "review" /\ row'.state = "importing"
         /\ row'.job = p /\ job'[p] = "pending"
  BY <1>1, <1>2, <1>6
<1>8. row.state = "importing" => \/ row'.state \in {"importing"} \cup Over
                                 \/ Active(p) /\ job'[p] # "completed"
                                 \/ repairs' # 0
  BY <1>1, <1>2
<1> HIDE DEF seen
<1>9. /\ proc'[p].pc \in Before => job'[p] = "none"
      /\ proc'[p].pc # "failing" /\ proc'[p].seen = proc[p].seen
  BY <1>1 DEF Before
<1> QED BY <1>1, <1>2, <1>3, <1>4, <1>5, <1>6, <1>7, <1>8, <1>9 DEF Fits

\* A commit that was not stale.
LEMMA NotStale ==
    ASSUME Inv, Tidy, NEW p \in Procs, NEW new \in Row, new.exists = proc[p].seen.exists,
           NEW busy, NEW pc \in PCs, Commit(p, new, busy, pc), ~doubt'.stale
    PROVE  /\ row.state = proc[p].seen.state /\ row.state \in busy
           /\ row.retryable = proc[p].seen.retryable
           /\ row' = Dirty(proc[p].seen, new) /\ doubt'.lost = doubt.lost
           /\ Gone(proc[p], pc) \in Proc
           /\ proc' = [proc EXCEPT ![p] = Gone(proc[p], pc)]
           /\ Gone(proc[p], pc).pc = pc /\ Gone(proc[p], pc).seen = proc[p].seen
           /\ Gone(proc[p], pc).role = proc[p].role
<1>1. proc[p] \in Proc /\ doubt \in Doubt
  BY Given
<1>2. /\ row' \in Row /\ row'.exists = row.exists
      /\ doubt' \in Doubt /\ doubt'.lost = doubt.lost
      /\ doubt.stale => doubt'.stale
      /\ proc' = [proc EXCEPT ![p] = Gone(proc[p], pc)]
      /\ ~doubt'.stale => /\ row.state = proc[p].seen.state
                         /\ row.retryable = proc[p].seen.retryable
                         /\ row.state \in busy /\ row'.state = new.state
  BY Committed DEF Inv
<1>3. row' = Dirty(proc[p].seen, new)
  BY DEF Commit
<1>4. /\ Gone(proc[p], pc) \in Proc
      /\ Gone(proc[p], pc).pc = pc /\ Gone(proc[p], pc).seen = proc[p].seen
      /\ Gone(proc[p], pc).role = proc[p].role
  BY <1>1 DEF Gone, Proc, PCs
<1> QED BY <1>2, <1>3, <1>4

\* A task begins.  The job of an import is new to everyone.
LEMMA BeginFits ==
    ASSUME Inv, Tidy, NEW p \in Procs, BeginResolve(p) \/ BeginImport(p), ~doubt'.stale
    PROVE  Fits(p)
<1> DEFINE seen == proc[p].seen
           q == Gone(proc[p], "working")
<1>1. /\ seen \in Row /\ proc[p] \in Proc /\ proc[p].pc = "begun" /\ job[p] = "none"
      /\ UNCHANGED file /\ ~Removing(p) /\ ~HasArchive(proc[p])
  BY Given DEF BeginResolve, BeginImport, At, Removing, Before, HasArchive
<1>2. CASE BeginResolve(p)
  <2> DEFINE new == [seen EXCEPT !.state = "resolving", !.retryable = FALSE]
  <2>1. /\ new \in Row /\ new.state = "resolving" /\ ~new.retryable
        /\ \A c \in {"exists", "manifest", "staged", "job"} : new[c] = seen[c]
    BY <1>1 DEF Row, States
  <2>2. Commit(p, new, States, "working") /\ proc[p].role = "resolve"
        /\ job' = [job EXCEPT ![p] = "none"]
    BY <1>1, <1>2, Given DEF BeginResolve, At
  <2>3. seen.state \in {"captured", "failed"}
    BY <1>1, <2>2 DEF Inv, Looking, Looks
  <2> HIDE DEF new
  <2>4. /\ row.state = seen.state /\ row' = Dirty(seen, new) /\ doubt'.lost = doubt.lost
        /\ row.retryable = seen.retryable /\ q \in Proc /\ proc' = [proc EXCEPT ![p] = q]
        /\ q.pc = "working" /\ q.seen = seen /\ q.role = "resolve"
    BY <2>1, <2>2, NotStale DEF PCs
  <2> HIDE DEF q
  <2>5. ~ActiveAs(q)
    BY <2>4 DEF ActiveAs
  <2> QED BY <1>1, <2>1, <2>3, <2>4, <2>2, <2>5, WriteFits
<1>3. CASE BeginImport(p)
  <2> DEFINE new == [seen EXCEPT !.state = "importing", !.retryable = FALSE, !.job = p]
  <2>1. /\ new \in Row /\ new.state = "importing" /\ ~new.retryable /\ new.job = p
        /\ \A c \in {"exists", "manifest", "staged"} : new[c] = seen[c]
    BY <1>1 DEF Row, States
  <2>2. Commit(p, new, States, "working") /\ proc[p].role = "import"
        /\ job' = [job EXCEPT ![p] = "pending"]
    BY <1>3 DEF BeginImport, At
  <2>3. seen.state = "review"
    BY <1>1, <2>2 DEF Inv, Looking, Looks
  <2>4. seen.job # p
    BY <1>1, ProcsAssumption DEF Tidy, JobKnown
  <2> HIDE DEF new
  <2>5. /\ row.state = seen.state /\ row' = Dirty(seen, new) /\ doubt'.lost = doubt.lost
        /\ row.retryable = seen.retryable /\ q \in Proc /\ proc' = [proc EXCEPT ![p] = q]
        /\ q.pc = "working" /\ q.seen = seen /\ q.role = "import"
    BY <2>1, <2>2, NotStale DEF PCs
  <2> HIDE DEF q
  <2>6. /\ row.state # "importing" /\ row.state = "review"
        /\ (new.manifest = "archive" => seen.manifest = "archive")
        /\ (new.staged => seen.staged) /\ (seen.staged => new.staged)
        /\ "pending" \in {"none", "pending", "running", "completed", "failed"}
    BY <2>1, <2>3, <2>5
  <2> QED BY <1>1, <2>1, <2>2, <2>4, <2>5, <2>6, WriteFits
<1> QED BY <1>2, <1>3

\* A dismissal commits.
LEMMA DismissFits ==
    ASSUME Inv, Tidy, NEW p \in Procs, Dismiss(p), ~doubt'.stale
    PROVE  Fits(p)
<1> DEFINE seen == proc[p].seen
           q == Gone(proc[p], "done")
           new == [seen EXCEPT !.state = "dismissed", !.staged = FALSE]
<1>1. /\ seen \in Row /\ proc[p].pc = "asked" /\ proc[p].role = "dismiss"
      /\ UNCHANGED <<file, job>> /\ job[p] = "none"
      /\ Commit(p, new, States, "done")
  BY Given DEF Dismiss, At, Before
<1>2. /\ new \in Row /\ new.state = "dismissed" /\ ~new.staged
      /\ \A c \in {"exists", "manifest", "job", "retryable"} : new[c] = seen[c]
  BY <1>1 DEF Row, States
<1>3. job' = [job EXCEPT ![p] = job[p]]
  BY <1>1, Given
<1>4. seen.state # "importing"
  BY <1>1 DEF Inv, Looking, Looks
<1> HIDE DEF new
<1>5. /\ row.state = seen.state /\ row' = Dirty(seen, new) /\ doubt'.lost = doubt.lost
      /\ row.retryable = seen.retryable /\ q \in Proc /\ proc' = [proc EXCEPT ![p] = q]
      /\ q.pc = "done" /\ q.seen = seen
  BY <1>1, <1>2, NotStale DEF PCs
<1> HIDE DEF q
<1>6. ~ActiveAs(q) /\ new.state \in Over
  BY <1>2, <1>5 DEF ActiveAs, Over
<1> QED BY <1>1, <1>2, <1>3, <1>4, <1>5, <1>6, WriteFits

\* A retry commits.
LEMMA RetryFits ==
    ASSUME Inv, Tidy, NEW p \in Procs, Retry(p), ~doubt'.stale
    PROVE  Fits(p)
<1> DEFINE seen == proc[p].seen
           to == IF seen.manifest = "none" THEN "captured" ELSE "review"
           pc == IF to = "captured" THEN "queued" ELSE "done"
           q == Turned(proc[p], "resolve", pc)
           new == [seen EXCEPT !.state = to, !.retryable = FALSE]
<1>1. /\ seen \in Row /\ proc[p].pc = "asked" /\ proc[p].role = "retry"
      /\ UNCHANGED <<file, job>> /\ job[p] = "none" /\ row' = Dirty(seen, new)
      /\ proc' = [proc EXCEPT ![p] = q]
      /\ doubt' = Noted(Stale(p, States))
  BY Given DEF Retry, At, Before, Turned
<1>2. /\ new \in Row /\ new.state \in {"captured", "review"} /\ ~new.retryable
      /\ \A c \in {"exists", "manifest", "job", "staged"} : new[c] = seen[c]
  BY <1>1 DEF Row, States
<1>3. job' = [job EXCEPT ![p] = "none"]
  BY <1>1, Given
<1>4. seen.state = "failed"
  BY <1>1 DEF Inv, Looking, Looks
<1>5. /\ q \in Proc /\ q.pc \in {"queued", "done"} /\ q.seen = seen
  BY Given DEF Turned, Proc, PCs, Roles
<1> HIDE DEF new, q, to, pc
<1>6. row.state = seen.state /\ row.retryable = seen.retryable /\ doubt'.lost = doubt.lost
  <2>1. doubt \in Doubt
    BY Given
  <2>2. /\ doubt'.stale <=> doubt.stale \/ Stale(p, States)
        /\ doubt'.lost = doubt.lost
    BY <1>1, <2>1, NotedDoubt
  <2> QED BY <2>2 DEF Stale
<1>7. ~ActiveAs(q) /\ ~Removing(p)
  BY <1>1, <1>5 DEF ActiveAs, Removing, At
<1> QED BY <1>1, <1>2, <1>3, <1>4, <1>5, <1>6, <1>7, WriteFits

\* A task ends, well or not.
LEMMA EndFits ==
    ASSUME Inv, Tidy, NEW p \in Procs,
           FinishResolve(p) \/ FinishImport(p) \/ FailCommit(p), ~doubt'.stale
    PROVE  Fits(p)
<1> DEFINE seen == proc[p].seen
           q == Gone(proc[p], "done")
<1>1. /\ seen \in Row /\ proc[p] \in Proc /\ proc[p].archive \in BOOLEAN
      /\ proc[p].pc \in {"ending", "failing"} /\ UNCHANGED file
      /\ job' = [job EXCEPT ![p] = job[p]]
      /\ job[p] \in {"none", "pending", "running", "completed", "failed"}
  BY Given DEF FinishResolve, FinishImport, FailCommit, At
<1>2. /\ q \in Proc /\ q.pc = "done" /\ q.seen = seen /\ q.role = proc[p].role
  BY <1>1 DEF Gone, Proc, PCs
<1>3. ~ActiveAs(q)
  BY <1>2 DEF ActiveAs
<1>4. CASE FinishResolve(p)
  <2> DEFINE new == [seen EXCEPT !.state = "review",
                       !.manifest = IF proc[p].archive THEN "archive" ELSE "other",
                       !.staged = @ \/ proc[p].archive]
  <2>1. seen.staged \in BOOLEAN /\ (seen.staged \/ proc[p].archive) \in BOOLEAN
    BY <1>1, Columns
  <2>2. /\ new \in Row /\ new.state = "review" /\ new.staged = (seen.staged \/ proc[p].archive)
        /\ new.manifest = IF proc[p].archive THEN "archive" ELSE "other"
        /\ \A c \in {"exists", "job", "retryable"} : new[c] = seen[c]
    BY <1>1, <2>1 DEF Row, States
  <2>3. /\ Commit(p, new, {"resolving"}, "done")
        /\ proc[p].role = "resolve" /\ proc[p].pc = "ending"
    BY <1>4 DEF FinishResolve, At
  <2> HIDE DEF new
  <2>4. /\ row.state = seen.state /\ row.state = "resolving" /\ row' = Dirty(seen, new)
        /\ row.retryable = seen.retryable
        /\ doubt'.lost = doubt.lost /\ proc' = [proc EXCEPT ![p] = q]
    BY <2>2, <2>3, NotStale DEF PCs
  <2>5. /\ ~Removing(p) /\ row.state \notin Over
        /\ HasArchive(proc[p]) <=> proc[p].archive
    BY <2>3, <2>4 DEF Removing, At, Succeeded, Over, HasArchive
  <2> HIDE DEF q
  <2> QED BY <1>1, <1>2, <1>3, <2>2, <2>3, <2>4, <2>5, WriteFits
<1>5. CASE FinishImport(p)
  <2> DEFINE new == IF Succeeded(p)
                    THEN [seen EXCEPT !.state = "completed", !.retryable = FALSE,
                                      !.staged = FALSE]
                    ELSE [seen EXCEPT !.state = "failed", !.retryable = TRUE]
  <2>1. /\ new \in Row
        /\ new.state = IF Succeeded(p) THEN "completed" ELSE "failed"
        /\ new.retryable = ~Succeeded(p)
        /\ new.staged = (IF Succeeded(p) THEN FALSE ELSE seen.staged)
        /\ \A c \in {"exists", "job", "manifest"} : new[c] = seen[c]
    BY <1>1 DEF Row, States, Succeeded
  <2>2. Commit(p, new, {"importing"}, "done") /\ Active(p) /\ proc[p].role = "import"
    BY <1>5 DEF FinishImport, At, Active, ActiveAs
  <2> HIDE DEF new
  <2>3. /\ row.state = seen.state /\ row.state = "importing" /\ row' = Dirty(seen, new)
        /\ row.retryable = seen.retryable
        /\ doubt'.lost = doubt.lost /\ proc' = [proc EXCEPT ![p] = q]
    BY <2>1, <2>2, NotStale DEF PCs
  <2>4. /\ (Succeeded(p) => new.state \in Over)
        /\ new.state = "failed" => new.retryable
        /\ Removing(p) => Succeeded(p)
        /\ job[p] = "completed" => Succeeded(p)
    BY <2>1, <2>2 DEF Over, Removing, At, Succeeded
  <2> HIDE DEF q
  <2> QED BY <1>1, <1>2, <1>3, <2>1, <2>2, <2>3, <2>4, WriteFits
<1>6. CASE FailCommit(p)
  <2> DEFINE new == [seen EXCEPT !.state = "failed", !.retryable = TRUE]
             busy == IF proc[p].role = "import" THEN {"importing"} ELSE {"resolving"}
  <2>1. /\ new \in Row /\ new.state = "failed" /\ new.retryable
        /\ \A c \in {"exists", "job", "manifest", "staged"} : new[c] = seen[c]
    BY <1>1 DEF Row, States
  <2>2. Commit(p, new, busy, "done") /\ proc[p].pc = "failing"
    BY <1>6 DEF FailCommit
  <2> HIDE DEF new
  <2>3. /\ row.state = seen.state /\ row.state \in busy /\ row' = Dirty(seen, new)
        /\ row.retryable = seen.retryable
        /\ doubt'.lost = doubt.lost /\ proc' = [proc EXCEPT ![p] = q]
    BY <2>1, <2>2, NotStale DEF PCs
  <2>4. row.state = "importing" => Active(p) /\ job[p] # "completed"
    BY <2>2, <2>3, Given DEF Active, ActiveAs
  <2>5. ~Removing(p)
    BY <2>2 DEF Removing, At
  <2> HIDE DEF q
  <2> QED BY <1>1, <1>2, <1>3, <2>1, <2>3, <2>4, <2>5, WriteFits
<1> QED BY <1>4, <1>5, <1>6

\* The choice is written into the manifest that was read.
LEMMA ChooseFits ==
    ASSUME Inv, Tidy, NEW p \in Procs, Choose(p), ~doubt'.stale
    PROVE  Fits(p)
<1> DEFINE seen == proc[p].seen
           chosen == IF seen.manifest = "none" THEN "choice" ELSE seen.manifest
           q == Gone(proc[p], "done")
<1>1. /\ row \in Row /\ seen \in Row /\ proc[p] \in Proc /\ UNCHANGED <<file, job>>
      /\ row' = [row EXCEPT !.manifest = chosen] /\ proc' = [proc EXCEPT ![p] = q]
      /\ doubt' = Noted(row.manifest # seen.manifest \/ Stale(p, States))
      /\ proc[p].pc = "asked" /\ proc[p].role = "choose"
      /\ job[p] = "none" /\ job' = [job EXCEPT ![p] = "none"]
  BY Given DEF Choose, Goto, Gone, At, Before
<1>2. row.manifest = seen.manifest /\ doubt'.lost = doubt.lost
  <2>1. doubt \in Doubt
    BY Given
  <2>2. /\ doubt'.stale <=> doubt.stale \/ (row.manifest # seen.manifest \/ Stale(p, States))
        /\ doubt'.lost = doubt.lost
    BY <1>1, <2>1, NotedDoubt
  <2> QED BY <2>2
<1>3. /\ row'.state = row.state /\ row'.staged = row.staged /\ row'.job = row.job
      /\ row'.retryable = row.retryable
      /\ row'.manifest = "archive" => row.manifest = "archive"
  BY <1>1, <1>2 DEF Row
<1>4. /\ q \in Proc /\ q.pc = "done" /\ q.seen = seen
  BY <1>1 DEF Gone, Proc, PCs
<1> HIDE DEF q
<1>5. ~ActiveAs(q) /\ ~HasArchive(q) /\ ~Removing(p)
  BY <1>1, <1>4 DEF ActiveAs, HasArchive, Removing, At
<1> QED BY <1>1, <1>2, <1>3, <1>4, <1>5, LeavesRow DEF Before

\* A finding is repaired: from then on, an item may be offered whose job completes.
LEMMA RepairFits ==
    ASSUME Inv, Tidy, NEW p \in Procs, Repair(p), ~doubt'.stale
    PROVE  Fits(p)
<1> DEFINE seen == proc[p].seen
           q == Gone(proc[p], "done")
           to == IF seen.manifest = "none" THEN "captured" ELSE "review"
           new == [seen EXCEPT !.state = to, !.retryable = TRUE]
<1>1. /\ seen \in Row /\ proc[p].pc = "asked" /\ proc[p].role = "repair"
      /\ UNCHANGED <<file, job>> /\ job[p] = "none" /\ repairs \in Nat
      /\ Commit(p, new, States, "done")
      /\ repairs' = IF row.state = "importing" THEN repairs + 1 ELSE repairs
  BY Given, Types DEF Repair, At, Before, Inv
<1>2. /\ new \in Row /\ new.state \in {"captured", "review"}
      /\ \A c \in {"exists", "manifest", "job", "staged"} : new[c] = seen[c]
  BY <1>1 DEF Row, States
<1>3. job' = [job EXCEPT ![p] = "none"]
  BY <1>1, Given
<1> HIDE DEF new, to
<1>4. /\ row.state = seen.state /\ row' = Dirty(seen, new) /\ doubt'.lost = doubt.lost
      /\ row.retryable = seen.retryable /\ q \in Proc /\ proc' = [proc EXCEPT ![p] = q]
      /\ q.pc = "done" /\ q.seen = seen
  BY <1>1, <1>2, NotStale DEF PCs
<1> HIDE DEF q
<1>5. ~ActiveAs(q) /\ ~Removing(p) /\ (row.state = "importing" => repairs' # 0)
  BY <1>1, <1>4 DEF ActiveAs, Removing, At
<1> QED BY <1>1, <1>2, <1>3, <1>4, <1>5, WriteFits

\* An item is captured.
LEMMA CaptureFits ==
    ASSUME Inv, Tidy, NEW p \in Procs, Capture(p)
    PROVE  Fits(p)
<1> DEFINE q == Entered("resolve", "queued", row)
<1>1. /\ row \in Row /\ row' = [row EXCEPT !.exists = TRUE]
      /\ Enter(p, "resolve", "queued") /\ proc[p].pc = "none"
      /\ proc' = [proc EXCEPT ![p] = q]
      /\ UNCHANGED <<file, job, doubt>> /\ job[p] = "none"
      /\ job' = [job EXCEPT ![p] = "none"]
  BY Given DEF Capture, Enter, Entered, Before
<1>2. /\ row'.state = row.state /\ row'.staged = row.staged /\ row'.job = row.job
      /\ row'.retryable = row.retryable /\ row'.manifest = row.manifest
  BY <1>1 DEF Row
<1>3. /\ q \in Proc /\ q.pc = "queued" /\ q.seen = row
  BY <1>1 DEF Entered, Proc, Roles
<1> HIDE DEF q
<1>4. ~ActiveAs(q) /\ ~HasArchive(q) /\ ~Removing(p)
  BY <1>1, <1>3 DEF ActiveAs, HasArchive, Removing, At, Succeeded
<1> QED BY <1>1, <1>2, <1>3, <1>4, LeavesRow

\* A row that is pruned takes its files along.
LEMMA PruneTidy ==
    ASSUME Inv, Tidy, Prune
    PROVE  Tidy'
<1>1. /\ row \in Row /\ row' = [row EXCEPT !.exists = FALSE]
      /\ row.state \in Over /\ UNCHANGED <<proc, job, repairs, doubt>>
      /\ \A p \in Procs : proc[p].pc \in {"none", "done"}
  BY Types DEF Inv, Prune, Over
<1>2. /\ row'.state = row.state /\ row'.staged = row.staged /\ row'.job = row.job
      /\ row'.retryable = row.retryable /\ row'.manifest = row.manifest
  BY <1>1 DEF Row
<1>3. Shown'
  BY <1>1, <1>2 DEF Tidy, Shown
<1>4. JobKnown'
  BY <1>1, <1>2 DEF Tidy, JobKnown, Active
<1>5. (repairs = 0 => JobNoted)'
  BY <1>1, <1>2 DEF Tidy, JobNoted, Active
<1>6. StagedKept' /\ ArchiveStaged' /\ FileKept'
  BY <1>1, <1>2 DEF StagedKept, ArchiveStaged, FileKept
<1> QED BY <1>3, <1>4, <1>5, <1>6 DEF Tidy

\* A crash forgets what has been seen; a file that was being removed is a lost one.
LEMMA CrashTidy ==
    ASSUME Inv, Tidy, Crash
    PROVE  Tidy'
<1> DEFINE Idle == [NoProc EXCEPT !.pc = "done"]
<1>1. /\ row \in Row /\ proc \in [Procs -> Proc] /\ UNCHANGED <<file, repairs>>
      /\ job \in [Procs -> {"none", "pending", "running", "completed", "failed"}]
      /\ doubt \in Doubt /\ row' = Recovered
      /\ proc' = [p \in Procs |-> IF proc[p].pc = "none" THEN proc[p] ELSE Idle]
      /\ job' = [p \in Procs |-> IF job[p] = "running" THEN "pending" ELSE job[p]]
      /\ doubt' = [doubt EXCEPT !.lost = @ \/ \E p \in Procs : Removing(p),
                                !.stuck = FALSE]
  BY Types DEF Inv, Crash
<1>2. /\ Idle.pc = "done" /\ Idle.seen = NoRow /\ ~NoRow.staged /\ NoRow.job = "none"
      /\ NoRow.state = "captured"
  BY DEF NoProc, NoRow
<1> HIDE DEF Idle
<1>3. \A p \in Procs :
        /\ proc'[p].pc \in {"none", "done"}
        /\ proc'[p].pc = "none" => proc[p].pc = "none"
        /\ proc'[p].seen \in {proc[p].seen, NoRow}
        /\ job'[p] = "none" <=> job[p] = "none"
        /\ job'[p] = "completed" <=> job[p] = "completed"
  BY <1>1, <1>2
<1>4. \A p \in Procs : ~Active(p)' /\ ~HasArchive(proc'[p])
  BY <1>3 DEF Active, ActiveAs, HasArchive
<1>5. doubt'.lost <=> doubt.lost \/ \E p \in Procs : Removing(p)
  BY <1>1, DoubtGrows
<1>6. \/ row' = row /\ row.state \notin Busy
      \/ /\ row.state = "importing"
         /\ row' = [row EXCEPT !.state = "completed", !.retryable = FALSE]
      \/ /\ row.state \in Busy
         /\ ~(row.state = "importing" /\ row.job # "none" /\ job[row.job] = "completed")
         /\ row' = [row EXCEPT !.state = "failed", !.retryable = TRUE]
  BY <1>1 DEF Recovered
<1>7. /\ row'.staged = row.staged /\ row'.job = row.job /\ row'.manifest = row.manifest
      /\ \/ row'.state = row.state /\ row'.retryable = row.retryable
            /\ row.state \notin Busy
         \/ row'.state = "completed" /\ ~row'.retryable
         \/ /\ row'.state = "failed" /\ row'.retryable
            /\ row.state \in Busy
            /\ ~(row.state = "importing" /\ row.job # "none" /\ job[row.job] = "completed")
  BY <1>1, <1>6 DEF Row
<1>8. row.state \in Over => row'.state \in Over
  BY <1>7 DEF Over, Busy
<1>9. Shown'
  BY <1>7 DEF Tidy, Shown
<1>10. JobKnown'
  <2>1. /\ row.job \in Procs \cup {"none"}
        /\ \A p \in Procs : proc[p].seen.job \in Procs \cup {"none"}
    <3>1. row \in Row /\ \A p \in Procs : proc[p].seen \in Row
      BY Types DEF Inv
    <3> QED BY <3>1, Columns
  <2>2. row'.job # "none" => job'[row'.job] # "none"
    BY <1>3, <1>7, <2>1 DEF Tidy, JobKnown
  <2>3. \A p \in Procs :
          /\ proc'[p].seen.job # "none" => job'[proc'[p].seen.job] # "none"
          /\ proc'[p].pc \in Before => job'[p] = "none"
    <3> TAKE p \in Procs
    <3>1. proc'[p].seen.job # "none" => job'[proc'[p].seen.job] # "none"
      BY <1>2, <1>3, <2>1 DEF Tidy, JobKnown
    <3>2. proc'[p].pc \in Before => job'[p] = "none"
      BY <1>3 DEF Before, Tidy, JobKnown
    <3> QED BY <3>1, <3>2
  <2> QED BY <1>4, <2>2, <2>3 DEF JobKnown
<1>11. ASSUME repairs' = 0
       PROVE  JobNoted'
  <2>1. row.job \in Procs \cup {"none"} /\ JobNoted
    BY <1>1, <1>11, Columns DEF Tidy
  <2>2. ASSUME row'.job # "none", job'[row'.job] = "completed"
        PROVE  row'.state \in {"importing"} \cup Over
    <3>1. job[row.job] = "completed" /\ row.job # "none"
      BY <1>3, <1>7, <2>1, <2>2
    <3>2. row.state \in {"importing"} \cup Over
      BY <2>1, <3>1 DEF JobNoted
    <3> QED BY <1>7, <3>1, <3>2 DEF Over, Busy
  <2> QED BY <1>4, <2>2 DEF JobNoted
<1>12. StagedKept'
  BY <1>2, <1>3, <1>7, <1>8 DEF Tidy, StagedKept
<1>13. ArchiveStaged'
  BY <1>7, <1>8 DEF Tidy, ArchiveStaged
<1>14. FileKept'
  BY <1>1, <1>4, <1>5, <1>7, <1>8 DEF Tidy, FileKept
<1> QED BY <1>9, <1>10, <1>11, <1>12, <1>13, <1>14 DEF Tidy

\* The initial state is tidy.
LEMMA InitTidy == Init => Tidy
<1> SUFFICES ASSUME Init PROVE Tidy
  OBVIOUS
<1>1. /\ NoProc.pc = "none" /\ NoProc.seen = NoRow
      /\ ~NoRow.staged /\ NoRow.job = "none"
      /\ NoRow.state = "captured" /\ NoRow.manifest = "none"
      /\ Reviewed.staged /\ Reviewed.job = "none"
      /\ Reviewed.state = "review"
  BY DEF NoProc, NoRow, Reviewed
<1>2. \A p \in Procs : proc[p].pc = "none" /\ proc[p].seen = NoRow /\ job[p] = "none"
  BY <1>1 DEF Init
<1>3. \A p \in Procs : ~Active(p) /\ ~HasArchive(proc[p])
  BY <1>2 DEF Active, ActiveAs, HasArchive
<1>4. row \in {NoRow, Reviewed} /\ file = row.staged
  BY DEF Init
<1>5. Shown /\ JobKnown /\ JobNoted
  BY <1>1, <1>2, <1>3, <1>4 DEF Shown, JobKnown, JobNoted
<1>6. StagedKept /\ ArchiveStaged /\ FileKept
  BY <1>1, <1>2, <1>3, <1>4 DEF StagedKept, ArchiveStaged, FileKept
<1> QED BY <1>5, <1>6 DEF Tidy

\* Every step keeps an item tidy, unless a commit was stale.
LEMMA NextTidy ==
    ASSUME Inv, doubt.stale \/ Tidy, [Next]_vars
    PROVE  doubt'.stale \/ Tidy'
<1>1. Inv' /\ (doubt'.stale \/ Lives)
  BY NextKeeps
<1>2. SUFFICES ASSUME ~doubt'.stale
               PROVE  Tidy'
  OBVIOUS
<1>3. Lives
  BY <1>1, <1>2
<1>4. ASSUME NEW p \in Procs, Request(p) \/ Task(p)
      PROVE  Tidy'
  <2>1. Good(p)
    BY <1>4, RequestGood, TaskGood, LookGood, ChooseGood, RetryGood, DismissGood,
       BeginGood, EndGood, PersistGood, MishapGood, RepairGood DEF Request, Task
  <2>2. ~doubt.stale /\ Tidy
    BY <1>2, <2>1 DEF Good
  <2>3. Fits(p)
    BY <1>2, <1>4, <2>2, CaptureFits, RequestFits, ChooseFits, RetryFits, DismissFits,
       RepairFits, TaskFits, LookFits, BeginFits, EndFits, EndFailsFits DEF Request, Task
  <2> QED BY <1>1, <1>2, <1>3, <2>1, <2>2, <2>3, FitsKeeps DEF Good
<1>5. CASE Prune
  BY <1>2, <1>5, PruneTidy DEF Prune
<1>6. CASE Crash
  <2>1. ~doubt.stale
    BY <1>2, <1>6, DoubtGrows, Types DEF Crash, Inv
  <2> QED BY <1>6, <2>1, CrashTidy DEF Inv
<1>7. CASE UNCHANGED vars
  <2>1. Tidy
    BY <1>2, <1>7 DEF vars
  <2> QED BY <1>7, <2>1
       DEF vars, Tidy, Shown, JobKnown, JobNoted, Active, StagedKept, ArchiveStaged,
           FileKept, Removing, At, Succeeded
<1> QED BY <1>4, <1>5, <1>6, <1>7 DEF Next

\* A tidy item is a consistent one.
LEMMA TidyConsistent ==
    ASSUME Inv, doubt.stale \/ Tidy
    PROVE  Consistent
<1> SUFFICES ASSUME ~doubt.stale, Tidy
             PROVE  Consistent
  BY DEF Consistent
<1>1. row.state = "failed" => row.retryable
  BY DEF Tidy, Shown
<1>2. ASSUME row.state = "review", row.manifest = "archive"
      PROVE  row.staged /\ (file \/ doubt.lost \/ \E p \in Procs : Removing(p))
  <2>1. row.staged /\ row.state \notin Over
    BY <1>2 DEF Tidy, ArchiveStaged, Over
  <2> QED BY <1>2, <2>1 DEF Tidy, FileKept
<1>3. row.job # "none" /\ job[row.job] = "completed"
        => repairs > 0 \/ row.state \in {"importing"} \cup Over
  <2>1. repairs \in Nat
    BY DEF Inv, TypeOK
  <2>2. repairs = 0 \/ repairs > 0
    BY <2>1
  <2> QED BY <2>2 DEF Tidy, JobNoted
<1> QED BY <1>1, <1>2, <1>3 DEF Consistent

\* What inbox.py leaves behind is of use: a failed item can be retried, a reviewed
\* archive is on disk unless a removal has not committed, and what has been imported
\* is not offered again, crashes included, unless a commit was stale or a repair took
\* back an item in IMPORTING.
THEOREM LeftConsistent == Spec => []Consistent
<1>1. Init => Inv /\ (doubt.stale \/ Tidy)
  BY InitInv, InitTidy
<1>2. Inv /\ (doubt.stale \/ Tidy) /\ [Next]_vars => Inv' /\ (doubt.stale \/ Tidy)'
  BY NextKeeps, NextTidy
<1>3. Inv /\ (doubt.stale \/ Tidy) => Consistent
  BY TidyConsistent
<1> QED BY <1>1, <1>2, <1>3, PTL DEF Spec
=============================================================================
