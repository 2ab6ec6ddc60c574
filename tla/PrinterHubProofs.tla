--------------------------- MODULE PrinterHubProofs ---------------------------
(***************************************************************************)
(* Proofs about PrinterHub, for every set of files, rows and workers and   *)
(* every value of the bounds.                                              *)
(*                                                                         *)
(* Announcements and placeholders are counted together with those that are *)
(* still to come from the threads that process reports.                    *)
(***************************************************************************)
EXTENDS PrinterHub, WellFoundedInduction, FiniteSetTheorems, TLAPS

-----------------------------------------------------------------------------
(* Types *)

\* Among row ids there is a newest.
LEMMA NewestExists ==
    ASSUME NEW T \in SUBSET Jobs, T # {}
    PROVE  \E j \in T : \A k \in T : k <= j
<1> DEFINE Above(j) == {k \in T : j < k}
           All == {Above(j) : j \in T}
<1>1. T \in SUBSET Nat /\ IsFiniteSet(T)
  BY JobsAssumption, FS_Subset
<1>2. All \subseteq FiniteSubsetsOf(T) /\ All # {}
  <2>1. FiniteSubsetsOf(T) = SUBSET T
    BY <1>1, FS_FiniteSubsetsOfFinite
  <2>2. \A j \in T : Above(j) \in SUBSET T
    OBVIOUS
  <2> HIDE DEF Above
  <2>3. All \subseteq SUBSET T
    BY <2>2
  <2>4. PICK j \in T : TRUE
    OBVIOUS
  <2>5. Above(j) \in All
    OBVIOUS
  <2> QED BY <2>1, <2>3, <2>5
<1>3. PICK A \in All : \A B \in All : <<B, A>> \notin StrictSubsetOrdering(T)
  <2> HIDE DEF All
  <2> QED BY <1>2, FS_StrictSubsetOrderingWellFounded, WFMin
<1>4. PICK j \in T : A = Above(j)
  BY <1>3
<1>5. ASSUME NEW k \in T, j < k PROVE FALSE
  <2>1. Above(k) \in SUBSET T /\ Above(j) \in SUBSET T
    OBVIOUS
  <2>2. Above(k) \subseteq Above(j)
    <3>1. ASSUME NEW x \in T, k < x PROVE j < x
      <4>1. j \in Nat /\ k \in Nat /\ x \in Nat
        BY <1>1, <1>5, <3>1
      <4> QED BY <1>5, <3>1, <4>1
    <3> QED BY <3>1
  <2>3. k \in Above(j) /\ k \notin Above(k)
    BY <1>1, <1>5
  <2>4. Above(k) # Above(j)
    BY <2>3
  <2>5. <<Above(k), Above(j)>> \in StrictSubsetOrdering(T)
    <3>1. ASSUME NEW P \in SUBSET T, NEW Q \in SUBSET T, P \subseteq Q, P # Q
          PROVE  <<P, Q>> \in StrictSubsetOrdering(T)
      BY <3>1 DEF StrictSubsetOrdering
    <3> HIDE DEF Above
    <3> QED BY <2>1, <2>2, <2>4, <3>1
  <2> QED BY <1>3, <1>4, <2>5
<1> QED BY <1>1, <1>5

\* The newest row of a file is a row that exists, when there is one.
LEMMA LatestExists ==
    ASSUME NEW f
    PROVE  Latest(f) \in {j \in Jobs : Exists(j) /\ job[j].file = f} \cup {0}
<1> DEFINE T == {j \in Jobs : Exists(j) /\ job[j].file = f}
<1>1. CASE T = {}
  BY <1>1 DEF Latest
<1>2. CASE T # {}
  <2>1. \E j \in T : \A k \in T : k <= j
    BY <1>2, NewestExists
  <2>2. \E j \in Jobs : /\ Exists(j) /\ job[j].file = f
                        /\ \A k \in Jobs : Exists(k) /\ job[k].file = f => k <= j
    BY <2>1
  <2> QED BY <1>2, <2>2 DEF Latest
<1> QED BY <1>1, <1>2

\* A row that has changed in the columns given is well typed.
LEMMA ChangedRows ==
    ASSUME NEW row \in Row, NEW s \in States
    PROVE  /\ [row EXCEPT !.state = s] \in Row
           /\ [row EXCEPT !.state = s].state = s
           /\ [row EXCEPT !.state = s].finished = row.finished
           /\ [row EXCEPT !.state = s, !.finished = TRUE] \in Row
           /\ [row EXCEPT !.state = s, !.finished = TRUE].state = s
           /\ [row EXCEPT !.state = s, !.finished = TRUE].finished = TRUE
           /\ [row EXCEPT !.state = s, !.claimed = TRUE] \in Row
           /\ [row EXCEPT !.state = s, !.claimed = TRUE].state = s
           /\ [row EXCEPT !.state = s, !.claimed = TRUE].finished = row.finished
BY DEF Row

\* So is one that failed, to be retried or not, and one that is queued again.
Failed(row, again) ==
    [row EXCEPT !.state = "failed", !.finished = TRUE, !.retryable = again]
Reopened(row) ==
    [row EXCEPT !.state = "queued", !.claimed = FALSE, !.finished = FALSE,
                !.retryable = FALSE]
LEMMA FailedRow ==
    ASSUME NEW row \in Row, NEW again \in BOOLEAN
    PROVE  /\ Failed(row, again) \in Row
           /\ Failed(row, again).state = "failed"
           /\ Failed(row, again).finished = TRUE
           /\ Failed(row, again).file = row.file
BY DEF Row, Failed, States
LEMMA ReopenedRow ==
    ASSUME NEW row \in Row
    PROVE  /\ Reopened(row) \in Row
           /\ Reopened(row).state = "queued"
           /\ Reopened(row).finished = FALSE
           /\ Reopened(row).file = row.file
           /\ Reopened(row).source = row.source
BY DEF Row, Reopened, States

\* A report gives a row a state of the table.
LEMMA NewStateType ==
    ASSUME NEW state \in PhysStates, NEW now \in States
    PROVE  NewState(state, now) \in States
BY DEF NewState, States, PhysStates, Busy, Ended

\* What the transfers go through.
Sends == [kind : {"none", "fleet", "send", "copy", "start"},
          step : {"done", "sending", "accepted", "failing", "unknown"}]

\* A transfer that starts or ends keeps them.
LEMMA SendTypes ==
    ASSUME transfer \in [Jobs -> Sends], NEW j \in Jobs,
           NEW step \in {"done", "sending", "accepted", "failing", "unknown"},
           NEW kind \in {"none", "fleet", "send", "copy", "start"}
    PROVE  /\ NoSend \in Sends
           /\ [transfer EXCEPT ![j] = NoSend] \in [Jobs -> Sends]
           /\ [transfer EXCEPT ![j] = [kind |-> kind, step |-> step]] \in [Jobs -> Sends]
BY DEF NoSend, Sends

\* A step of a transfer keeps them.
LEMMA StepType ==
    ASSUME transfer \in [Jobs -> Sends], NEW j \in Jobs,
           NEW step \in {"done", "sending", "accepted", "failing", "unknown"}, Step(j, step)
    PROVE  transfer' \in [Jobs -> Sends]
<1>1. [transfer[j] EXCEPT !.step = step] \in Sends
  BY DEF Sends
<1> QED BY <1>1 DEF Step

\* What a thread that processes a report remembers.
Syncs == [pc : {"idle", "called", "missing", "found"},
          state : PhysStates, file : Files \cup {NoFile},
          run : Nat, job : Jobs \cup {0}, read : States]

\* What has been used of the bounds, and what is remembered of retries.
Counts == [requests : Nat, retries : Nat, mishaps : Nat]
Retries == [times : Nat, notices : Nat]

\* Counting a request, a retry or a mishap.
LEMMA UsedTypes ==
    ASSUME used \in Counts
    PROVE  /\ [used EXCEPT !.requests = @ + 1] \in Counts
           /\ [used EXCEPT !.retries = @ + 1] \in Counts
           /\ [used EXCEPT !.retries = @ + 1].mishaps = used.mishaps
           /\ Mishap => used' \in Counts /\ used'.mishaps = used.mishaps + 1
BY DEF Mishap, Counts

\* The types, with the two record sets by name.
LEMMA Types ==
    ASSUME TypeOK
    PROVE  /\ job \in [Jobs -> Row]
           /\ phys \in [state : PhysStates, file : Files \cup {NoFile}, run : Nat]
           /\ transfer \in [Jobs -> Sends]
           /\ sync \in [Generations -> Syncs]
           /\ worker \in Generations /\ worker \in Nat
           /\ cache \in [file : Files \cup {NoFile}, job : Jobs \cup {0}]
           /\ notified \in [Jobs -> Nat]
           /\ retried \in [Jobs -> Retries]
           /\ pending.rows \in SUBSET Jobs
           /\ captured \in [1..MaxRuns -> Nat]
           /\ used \in Counts
BY GenerationsAssumption DEF TypeOK, Sends, Syncs, Counts, Retries

\* A request that has read its rows, and that is done.
Requests == [kind : {"none", "cancel", "retry"}, rows : SUBSET Jobs]
LEMMA PendingTypes == NoPending \in Requests
BY DEF NoPending, Requests

\* What the hub works with names rows that exist, and a row that does not exist
\* has not been finished.
Grounded ==
    /\ \A j \in Jobs : ~Exists(j) => ~job[j].finished
    /\ cache.job # 0 => Exists(cache.job)
    /\ \A t \in Generations :
         sync[t].pc = "found" => /\ sync[t].job \in Jobs /\ Exists(sync[t].job)
                                 /\ sync[t].read # "absent"

\* Only the worker of now and the threads its predecessors left process reports.
Abandoned == \A t \in Generations : sync[t].pc # "idle" => t <= worker

\* The threads of replaced workers that are still at work: each may announce one job.
Left == 0..(worker - 1)
Late == {t \in Left : sync[t].pc # "idle"}

\* Row j has an end to be announced by the worker.
Open(j) == ~job[j].finished \/ (sync[worker].pc = "found" /\ sync[worker].job = j)
Due(j) == IF Open(j) THEN 1 ELSE 0

\* An announced job is finished, until it is retried; and the announcements made and
\* to be made are no more than the workers there have been and the retries.
Announcements ==
    \A j \in Jobs :
        /\ notified[j] > retried[j].notices => job[j].finished
        /\ notified[j] + Due(j) + Cardinality(Late) <= 1 + worker + retried[j].times

\* The workers of a printer are numbered without gaps.
Numbered == 0..worker \subseteq Generations

Tracking == TypeOK /\ Grounded /\ Abandoned /\ Numbered /\ Announcements

-----------------------------------------------------------------------------
(* Counting the announcements to come *)

\* There are at most as many late threads as there have been workers.
LEMMA LateFinite ==
    ASSUME worker \in Nat
    PROVE  IsFiniteSet(Late) /\ Cardinality(Late) \in Nat
<1>1. IsFiniteSet(Left)
  BY FS_Interval DEF Left
<1>2. Late \in SUBSET Left
  BY DEF Late
<1> QED BY <1>1, <1>2, FS_Subset, FS_CardinalityType

\* A job is owed one announcement by the worker, or none.
LEMMA DueNumber ==
    ASSUME NEW j
    PROVE  /\ Due(j) \in {0, 1} /\ Due(j)' \in {0, 1}
           /\ Open(j) => Due(j) = 1
           /\ ~Open(j)' => Due(j)' = 0
           /\ (Open(j)' => Open(j)) => Due(j)' <= Due(j)
<1>1. /\ Due(j) \in {0, 1} /\ Due(j)' \in {0, 1}
      /\ Open(j) => Due(j) = 1
      /\ ~Open(j) => Due(j) = 0
      /\ Open(j)' => Due(j)' = 1
      /\ ~Open(j)' => Due(j)' = 0
  BY Zenon DEF Due
<1> HIDE DEF Due, Open
<1> QED BY <1>1

\* When threads only stop, no end becomes due and nothing is announced or retried,
\* the count stays within its bound.
LEMMA CalmNotices ==
    ASSUME Tracking, TypeOK', UNCHANGED <<worker, notified, retried>>,
           Late' \subseteq Late, \A j \in Jobs : Open(j)' => Open(j),
           \A j \in Jobs : job[j].finished => job'[j].finished
    PROVE  Announcements'
<1> SUFFICES ASSUME NEW j \in Jobs
             PROVE  /\ notified[j] > retried[j].notices => job'[j].finished
                    /\ notified[j] + Due(j)' + Cardinality(Late)'
                         <= 1 + worker + retried[j].times
  BY DEF Announcements
<1>1. /\ worker \in Nat /\ notified[j] \in Nat /\ retried[j].times \in Nat
      /\ IsFiniteSet(Late) /\ Cardinality(Late) \in Nat
  BY LateFinite, Types DEF Tracking, Retries
<1>2. Cardinality(Late)' \in Nat /\ Cardinality(Late)' <= Cardinality(Late)
  BY <1>1, FS_Subset, FS_CardinalityType
<1>3. Due(j) \in {0, 1} /\ Due(j)' \in {0, 1} /\ Due(j)' <= Due(j)
  BY DueNumber
<1>4. /\ notified[j] + Due(j) + Cardinality(Late) <= 1 + worker + retried[j].times
      /\ notified[j] > retried[j].notices => job[j].finished
  BY DEF Tracking, Announcements
<1> HIDE DEF Due, Late
<1> QED BY <1>1, <1>2, <1>3, <1>4

\* Only the worker of now sets a thread to work.
LEMMA LateFalls ==
    ASSUME worker \in Nat, Numbered, worker' = worker,
           \A u \in Generations \ {worker} : sync'[u].pc # "idle" => sync[u].pc # "idle"
    PROVE  Late' \subseteq Late
<1>1. \A u \in Left : u \in Generations \ {worker}
  BY DEF Left, Numbered
<1> QED BY <1>1 DEF Late, Left

\* A thread of a replaced worker that stops is one less.
LEMMA LateStops ==
    ASSUME worker \in Nat, worker' = worker, NEW t \in Left, sync[t].pc # "idle",
           sync'[t].pc = "idle",
           \A u \in Left \ {t} : sync'[u] = sync[u]
    PROVE  Cardinality(Late)' \in Nat /\ Cardinality(Late)' + 1 <= Cardinality(Late)
<1>1. IsFiniteSet(Late) /\ Cardinality(Late) \in Nat
  BY LateFinite
<1>2. t \in Late /\ Late' = Late \ {t}
  BY DEF Late, Left
<1>3. Cardinality(Late \ {t}) = Cardinality(Late) - 1
  BY <1>1, <1>2, FS_RemoveElement
<1>4. Cardinality(Late') \in Nat
  BY <1>1, <1>2, FS_RemoveElement, FS_CardinalityType
<1> QED BY <1>1, <1>2, <1>3, <1>4

\* What is left as it was, when the worker and its threads do not move.
LEMMA HubStands ==
    ASSUME Tracking, TypeOK', UNCHANGED <<sync, worker, cache, notified, retried>>,
           \A j \in Jobs : /\ Exists(j) => Exists(j)'
                           /\ job[j].finished => job'[j].finished
                           /\ ~Exists(j)' => ~job'[j].finished
    PROVE  Tracking'
<1>1. Announcements'
  <2>1. \A j \in Jobs : Open(j)' => Open(j)
    BY DEF Open
  <2>2. Late' = Late
    BY DEF Late, Left
  <2> QED BY <2>1, <2>2, CalmNotices
<1>2. Grounded'
  BY DEF Tracking, TypeOK, Grounded
<1> QED BY <1>1, <1>2 DEF Tracking, Abandoned, Numbered

-----------------------------------------------------------------------------
(* The steps *)

\* A request, which inserts a row that did not exist.
LEMMA RequestTracking ==
    ASSUME Tracking, NEW j \in Jobs, NEW f \in Files,
           NEW kind \in {"fleet", "send", "copy", "start"}, NEW row \in Row,
           row.state # "absent", Request(j, f, kind, row)
    PROVE  Tracking'
<1> USE DEF Tracking
<1>1. transfer' \in [Jobs -> Sends]
  <2>1. CASE kind = "fleet"
    BY <2>1, Types, SendTypes DEF Request
  <2>2. CASE kind # "fleet"
    BY <2>2, Types, SendTypes DEF Request
  <2> QED BY <2>1, <2>2
<1>2. used' \in Counts
  BY Types, UsedTypes DEF Request
<1>3. /\ job' \in [Jobs -> Row]
      /\ job'[j] = row /\ ~Exists(j)
      /\ \A k \in Jobs \ {j} : job'[k] = job[k]
  BY Types DEF Request, NextId
<1>4. TypeOK'
  BY <1>1, <1>2, <1>3 DEF Request, Hub, Asked, TypeOK, Sends, Counts
<1> QED BY <1>3, <1>4, HubStands DEF Request, Hub, Asked, Exists, Grounded

\* The steps of the printer.
LEMMA PrinterTracking ==
    ASSUME Tracking, PanelStep \/ \E f \in Files : PanelStart(f)
    PROVE  Tracking'
<1> USE DEF Tracking
<1>1. phys' \in [state : PhysStates, file : Files \cup {NoFile}, run : Nat]
  <2>1. CASE PanelStep
    BY <2>1, Types, EndingsAssumption DEF PanelStep, PhysStates, Busy, Ended
  <2>2. CASE \E f \in Files : PanelStart(f)
    BY <2>2, Types DEF PanelStart, Run, PhysStates, Busy
  <2> QED BY <2>1, <2>2
<1>2. UNCHANGED <<job, Hub, transfer, Asked, used>>
  BY DEF PanelStep, PanelStart
<1>3. TypeOK'
  BY <1>1, <1>2 DEF Hub, Asked, TypeOK
<1> QED BY <1>2, <1>3, HubStands DEF Hub, Asked, Exists, Grounded

\* A cancel or a retry that reads its rows.
LEMMA AskTracking ==
    ASSUME Tracking, CancelRead \/ \E j \in Jobs : CancelQueuedRead(j) \/ RetryRead(j)
    PROVE  /\ Tracking'
           /\ UNCHANGED <<job, Hub, transfer, retried, used>>
<1> USE DEF Tracking
<1>1. phys' \in [state : PhysStates, file : Files \cup {NoFile}, run : Nat]
  BY Types DEF CancelRead, CancelQueuedRead, RetryRead, PhysStates, Ended
<1>2. PICK kind \in {"cancel", "retry"}, rows \in SUBSET Jobs : Ask(kind, rows)
  <2>1. {j \in Jobs : job[j].state \in {"started", "printing", "paused"}} \in SUBSET Jobs
    OBVIOUS
  <2> QED BY <2>1 DEF CancelRead, CancelQueuedRead, RetryRead
<1>3. UNCHANGED <<job, Hub, transfer, retried, used>>
  BY <1>2 DEF Ask
<1>4. pending' \in Requests
  BY <1>2 DEF Ask, Requests
<1>5. TypeOK'
  BY <1>1, <1>3, <1>4 DEF Hub, TypeOK, Requests
<1> QED BY <1>3, <1>5, HubStands DEF Hub, Exists, Grounded

\* A cancel, which finishes rows.
LEMMA CancelTracking ==
    ASSUME Tracking, CancelCommit
    PROVE  Tracking'
<1> USE DEF Tracking
<1>1. used' \in Counts /\ pending' = NoPending
  BY Types, UsedTypes DEF CancelCommit
<1>2. \A j \in Jobs :
        /\ [job[j] EXCEPT !.state = "cancelled", !.finished = TRUE] \in Row
        /\ [job[j] EXCEPT !.state = "cancelled", !.finished = TRUE].state = "cancelled"
        /\ [job[j] EXCEPT !.state = "cancelled", !.finished = TRUE].finished = TRUE
  <2>1. \A j \in Jobs : job[j] \in Row
    BY Types
  <2>2. "cancelled" \in States
    BY DEF States
  <2> QED BY <2>1, <2>2, ChangedRows
<1>3. \A j \in Jobs : \/ job'[j] = job[j]
                      \/ job'[j] = [job[j] EXCEPT !.state = "cancelled", !.finished = TRUE]
  BY DEF CancelCommit
<1>4. job' \in [Jobs -> Row]
  BY <1>2, Types DEF CancelCommit
<1>5. TypeOK'
  BY <1>1, <1>4, PendingTypes DEF CancelCommit, Hub, TypeOK, Counts, Requests
<1>6. \A j \in Jobs : /\ Exists(j) => Exists(j)'
                      /\ job[j].finished => job'[j].finished
                      /\ ~Exists(j)' => ~job'[j].finished
  BY <1>2, <1>3 DEF Exists, Grounded
<1> QED BY <1>5, <1>6, HubStands DEF CancelCommit, Hub

\* A retry, which makes one more announcement due and forgets those that were made.
LEMMA RetryTracking ==
    ASSUME Tracking, NEW j \in Jobs, RetryCommit(j)
    PROVE  Tracking'
<1> USE DEF Tracking
<1> DEFINE row == Reopened(job[j])
<1>1. used' \in Counts /\ pending' = NoPending /\ UNCHANGED <<phys, Hub, transfer>>
  BY Types, UsedTypes DEF RetryCommit
<1>2. row \in Row /\ row.state = "queued" /\ row.finished = FALSE
  <2>1. job[j] \in Row
    BY Types
  <2> QED BY <2>1, ReopenedRow
<1>3. job' = [job EXCEPT ![j] = row]
  BY DEF RetryCommit, Reopened
<1> HIDE DEF row
<1>4. /\ job' \in [Jobs -> Row] /\ job'[j] = row
      /\ \A k \in Jobs \ {j} : job'[k] = job[k]
  BY <1>2, <1>3, Types
<1>5. /\ retried' \in [Jobs -> Retries]
      /\ retried'[j] = [times |-> retried[j].times + 1, notices |-> notified[j]]
      /\ \A k \in Jobs \ {j} : retried'[k] = retried[k]
  <2>1. retried \in [Jobs -> Retries] /\ notified[j] \in Nat
    BY Types
  <2>2. [times |-> retried[j].times + 1, notices |-> notified[j]] \in Retries
    BY <2>1 DEF Retries
  <2> QED BY <2>1, <2>2 DEF RetryCommit
<1>6. TypeOK'
  BY <1>1, <1>4, <1>5, PendingTypes DEF Hub, TypeOK, Counts, Retries, Requests
<1>7. Grounded' /\ Abandoned' /\ Numbered'
  <2>1. UNCHANGED <<sync, worker, cache>>
    BY <1>1 DEF Hub
  <2>2. \A k \in Jobs : /\ Exists(k) => Exists(k)'
                        /\ ~Exists(k)' => ~job'[k].finished
    BY <1>2, <1>4 DEF Exists, Grounded
  <2>3. cache.job \in Jobs \cup {0}
    BY Types
  <2>4. Grounded'
    BY <2>1, <2>2, <2>3 DEF Grounded
  <2> QED BY <2>1, <2>4 DEF Abandoned, Numbered
<1>8. Late' = Late /\ worker \in Nat /\ Cardinality(Late) \in Nat
  BY <1>1, Types, LateFinite DEF Hub, Late, Left
<1>9. ASSUME NEW k \in Jobs
      PROVE  /\ notified'[k] > retried'[k].notices => job'[k].finished
             /\ notified'[k] + Due(k)' + Cardinality(Late') <= 1 + worker' + retried'[k].times
  <2>1. /\ notified[k] \in Nat /\ retried[k].times \in Nat
        /\ notified' = notified /\ worker' = worker /\ sync' = sync
    BY <1>1, Types DEF Hub, Retries
  <2>2. Due(k) \in {0, 1} /\ Due(k)' \in {0, 1}
    BY DueNumber
  <2>3. /\ notified[k] > retried[k].notices => job[k].finished
        /\ notified[k] + Due(k) + Cardinality(Late) <= 1 + worker + retried[k].times
    BY DEF Announcements
  <2>4. CASE k = j
    <3>1. retried'[k].notices = notified[k] /\ retried'[k].times = retried[k].times + 1
      BY <1>5, <2>4
    <3> HIDE DEF Due, Late
    <3> QED BY <1>8, <2>1, <2>2, <2>3, <3>1
  <2>5. CASE k # j
    <3>1. retried'[k] = retried[k] /\ job'[k] = job[k]
      BY <1>4, <1>5, <2>5
    <3>2. Due(k)' <= Due(k)
      BY <2>1, <3>1, DueNumber DEF Open
    <3> HIDE DEF Due, Late
    <3> QED BY <1>8, <2>1, <2>2, <2>3, <3>1, <3>2
  <2> QED BY <2>4, <2>5
<1>10. Announcements'
  BY <1>9 DEF Announcements
<1> QED BY <1>6, <1>7, <1>10

\* The steps of a transfer that write its row.
LEMMA RecordTracking ==
    ASSUME Tracking, NEW j \in Jobs, Claim(j) \/ Record(j) \/ RecordFailed(j)
    PROVE  Tracking'
<1> USE DEF Tracking
<1>1. transfer' \in [Jobs -> Sends]
  <2>1. transfer \in [Jobs -> Sends]
    BY Types
  <2>2. CASE Claim(j)
    BY <2>1, <2>2, SendTypes DEF Claim
  <2>3. CASE Record(j) \/ RecordFailed(j)
    <3>1. transfer' = [transfer EXCEPT ![j] = NoSend] \/ Step(j, "failing")
      BY <2>3 DEF Record, RecordFailed
    <3>2. CASE transfer' = [transfer EXCEPT ![j] = NoSend]
      BY <2>1, <3>2, SendTypes
    <3>3. CASE Step(j, "failing")
      BY <2>1, <3>3, StepType
    <3> QED BY <3>1, <3>2, <3>3
  <2> QED BY <2>2, <2>3
<1>2. PICK row \in Row : /\ job' = [job EXCEPT ![j] = row]
                         /\ row.state # "absent"
                         /\ job[j].finished => row.finished
  <2>1. /\ job[j] \in Row
        /\ {"uploading", "started", "completed", "failed"} \subseteq States \ {"absent"}
    BY Types DEF States
  <2>2. ASSUME NEW row \in Row, job' = [job EXCEPT ![j] = row], row.state # "absent",
               job[j].finished => row.finished
        PROVE  \E r \in Row : /\ job' = [job EXCEPT ![j] = r]
                              /\ r.state # "absent"
                              /\ job[j].finished => r.finished
    BY <2>2
  <2>3. CASE Claim(j)
    <3> DEFINE row == [job[j] EXCEPT !.state = "uploading", !.claimed = TRUE]
    <3>1. job' = [job EXCEPT ![j] = row]
      BY <2>3 DEF Claim
    <3>2. row \in Row /\ row.state = "uploading" /\ row.finished = job[j].finished
      BY <2>1, ChangedRows
    <3> HIDE DEF row
    <3> QED BY <2>2, <3>1, <3>2
  <2>4. CASE Record(j) /\ transfer[j].kind = "copy"
    <3> DEFINE row == [job[j] EXCEPT !.state = "completed", !.finished = TRUE]
    <3>1. job' = [job EXCEPT ![j] = row]
      BY <2>4 DEF Record
    <3>2. row \in Row /\ row.state = "completed" /\ row.finished = TRUE
      BY <2>1, ChangedRows
    <3> HIDE DEF row
    <3> QED BY <2>2, <3>1, <3>2
  <2>5. CASE Record(j) /\ transfer[j].kind # "copy"
    <3> DEFINE row == [job[j] EXCEPT !.state = "started"]
    <3>1. job' = [job EXCEPT ![j] = row]
      BY <2>5 DEF Record
    <3>2. row \in Row /\ row.state = "started" /\ row.finished = job[j].finished
      BY <2>1, ChangedRows
    <3> HIDE DEF row
    <3> QED BY <2>2, <3>1, <3>2
  <2>6. CASE RecordFailed(j)
    <3> DEFINE again == IF transfer[j].kind = "fleet"
                        THEN transfer[j].step = "failing"
                        ELSE job[j].retryable
               row == Failed(job[j], again)
    <3>1. job' = [job EXCEPT ![j] = row]
      BY <2>6 DEF RecordFailed, Failed
    <3>2. again \in BOOLEAN
      <4>1. job[j].retryable \in BOOLEAN
        BY <2>1 DEF Row
      <4> QED BY <4>1
    <3> HIDE DEF again
    <3>3. row \in Row /\ row.state = "failed" /\ row.finished = TRUE
      BY <2>1, <3>2, FailedRow
    <3> HIDE DEF row
    <3> QED BY <2>2, <3>1, <3>3
  <2> QED BY <2>3, <2>4, <2>5, <2>6
<1>3. /\ job' \in [Jobs -> Row]
      /\ job'[j] = row /\ \A k \in Jobs \ {j} : job'[k] = job[k]
  BY <1>2, Types
<1>4. used' \in Counts /\ UNCHANGED <<phys, Hub, Asked>>
  BY Types, UsedTypes DEF Claim, Record, RecordFailed
<1>5. TypeOK'
  BY <1>1, <1>3, <1>4 DEF Hub, Asked, TypeOK, Sends, Counts
<1> QED BY <1>2, <1>3, <1>4, <1>5, HubStands DEF Hub, Asked, Exists, Grounded

\* The steps of a transfer at the printer, and a record that is lost.
LEMMA TransferTracking ==
    ASSUME Tracking, NEW j \in Jobs, Accept(j) \/ Copy(j) \/ Refuse(j) \/ RecordLost(j)
    PROVE  Tracking'
<1> USE DEF Tracking
<1>1. transfer' \in [Jobs -> Sends]
  <2>1. transfer \in [Jobs -> Sends]
    BY Types
  <2>2. \/ transfer' = [transfer EXCEPT ![j] = NoSend]
        \/ \E step \in {"accepted", "failing", "unknown"} : Step(j, step)
    <3>1. CASE Accept(j)
      BY <3>1 DEF Accept, Fails
    <3>2. CASE Copy(j) \/ Refuse(j)
      BY <3>2 DEF Copy, Refuse, Fails
    <3>3. CASE RecordLost(j)
      BY <3>3 DEF RecordLost
    <3> QED BY <3>1, <3>2, <3>3
  <2>3. CASE transfer' = [transfer EXCEPT ![j] = NoSend]
    BY <2>1, <2>3, SendTypes
  <2>4. CASE \E step \in {"accepted", "failing", "unknown"} : Step(j, step)
    BY <2>1, <2>4, StepType
  <2> QED BY <2>2, <2>3, <2>4
<1>2. phys' \in [state : PhysStates, file : Files \cup {NoFile}, run : Nat]
  <2>1. CASE Accept(j)
    <3>1. phys' = [state |-> "printing", file |-> job[j].file, run |-> phys.run + 1]
      BY <2>1 DEF Accept, Run
    <3>2. job[j].file \in Files \cup {NoFile} /\ phys.run + 1 \in Nat
      BY Types DEF Row
    <3> QED BY <3>1, <3>2 DEF PhysStates, Busy
  <2>2. CASE Copy(j) \/ Refuse(j) \/ RecordLost(j)
    BY <2>2, Types DEF Copy, Refuse, RecordLost
  <2> QED BY <2>1, <2>2
<1>3. used' \in Counts /\ UNCHANGED <<job, Hub, Asked>>
  BY Types, UsedTypes DEF Accept, Copy, Refuse, RecordLost
<1>4. TypeOK'
  BY <1>1, <1>2, <1>3 DEF Hub, Asked, TypeOK, Sends, Counts
<1> QED BY <1>3, <1>4, HubStands DEF Hub, Asked, Exists, Grounded

\* A report that is handed to a thread, and those that only note the printer's
\* status.
LEMMA ReportTracking ==
    ASSUME Tracking, Report \/ Unreachable
    PROVE  Tracking'
<1> USE DEF Tracking
<1>1. UNCHANGED <<Vault, worker, cache, notified, captured, used>>
  BY DEF Report, Unreachable
<1>2. ready' \in BOOLEAN
  <2>1. MapsToReady(phys.state) \in BOOLEAN /\ ready \in BOOLEAN
    BY DEF MapsToReady, TypeOK
  <2>2. ready' \in {MapsToReady(phys.state), ready, FALSE}
    BY DEF Report, Unreachable
  <2> QED BY <2>1, <2>2
<1> DEFINE new == [Idle EXCEPT !.pc = "called", !.state = phys.state,
                                !.file = phys.file, !.run = phys.run]
<1>3. sync' = sync \/ sync' = [sync EXCEPT ![worker] = new]
  BY DEF Report, Unreachable
<1>4. new \in Syncs /\ new.pc = "called"
  BY Types DEF Idle, Syncs, States
<1> HIDE DEF new
<1>5. /\ sync' \in [Generations -> Syncs]
      /\ \A t \in Generations \ {worker} : sync'[t] = sync[t]
      /\ sync'[worker] = sync[worker] \/ sync'[worker].pc = "called"
  BY <1>3, <1>4, Types
<1>6. TypeOK'
  BY <1>1, <1>2, <1>5 DEF TypeOK, Vault, Asked, Syncs
<1>7. Grounded' /\ Abandoned'
  <2>1. ASSUME NEW t \in Generations
        PROVE  \/ sync'[t] = sync[t]
               \/ t = worker /\ sync'[t].pc = "called"
    <3>1. CASE t = worker
      BY <1>5, <3>1
    <3>2. CASE t # worker
      BY <1>5, <3>2
    <3> QED BY <3>1, <3>2
  <2>2. worker \in Nat
    BY Types
  <2> QED BY <1>1, <2>1, <2>2 DEF Vault, Asked, Grounded, Exists, Abandoned
<1>8. Announcements'
  <2>1. sync'[worker].pc # "found" \/ sync'[worker] = sync[worker]
    BY <1>5
  <2>2. \A k \in Jobs : Open(k)' => Open(k)
    BY <1>1, <2>1 DEF Vault, Open
  <2>3. Late' \subseteq Late
    <3>1. worker \in Nat
      BY Types
    <3> QED BY <1>1, <1>5, <3>1, LateFalls
  <2> QED BY <1>1, <1>6, <2>2, <2>3, CalmNotices DEF Vault, Asked
<1> QED BY <1>1, <1>6, <1>7, <1>8 DEF Numbered

\* The row a report is found to be about exists.
LEMMA CachedExists ==
    ASSUME Tracking, NEW f, Cached(f) # 0
    PROVE  Cached(f) \in Jobs /\ Exists(Cached(f))
<1>1. CASE cache.file = f
  <2>1. Cached(f) = cache.job /\ cache.job \in Jobs \cup {0}
    BY <1>1, Types DEF Tracking, Cached
  <2> QED BY <2>1 DEF Tracking, Grounded
<1>2. CASE cache.file # f
  <2>1. Cached(f) = Latest(f)
    BY <1>2 DEF Cached
  <2>2. Latest(f) \in {j \in Jobs : Exists(j) /\ job[j].file = f} \cup {0}
    BY LatestExists
  <2> QED BY <2>1, <2>2
<1> QED BY <1>1, <1>2

\* A thread looks its row up: it remembers one that exists and is unfinished, whose end
\* is due.
LEMMA ReadTracking ==
    ASSUME Tracking, NEW t \in Generations, Read(t)
    PROVE  Tracking'
<1> USE DEF Tracking
<1> DEFINE s == sync[t]
           j == Cached(s.file)
<1>1. UNCHANGED <<Vault, ready, worker, notified, captured, used>> /\ s \in Syncs
  BY Types DEF Read
<1>2. t <= worker /\ s.pc = "called"
  BY DEF Read, Abandoned
<1>3. \/ /\ j \in Jobs /\ Exists(j) /\ ~job[j].finished
         /\ cache' = [file |-> s.file, job |-> j]
         /\ sync' = [sync EXCEPT ![t] =
                       [s EXCEPT !.pc = "found", !.job = j, !.read = job[j].state]]
      \/ /\ cache' \in {cache, NoCache}
         /\ sync' \in {[sync EXCEPT ![t].pc = "missing"], [sync EXCEPT ![t] = Idle]}
  <2>1. j # 0 => j \in Jobs /\ Exists(j)
    BY CachedExists
  <2> QED BY <2>1 DEF Read
<1>4. CASE sync' = [sync EXCEPT ![t] =
                      [s EXCEPT !.pc = "found", !.job = j, !.read = job[j].state]]
           /\ j \in Jobs /\ Exists(j) /\ ~job[j].finished
           /\ cache' = [file |-> s.file, job |-> j]
  <2> DEFINE new == [s EXCEPT !.pc = "found", !.job = j, !.read = job[j].state]
  <2>1. /\ new \in Syncs /\ new.pc = "found" /\ new.job = j
        /\ new.read = job[j].state /\ new.read # "absent"
    BY <1>1, <1>4, Types DEF Syncs, Row, Exists
  <2> HIDE DEF new, j
  <2>2. /\ sync' \in [Generations -> Syncs] /\ sync'[t] = new
        /\ \A u \in Generations \ {t} : sync'[u] = sync[u]
    BY <1>4, <2>1, Types DEF new
  <2>3. cache' \in [file : Files \cup {NoFile}, job : Jobs \cup {0}] /\ cache'.job = j
    BY <1>1, <1>4 DEF Syncs
  <2>4. TypeOK'
    BY <1>1, <2>2, <2>3 DEF TypeOK, Vault, Asked, Syncs
  <2>5. Grounded'
    BY <1>1, <1>4, <2>1, <2>2, <2>3 DEF Vault, Asked, Grounded, Exists
  <2>6. Abandoned' /\ Numbered'
    BY <1>1, <1>2, <2>2 DEF Abandoned, Numbered
  <2>7. \A k \in Jobs : Open(k)' => Open(k)
    <3>1. worker' = worker /\ job' = job
      BY <1>1 DEF Vault
    <3>2. CASE t = worker
      BY <1>4, <2>1, <2>2, <3>1, <3>2 DEF Open, j
    <3>3. CASE t # worker
      <4>1. sync'[worker] = sync[worker]
        BY <2>2, <3>3 DEF TypeOK
      <4> QED BY <3>1, <4>1 DEF Open
    <3> QED BY <3>2, <3>3
  <2>8. Announcements'
    <3>1. Late' \subseteq Late
      <4>1. worker \in Nat
        BY Types
      <4> QED BY <1>1, <1>2, <2>2, <4>1, LateFalls
    <3> QED BY <1>1, <2>4, <2>7, <3>1, CalmNotices DEF Vault, Asked
  <2> QED BY <2>4, <2>5, <2>6, <2>8
<1>5. CASE /\ cache' \in {cache, NoCache}
           /\ sync' \in {[sync EXCEPT ![t].pc = "missing"], [sync EXCEPT ![t] = Idle]}
  <2>1. /\ [s EXCEPT !.pc = "missing"] \in Syncs /\ [s EXCEPT !.pc = "missing"].pc = "missing"
        /\ Idle \in Syncs /\ Idle.pc = "idle"
    BY <1>1 DEF Syncs, Idle, PhysStates, States
  <2>2. /\ sync' \in [Generations -> Syncs] /\ sync'[t].pc \in {"missing", "idle"}
        /\ \A u \in Generations \ {t} : sync'[u] = sync[u]
    BY <1>5, <2>1, Types
  <2>3. /\ cache' \in [file : Files \cup {NoFile}, job : Jobs \cup {0}]
        /\ cache'.job \in {cache.job, 0}
    BY <1>5, Types DEF NoCache
  <2>4. TypeOK'
    BY <1>1, <2>2, <2>3 DEF TypeOK, Vault, Asked, Syncs
  <2>5. Grounded'
    BY <1>1, <2>2, <2>3 DEF Vault, Asked, Grounded, Exists
  <2>6. Abandoned' /\ Numbered'
    BY <1>1, <1>2, <2>2 DEF Abandoned, Numbered
  <2>7. Announcements'
    <3>1. worker' = worker /\ job' = job /\ worker \in Generations
      BY <1>1, Types DEF Vault
    <3>2. \A k \in Jobs : Open(k)' => Open(k)
      BY <2>2, <3>1 DEF Open
    <3>3. Late' \subseteq Late
      <4>1. worker \in Nat
        BY Types
      <4> QED BY <1>1, <1>2, <2>2, <4>1, LateFalls
    <3> QED BY <1>1, <2>4, <3>2, <3>3, CalmNotices DEF Vault, Asked
  <2> QED BY <2>4, <2>5, <2>6, <2>7
<1> QED BY <1>3, <1>4, <1>5

\* A placeholder is a row that did not exist, so nobody has finished it.
LEMMA CaptureTracking ==
    ASSUME Tracking, NEW t \in Generations, Capture(t)
    PROVE  Tracking'
<1> USE DEF Tracking
<1> DEFINE s == sync[t]
           row == [NoRow EXCEPT !.state = "queued", !.file = s.file,
                                !.source = "external"]
<1>1. PICK j \in Jobs :
        /\ NextId(j)
        /\ job' = [job EXCEPT ![j] = row]
        /\ cache' = [file |-> s.file, job |-> j]
        /\ sync' = [sync EXCEPT ![t] =
                      [s EXCEPT !.pc = "found", !.job = j, !.read = row.state]]
  BY DEF Capture
<1>2. /\ UNCHANGED <<phys, transfer, Asked, ready, worker, notified, used>>
      /\ s.pc = "missing"
  BY DEF Capture
<1>3. s \in Syncs
  BY Types
<1>4. row \in Row /\ row.state = "queued" /\ ~row.finished
  BY <1>3 DEF Syncs, Row, NoRow, States
<1> DEFINE new == [s EXCEPT !.pc = "found", !.job = j, !.read = row.state]
<1>5. new \in Syncs /\ new.pc = "found" /\ new.job = j /\ new.read # "absent"
  <2> HIDE DEF row
  <2>1. row.state \in States /\ row.state # "absent"
    BY <1>4 DEF States
  <2> QED BY <1>3, <2>1 DEF Syncs
<1> HIDE DEF row, new
<1>6. /\ job' \in [Jobs -> Row] /\ job'[j] = row /\ ~Exists(j)
      /\ \A k \in Jobs \ {j} : job'[k] = job[k]
  BY <1>1, <1>4, Types DEF NextId
<1>7. /\ sync' \in [Generations -> Syncs] /\ sync'[t] = new
      /\ \A u \in Generations \ {t} : sync'[u] = sync[u]
  BY <1>1, <1>5, Types DEF new
<1>8. cache' \in [file : Files \cup {NoFile}, job : Jobs \cup {0}] /\ cache'.job = j
  BY <1>1, <1>3 DEF Syncs
<1>9. captured' \in [1..MaxRuns -> Nat]
  <2>1. captured' = [captured EXCEPT ![s.run] = @ + 1]
    BY DEF Capture
  <2>2. captured \in [1..MaxRuns -> Nat]
    BY Types
  <2>3. CASE s.run \in 1..MaxRuns
    <3>1. captured[s.run] + 1 \in Nat
      BY <2>2, <2>3
    <3> QED BY <2>1, <2>2, <3>1
  <2>4. CASE s.run \notin 1..MaxRuns
    BY <2>1, <2>2, <2>4
  <2> QED BY <2>3, <2>4
<1>10. TypeOK'
  BY <1>2, <1>6, <1>7, <1>8, <1>9 DEF TypeOK, Syncs, Asked
<1>11. Grounded'
  BY <1>4, <1>5, <1>6, <1>7, <1>8 DEF Grounded, Exists
<1>12. Abandoned' /\ Numbered'
  BY <1>2, <1>7 DEF Abandoned, Numbered
<1>13. \A k \in Jobs : Open(k)' => Open(k)
  <2>1. ~job[j].finished
    BY <1>6 DEF Grounded
  <2>2. Open(j)
    BY <2>1 DEF Open
  <2>3. sync'[worker] = sync[worker] \/ (sync'[worker] = new)
    BY <1>7, Types
  <2>4. ASSUME NEW k \in Jobs \ {j} PROVE Open(k)' => Open(k)
    BY <1>2, <1>5, <1>6, <2>3, <2>4 DEF Open
  <2> QED BY <2>2, <2>4
<1>14. Announcements'
  <2>1. Late' \subseteq Late
    <3>1. worker \in Nat
      BY Types
    <3> QED BY <1>2, <1>7, <3>1, LateFalls
  <2>2. \A k \in Jobs : job[k].finished => job'[k].finished
    BY <1>6 DEF Grounded
  <2> QED BY <1>2, <1>10, <1>13, <2>1, <2>2, CalmNotices DEF Asked
<1> QED BY <1>10, <1>11, <1>12, <1>14

\* The commit of a report: when it announces the job's end it finishes the row,
\* and there is one thread less to announce it.
LEMMA WriteTracking ==
    ASSUME Tracking, NEW t \in Generations, Write(t)
    PROVE  Tracking'
<1> USE DEF Tracking
<1> DEFINE s == sync[t]
           j == s.job
           new == NewState(s.state, s.read)
           finished == new \in Terminal
           row == [job[j] EXCEPT !.state = IF new # s.read THEN new ELSE @,
                                 !.finished = @ \/ finished]
<1>1. /\ s \in Syncs /\ s.pc = "found" /\ j \in Jobs /\ Exists(j) /\ s.read # "absent"
      /\ job[j] \in Row
  BY Types DEF Write, Grounded
<1>2. new \in States \ {"absent"}
  BY <1>1, NewStateType DEF NewState, Syncs
<1>3. /\ job' = [job EXCEPT ![j] = row]
      /\ notified' = [notified EXCEPT ![j] = IF finished THEN @ + 1 ELSE @]
      /\ sync' = [sync EXCEPT ![t] = Idle]
      /\ UNCHANGED <<phys, transfer, Asked, ready, worker, cache, captured, used>>
  <2>1. job' = [job EXCEPT ![j] = row]
    <3>1. job' = [job EXCEPT ![j].state = IF new # s.read THEN new ELSE @,
                             ![j].finished = @ \/ finished]
      BY DEF Write
    <3>2. job \in [Jobs -> Row]
      BY Types
    <3> QED BY <1>1, <3>1, <3>2
  <2>2. notified' = [notified EXCEPT ![j] = IF finished THEN @ + 1 ELSE @]
    BY DEF Write
  <2> QED BY <2>1, <2>2 DEF Write
<1>4. finished \in BOOLEAN
  OBVIOUS
<1>5. /\ row \in Row /\ row.state # "absent"
      /\ row.finished = (job[j].finished \/ finished)
  <2> HIDE DEF new, finished
  <2>1. (job[j].finished \/ finished) \in BOOLEAN
    OBVIOUS
  <2>2. job[j].state # "absent"
    BY <1>1 DEF Exists
  <2> QED BY <1>1, <1>2, <2>1, <2>2 DEF Row
<1> HIDE DEF new, finished, row
<1>6. /\ job' \in [Jobs -> Row] /\ job'[j] = row
      /\ \A k \in Jobs \ {j} : job'[k] = job[k]
  BY <1>1, <1>3, <1>5, Types
<1>7. /\ notified' \in [Jobs -> Nat]
      /\ notified'[j] = IF finished THEN notified[j] + 1 ELSE notified[j]
      /\ \A k \in Jobs \ {j} : notified'[k] = notified[k]
  BY <1>1, <1>3, Types
<1>8. /\ sync' \in [Generations -> Syncs] /\ sync'[t].pc = "idle"
      /\ \A u \in Generations \ {t} : sync'[u] = sync[u]
  <2>1. Idle \in Syncs /\ Idle.pc = "idle"
    BY DEF Idle, Syncs, PhysStates, States
  <2> QED BY <1>3, <2>1, Types
<1>9. TypeOK'
  BY <1>3, <1>6, <1>7, <1>8 DEF TypeOK, Syncs, Asked
<1>10. Grounded'
  BY <1>3, <1>5, <1>6, <1>8 DEF Grounded, Exists
<1>11. Abandoned' /\ Numbered'
  BY <1>3, <1>8 DEF Abandoned, Numbered
<1>12. ASSUME NEW k \in Jobs
       PROVE  /\ notified'[k] > retried'[k].notices => job'[k].finished
              /\ notified'[k] + Due(k)' + Cardinality(Late)'
                   <= 1 + worker' + retried'[k].times
  <2>1. /\ worker \in Nat /\ notified[k] \in Nat /\ retried[k].times \in Nat
        /\ worker' = worker /\ retried' = retried
        /\ Cardinality(Late) \in Nat
    BY <1>3, Types, LateFinite DEF Retries, Asked
  <2>2. Due(k) \in {0, 1} /\ Due(k)' \in {0, 1} /\ (Open(k) => Due(k) = 1)
        /\ ((Open(k)' => Open(k)) => Due(k)' <= Due(k)) /\ (~Open(k)' => Due(k)' = 0)
    BY DueNumber
  <2>3. /\ notified[k] > retried[k].notices => job[k].finished
        /\ notified[k] + Due(k) + Cardinality(Late) <= 1 + worker + retried[k].times
    BY DEF Announcements
  <2>4. Open(k)' => Open(k)
    <3>1. job[k].finished => job'[k].finished
      BY <1>5, <1>6
    <3>2. sync'[worker] = sync[worker] \/ sync'[worker].pc = "idle"
      BY <1>8, Types
    <3> QED BY <2>1, <3>1, <3>2 DEF Open
  <2>5. /\ Cardinality(Late)' \in Nat /\ Cardinality(Late)' <= Cardinality(Late)
        /\ t # worker => Cardinality(Late)' + 1 <= Cardinality(Late)
    <3>1. CASE t = worker
      <4>1. Left \subseteq Generations /\ worker \notin Left
        BY <2>1 DEF Left, Numbered
      <4>2. Left' = Left /\ \A u \in Left : sync'[u] = sync[u]
        BY <1>8, <2>1, <3>1, <4>1 DEF Left
      <4>3. Late' = Late
        BY <4>2 DEF Late
      <4> QED BY <2>1, <3>1, <4>3
    <3>2. CASE t # worker
      <4>1. t \in Left /\ Left \subseteq Generations
        BY <1>1, <2>1, <3>2, GenerationsAssumption DEF Left, Abandoned, Numbered
      <4>2. Cardinality(Late)' \in Nat /\ Cardinality(Late)' + 1 <= Cardinality(Late)
        BY <1>1, <1>8, <2>1, <4>1, LateStops
      <4> QED BY <2>1, <4>2
    <3> QED BY <3>1, <3>2
  <2>6. notified'[k] > retried'[k].notices => job'[k].finished
    <3>1. CASE k = j
      BY <1>5, <1>6, <1>7, <2>1, <2>3, <3>1
    <3>2. CASE k # j
      BY <1>6, <1>7, <2>1, <2>3, <3>2
    <3> QED BY <3>1, <3>2
  <2>7. CASE notified'[k] = notified[k]
    <3> HIDE DEF Due, Late, Open
    <3> QED BY <2>1, <2>2, <2>3, <2>4, <2>5, <2>6, <2>7
  <2>8. CASE k = j /\ finished /\ notified'[k] = notified[k] + 1
    <3>1. t = worker => Open(k) /\ ~Open(k)'
      <4>1. t = worker => Open(k)
        BY <1>1, <2>8 DEF Open
      <4>2. t = worker => ~Open(k)'
        BY <1>5, <1>6, <1>8, <2>1, <2>8 DEF Open
      <4> QED BY <4>1, <4>2
    <3> HIDE DEF Due, Late, Open
    <3>2. Due(k)' + Cardinality(Late)' + 1 <= Due(k) + Cardinality(Late)
      <4>1. CASE t = worker
        BY <2>1, <2>2, <2>5, <3>1, <4>1
      <4>2. CASE t # worker
        BY <2>1, <2>2, <2>4, <2>5, <4>2
      <4> QED BY <4>1, <4>2
    <3> QED BY <2>1, <2>2, <2>3, <2>5, <2>6, <2>8, <3>2
  <2> QED BY <1>7, <2>7, <2>8
<1>13. Announcements'
  BY <1>3, <1>12 DEF Announcements
<1> QED BY <1>9, <1>10, <1>11, <1>13

\* A sync that raises, a worker that is replaced and a process that restarts.
LEMMA MishapTracking ==
    ASSUME Tracking, Restart \/ Crash \/ \E t \in Generations : Fault(t)
    PROVE  Tracking'
<1> USE DEF Tracking
<1>1. used' \in Counts
  BY Types, UsedTypes DEF Restart, Crash, Fault
<1>2. Idle \in Syncs /\ Idle.pc = "idle"
  BY DEF Idle, Syncs, PhysStates, States
<1>3. CASE Restart
  <2>1. /\ UNCHANGED <<Vault, ready, sync, cache, notified, captured>>
        /\ worker' = worker + 1 /\ worker' \in Generations
    BY <1>3 DEF Restart
  <2>2. worker \in Nat
    BY Types
  <2>3. TypeOK'
    BY <1>1, <2>1 DEF TypeOK, Vault, Asked, Counts
  <2>4. Grounded'
    BY <2>1 DEF Grounded, Exists, Vault, Asked
  <2>5. Abandoned'
    BY <2>1, <2>2, GenerationsAssumption DEF Abandoned
  <2>6. Numbered'
    BY <2>1, <2>2 DEF Numbered
  <2>7. Cardinality(Late)' \in Nat /\ Cardinality(Late)' <= Cardinality(Late) + 1
    <3>1. Late' \in SUBSET (Late \cup {worker})
      <4>1. Left' \subseteq Left \cup {worker}
        BY <2>1, <2>2 DEF Left
      <4>2. sync' = sync
        BY <2>1
      <4> QED BY <4>1, <4>2 DEF Late
    <3>2. /\ IsFiniteSet(Late \cup {worker})
          /\ Cardinality(Late \cup {worker}) <= Cardinality(Late) + 1
          /\ Cardinality(Late \cup {worker}) \in Nat
      <4>1. IsFiniteSet(Late) /\ Cardinality(Late) \in Nat
        BY <2>2, LateFinite
      <4>2. /\ IsFiniteSet(Late \cup {worker})
            /\ Cardinality(Late \cup {worker}) = Cardinality(Late)
               \/ Cardinality(Late \cup {worker}) = Cardinality(Late) + 1
        <5> HIDE DEF Late
        <5> QED BY <4>1, FS_AddElement
      <4> HIDE DEF Late
      <4> QED BY <4>1, <4>2
    <3>3. /\ Cardinality(Late') <= Cardinality(Late \cup {worker})
          /\ Cardinality(Late') \in Nat
      BY <3>1, <3>2, FS_Subset, FS_CardinalityType
    <3> QED BY <2>2, <3>2, <3>3, LateFinite
  <2>8. ASSUME NEW j \in Jobs
        PROVE  notified[j] + Due(j)' + Cardinality(Late)' <= 1 + worker' + retried[j].times
    <3>1. /\ notified[j] \in Nat /\ Cardinality(Late) \in Nat /\ retried[j].times \in Nat
          /\ notified[j] + Due(j) + Cardinality(Late) <= 1 + worker + retried[j].times
      BY <2>2, Types, LateFinite DEF Announcements, Retries
    <3>2. sync[worker'].pc = "idle" /\ sync' = sync /\ job' = job
      BY <2>1, <2>2 DEF Abandoned, Vault
    <3>3. Open(j)' => Open(j)
      BY <3>2 DEF Open
    <3>4. Due(j) \in {0, 1} /\ Due(j)' \in {0, 1} /\ Due(j)' <= Due(j)
      BY <3>3, DueNumber
    <3> HIDE DEF Due, Late
    <3> QED BY <2>1, <2>2, <2>7, <3>1, <3>4
  <2>9. Announcements'
    BY <2>1, <2>8 DEF Announcements, Vault, Asked
  <2> QED BY <2>3, <2>4, <2>5, <2>6, <2>9
<1>4. CASE Crash
  <2>1. UNCHANGED <<phys, ready, worker, notified, retried, captured>> /\ pending' = NoPending
    BY <1>4 DEF Crash
  <2>2. /\ sync' \in [Generations -> Syncs]
        /\ \A t \in Generations : sync'[t].pc = "idle"
        /\ cache' = NoCache /\ cache'.job = 0
        /\ cache' \in [file : Files \cup {NoFile}, job : Jobs \cup {0}]
    BY <1>2, <1>4 DEF Crash, NoCache
  <2>3. transfer' \in [Jobs -> Sends]
    BY <1>4 DEF Crash, NoSend, Sends
  <2>4. \A j \in Jobs :
          /\ Failed(job[j], FALSE) \in Row
          /\ Failed(job[j], FALSE).state = "failed"
          /\ Failed(job[j], FALSE).finished = TRUE
    <3>1. \A j \in Jobs : job[j] \in Row
      BY Types
    <3> QED BY <3>1, FailedRow
  <2>5. \A j \in Jobs : \/ job'[j] = job[j]
                        \/ job'[j] = Failed(job[j], FALSE)
    BY <1>4 DEF Crash, Failed
  <2>6. job' \in [Jobs -> Row]
    BY <1>4, <2>4, Types DEF Crash, Failed
  <2>7. TypeOK'
    BY <1>1, <2>1, <2>2, <2>3, <2>6, PendingTypes DEF TypeOK, Sends, Syncs, Counts, Requests
  <2>8. \A j \in Jobs : /\ job[j].finished => job'[j].finished
                        /\ ~Exists(j)' => ~job'[j].finished
    BY <2>4, <2>5 DEF Exists, Grounded
  <2>9. Grounded' /\ Abandoned' /\ Numbered'
    BY <2>1, <2>2, <2>8 DEF Grounded, Abandoned, Numbered
  <2>10. Announcements'
    <3>1. \A j \in Jobs : Open(j)' => Open(j)
      BY <2>1, <2>2, <2>8, Types DEF Open
    <3>2. Late' \subseteq Late
      <4>1. worker \in Nat
        BY Types
      <4> QED BY <2>1, <2>2, <4>1, LateFalls
    <3> QED BY <2>1, <2>7, <2>8, <3>1, <3>2, CalmNotices
  <2> QED BY <2>7, <2>9, <2>10
<1>5. ASSUME NEW t \in Generations, Fault(t) PROVE Tracking'
  <2>1. UNCHANGED <<Vault, ready, worker, cache, notified, captured>>
    BY <1>5 DEF Fault
  <2>2. /\ sync' \in [Generations -> Syncs] /\ sync'[t].pc = "idle"
        /\ \A u \in Generations \ {t} : sync'[u] = sync[u]
    BY <1>2, <1>5, Types DEF Fault
  <2>3. TypeOK'
    BY <1>1, <2>1, <2>2 DEF TypeOK, Vault, Asked, Syncs, Counts
  <2>4. Grounded' /\ Abandoned' /\ Numbered'
    BY <2>1, <2>2 DEF Vault, Asked, Grounded, Exists, Abandoned, Numbered
  <2>5. Announcements'
    <3>1. sync'[worker] = sync[worker] \/ sync'[worker].pc = "idle"
      BY <2>2, Types
    <3>2. \A j \in Jobs : Open(j)' => Open(j)
      BY <2>1, <3>1 DEF Vault, Open
    <3>3. Late' \subseteq Late
      <4>1. worker \in Nat
        BY Types
      <4> QED BY <2>1, <2>2, <4>1, LateFalls
    <3> QED BY <2>1, <2>3, <3>2, <3>3, CalmNotices DEF Vault, Asked
  <2> QED BY <2>3, <2>4, <2>5
<1> QED BY <1>3, <1>4, <1>5

-----------------------------------------------------------------------------
(* The invariant *)

\* At the start there is no row, no report and no announcement.
LEMMA TrackingInit == Init => Tracking
<1> SUFFICES ASSUME Init PROVE Tracking
  OBVIOUS
<1>1. TypeOK
  BY GenerationsAssumption DEF Init, TypeOK, NoRow, Row, States, PhysStates, NoSend, Idle,
                               NoCache, NoPending
<1>2. Grounded /\ Abandoned
  BY DEF Init, Grounded, Exists, NoRow, NoCache, Idle, Abandoned
<1>3. Numbered
  BY GenerationsAssumption DEF Init, Numbered
<1>4. Late = {}
  BY DEF Init, Late, Left
<1>5. Announcements
  <2>1. worker = 0 /\ \A j \in Jobs : /\ notified[j] = 0 /\ retried[j].times = 0
                                     /\ retried[j].notices = 0
    BY DEF Init
  <2>2. Cardinality(Late) = 0
    BY <1>4, FS_EmptySet
  <2>3. \A j \in Jobs : Due(j) \in {0, 1}
    BY DueNumber
  <2> HIDE DEF Due, Late
  <2> QED BY <2>1, <2>2, <2>3 DEF Announcements
<1> QED BY <1>1, <1>2, <1>3, <1>5 DEF Tracking

\* Every step keeps the rows and the announcements together.
LEMMA TrackingStep == Tracking /\ [Next]_vars => Tracking'
<1> SUFFICES ASSUME Tracking, [Next]_vars PROVE Tracking'
  OBVIOUS
<1>1. ASSUME NEW j \in Jobs, NEW f \in Files, Enqueue(j, f) \/ Send(j, f)
      PROVE  Tracking'
  <2>1. /\ [NoRow EXCEPT !.state = "queued", !.file = f] \in Row
        /\ [NoRow EXCEPT !.state = "queued", !.file = f].state = "queued"
        /\ [NoRow EXCEPT !.state = "uploading", !.file = f] \in Row
        /\ [NoRow EXCEPT !.state = "uploading", !.file = f].state = "uploading"
    BY DEF NoRow, Row, States
  <2>2. CASE Enqueue(j, f)
    BY <2>1, <2>2, RequestTracking DEF Enqueue
  <2>3. CASE Send(j, f)
    BY <2>1, <2>3, RequestTracking DEF Send
  <2> QED BY <1>1, <2>2, <2>3
<1>2. ASSUME NEW j \in Jobs, NEW f \in Files, NEW source \in {"vault", "external"},
             StartFile(j, f, source)
      PROVE  Tracking'
  <2>1. /\ [NoRow EXCEPT !.state = "started", !.file = f, !.source = source] \in Row
        /\ [NoRow EXCEPT !.state = "started", !.file = f, !.source = source].state = "started"
    BY DEF NoRow, Row, States
  <2> QED BY <1>2, <2>1, RequestTracking DEF StartFile
<1>3. CASE UNCHANGED vars
  BY <1>3 DEF vars, Tracking, TypeOK, Grounded, Exists, Abandoned, Numbered, Announcements,
              Due, Open, Late, Left
<1> QED BY <1>1, <1>2, <1>3, PrinterTracking, AskTracking, CancelTracking, RetryTracking,
           RecordTracking, TransferTracking, ReportTracking, ReadTracking, CaptureTracking, WriteTracking,
           MishapTracking DEF Next, SyncStep

\* Rows and announcements fit together in every state.
THEOREM TrackingInvariant == Spec => []Tracking
BY TrackingInit, TrackingStep, PTL DEF Spec

\* The variables have their types in every state.
THEOREM TypeCorrect == Spec => []TypeOK
<1>1. Tracking => TypeOK
  BY DEF Tracking
<1> QED BY <1>1, TrackingInvariant, PTL

\* A job announced since it was last queued is finished, whatever requests, sends,
\* cancels, reports and restarts come together.
THEOREM AnnouncedIsFinished == Spec => []NoticeMeansFinished
<1>1. Tracking => NoticeMeansFinished
  BY DEF Tracking, Announcements, NoticeMeansFinished
<1> QED BY <1>1, TrackingInvariant, PTL

\* A job's end is announced at most once for each worker there has been and each retry.
THEOREM AnnouncedOncePerCause == Spec => []NoticesPaidFor
<1>1. ASSUME Tracking, NEW j \in Jobs
      PROVE  notified[j] <= 1 + worker + retried[j].times
  <2>1. /\ worker \in Nat /\ notified[j] \in Nat /\ retried[j].times \in Nat
        /\ Cardinality(Late) \in Nat /\ Due(j) \in {0, 1}
    BY <1>1, Types, LateFinite, DueNumber DEF Tracking, Retries
  <2>2. notified[j] + Due(j) + Cardinality(Late) <= 1 + worker + retried[j].times
    BY <1>1 DEF Tracking, Announcements
  <2> HIDE DEF Due, Late
  <2> QED BY <2>1, <2>2
<1>2. Tracking => NoticesPaidFor
  BY <1>1 DEF NoticesPaidFor
<1> QED BY <1>2, TrackingInvariant, PTL

-----------------------------------------------------------------------------
(* What a run is captured by *)

\* What the threads of replaced workers may still do to the row of a run: insert a
\* placeholder, put another row into the cache, end a row with an old report.  A
\* thread that has read nothing may do two of these.
OneLeft == {t \in Left : \/ sync[t].pc \in {"called", "missing"}
                         \/ sync[t].pc = "found" /\ sync[t].state \notin Busy}
TwoLeft == {t \in Left : \/ sync[t].pc = "called"
                         \/ sync[t].pc = "missing" /\ sync[t].state \notin Busy}
Owed == Cardinality(OneLeft) + Cardinality(TwoLeft)

\* The printer is busy with run r, or the report the worker is about to look at says so.
Printing(r) == phys.run = r /\ phys.state \in Busy
Called(r) == /\ sync[worker].pc = "called" /\ sync[worker].run = r
             /\ sync[worker].state \in Busy

\* The cached row is a placeholder of file f, unfinished, and no transfer will finish
\* it: as it is a placeholder, only a mishap lets one begin.
Tracks(f) == /\ cache.file = f /\ cache.job \in Jobs
             /\ ~job[cache.job].finished /\ job[cache.job].source = "external"
             /\ transfer[cache.job].step = "done"

\* A run that has been captured and will not be captured again by the worker.
Covered(r) ==
    /\ captured[r] > 0
    /\ ~(sync[worker].pc = "missing" /\ sync[worker].run = r)
    /\ Called(r) => Tracks(sync[worker].file)
    /\ Printing(r) => Tracks(phys.file)

\* The placeholders of a run, with those that are still to come.
Captures(r) == captured[r] + (IF Covered(r) THEN 0 ELSE 1) + Owed
Placeholders == \A r \in 1..MaxRuns : Captures(r) <= 1 + used.mishaps + worker

\* Reports are processed in the order of the runs, but for those of replaced workers,
\* which are older.
Ordered ==
    /\ \A t \in Generations : sync[t].pc # "idle" =>
         /\ sync[t].run <= phys.run
         /\ sync[t].run = phys.run => /\ phys.file \in {sync[t].file, NoFile}
                                      /\ phys.state \in Busy =>
                                           /\ sync[t].state \in Busy
                                           /\ sync[t].file = phys.file
         /\ sync[worker].pc # "idle" =>
              /\ sync[t].run <= sync[worker].run
              /\ sync[t].run = sync[worker].run => sync[t].file = sync[worker].file
    /\ \A r \in 1..MaxRuns : captured[r] > 0 =>
         /\ r <= phys.run
         /\ sync[worker].pc # "idle" => r <= sync[worker].run

\* A run that has been captured has a row.
HasRow(f) == \E j \in Jobs : Exists(j) /\ job[j].file = f
Rowed ==
    \A r \in 1..MaxRuns : captured[r] > 0 =>
        /\ phys.run = r => phys.file = NoFile \/ HasRow(phys.file)
        /\ sync[worker].pc # "idle" /\ sync[worker].run = r => HasRow(sync[worker].file)

\* What does not exist is not being sent.
Unsent == \A j \in Jobs : ~Exists(j) => transfer[j].step = "done"

\* What is cached, and what a thread works on, has a file name.
Named == /\ cache.job = 0 <=> cache.file = NoFile
         /\ \A t \in Generations : sync[t].pc # "idle" => sync[t].file # NoFile

Capturing == Ordered /\ Rowed /\ Unsent /\ Named /\ Placeholders

-----------------------------------------------------------------------------
(* Counting what replaced workers have left *)

\* The parts of the types these proofs need.
LEMMA Parts ==
    ASSUME TypeOK
    PROVE  /\ worker \in Nat /\ worker \in Generations /\ phys.run \in Nat
           /\ used.mishaps \in Nat /\ \A r \in 1..MaxRuns : r \in Nat /\ captured[r] \in Nat
           /\ \A t \in Generations : t \in Nat /\ sync[t] \in Syncs /\ sync[t].run \in Nat
           /\ cache.job \in Jobs \cup {0} /\ 0 \notin Jobs
<1>1. \A t \in Generations : sync[t] \in Syncs
  BY Types
<1>2. \A t \in Generations : sync[t].run \in Nat
  BY <1>1 DEF Syncs
<1>3. phys.run \in Nat /\ used.mishaps \in Nat /\ cache.job \in Jobs \cup {0}
  BY Types DEF Counts
<1>4. \A r \in 1..MaxRuns : r \in Nat /\ captured[r] \in Nat
  BY Types, BoundsAssumption
<1> QED BY <1>1, <1>2, <1>3, <1>4, Types, GenerationsAssumption, JobsAssumption

\* There is a number of it.
LEMMA OwedFinite ==
    ASSUME worker \in Nat
    PROVE  /\ IsFiniteSet(OneLeft) /\ Cardinality(OneLeft) \in Nat
           /\ IsFiniteSet(TwoLeft) /\ Cardinality(TwoLeft) \in Nat
           /\ Owed \in Nat
<1>1. IsFiniteSet(Left)
  BY FS_Interval DEF Left
<1>2. OneLeft \in SUBSET Left /\ TwoLeft \in SUBSET Left
  BY DEF OneLeft, TwoLeft
<1> QED BY <1>1, <1>2, FS_Subset, FS_CardinalityType DEF Owed

\* It does not grow while threads of replaced workers only move on.
LEMMA OwedFalls ==
    ASSUME worker \in Nat, worker' \in Nat, OneLeft' \subseteq OneLeft,
           TwoLeft' \subseteq TwoLeft
    PROVE  /\ Owed' \in Nat /\ Owed' <= Owed
           /\ (OneLeft' # OneLeft \/ TwoLeft' # TwoLeft) => Owed' + 1 <= Owed
<1>1. /\ Cardinality(OneLeft') \in Nat /\ Cardinality(OneLeft) \in Nat
      /\ Cardinality(TwoLeft') \in Nat /\ Cardinality(TwoLeft) \in Nat
      /\ Owed = Cardinality(OneLeft) + Cardinality(TwoLeft)
      /\ Owed' = Cardinality(OneLeft') + Cardinality(TwoLeft')
  BY OwedFinite, FS_Subset, FS_CardinalityType DEF Owed
<1>2. /\ Cardinality(OneLeft') <= Cardinality(OneLeft)
      /\ OneLeft' # OneLeft => Cardinality(OneLeft') # Cardinality(OneLeft)
      /\ Cardinality(TwoLeft') <= Cardinality(TwoLeft)
      /\ TwoLeft' # TwoLeft => Cardinality(TwoLeft') # Cardinality(TwoLeft)
  BY OwedFinite, FS_Subset
<1> QED BY <1>1, <1>2

\* The sum keeps its bound when nothing is captured and what is owed only falls,
\* unless a mishap pays for a run that is uncovered.
LEMMA CalmPlaceholders ==
    ASSUME TypeOK, TypeOK', Placeholders, UNCHANGED <<worker, captured>>,
           OneLeft' \subseteq OneLeft, TwoLeft' \subseteq TwoLeft,
           \/ /\ used'.mishaps = used.mishaps
              /\ \/ \A r \in 1..MaxRuns : Covered(r) => Covered(r)'
                 \/ OneLeft' # OneLeft \/ TwoLeft' # TwoLeft
           \/ used'.mishaps = used.mishaps + 1
    PROVE  Placeholders'
<1> SUFFICES ASSUME NEW r \in 1..MaxRuns
             PROVE  Captures(r)' <= 1 + used'.mishaps + worker'
  BY DEF Placeholders
<1>1. /\ worker \in Nat /\ captured[r] \in Nat /\ used.mishaps \in Nat
      /\ Owed \in Nat /\ Owed' \in Nat /\ Owed' <= Owed
      /\ (OneLeft' # OneLeft \/ TwoLeft' # TwoLeft) => Owed' + 1 <= Owed
  BY Parts, OwedFinite, OwedFalls
<1>2. captured[r] + (IF Covered(r) THEN 0 ELSE 1) + Owed <= 1 + used.mishaps + worker
  BY DEF Placeholders, Captures
<1>3. captured[r] + (IF Covered(r)' THEN 0 ELSE 1) + Owed' <= 1 + used'.mishaps + worker
  <2> DEFINE bare == IF Covered(r) THEN 0 ELSE 1
             now == IF Covered(r)' THEN 0 ELSE 1
  <2>1. /\ bare \in {0, 1} /\ now \in {0, 1}
        /\ (Covered(r) => Covered(r)') => now = 0 \/ bare = 1
    BY Zenon
  <2>2. captured[r] + bare + Owed <= 1 + used.mishaps + worker
    BY <1>2
  <2> HIDE DEF bare, now
  <2>3. \/ used'.mishaps = used.mishaps /\ (now = 0 \/ bare = 1 \/ Owed' + 1 <= Owed)
        \/ used'.mishaps = used.mishaps + 1
    BY <1>1, <2>1
  <2>4. captured[r] + now + Owed' <= 1 + used'.mishaps + worker
    <3>1. ASSUME NEW c \in Nat, NEW b \in {0, 1}, NEW n \in {0, 1}, NEW o \in Nat,
                 NEW o1 \in Nat, NEW m \in Nat, NEW m1, NEW w \in Nat,
                 o1 <= o, c + b + o <= 1 + m + w,
                 \/ m1 = m /\ (n = 0 \/ b = 1 \/ o1 + 1 <= o)
                 \/ m1 = m + 1
          PROVE  c + n + o1 <= 1 + m1 + w
      BY <3>1
    <3> QED BY <1>1, <2>1, <2>2, <2>3, <3>1
  <2> QED BY <2>4 DEF now
<1> QED BY <1>3 DEF Captures

-----------------------------------------------------------------------------
(* Steps outside the hub *)

\* What the printer may do: go on with its run, or start the next.
PhysMoves ==
    \/ /\ phys'.run = phys.run /\ phys'.file \in {phys.file, NoFile}
       /\ phys'.state \in Busy => phys.state \in Busy /\ phys'.file = phys.file
    \/ phys'.run = phys.run + 1

\* Requests, transfers, the printer and a cancel leave the hub alone: what they can
\* disturb is the row it tracks.
LEMMA VaultMoves ==
    ASSUME Tracking, Capturing, TypeOK', UNCHANGED Hub, PhysMoves, Unsent',
           \A j \in Jobs : Exists(j) => Exists(j)' /\ job'[j].file = job[j].file,
           \/ /\ used'.mishaps = used.mishaps
              /\ \A f : Tracks(f) => Tracks(f)'
           \/ used'.mishaps = used.mishaps + 1
    PROVE  Capturing'
<1> USE DEF Capturing
<1>1. /\ TypeOK /\ phys.run \in Nat /\ \A r \in 1..MaxRuns : r \in Nat
      /\ \A t \in Generations : sync[t].run \in Nat
      /\ worker \in Generations
  BY Parts DEF Tracking
<1>2. UNCHANGED <<ready, sync, worker, cache, notified, captured>>
  BY DEF Hub, Asked
<1>3. Ordered'
  BY <1>1, <1>2 DEF Ordered, PhysMoves
<1>4. Rowed'
  <2>1. \A f : HasRow(f) => \E j \in Jobs : Exists(j)' /\ job'[j].file = f
    BY DEF HasRow
  <2>2. ASSUME NEW r \in 1..MaxRuns, captured[r] > 0
        PROVE  /\ phys'.run = r => phys'.file = NoFile \/ HasRow(phys.file)'
               /\ sync[worker].pc # "idle" /\ sync[worker].run = r
                    => HasRow(sync[worker].file)'
    <3>1. r <= phys.run
      BY <2>2 DEF Ordered
    <3>2. phys'.run = r => phys'.file = NoFile \/ HasRow(phys.file)'
      BY <1>1, <2>1, <2>2, <3>1 DEF Rowed, PhysMoves, HasRow
    <3>3. sync[worker].pc # "idle" /\ sync[worker].run = r => HasRow(sync[worker].file)'
      BY <1>2, <2>1, <2>2 DEF Rowed, HasRow
    <3> QED BY <3>2, <3>3
  <2> QED BY <1>2, <2>2 DEF Rowed
<1>6. ASSUME NEW r \in 1..MaxRuns, Covered(r), used'.mishaps = used.mishaps
      PROVE  Covered(r)'
  <2>1. captured[r] > 0 /\ captured[r] \in Nat /\ r <= phys.run
    BY <1>1, <1>6, Parts DEF Covered, Ordered
  <2>2. Printing(r)' => Printing(r) /\ phys'.file = phys.file
    BY <1>1, <2>1 DEF Printing, PhysMoves
  <2>3. Called(r)' <=> Called(r)
    BY <1>2 DEF Called
  <2>4. \A f : Tracks(f) => Tracks(f)'
    <3>1. used.mishaps \in Nat
      BY <1>1, Parts
    <3> QED BY <1>6, <3>1
  <2> QED BY <1>2, <1>6, <2>2, <2>3, <2>4 DEF Covered
<1>7. OneLeft' = OneLeft /\ TwoLeft' = TwoLeft
  BY <1>2 DEF OneLeft, TwoLeft, Left
<1>8. Placeholders'
  BY <1>1, <1>2, <1>6, <1>7, CalmPlaceholders
<1>9. Named'
  BY <1>2 DEF Named
<1>5. Unsent'
  OBVIOUS
<1> QED BY <1>3, <1>4, <1>5, <1>8, <1>9

\* A request inserts a row that nothing tracks.
LEMMA RequestCapturing ==
    ASSUME Tracking, Capturing, NEW j \in Jobs, NEW f \in Files,
           NEW kind \in {"fleet", "send", "copy", "start"}, NEW row \in Row,
           row.state # "absent", Request(j, f, kind, row)
    PROVE  Capturing'
<1>1. /\ TypeOK' /\ job \in [Jobs -> Row] /\ transfer \in [Jobs -> Sends]
      /\ used \in Counts
  BY RequestTracking, Types DEF Tracking
<1>2. /\ job'[j] = row /\ ~Exists(j) /\ \A k \in Jobs \ {j} : job'[k] = job[k]
      /\ \A k \in Jobs \ {j} : transfer'[k] = transfer[k]
      /\ UNCHANGED <<phys, Hub>> /\ used'.mishaps = used.mishaps
  BY <1>1 DEF Request, NextId
<1>3. \A k \in Jobs : Exists(k) => Exists(k)' /\ job'[k].file = job[k].file
  BY <1>2 DEF Exists
<1>4. Unsent'
  BY <1>2 DEF Capturing, Unsent, Exists
<1>5. \A g : Tracks(g) => Tracks(g)'
  <2>1. cache' = cache /\ 0 \notin Jobs
    BY <1>2, JobsAssumption DEF Hub, Asked
  <2>2. cache.job \in Jobs => cache.job # j
    BY <1>2, <2>1 DEF Tracking, Grounded
  <2> QED BY <1>2, <2>1, <2>2 DEF Tracks
<1> QED BY <1>1, <1>2, <1>3, <1>4, <1>5, VaultMoves DEF PhysMoves

\* The printer goes on with its run, or starts another.
LEMMA PrinterCapturing ==
    ASSUME Tracking, Capturing, PanelStep \/ \E f \in Files : PanelStart(f)
    PROVE  Capturing'
<1>1. TypeOK' /\ UNCHANGED <<job, Hub, transfer, Asked, used>>
  BY PrinterTracking DEF Tracking, PanelStep, PanelStart
<1>2. PhysMoves
  <2>1. phys \in [state : PhysStates, file : Files \cup {NoFile}, run : Nat]
    BY Types DEF Tracking
  <2>2. CASE PanelStep
    BY <2>1, <2>2 DEF PanelStep, PhysMoves, Busy, Ended
  <2>3. CASE \E f \in Files : PanelStart(f)
    BY <2>1, <2>3 DEF PanelStart, Run, PhysMoves
  <2> QED BY <2>2, <2>3
<1>3. \A k \in Jobs : Exists(k) => Exists(k)' /\ job'[k].file = job[k].file
  BY <1>1 DEF Exists
<1>4. Unsent'
  BY <1>1 DEF Capturing, Unsent, Exists
<1>5. \A g : Tracks(g) => Tracks(g)'
  BY <1>1 DEF Tracks, Hub, Asked
<1> QED BY <1>1, <1>2, <1>3, <1>4, <1>5, VaultMoves

\* A transfer under way is not that of a row which is tracked, and the claim of one that is
\* tracked is a mishap.
LEMMA TransferCapturing ==
    ASSUME Tracking, Capturing, NEW j \in Jobs,
           \/ Claim(j) \/ Record(j) \/ RecordFailed(j)
           \/ Accept(j) \/ Copy(j) \/ Refuse(j) \/ RecordLost(j)
    PROVE  Capturing'
<1>1. /\ TypeOK' /\ job \in [Jobs -> Row] /\ transfer \in [Jobs -> Sends]
      /\ UNCHANGED Hub
  BY TransferTracking, RecordTracking, Types
     DEF Tracking, Claim, Record, RecordFailed, Accept, Copy, Refuse, RecordLost
<1>2. PhysMoves
  <2>1. CASE Accept(j)
    BY <2>1 DEF Accept, Run, PhysMoves
  <2>2. CASE UNCHANGED phys
    BY <2>2 DEF PhysMoves
  <2> QED BY <2>1, <2>2 DEF Claim, Record, RecordFailed, Copy, Refuse, RecordLost
<1>3. \/ used'.mishaps = used.mishaps /\ (transfer[j].step # "done" \/ job[j].source = "vault")
      \/ used'.mishaps = used.mishaps + 1
  <2>1. used \in Counts
    BY Types DEF Tracking
  <2> QED BY <2>1, UsedTypes
          DEF Claim, Record, RecordFailed, Accept, Copy, Refuse, RecordLost
<1>4. /\ \A k \in Jobs \ {j} : transfer'[k] = transfer[k] /\ job'[k] = job[k]
      /\ Exists(j) /\ Exists(j)' /\ job'[j].file = job[j].file
  <2>1. transfer[j].step # "done" => Exists(j)
    BY DEF Capturing, Unsent
  <2>2. job[j] \in Row
    BY <1>1
  <2>3. CASE Claim(j)
    BY <1>1, <2>2, <2>3 DEF Claim, Exists, Row
  <2>4. CASE Record(j) \/ RecordFailed(j)
    <3>1. PICK row : /\ job' = [job EXCEPT ![j] = row]
                     /\ row.state # "absent" /\ row.file = job[j].file
      <4>1. CASE Record(j) /\ transfer[j].kind = "copy"
        <5> DEFINE row == [job[j] EXCEPT !.state = "completed", !.finished = TRUE]
        <5>1. job' = [job EXCEPT ![j] = row]
          BY <4>1 DEF Record
        <5>2. row.state # "absent" /\ row.file = job[j].file
          BY <2>2 DEF Row
        <5> QED BY <5>1, <5>2
      <4>2. CASE Record(j) /\ transfer[j].kind # "copy"
        <5> DEFINE row == [job[j] EXCEPT !.state = "started"]
        <5>1. job' = [job EXCEPT ![j] = row]
          BY <4>2 DEF Record
        <5>2. row.state # "absent" /\ row.file = job[j].file
          BY <2>2 DEF Row
        <5> QED BY <5>1, <5>2
      <4>3. CASE RecordFailed(j)
        <5> DEFINE again == IF transfer[j].kind = "fleet"
                            THEN transfer[j].step = "failing"
                            ELSE job[j].retryable
        <5>1. job' = [job EXCEPT ![j] = Failed(job[j], again)]
          BY <4>3 DEF RecordFailed, Failed
        <5>2. again \in BOOLEAN
          BY <2>2 DEF Row
        <5>3. /\ Failed(job[j], again).state # "absent"
              /\ Failed(job[j], again).file = job[j].file
          <6> HIDE DEF again
          <6> QED BY <2>2, <5>2, FailedRow
        <5> QED BY <5>1, <5>3
      <4> QED BY <2>4, <4>1, <4>2, <4>3
    <3>2. /\ transfer[j].step # "done"
          /\ transfer' = [transfer EXCEPT ![j] = NoSend] \/ Step(j, "failing")
      BY <2>4 DEF Record, RecordFailed
    <3> QED BY <1>1, <2>1, <3>1, <3>2 DEF Exists, Step
  <2>5. CASE Accept(j) \/ Copy(j) \/ Refuse(j) \/ RecordLost(j)
    <3>1. transfer[j].step # "done" /\ UNCHANGED job
      BY <2>5 DEF Accept, Copy, Refuse, RecordLost
    <3>2. \A k \in Jobs \ {j} : transfer'[k] = transfer[k]
      BY <1>1, <2>5 DEF Accept, Copy, Refuse, RecordLost, Fails, Step
    <3> QED BY <2>1, <3>1, <3>2 DEF Exists
  <2> QED BY <2>3, <2>4, <2>5
<1>5. \A k \in Jobs : Exists(k) => Exists(k)' /\ job'[k].file = job[k].file
  BY <1>4 DEF Exists
<1>6. Unsent'
  BY <1>4 DEF Capturing, Unsent, Exists
<1>7. ASSUME transfer[j].step # "done" \/ job[j].source = "vault", NEW g, Tracks(g)
      PROVE  Tracks(g)'
  <2>1. cache.job # j /\ cache' = cache
    BY <1>1, <1>7 DEF Tracks, Hub
  <2> QED BY <1>4, <1>7, <2>1 DEF Tracks
<1> QED BY <1>1, <1>2, <1>3, <1>5, <1>6, <1>7, VaultMoves

\* Cancels and retries that read their rows leave them alone.
LEMMA AskCapturing ==
    ASSUME Tracking, Capturing,
           CancelRead \/ \E j \in Jobs : CancelQueuedRead(j) \/ RetryRead(j)
    PROVE  Capturing'
<1>1. TypeOK' /\ UNCHANGED <<job, Hub, transfer, retried, used>>
  BY AskTracking DEF Tracking
<1>2. PhysMoves
  <2>1. phys \in [state : PhysStates, file : Files \cup {NoFile}, run : Nat]
    BY Types DEF Tracking
  <2> QED BY <2>1 DEF CancelRead, CancelQueuedRead, RetryRead, PhysMoves, Busy
<1>3. /\ \A k \in Jobs : Exists(k) => Exists(k)' /\ job'[k].file = job[k].file
      /\ \A g : Tracks(g) => Tracks(g)'
      /\ Unsent'
  BY <1>1 DEF Capturing, Unsent, Exists, Tracks, Hub
<1> QED BY <1>1, <1>2, <1>3, VaultMoves

\* A cancel is a mishap, and leaves the rows their files.
LEMMA CancelCapturing ==
    ASSUME Tracking, Capturing, CancelCommit
    PROVE  Capturing'
<1>1. /\ TypeOK' /\ job \in [Jobs -> Row] /\ used \in Counts
      /\ UNCHANGED <<phys, Hub, transfer>>
  BY CancelTracking, Types DEF Tracking, CancelCommit
<1>2. PhysMoves /\ used'.mishaps = used.mishaps + 1
  BY <1>1, UsedTypes DEF CancelCommit, PhysMoves
<1>3. \A k \in Jobs : Exists(k) => Exists(k)'
  BY <1>1 DEF CancelCommit, Exists, Row
<1>4. \A k \in Jobs : job'[k].file = job[k].file
  BY <1>1 DEF CancelCommit, Row
<1>5. Unsent'
  BY <1>1, <1>3 DEF Capturing, Unsent
<1> QED BY <1>1, <1>2, <1>3, <1>4, <1>5, VaultMoves

\* A retry reopens a row, which does not stop it from being tracked.
LEMMA RetryCapturing ==
    ASSUME Tracking, Capturing, NEW j \in Jobs, RetryCommit(j)
    PROVE  Capturing'
<1> DEFINE row == Reopened(job[j])
<1>1. /\ TypeOK' /\ job \in [Jobs -> Row] /\ used \in Counts
      /\ UNCHANGED <<phys, Hub, transfer>>
  BY RetryTracking, Types DEF Tracking, RetryCommit
<1>2. PhysMoves /\ used'.mishaps = used.mishaps
  BY <1>1, UsedTypes DEF RetryCommit, PhysMoves
<1>3. /\ row.state = "queued" /\ row.finished = FALSE
      /\ row.file = job[j].file /\ row.source = job[j].source
  <2>1. job[j] \in Row
    BY <1>1
  <2> QED BY <2>1, ReopenedRow
<1>4. job' = [job EXCEPT ![j] = row]
  BY DEF RetryCommit, Reopened
<1> HIDE DEF row
<1>5. job'[j] = row /\ \A k \in Jobs \ {j} : job'[k] = job[k]
  BY <1>1, <1>4
<1>6. \A k \in Jobs : Exists(k) => Exists(k)' /\ job'[k].file = job[k].file
  BY <1>3, <1>5 DEF Exists
<1>7. Unsent'
  BY <1>1, <1>6 DEF Capturing, Unsent
<1>8. \A g : Tracks(g) => Tracks(g)'
  BY <1>1, <1>3, <1>5 DEF Tracks, Hub
<1> QED BY <1>1, <1>2, <1>6, <1>7, <1>8, VaultMoves

-----------------------------------------------------------------------------
(* Steps of the hub *)

\* A report goes to a thread of the worker, which so far knows of no later run.
LEMMA ReportCapturing ==
    ASSUME Tracking, Capturing, Report \/ Unreachable
    PROVE  Capturing'
<1> USE DEF Capturing
<1>1. /\ TypeOK /\ TypeOK' /\ sync \in [Generations -> Syncs] /\ phys.run \in Nat
      /\ phys.file \in Files \cup {NoFile}
      /\ \A t \in Generations : sync[t].run \in Nat
      /\ worker \in Generations /\ worker \in Nat
      /\ sync[worker].pc = "idle"
      /\ UNCHANGED <<Vault, worker, cache, notified, captured, used>>
  BY ReportTracking, Types, Parts DEF Tracking, Report, Unreachable
<1> DEFINE new == [Idle EXCEPT !.pc = "called", !.state = phys.state,
                                !.file = phys.file, !.run = phys.run]
<1>2. /\ new.pc = "called" /\ new.state = phys.state /\ new.file = phys.file
      /\ new.run = phys.run
  BY DEF Idle
<1>3. /\ \A t \in Generations \ {worker} : sync'[t] = sync[t]
      /\ \/ sync'[worker] = sync[worker]
         \/ sync'[worker] = new /\ phys.file # NoFile
  BY <1>1 DEF Report, Unreachable
<1> HIDE DEF new
<1>5. Ordered'
  <2>1. CASE sync'[worker] = sync[worker]
    BY <1>1, <1>3, <2>1 DEF Ordered, Vault, Asked
  <2>2. CASE sync'[worker] = new /\ phys.file # NoFile
    <3>1. ASSUME NEW t \in Generations, sync'[t].pc # "idle"
          PROVE  /\ sync'[t].run <= phys.run
                 /\ sync'[t].run = phys.run =>
                      /\ phys.file \in {sync'[t].file, NoFile}
                      /\ phys.state \in Busy => sync'[t].state \in Busy
                      /\ sync'[t].file = phys.file
      BY <1>1, <1>2, <1>3, <2>2, <3>1 DEF Ordered
    <3>2. \A r \in 1..MaxRuns : captured[r] > 0 => r <= phys.run
      BY DEF Ordered
    <3> QED BY <1>1, <1>2, <2>2, <3>1, <3>2 DEF Ordered, Vault, Asked
  <2> QED BY <1>3, <2>1, <2>2
<1>6. Rowed'
  BY <1>1, <1>2, <1>3 DEF Rowed, HasRow, Exists, Vault, Asked
<1>7. Unsent'
  BY <1>1 DEF Unsent, Exists, Vault
<1>8. ASSUME NEW r \in 1..MaxRuns, Covered(r)
      PROVE  Covered(r)'
  <2>1. \A f : Tracks(f)' <=> Tracks(f)
    BY <1>1 DEF Tracks, Vault, Asked
  <2>2. Printing(r)' <=> Printing(r)
    BY <1>1 DEF Printing, Vault, Asked
  <2>3. Called(r)' => Printing(r) /\ sync'[worker].file = phys.file
    BY <1>1, <1>2, <1>3 DEF Called, Printing
  <2>4. ~(sync'[worker].pc = "missing" /\ sync'[worker].run = r)
    BY <1>1, <1>2, <1>3
  <2>5. captured'[r] > 0 /\ phys' = phys /\ worker' = worker
    BY <1>1, <1>8 DEF Covered, Vault, Asked
  <2>6. (Called(r) => Tracks(sync[worker].file))'
    BY <1>8, <2>1, <2>3, <2>5 DEF Covered, Tracks
  <2>7. (Printing(r) => Tracks(phys.file))'
    BY <1>8, <2>1, <2>2, <2>5 DEF Covered, Tracks
  <2> QED BY <2>4, <2>5, <2>6, <2>7 DEF Covered
<1>9. OneLeft' = OneLeft /\ TwoLeft' = TwoLeft
  <2>1. \A t \in Left : t \in Generations \ {worker}
    BY <1>1 DEF Left, Tracking, Numbered
  <2> QED BY <1>1, <1>3, <2>1 DEF OneLeft, TwoLeft, Left
<1>10. Placeholders'
  BY <1>1, <1>8, <1>9, CalmPlaceholders
<1>11. Named'
  BY <1>1, <1>2, <1>3 DEF Named
<1> QED BY <1>5, <1>6, <1>7, <1>10, <1>11

\* A thread moves on: it has read, has inserted a placeholder, or is done.
ThreadSteps(t) ==
    /\ sync[t].pc # "idle"
    /\ \A u \in Generations \ {t} : sync'[u] = sync[u]
    /\ \/ sync'[t].pc = "idle"
       \/ /\ \/ sync[t].pc = "called" /\ sync'[t].pc \in {"missing", "found"}
             \/ sync[t].pc = "missing" /\ sync'[t].pc = "found"
          /\ sync'[t].run = sync[t].run /\ sync'[t].file = sync[t].file
          /\ sync'[t].state = sync[t].state
    /\ UNCHANGED <<phys, transfer, ready, worker>>
    /\ \A j \in Jobs : Exists(j) => Exists(j)' /\ job'[j].file = job[j].file

\* What it leaves in order.
LEMMA ThreadMoves ==
    ASSUME Tracking, Capturing, TypeOK', NEW t \in Generations, ThreadSteps(t),
           \A r \in 1..MaxRuns : captured'[r] > 0 =>
               \/ captured[r] > 0
               \/ /\ r = sync[t].run
                  /\ \E j \in Jobs : Exists(j)' /\ job'[j].file = sync[t].file,
           \/ cache' \in {cache, NoCache}
           \/ cache'.job \in Jobs /\ cache'.file = sync[t].file
    PROVE  Ordered' /\ Rowed' /\ Unsent' /\ Named'
<1> USE DEF Capturing, ThreadSteps
<1>1. /\ TypeOK /\ phys.run \in Nat /\ worker \in Generations /\ 0 \notin Jobs
      /\ \A u \in Generations : sync[u].run \in Nat
      /\ \A r \in 1..MaxRuns : captured'[r] \in Nat /\ captured[r] \in Nat
      /\ NoCache.job = 0 /\ NoCache.file = NoFile
  <2>1. \A r \in 1..MaxRuns : captured'[r] \in Nat
    BY DEF TypeOK
  <2> QED BY <2>1, Parts DEF Tracking, NoCache
<1>2. \A u \in Generations : sync'[u].pc # "idle" =>
        /\ sync[u].pc # "idle" /\ sync'[u].run = sync[u].run
        /\ sync'[u].file = sync[u].file /\ sync'[u].state = sync[u].state
        /\ sync'[u].pc = "called" => sync[u].pc = "called"
  OBVIOUS
<1>3. ASSUME NEW r \in 1..MaxRuns, captured'[r] > 0
      PROVE  /\ r <= phys.run
             /\ sync[worker].pc # "idle" => r <= sync[worker].run
  BY <1>1, <1>3 DEF Ordered
<1>4. Ordered'
  BY <1>1, <1>2, <1>3 DEF Ordered
<1>5. Rowed'
  <2>1. \A f : HasRow(f) => \E j \in Jobs : Exists(j)' /\ job'[j].file = f
    BY DEF HasRow
  <2>2. ASSUME NEW r \in 1..MaxRuns, captured'[r] > 0
        PROVE  /\ phys.run = r => phys.file = NoFile \/ HasRow(phys.file)'
               /\ sync'[worker].pc # "idle" /\ sync'[worker].run = r
                    => HasRow(sync[worker].file)'
    <3>1. CASE captured[r] > 0
      BY <1>1, <1>2, <2>1, <3>1 DEF Rowed, HasRow
    <3>2. CASE /\ r = sync[t].run
               /\ \E j \in Jobs : Exists(j)' /\ job'[j].file = sync[t].file
      <4>1. phys.run = r => phys.file \in {sync[t].file, NoFile}
        BY <3>2 DEF Ordered
      <4>2. sync[worker].pc # "idle" /\ sync[worker].run = r
              => sync[worker].file = sync[t].file
        BY <3>2 DEF Ordered
      <4>3. sync'[worker].pc # "idle" => /\ sync[worker].pc # "idle"
                                        /\ sync'[worker].run = sync[worker].run
                                        /\ sync'[worker].file = sync[worker].file
        BY <1>1, <1>2
      <4> QED BY <3>2, <4>1, <4>2, <4>3 DEF HasRow
    <3> QED BY <2>2, <3>1, <3>2
  <2> QED BY <1>1, <2>2 DEF Rowed
<1>6. Unsent'
  BY <1>1, <1>2 DEF Unsent
<1>7. Named'
  BY <1>1, <1>2 DEF Named
<1> QED BY <1>4, <1>5, <1>6, <1>7

\* What it has left to do does not grow, and a thread of a replaced worker has less to
\* do, but for one that found no row for a report of an ended run.
LEMMA ThreadLeft ==
    ASSUME Tracking, NEW t \in Generations, ThreadSteps(t)
    PROVE  /\ OneLeft' \subseteq OneLeft /\ TwoLeft' \subseteq TwoLeft
           /\ t = worker \/ t \in Left
           /\ t \in TwoLeft /\ ~(sync'[t].pc = "missing" /\ sync[t].state \notin Busy)
                => TwoLeft' # TwoLeft
           /\ t \in OneLeft /\ t \notin TwoLeft => OneLeft' # OneLeft
<1>1. /\ worker \in Nat /\ worker' = worker /\ t \in Nat /\ t <= worker
      /\ Left' = Left /\ Left \subseteq Generations
  BY Parts DEF Tracking, ThreadSteps, Abandoned, Numbered, Left
<1>2. \A u \in Left \ {t} : sync'[u] = sync[u]
  BY <1>1 DEF ThreadSteps
<1>3. t \in OneLeft' => t \in OneLeft
  BY <1>1 DEF ThreadSteps, OneLeft
<1>4. t \in TwoLeft' => /\ t \in TwoLeft /\ sync'[t].pc = "missing"
                       /\ sync[t].state \notin Busy
  BY <1>1 DEF ThreadSteps, TwoLeft
<1>5. t \in OneLeft /\ t \notin TwoLeft => t \notin OneLeft'
  BY <1>1 DEF ThreadSteps, OneLeft, TwoLeft
<1>6. OneLeft' \subseteq OneLeft /\ TwoLeft' \subseteq TwoLeft
  BY <1>1, <1>2, <1>3, <1>4 DEF OneLeft, TwoLeft
<1>7. t = worker \/ t \in Left
  BY <1>1 DEF Left
<1> QED BY <1>4, <1>5, <1>6, <1>7

\* What looking a row up comes to.
LEMMA ReadOutcome ==
    ASSUME Tracking, NEW t \in Generations, Read(t)
    PROVE  LET s == sync[t]
               j == Cached(s.file)
           IN  /\ s.pc = "called" /\ s.state \in PhysStates
               /\ UNCHANGED <<Vault, ready, worker, notified, captured, used>>
               /\ \A u \in Generations \ {t} : sync'[u] = sync[u]
               /\ \/ sync'[t].pc = "idle"
                  \/ /\ sync'[t].pc \in {"missing", "found"} /\ sync'[t].state = s.state
                     /\ sync'[t].run = s.run /\ sync'[t].file = s.file
               /\ \/ /\ j \in Jobs /\ ~job[j].finished
                     /\ sync'[t].pc = "found" /\ cache'.job = j /\ cache'.file = s.file
                  \/ /\ j # 0 => job[j].finished /\ s.state \in Busy
                     /\ sync'[t].pc = "missing"
                     /\ cache' = IF j = 0 THEN cache ELSE NoCache
                  \/ /\ j # 0 => job[j].finished /\ s.state \notin Busy
                     /\ sync'[t].pc = "idle" /\ cache' = cache
<1> DEFINE s == sync[t]
           j == Cached(s.file)
           found == [s EXCEPT !.pc = "found", !.job = j, !.read = job[j].state]
           missing == [s EXCEPT !.pc = "missing"]
<1>1. /\ sync \in [Generations -> Syncs] /\ s \in Syncs /\ s.pc = "called"
      /\ s.state \in PhysStates
      /\ UNCHANGED <<Vault, ready, worker, notified, captured, used>>
      /\ j # 0 => j \in Jobs
  BY Types, CachedExists DEF Tracking, Read, Syncs
<1>2. /\ Idle.pc = "idle" /\ found.pc = "found" /\ missing.pc = "missing"
      /\ found.run = s.run /\ found.file = s.file /\ found.state = s.state
      /\ missing.run = s.run /\ missing.file = s.file /\ missing.state = s.state
  BY <1>1 DEF Syncs, Idle
<1>3. \/ /\ j \in Jobs /\ ~job[j].finished
         /\ cache' = [file |-> s.file, job |-> j]
         /\ sync' = [sync EXCEPT ![t] = found]
      \/ /\ j # 0 => job[j].finished /\ s.state \in Busy
         /\ cache' = IF j = 0 THEN cache ELSE NoCache
         /\ sync' = [sync EXCEPT ![t] = missing]
      \/ /\ j # 0 => job[j].finished /\ s.state \notin Busy
         /\ cache' = cache
         /\ sync' = [sync EXCEPT ![t] = Idle]
  <2>1. [sync EXCEPT ![t].pc = "missing"] = [sync EXCEPT ![t] = missing]
    BY <1>1
  <2> HIDE DEF j, found, missing
  <2>2. \/ /\ j # 0 /\ ~job[j].finished
           /\ cache' = [file |-> s.file, job |-> j]
           /\ sync' = [sync EXCEPT ![t] = found]
        \/ /\ j # 0 => job[j].finished /\ s.state \in Busy
           /\ cache' = IF j = 0 THEN cache ELSE NoCache
           /\ sync' = [sync EXCEPT ![t].pc = "missing"]
        \/ /\ j # 0 => job[j].finished /\ s.state \notin Busy
           /\ cache' = cache
           /\ sync' = [sync EXCEPT ![t] = Idle]
    BY Zenon DEF Read, j, found
  <2> QED BY <1>1, <2>1, <2>2
<1> HIDE DEF s, j, found, missing
<1>4. /\ \A u \in Generations \ {t} : sync'[u] = sync[u]
      /\ sync'[t] \in {found, missing, Idle}
      /\ sync' = [sync EXCEPT ![t] = found] => sync'[t] = found
      /\ sync' = [sync EXCEPT ![t] = missing] => sync'[t] = missing
      /\ sync' = [sync EXCEPT ![t] = Idle] => sync'[t] = Idle
  BY <1>1, <1>3
<1>5. /\ [file |-> s.file, job |-> j].job = j
      /\ [file |-> s.file, job |-> j].file = s.file
  OBVIOUS
<1>6. \/ sync'[t].pc = "idle"
      \/ /\ sync'[t].pc \in {"missing", "found"} /\ sync'[t].state = s.state
         /\ sync'[t].run = s.run /\ sync'[t].file = s.file
  BY <1>2, <1>4
<1>7. \/ /\ j \in Jobs /\ ~job[j].finished
         /\ sync'[t].pc = "found" /\ cache'.job = j /\ cache'.file = s.file
      \/ /\ j # 0 => job[j].finished /\ s.state \in Busy
         /\ sync'[t].pc = "missing"
         /\ cache' = IF j = 0 THEN cache ELSE NoCache
      \/ /\ j # 0 => job[j].finished /\ s.state \notin Busy
         /\ sync'[t].pc = "idle" /\ cache' = cache
  BY <1>2, <1>3, <1>4, <1>5
<1> QED BY <1>1, <1>4, <1>6, <1>7 DEF s, j

\* A report that finds the row of its run tracked does not miss it.
LEMMA TrackedIsFound ==
    ASSUME Tracking, NEW t \in Generations, Read(t), Tracks(sync[t].file)
    PROVE  sync'[t].pc = "found" /\ cache'.job = cache.job /\ cache'.file = cache.file
<1>1. Cached(sync[t].file) = cache.job /\ cache.job # 0 /\ ~job[cache.job].finished
  BY JobsAssumption DEF Cached, Tracks
<1> QED BY <1>1, ReadOutcome DEF Tracks

\* Where there is a row, an ended run does not get another.
LEMMA RowIsFound ==
    ASSUME Tracking, Named, NEW t \in Generations, Read(t), HasRow(sync[t].file),
           sync[t].state \notin Busy
    PROVE  sync'[t].pc # "missing"
<1> DEFINE f == sync[t].file
           T == {j \in Jobs : Exists(j) /\ job[j].file = f}
<1>1. f # NoFile /\ 0 \notin Jobs /\ sync \in [Generations -> Syncs]
  BY Types, JobsAssumption DEF Tracking, Named, Read
<1>2. Latest(f) # 0
  <2>1. T \in SUBSET Jobs /\ T # {}
    BY DEF HasRow
  <2>2. \E j \in T : \A k \in T : k <= j
    BY <2>1, NewestExists
  <2>3. \E j \in Jobs : /\ Exists(j) /\ job[j].file = f
                        /\ \A k \in Jobs : Exists(k) /\ job[k].file = f => k <= j
    BY <2>2
  <2>4. Latest(f) \in Jobs
    BY <2>3 DEF Latest
  <2> QED BY <1>1, <2>4
<1>3. Cached(f) # 0
  BY <1>1, <1>2 DEF Cached, Named
<1> QED BY <1>1, <1>3, ReadOutcome

\* A thread looks the row of its report up.  The worker's finds the row of a run that is
\* covered; that of another may put another row into the cache.
LEMMA ReadCapturing ==
    ASSUME Tracking, Capturing, NEW t \in Generations, Read(t)
    PROVE  Capturing'
<1> USE DEF Capturing
<1> DEFINE s == sync[t]
           j == Cached(s.file)
<1>1. /\ TypeOK /\ TypeOK' /\ sync \in [Generations -> Syncs]
      /\ s.pc = "called" /\ UNCHANGED <<Vault, ready, worker, notified, captured, used>>
      /\ worker \in Nat /\ worker \in Generations /\ phys.run \in Nat /\ s.run \in Nat
      /\ sync[worker].run \in Nat
  BY ReadTracking, Types, Parts DEF Tracking, Read
<1>2. NoCache.job = 0 /\ NoCache.file = NoFile
  BY DEF NoCache
<1>3. /\ \A u \in Generations \ {t} : sync'[u] = sync[u]
      /\ \/ sync'[t].pc = "idle"
         \/ /\ sync'[t].pc \in {"missing", "found"}
            /\ sync'[t].run = s.run /\ sync'[t].file = s.file /\ sync'[t].state = s.state
  BY ReadOutcome
<1>4. ThreadSteps(t)
  BY <1>1, <1>3 DEF ThreadSteps, Vault, Asked, Exists
<1>5. cache' \in {cache, NoCache} \/ (cache'.job \in Jobs /\ cache'.file = s.file)
  <2>1. j # 0 => j \in Jobs
    BY CachedExists
  <2> QED BY <2>1 DEF Read
<1>6. Ordered' /\ Rowed' /\ Unsent' /\ Named'
  BY <1>1, <1>4, <1>5, ThreadMoves
<1>7. /\ OneLeft' \subseteq OneLeft /\ TwoLeft' \subseteq TwoLeft /\ (t = worker \/ t \in Left)
      /\ t \in TwoLeft /\ ~(sync'[t].pc = "missing" /\ s.state \notin Busy)
           => TwoLeft' # TwoLeft
  BY <1>4, ThreadLeft
<1>8. /\ UNCHANGED <<worker, captured>> /\ used'.mishaps = used.mishaps
       /\ Placeholders /\ phys' = phys
  BY <1>1 DEF Vault, Asked
<1>9. ASSUME t = worker PROVE Placeholders'
  <2>1. ASSUME NEW r \in 1..MaxRuns, Covered(r)
        PROVE  Covered(r)'
    <3>1. captured[r] > 0 /\ r <= s.run /\ s.run <= phys.run /\ r \in Nat
      BY <1>1, <1>9, <2>1 DEF Covered, Ordered
    <3>2. s.run = r => sync'[t].pc # "missing"
      <4>1. CASE s.state \in Busy
        BY <1>1, <1>9, <2>1, <4>1, TrackedIsFound DEF Covered, Called
      <4>2. CASE s.run = r /\ s.state \notin Busy
        <5>1. HasRow(s.file)
          BY <1>1, <1>9, <3>1, <4>2 DEF Rowed
        <5> QED BY <4>2, <5>1, RowIsFound
      <4> QED BY <4>1, <4>2
    <3>3. ~Called(r)'
      BY <1>1, <1>3, <1>9 DEF Called
    <3>4. ASSUME Printing(r)
          PROVE  Tracks(phys.file)'
      <4>1. s.run = r /\ s.state \in Busy
        <5>1. s.run = phys.run /\ s.run = r /\ phys.state \in Busy
          BY <1>1, <3>1, <3>4 DEF Printing
        <5> QED BY <1>1, <5>1 DEF Ordered
      <4>2. Tracks(s.file) /\ Tracks(phys.file)
        BY <1>1, <1>9, <2>1, <3>4, <4>1 DEF Covered, Called
      <4>3. cache'.job = cache.job /\ cache'.file = cache.file
        BY <4>2, TrackedIsFound
      <4> QED BY <1>1, <4>2, <4>3 DEF Tracks, Vault, Asked
    <3>5. ~(sync'[worker].pc = "missing" /\ sync'[worker].run = r)
      BY <1>3, <1>9, <3>2
    <3>6. Printing(r)' <=> Printing(r)
      BY <1>1 DEF Printing, Vault, Asked
    <3> QED BY <1>1, <3>1, <3>3, <3>4, <3>5, <3>6 DEF Covered
  <2> QED BY <1>1, <1>7, <1>8, <2>1, CalmPlaceholders
<1>10. ASSUME t # worker PROVE Placeholders'
  <2>1. t \in TwoLeft
    BY <1>1, <1>7, <1>10 DEF TwoLeft
  <2>2. ASSUME sync'[t].pc = "missing" /\ s.state \notin Busy
        PROVE  Placeholders'
    <3>1. UNCHANGED <<cache, job, phys, transfer>>
      <4>1. j = 0
        BY <2>2, ReadOutcome
      <4>2. UNCHANGED cache
        BY <2>2, <4>1, ReadOutcome
      <4> QED BY <1>1, <4>2 DEF Vault, Asked
    <3>2. sync'[worker] = sync[worker]
      BY <1>1, <1>3, <1>10
    <3>3. \A r \in 1..MaxRuns : Covered(r) => Covered(r)'
      BY <1>1, <3>1, <3>2 DEF Covered, Called, Printing, Tracks
    <3> QED BY <1>1, <1>7, <1>8, <3>3, CalmPlaceholders
  <2>3. ASSUME ~(sync'[t].pc = "missing" /\ s.state \notin Busy)
        PROVE  Placeholders'
    BY <1>1, <1>7, <1>8, <2>1, <2>3, CalmPlaceholders
  <2> QED BY <2>2, <2>3
<1>11. Placeholders'
  BY <1>9, <1>10
<1> QED BY <1>6, <1>11

\* What the commit of a report changes.
LEMMA WriteOutcome ==
    ASSUME Tracking, NEW t \in Generations, Write(t)
    PROVE  /\ sync[t].pc = "found" /\ sync'[t].pc = "idle"
           /\ UNCHANGED <<phys, transfer, ready, worker, cache, captured, used>>
           /\ \A u \in Generations \ {t} : sync'[u] = sync[u]
           /\ \A j \in Jobs : Exists(j) => Exists(j)' /\ job'[j].file = job[j].file
           /\ \A j \in Jobs : job'[j].source = job[j].source
           /\ sync[t].state \in Busy =>
                \A j \in Jobs : job'[j].finished = job[j].finished
<1> DEFINE s == sync[t]
           j == s.job
           new == NewState(s.state, s.read)
           finished == new \in Terminal
           row == [job[j] EXCEPT !.state = IF new # s.read THEN new ELSE @,
                                 !.finished = @ \/ finished]
<1>1. /\ s \in Syncs /\ s.pc = "found" /\ j \in Jobs /\ Exists(j)
      /\ job[j] \in Row /\ s.read \in States /\ s.read # "absent"
      /\ job \in [Jobs -> Row] /\ sync \in [Generations -> Syncs]
  BY Types DEF Tracking, Write, Grounded, Syncs
<1>2. new \in States /\ new # "absent"
  BY <1>1, NewStateType DEF NewState, Syncs
<1>3. s.state \in Busy => ~finished
  BY DEF NewState, Busy, Terminal
<1>4. /\ UNCHANGED <<phys, transfer, ready, worker, cache, captured, used>>
      /\ job' = [job EXCEPT ![j].state = IF new # s.read THEN new ELSE @,
                            ![j].finished = @ \/ finished]
      /\ sync' = [sync EXCEPT ![t] = Idle]
  BY DEF Write
<1>5. finished \in BOOLEAN
  OBVIOUS
<1> HIDE DEF new, finished
<1>6. job' = [job EXCEPT ![j] = row]
  BY <1>1, <1>4
<1>7. /\ row.state # "absent" /\ row.file = job[j].file /\ row.source = job[j].source
      /\ ~finished => row.finished = job[j].finished
  <2>1. job[j].state # "absent" /\ job[j].finished \in BOOLEAN
    BY <1>1 DEF Exists, Row
  <2>2. /\ row.file = job[j].file /\ row.source = job[j].source
        /\ row.finished = (job[j].finished \/ finished)
        /\ row.state = IF new # s.read THEN new ELSE job[j].state
    BY <1>1 DEF Row
  <2> QED BY <1>2, <2>1, <2>2
<1> HIDE DEF row
<1>8. job'[j] = row /\ \A k \in Jobs \ {j} : job'[k] = job[k]
  BY <1>1, <1>6
<1>9. sync'[t].pc = "idle" /\ \A u \in Generations \ {t} : sync'[u] = sync[u]
  <2>1. Idle.pc = "idle"
    BY DEF Idle
  <2> QED BY <1>1, <1>4, <2>1
<1> QED BY <1>1, <1>3, <1>4, <1>7, <1>8, <1>9 DEF Exists

\* A commit for the run the printer is busy with finishes no row; one for another run is
\* a late one, of a replaced worker, or of a run that has ended.
LEMMA WriteCapturing ==
    ASSUME Tracking, Capturing, NEW t \in Generations, Write(t)
    PROVE  Capturing'
<1> USE DEF Capturing
<1> DEFINE s == sync[t]
<1>1. /\ TypeOK /\ TypeOK' /\ worker \in Nat /\ phys.run \in Nat /\ s.run \in Nat
      /\ worker \in Generations
  BY WriteTracking, Parts DEF Tracking
<1>2. /\ UNCHANGED <<worker, captured>> /\ used'.mishaps = used.mishaps
      /\ phys' = phys /\ cache' = cache /\ transfer' = transfer
      /\ s.pc = "found" /\ sync'[t].pc = "idle"
      /\ \A u \in Generations \ {t} : sync'[u] = sync[u]
  BY WriteOutcome
<1>3. ThreadSteps(t)
  BY <1>2, WriteOutcome DEF ThreadSteps
<1>4. Ordered' /\ Rowed' /\ Unsent' /\ Named'
  BY <1>1, <1>2, <1>3, ThreadMoves
<1>5. /\ OneLeft' \subseteq OneLeft /\ TwoLeft' \subseteq TwoLeft /\ (t = worker \/ t \in Left)
      /\ t \in OneLeft /\ t \notin TwoLeft => OneLeft' # OneLeft
  BY <1>3, ThreadLeft
<1>6. s.state \in Busy => \A f : Tracks(f) => Tracks(f)'
  BY <1>2, WriteOutcome DEF Tracks
<1>7. ASSUME t = worker PROVE Placeholders'
  <2>1. ASSUME NEW r \in 1..MaxRuns, Covered(r)
        PROVE  Covered(r)'
    <3>1. captured[r] > 0 /\ r <= s.run /\ s.run <= phys.run /\ r \in Nat
      BY <1>1, <1>2, <1>7, <2>1 DEF Covered, Ordered
    <3>2. ASSUME Printing(r)
          PROVE  Tracks(phys.file)'
      <4>1. s.state \in Busy
        <5>1. s.run = phys.run /\ phys.state \in Busy
          BY <1>1, <3>1, <3>2 DEF Printing
        <5> QED BY <1>2, <5>1 DEF Ordered
      <4>2. Tracks(phys.file)
        BY <2>1, <3>2 DEF Covered
      <4> QED BY <1>2, <1>6, <4>1, <4>2
    <3>3. /\ ~Called(r)' /\ (Printing(r)' <=> Printing(r))
          /\ ~(sync'[worker].pc = "missing" /\ sync'[worker].run = r)
      BY <1>2, <1>7 DEF Called, Printing
    <3> QED BY <1>2, <3>1, <3>2, <3>3 DEF Covered
  <2> QED BY <1>1, <1>2, <1>5, <2>1, CalmPlaceholders
<1>8. ASSUME t # worker, s.state \in Busy PROVE Placeholders'
  <2>1. \A r \in 1..MaxRuns : Covered(r) => Covered(r)'
    BY <1>1, <1>2, <1>6, <1>8 DEF Covered, Called, Printing
  <2> QED BY <1>1, <1>2, <1>5, <2>1, CalmPlaceholders
<1>9. ASSUME t # worker, s.state \notin Busy PROVE Placeholders'
  <2>1. t \in OneLeft /\ t \notin TwoLeft
    BY <1>2, <1>5, <1>9 DEF OneLeft, TwoLeft
  <2> QED BY <1>1, <1>2, <1>5, <2>1, CalmPlaceholders
<1> QED BY <1>4, <1>7, <1>8, <1>9

\* What inserting a placeholder changes.
LEMMA CaptureOutcome ==
    ASSUME Tracking, NEW t \in Generations, Capture(t)
    PROVE  /\ sync[t].pc = "missing" /\ sync'[t].pc = "found"
           /\ sync'[t].run = sync[t].run /\ sync'[t].file = sync[t].file
           /\ sync'[t].state = sync[t].state
           /\ \A u \in Generations \ {t} : sync'[u] = sync[u]
           /\ UNCHANGED <<phys, transfer, ready, worker, notified, used>>
           /\ \A r \in 1..MaxRuns :
                captured'[r] = IF r = sync[t].run THEN captured[r] + 1 ELSE captured[r]
           /\ cache'.job \in Jobs /\ cache'.file = sync[t].file
           /\ ~Exists(cache'.job) /\ ~job'[cache'.job].finished
           /\ job'[cache'.job].file = sync[t].file
           /\ job'[cache'.job].source = "external"
           /\ \A k \in Jobs : Exists(k) => job'[k] = job[k]
           /\ \A k \in Jobs : Exists(k) \/ k = cache'.job => job'[k].state # "absent"
<1> DEFINE s == sync[t]
           row == [NoRow EXCEPT !.state = "queued", !.file = s.file,
                                !.source = "external"]
<1>1. PICK j \in Jobs :
        /\ NextId(j)
        /\ job' = [job EXCEPT ![j] = row]
        /\ cache' = [file |-> s.file, job |-> j]
        /\ sync' = [sync EXCEPT ![t] =
                      [s EXCEPT !.pc = "found", !.job = j, !.read = row.state]]
  BY DEF Capture
<1> DEFINE new == [s EXCEPT !.pc = "found", !.job = j, !.read = row.state]
<1>2. /\ s \in Syncs /\ s.pc = "missing" /\ job \in [Jobs -> Row]
      /\ sync \in [Generations -> Syncs] /\ captured \in [1..MaxRuns -> Nat]
      /\ UNCHANGED <<phys, transfer, ready, worker, notified, used>>
      /\ captured' = [captured EXCEPT ![s.run] = @ + 1]
  BY Types DEF Tracking, Capture
<1>3. /\ row.state = "queued" /\ ~row.finished /\ row.file = s.file
      /\ row.source = "external"
  BY DEF NoRow
<1>4. /\ new.pc = "found" /\ new.run = s.run /\ new.file = s.file /\ new.state = s.state
  <2> HIDE DEF row
  <2> QED BY <1>2 DEF Syncs
<1> HIDE DEF row, new
<1>5. /\ sync'[t] = new /\ \A u \in Generations \ {t} : sync'[u] = sync[u]
  BY <1>1, <1>2 DEF new
<1>6. /\ job'[j] = row /\ \A k \in Jobs \ {j} : job'[k] = job[k]
  BY <1>1, <1>2
<1>7. cache'.job = j /\ cache'.file = s.file /\ ~Exists(j)
  BY <1>1 DEF NextId
<1>8. \A r \in 1..MaxRuns :
        captured'[r] = IF r = s.run THEN captured[r] + 1 ELSE captured[r]
  BY <1>2
<1> QED BY <1>2, <1>3, <1>4, <1>5, <1>6, <1>7, <1>8 DEF Exists

\* A placeholder of the worker is for a run that was uncovered and is covered with it; one
\* of a replaced worker had been owed.
LEMMA CaptureCapturing ==
    ASSUME Tracking, Capturing, NEW t \in Generations, Capture(t)
    PROVE  Capturing'
<1> USE DEF Capturing
<1> DEFINE s == sync[t]
<1>1. /\ TypeOK /\ TypeOK' /\ worker \in Nat /\ phys.run \in Nat /\ s.run \in Nat
      /\ worker \in Generations /\ \A r \in 1..MaxRuns : r \in Nat /\ captured[r] \in Nat
      /\ used.mishaps \in Nat
  BY CaptureTracking, Parts DEF Tracking
<1>2. /\ worker' = worker /\ used'.mishaps = used.mishaps /\ phys' = phys
      /\ transfer' = transfer /\ s.pc = "missing" /\ sync'[t].pc = "found"
      /\ sync'[t].run = s.run /\ sync'[t].file = s.file
      /\ \A u \in Generations \ {t} : sync'[u] = sync[u]
  BY CaptureOutcome
<1>3. \A r \in 1..MaxRuns :
        captured'[r] = IF r = s.run THEN captured[r] + 1 ELSE captured[r]
  BY CaptureOutcome
<1>4. ThreadSteps(t)
  BY CaptureOutcome DEF ThreadSteps, Exists
<1>5. \A r \in 1..MaxRuns : captured'[r] > 0 =>
        \/ captured[r] > 0
        \/ /\ r = s.run
           /\ \E j \in Jobs : Exists(j)' /\ job'[j].file = s.file
  <2>1. \E j \in Jobs : Exists(j)' /\ job'[j].file = s.file
    BY CaptureOutcome DEF Exists
  <2> QED BY <1>3, <2>1
<1>6. cache'.job \in Jobs /\ cache'.file = s.file
  BY CaptureOutcome
<1>7. Ordered' /\ Rowed' /\ Unsent' /\ Named'
  BY <1>1, <1>4, <1>5, <1>6, ThreadMoves
<1>8. Tracks(s.file)'
  BY CaptureOutcome DEF Tracks, Unsent
<1>9. /\ OneLeft' \subseteq OneLeft /\ TwoLeft' \subseteq TwoLeft /\ (t = worker \/ t \in Left)
      /\ t \in Left => OneLeft' # OneLeft \/ TwoLeft' # TwoLeft
  <2>1. t \in Left => t \in OneLeft
    BY <1>2 DEF OneLeft
  <2> QED BY <1>2, <1>4, <2>1, ThreadLeft
<1>10. /\ Owed \in Nat /\ Owed' \in Nat /\ Owed' <= Owed
       /\ t \in Left => Owed' + 1 <= Owed
  BY <1>1, <1>2, <1>9, OwedFinite, OwedFalls
<1>11. ASSUME NEW r \in 1..MaxRuns, r = s.run, t = worker \/ Covered(r)
       PROVE  Covered(r)'
  <2>1. captured'[r] > 0
    BY <1>1, <1>3, <1>11
  <2>2. ASSUME Printing(r)'
        PROVE  phys'.file = s.file
    BY <1>2, <1>11, <2>2 DEF Printing, Ordered
  <2>3. ASSUME Called(r)'
        PROVE  sync'[worker].file = s.file
    BY <1>1, <1>2, <1>11, <2>3 DEF Called, Ordered
  <2>4. ~(sync'[worker].pc = "missing" /\ sync'[worker].run = r)
    BY <1>1, <1>2, <1>11 DEF Covered
  <2> QED BY <1>2, <1>8, <2>1, <2>2, <2>3, <2>4 DEF Covered
<1>12. ASSUME NEW r \in 1..MaxRuns, r # s.run, t = worker, Covered(r)
       PROVE  Covered(r)'
  <2>1. captured[r] > 0 /\ r <= s.run /\ s.run <= phys.run
    BY <1>2, <1>12 DEF Covered, Ordered
  <2>2. ~Printing(r)'
    BY <1>1, <1>2, <1>12, <2>1 DEF Printing
  <2> QED BY <1>2, <1>3, <1>12, <2>1, <2>2 DEF Covered, Called
<1>13. ASSUME NEW r \in 1..MaxRuns
       PROVE  Captures(r)' <= 1 + used'.mishaps + worker'
  <2> DEFINE bare == IF Covered(r) THEN 0 ELSE 1
             now == IF Covered(r)' THEN 0 ELSE 1
  <2>1. /\ bare \in {0, 1} /\ now \in {0, 1}
        /\ (Covered(r) => Covered(r)') => now = 0 \/ bare = 1
        /\ Covered(r)' => now = 0
        /\ ~Covered(r) => bare = 1
    BY Zenon
  <2>2. captured[r] + bare + Owed <= 1 + used.mishaps + worker
    BY DEF Placeholders, Captures
  <2>3. s.run = r /\ t = worker => ~Covered(r)
    BY <1>2 DEF Covered
  <2> HIDE DEF bare, now
  <2>4. \/ captured'[r] = captured[r] /\ (now = 0 \/ bare = 1 \/ Owed' + 1 <= Owed)
        \/ captured'[r] = captured[r] + 1 /\ now = 0 /\ bare = 1
        \/ captured'[r] = captured[r] + 1 /\ (now = 0 \/ bare = 1) /\ Owed' + 1 <= Owed
    BY <1>3, <1>9, <1>10, <1>11, <1>12, <2>1, <2>3
  <2>5. captured'[r] + now + Owed' <= 1 + used.mishaps + worker
    <3>1. ASSUME NEW c \in Nat, NEW b \in {0, 1}, NEW n \in {0, 1}, NEW o \in Nat,
                 NEW o1 \in Nat, NEW m \in Nat, NEW w \in Nat,
                 o1 <= o, c + b + o <= 1 + m + w
          PROVE  /\ n = 0 \/ b = 1 \/ o1 + 1 <= o => c + n + o1 <= 1 + m + w
                 /\ n = 0 /\ b = 1 => (c + 1) + n + o1 <= 1 + m + w
                 /\ (n = 0 \/ b = 1) /\ o1 + 1 <= o => (c + 1) + n + o1 <= 1 + m + w
      BY <3>1
    <3>2. /\ captured[r] \in Nat /\ bare \in {0, 1} /\ now \in {0, 1} /\ Owed \in Nat
          /\ Owed' \in Nat /\ used.mishaps \in Nat /\ worker \in Nat /\ Owed' <= Owed
      BY <1>1, <1>10, <2>1
    <3>3. LET c == captured[r]
              bound == 1 + used.mishaps + worker
          IN  /\ now = 0 \/ bare = 1 \/ Owed' + 1 <= Owed => c + now + Owed' <= bound
              /\ now = 0 /\ bare = 1 => (c + 1) + now + Owed' <= bound
              /\ (now = 0 \/ bare = 1) /\ Owed' + 1 <= Owed
                   => (c + 1) + now + Owed' <= bound
      BY <2>2, <3>1, <3>2
    <3> QED BY <2>4, <3>3
  <2>6. captured'[r] + (IF Covered(r)' THEN 0 ELSE 1) + Owed'
          <= 1 + used'.mishaps + worker'
    BY <1>2, <2>5 DEF now
  <2> QED BY <2>6 DEF Captures
<1>14. Placeholders'
  BY <1>13 DEF Placeholders
<1> QED BY <1>7, <1>14

\* A sync that raises is a mishap.
LEMMA FaultCapturing ==
    ASSUME Tracking, Capturing, NEW t \in Generations, Fault(t)
    PROVE  Capturing'
<1> USE DEF Capturing
<1>1. /\ TypeOK /\ TypeOK' /\ sync \in [Generations -> Syncs]
      /\ used \in Counts
  BY MishapTracking, Types DEF Tracking
<1>2. /\ UNCHANGED <<worker, captured>> /\ used'.mishaps = used.mishaps + 1
      /\ UNCHANGED <<job, phys, transfer, ready, cache>>
  BY <1>1 DEF Fault, Mishap, Vault, Asked
<1>3. ThreadSteps(t)
  <2>1. Idle.pc = "idle"
    BY DEF Idle
  <2> QED BY <1>1, <1>2, <2>1 DEF Fault, ThreadSteps, Exists
<1>4. Ordered' /\ Rowed' /\ Unsent' /\ Named'
  BY <1>1, <1>2, <1>3, ThreadMoves
<1>5. Placeholders'
  BY <1>1, <1>2, <1>3, ThreadLeft, CalmPlaceholders
<1> QED BY <1>4, <1>5

\* One thread more makes one more.
LEMMA LeftAdds ==
    ASSUME NEW S, IsFiniteSet(S), Cardinality(S) \in Nat, NEW x
    PROVE  /\ IsFiniteSet(S \cup {x}) /\ Cardinality(S \cup {x}) \in Nat
           /\ Cardinality(S \cup {x}) <= Cardinality(S) + 1
<1>1. \/ Cardinality(S \cup {x}) = Cardinality(S)
      \/ Cardinality(S \cup {x}) = Cardinality(S) + 1
  BY FS_AddElement
<1> QED BY <1>1, FS_AddElement, FS_CardinalityType

\* A worker that is replaced leaves a thread behind, which may cause two placeholders.
LEMMA RestartCapturing ==
    ASSUME Tracking, Capturing, Restart
    PROVE  Capturing'
<1> USE DEF Capturing
<1>1. /\ TypeOK /\ worker \in Nat /\ used.mishaps \in Nat
      /\ used \in Counts
      /\ \A r \in 1..MaxRuns : r \in Nat /\ captured[r] \in Nat
      /\ \A u \in Generations : u \in Nat
  BY Parts, Types DEF Tracking
<1>2. /\ UNCHANGED <<job, phys, transfer, ready, sync, cache, notified, captured>>
      /\ worker' = worker + 1 /\ worker' \in Generations
      /\ used'.mishaps = used.mishaps + 1
  BY <1>1 DEF Restart, Mishap, Vault, Asked
<1>3. sync[worker'].pc = "idle"
  BY <1>1, <1>2 DEF Tracking, Abandoned
<1>4. Ordered' /\ Rowed' /\ Unsent' /\ Named'
  BY <1>2, <1>3 DEF Ordered, Rowed, HasRow, Exists, Unsent, Named
<1>5. /\ Owed \in Nat /\ Owed' \in Nat /\ Owed' <= Owed + 2
  <2>1. /\ OneLeft' \in SUBSET (OneLeft \cup {worker})
        /\ TwoLeft' \in SUBSET (TwoLeft \cup {worker})
    BY <1>1, <1>2 DEF OneLeft, TwoLeft, Left
  <2>2. /\ IsFiniteSet(OneLeft) /\ Cardinality(OneLeft) \in Nat
        /\ IsFiniteSet(TwoLeft) /\ Cardinality(TwoLeft) \in Nat
        /\ Owed = Cardinality(OneLeft) + Cardinality(TwoLeft)
        /\ Owed' = Cardinality(OneLeft') + Cardinality(TwoLeft')
    BY <1>1, OwedFinite DEF Owed
  <2>3. /\ Cardinality(OneLeft') \in Nat
        /\ Cardinality(OneLeft') <= Cardinality(OneLeft) + 1
    <3>1. /\ IsFiniteSet(OneLeft \cup {worker})
          /\ Cardinality(OneLeft \cup {worker}) \in Nat
          /\ Cardinality(OneLeft \cup {worker}) <= Cardinality(OneLeft) + 1
      BY <2>2, LeftAdds
    <3>2. /\ Cardinality(OneLeft') \in Nat
          /\ Cardinality(OneLeft') <= Cardinality(OneLeft \cup {worker})
      BY <2>1, <3>1, FS_Subset, FS_CardinalityType
    <3> QED BY <2>2, <3>1, <3>2
  <2>4. /\ Cardinality(TwoLeft') \in Nat
        /\ Cardinality(TwoLeft') <= Cardinality(TwoLeft) + 1
    <3>1. /\ IsFiniteSet(TwoLeft \cup {worker})
          /\ Cardinality(TwoLeft \cup {worker}) \in Nat
          /\ Cardinality(TwoLeft \cup {worker}) <= Cardinality(TwoLeft) + 1
      BY <2>2, LeftAdds
    <3>2. /\ Cardinality(TwoLeft') \in Nat
          /\ Cardinality(TwoLeft') <= Cardinality(TwoLeft \cup {worker})
      BY <2>1, <3>1, FS_Subset, FS_CardinalityType
    <3> QED BY <2>2, <3>1, <3>2
  <2> QED BY <2>2, <2>3, <2>4
<1>6. ASSUME NEW r \in 1..MaxRuns
      PROVE  Captures(r)' <= 1 + used'.mishaps + worker'
  <2>1. Covered(r) => Covered(r)'
    BY <1>2, <1>3 DEF Covered, Called, Printing, Tracks
  <2> DEFINE bare == IF Covered(r) THEN 0 ELSE 1
             now == IF Covered(r)' THEN 0 ELSE 1
  <2>2. bare \in {0, 1} /\ now \in {0, 1} /\ (now = 0 \/ bare = 1)
    BY <2>1, Zenon
  <2>3. captured[r] + bare + Owed <= 1 + used.mishaps + worker
    BY DEF Placeholders, Captures
  <2> HIDE DEF bare, now
  <2>4. captured[r] + now + Owed' <= 1 + (used.mishaps + 1) + (worker + 1)
    <3>1. ASSUME NEW c \in Nat, NEW b \in {0, 1}, NEW n \in {0, 1}, NEW o \in Nat,
                 NEW o1 \in Nat, NEW m \in Nat, NEW w \in Nat,
                 o1 <= o + 2, c + b + o <= 1 + m + w, n = 0 \/ b = 1
          PROVE  c + n + o1 <= 1 + (m + 1) + (w + 1)
      BY <3>1
    <3> QED BY <1>1, <1>5, <2>2, <2>3, <3>1
  <2> QED BY <1>2, <2>4 DEF Captures, now
<1>7. Placeholders'
  BY <1>6 DEF Placeholders
<1> QED BY <1>4, <1>7

\* A process that restarts has no threads and knows of no row; that is a mishap.
LEMMA CrashCapturing ==
    ASSUME Tracking, Capturing, Crash
    PROVE  Capturing'
<1> USE DEF Capturing
<1>1. /\ TypeOK /\ TypeOK' /\ job \in [Jobs -> Row] /\ worker \in Generations
      /\ used \in Counts
  BY MishapTracking, Types DEF Tracking
<1>2. /\ UNCHANGED <<worker, captured>> /\ used'.mishaps = used.mishaps + 1
      /\ phys' = phys /\ ready' = ready /\ cache' = NoCache
      /\ \A u \in Generations : sync'[u].pc = "idle"
      /\ \A j \in Jobs : transfer'[j].step = "done"
      /\ NoCache.job = 0 /\ NoCache.file = NoFile
  BY <1>1, UsedTypes DEF Crash, NoSend, Idle, NoCache
<1>3. \A j \in Jobs : Exists(j) => Exists(j)' /\ job'[j].file = job[j].file
  BY <1>1 DEF Crash, Exists, Row
<1>4. Ordered' /\ Unsent' /\ Named'
  BY <1>1, <1>2 DEF Ordered, Unsent, Named
<1>5. Rowed'
  <2>1. \A f : HasRow(f) => HasRow(f)'
    BY <1>3 DEF HasRow
  <2> QED BY <1>1, <1>2, <2>1 DEF Rowed
<1>6. OneLeft' = {} /\ TwoLeft' = {}
  <2>1. Left' \subseteq Generations
    BY <1>2, Parts DEF Tracking, Numbered, Left
  <2> QED BY <1>2, <2>1 DEF OneLeft, TwoLeft
<1>7. Placeholders'
  BY <1>1, <1>2, <1>6, CalmPlaceholders
<1> QED BY <1>4, <1>5, <1>7

\* At the start nothing has run.
LEMMA CapturingInit == Init => Capturing
<1> SUFFICES ASSUME Init PROVE Capturing
  OBVIOUS
<1>1. /\ \A r \in 1..MaxRuns : captured[r] = 0
      /\ \A t \in Generations : sync[t].pc = "idle"
      /\ worker = 0 /\ 0 \in Generations /\ used.mishaps = 0
      /\ cache.job = 0 /\ cache.file = NoFile
      /\ \A j \in Jobs : transfer[j].step = "done"
  BY GenerationsAssumption DEF Init, Idle, NoCache, NoSend
<1>2. Ordered /\ Rowed /\ Unsent /\ Named
  BY <1>1 DEF Ordered, Rowed, Unsent, Named
<1>3. Owed = 0
  <2>1. OneLeft = {} /\ TwoLeft = {}
    BY <1>1 DEF OneLeft, TwoLeft, Left
  <2> QED BY <2>1, FS_EmptySet DEF Owed
<1>4. Placeholders
  <2>1. \A r \in 1..MaxRuns : (IF Covered(r) THEN 0 ELSE 1) \in {0, 1}
    BY Zenon
  <2> QED BY <1>1, <1>3, <2>1 DEF Placeholders, Captures
<1> QED BY <1>2, <1>4 DEF Capturing

\* Every step keeps the placeholders paid for.
LEMMA CapturingStep == Tracking /\ Capturing /\ [Next]_vars => Capturing'
<1> SUFFICES ASSUME Tracking, Capturing, [Next]_vars PROVE Capturing'
  OBVIOUS
<1>1. ASSUME NEW j \in Jobs, NEW f \in Files, Enqueue(j, f) \/ Send(j, f)
      PROVE  Capturing'
  <2>1. /\ [NoRow EXCEPT !.state = "queued", !.file = f] \in Row
        /\ [NoRow EXCEPT !.state = "queued", !.file = f].state = "queued"
        /\ [NoRow EXCEPT !.state = "uploading", !.file = f] \in Row
        /\ [NoRow EXCEPT !.state = "uploading", !.file = f].state = "uploading"
    BY DEF NoRow, Row, States
  <2>2. CASE Enqueue(j, f)
    BY <2>1, <2>2, RequestCapturing DEF Enqueue
  <2>3. CASE Send(j, f)
    BY <2>1, <2>3, RequestCapturing DEF Send
  <2> QED BY <1>1, <2>2, <2>3
<1>2. ASSUME NEW j \in Jobs, NEW f \in Files, NEW source \in {"vault", "external"},
             StartFile(j, f, source)
      PROVE  Capturing'
  <2>1. /\ [NoRow EXCEPT !.state = "started", !.file = f, !.source = source] \in Row
        /\ [NoRow EXCEPT !.state = "started", !.file = f, !.source = source].state = "started"
    BY DEF NoRow, Row, States
  <2> QED BY <1>2, <2>1, RequestCapturing DEF StartFile
<1>3. CASE UNCHANGED vars
  BY <1>3 DEF vars, Capturing, Ordered, Rowed, HasRow, Exists, Unsent, Named,
              Placeholders, Captures, Covered, Called, Printing, Tracks, Owed, OneLeft,
              TwoLeft, Left
<1> QED BY <1>1, <1>2, <1>3, PrinterCapturing, AskCapturing, CancelCapturing,
           RetryCapturing, TransferCapturing, ReportCapturing, ReadCapturing, CaptureCapturing, WriteCapturing,
           FaultCapturing, RestartCapturing, CrashCapturing DEF Next, SyncStep

\* In every state the placeholders of a run, those inserted and those still to come, have
\* been paid for by the run, a mishap or a worker that was replaced.
THEOREM CapturingInvariant == Spec => [](Tracking /\ Capturing)
<1>1. Init => Tracking /\ Capturing
  BY TrackingInit, CapturingInit
<1>2. Tracking /\ Capturing /\ [Next]_vars => (Tracking /\ Capturing)'
  BY TrackingStep, CapturingStep
<1> QED BY <1>1, <1>2, PTL DEF Spec

\* A run of the printer is captured by one placeholder, and by one more for each mishap
\* and each worker that was replaced.
THEOREM CapturedOncePerCause == Spec => []PlaceholdersPaidFor
<1>1. ASSUME Tracking, Capturing, NEW r \in 1..MaxRuns
      PROVE  captured[r] <= 1 + used.mishaps + worker
  <2>1. worker \in Nat /\ captured[r] \in Nat /\ used.mishaps \in Nat /\ Owed \in Nat
    BY <1>1, Parts, OwedFinite DEF Tracking
  <2> DEFINE bare == IF Covered(r) THEN 0 ELSE 1
  <2>2. bare \in {0, 1}
    BY Zenon
  <2>3. captured[r] + bare + Owed <= 1 + used.mishaps + worker
    BY <1>1 DEF Capturing, Placeholders, Captures
  <2> HIDE DEF bare
  <2> QED BY <2>1, <2>2, <2>3
<1>2. Tracking /\ Capturing => PlaceholdersPaidFor
  BY <1>1 DEF PlaceholdersPaidFor
<1> QED BY <1>2, CapturingInvariant, PTL
=============================================================================
