------------------------ MODULE MaintenanceGateProofs ------------------------
(***************************************************************************)
(* Proofs about MaintenanceGate, for every set of works and keys and every *)
(* value of the bounds.                                                    *)
(***************************************************************************)
EXTENDS MaintenanceGate, FiniteSetTheorems, TLAPS

\* The works that are admitted and counted.
Holding == {w \in Works \ loose : work[w].pc \in {"admitted", "half"}}

\* The counter of admissions is what is under way, backup included.
Counted == active = Cardinality(Holding) + (IF backup.pc = "idle" THEN 0 ELSE 1)

\* The gate is shut exactly while a restore is under way.
GateShut == gate <=> restore.pc # "idle"

\* A restore that has got past the drain found nothing admitted.
Quiet == restore.pc \notin {"idle", "drain"} => active = 0

\* What goes on without its admission has begun.
Begun == \A w \in loose : work[w].pc # "idle"

Admissions == TypeOK /\ Counted /\ GateShut /\ Quiet /\ Begun

-----------------------------------------------------------------------------
(* Types *)

Pcs == {"idle", "admitted", "half", "queued", "running", "written", "done"}

\* The records the actions reset to are of their types.
LEMMA RecordTypes ==
    /\ NoArchive \in Archive
    /\ NoBackup \in Backup
    /\ NoRestore \in Restore
<1>1. NoArchive \in Archive
  BY DEF NoArchive, Archive, JobStates
<1> QED BY <1>1 DEF NoBackup, Backup, NoRestore, Restore

\* Moving a work to another point of its program keeps its type, and what it
\* does to the works that hold an admission.
LEMMA GotoType ==
    ASSUME work \in [Works -> Work], NEW w \in Works, NEW pc \in Pcs, Goto(w, pc)
    PROVE  /\ work' \in [Works -> Work]
           /\ loose' = loose =>
                Holding' = IF pc \in {"admitted", "half"} /\ w \notin loose
                           THEN Holding \cup {w} ELSE Holding \ {w}
           /\ loose' = loose \ {w} /\ pc \notin {"admitted", "half"} =>
                Holding' = Holding \ {w}
<1>1. work' = [work EXCEPT ![w] = [work[w] EXCEPT !.pc = pc]]
  BY DEF Goto
<1>2. [work[w] EXCEPT !.pc = pc] \in Work
  BY DEF Work, Pcs
<1>3. work' \in [Works -> Work]
  BY <1>1, <1>2
<1>4. /\ work'[w].pc = pc
      /\ \A v \in Works \ {w} : work'[v] = work[v]
  BY <1>1 DEF Work
<1> QED BY <1>3, <1>4 DEF Holding

\* Where a work goes, alone.
LEMMA GotoAlone ==
    ASSUME work \in [Works -> Work], NEW w \in Works, NEW pc \in Pcs, Goto(w, pc)
    PROVE  /\ work'[w].pc = pc /\ work'[w].key = work[w].key /\ work'[w].adds = work[w].adds
           /\ \A v \in Works \ {w} : work'[v] = work[v]
BY DEF Goto, Work, Pcs

\* There are finitely many works.
LEMMA HoldingFinite == IsFiniteSet(Holding) /\ Cardinality(Holding) \in Nat
BY WorksAssumption, FS_Subset, FS_CardinalityType DEF Holding

\* Whatever holds an admission is counted.
LEMMA HoldersAreCounted ==
    ASSUME TypeOK, Counted
    PROVE  /\ Holding # {} => active # 0
           /\ backup.pc # "idle" => active # 0
<1>1. Cardinality(Holding) \in Nat /\ (Holding # {} => Cardinality(Holding) # 0)
  BY HoldingFinite, FS_EmptySet
<1> QED BY <1>1 DEF Counted

\* Ending an admission leaves a count.
LEMMA LeaveType ==
    ASSUME TypeOK, Leave, active # 0
    PROVE  active' \in Nat
BY DEF TypeOK, Leave

\* So does the end of a work, which is counted unless it is loose.
LEMMA EndsType ==
    ASSUME TypeOK, NEW w \in Works, Ends(w), work[w].pc \in {"admitted", "half"},
           w \in Holding => active # 0
    PROVE  active' \in Nat
BY DEF TypeOK, Ends, Leave, Holding

\* The fields of a record that records doubts.
LEMMA ExcusedType ==
    ASSUME TypeOK, NEW K \in SUBSET Keys, NEW W \in SUBSET Works
    PROVE  /\ excused.keys \in SUBSET Keys
           /\ excused.works \in SUBSET Works
           /\ [keys |-> K, works |-> W] \in [keys : SUBSET Keys, works : SUBSET Works]
           /\ [excused EXCEPT !.keys = @ \cup K] \in [keys : SUBSET Keys, works : SUBSET Works]
           /\ [excused EXCEPT !.works = @ \ W] \in [keys : SUBSET Keys, works : SUBSET Works]
BY DEF TypeOK

\* Counting a mishap.
LEMMA MishapType ==
    ASSUME TypeOK, Mishap
    PROVE  used' \in [mishaps : Nat, backups : Nat, restores : Nat]
BY DEF TypeOK, Mishap

\* A step of a work keeps the types.
LEMMA WorkStepType ==
    ASSUME TypeOK, NEW w \in Works, WorkStep(w), w \in Holding => active # 0
    PROVE  TypeOK'
<1> USE DEF TypeOK
<1>0. work[w].key \in Keys
  BY DEF Work
<1>1. CASE Admit(w)
  BY <1>1, GotoType DEF Admit, Vault, Pcs
<1>2. CASE ChangeBlob(w)
  <2>1. excused' \in [keys : SUBSET Keys, works : SUBSET Works]
    BY <1>0, <1>2, ExcusedType DEF ChangeBlob, InDoubt
  <2> QED BY <1>0, <1>2, <2>1, GotoType DEF ChangeBlob, Gate, Pcs
<1>3. CASE CommitRow(w)
  BY <1>0, <1>3, GotoType, EndsType DEF CommitRow, Done, Pcs
<1>4. CASE CommitFails(w)
  <2>1. active' \in Nat
    BY <1>4, EndsType DEF CommitFails
  <2>2. work' \in [Works -> Work] /\ loose' \subseteq Works
    BY <1>4, GotoType DEF CommitFails, Done, Pcs
  <2>3. excused' \in [keys : SUBSET Keys, works : SUBSET Works]
    BY <1>0, <1>4, ExcusedType DEF CommitFails, InDoubt
  <2> QED BY <1>4, <2>1, <2>2, <2>3, MishapType DEF CommitFails, Vault
<1>5. CASE Decline(w)
  BY <1>5, GotoType, EndsType DEF Decline, Done, Vault, Pcs
<1>6. CASE Register(w)
  BY <1>6, GotoType, EndsType DEF Register, Vault, JobStates, Pcs
<1>7. CASE StartJob(w)
  <2>1. excused' \in [keys : SUBSET Keys, works : SUBSET Works]
    BY <1>7, ExcusedType DEF StartJob
  <2> QED BY <1>7, <2>1, GotoType DEF StartJob, Gate, Vault, JobStates, Pcs
<1>8. CASE JobWrites(w)
  <2>1. excused' \in [keys : SUBSET Keys, works : SUBSET Works]
    BY <1>0, <1>8, ExcusedType DEF JobWrites, InDoubt
  <2> QED BY <1>0, <1>8, <2>1, GotoType DEF JobWrites, Gate, Pcs
<1>9. CASE JobCommits(w)
  <2>1. excused' \in [keys : SUBSET Keys, works : SUBSET Works]
    BY <1>9, ExcusedType DEF JobCommits
  <2> QED BY <1>0, <1>9, <2>1, GotoType DEF JobCommits, Done, JobStates, Pcs
<1>10. CASE JobFails(w)
  <2>1. excused' \in [keys : SUBSET Keys, works : SUBSET Works]
    BY <1>10, ExcusedType DEF JobFails
  <2> QED BY <1>10, <2>1, GotoType DEF JobFails, Done, Vault, JobStates, Pcs
<1>11. CASE GiveBack(w)
  BY <1>11, LeaveType DEF GiveBack, Holding, Vault
<1> QED BY <1>1, <1>2, <1>3, <1>4, <1>5, <1>6, <1>7, <1>8, <1>9, <1>10, <1>11 DEF WorkStep

\* A step of a backup, or of its archive, keeps the types.
LEMMA BackupStepType ==
    ASSUME TypeOK, RequestBackup \/ BackupStep \/ DeleteArchive,
           backup.pc # "idle" => active # 0
    PROVE  TypeOK'
<1> USE DEF TypeOK
<1>1. CASE RequestBackup
  <2>1. backup' \in Backup
    BY <1>1 DEF RequestBackup, Backup
  <2> QED BY <1>1, <2>1 DEF RequestBackup, Vault
<1>2. CASE Snapshot
  <2>1. [pc |-> "copying", todo |-> Archived(rows),
         copy |-> [exists |-> TRUE, rows |-> rows, blobs |-> {}, jobs |-> job]] \in Backup
    BY DEF Backup, Archive, Archived
  <2> QED BY <1>2, <2>1, RecordTypes, LeaveType DEF Snapshot, Vault
<1>3. CASE \E k \in Keys : CopyBlob(k)
  <2> PICK k \in Keys : CopyBlob(k)
    BY <1>3
  <2>1. CASE k \in blobs
    <3>1. backup' = [backup EXCEPT !.todo = @ \ {k}, !.copy.blobs = @ \cup {k}]
      BY <2>1 DEF CopyBlob
    <3>2. [backup.copy EXCEPT !.blobs = @ \cup {k}] \in Archive
      BY DEF Backup, Archive
    <3>3. backup' \in Backup
      BY <3>1, <3>2 DEF Backup
    <3> QED BY <2>1, <3>3 DEF CopyBlob, Gate, Vault
  <2>2. CASE k \notin blobs
    BY <2>2, RecordTypes, LeaveType DEF CopyBlob, Vault
  <2> QED BY <2>1, <2>2
<1>4. CASE FinishBackup
  <2>1. archive' \in Archive
    BY <1>4 DEF FinishBackup, Backup
  <2> QED BY <1>4, <2>1, RecordTypes, LeaveType DEF FinishBackup, Vault
<1>5. CASE DeleteArchive
  BY <1>5, RecordTypes DEF DeleteArchive, Gate, Vault
<1> QED BY <1>1, <1>2, <1>3, <1>4, <1>5 DEF BackupStep

\* The records a restore goes through are of their types.
LEMMA RestoreRecords ==
    ASSUME restore \in Restore, NEW K \in SUBSET Keys, NEW U \in SUBSET Works,
           NEW a \in Archive,
           NEW pc \in {"idle", "drain", "grace", "stage", "apply", "rollback", "end"}
    PROVE  /\ [restore EXCEPT !.pc = pc] \in Restore
           /\ [restore EXCEPT !.pc = pc, !.unstarted = U] \in Restore
           /\ [restore EXCEPT !.pc = pc, !.staged = a] \in Restore
           /\ [restore EXCEPT !.overwrote = @ \cup K] \in Restore
           /\ [restore EXCEPT !.created = @ \cup K] \in Restore
           /\ [restore EXCEPT !.overwrote = @ \ K, !.created = @ \ K] \in Restore
           /\ \A r \in Restore : [r EXCEPT !.pc = pc] \in Restore
BY DEF Restore

\* What the archived database puts in doubt.
LEMMA DoubtsType ==
    ASSUME TypeOK
    PROVE  /\ restore.staged.rows \in SUBSET Keys
           /\ restore.staged.jobs \in [Works -> JobStates]
           /\ restore.created \in SUBSET Keys
           /\ Doubts \in [keys : SUBSET Keys, works : SUBSET Works]
<1>1. restore.staged \in Archive /\ restore.created \in SUBSET Keys
  BY DEF TypeOK, Restore
<1>2. restore.staged.rows \in SUBSET Keys /\ restore.staged.jobs \in [Works -> JobStates]
  BY <1>1 DEF Archive
<1>3. excused.keys \in SUBSET Keys
  BY DEF TypeOK
<1> QED BY <1>1, <1>2, <1>3 DEF Doubts

\* A step of a restore keeps the types.
LEMMA RestoreStepType ==
    ASSUME TypeOK, BeginRestore \/ RestoreStep
    PROVE  TypeOK'
<1> USE DEF TypeOK
<1>1. CASE BeginRestore
  <2>1. restore' \in Restore
    BY <1>1, RestoreRecords, RecordTypes DEF BeginRestore
  <2> QED BY <1>1, <2>1 DEF BeginRestore, Vault
<1>2. CASE Drained
  BY <1>2, RestoreRecords, RecordTypes DEF Drained, Gate, Vault
<1>3. CASE DrainTimesOut
  BY <1>3, RecordTypes DEF DrainTimesOut, Vault
<1>4. CASE CountJobs
  <2>1. {w \in Works : work[w].pc = "queued"} \in SUBSET Works
    OBVIOUS
  <2>2. restore' \in Restore
    BY <1>4, <2>1, RestoreRecords DEF CountJobs, PassCount
  <2>3. {work[w].key : w \in {v \in Works : work[v].pc = "half"}} \in SUBSET Keys
    BY DEF Work
  <2>4. excused' \in [keys : SUBSET Keys, works : SUBSET Works]
    BY <1>4, <2>3, ExcusedType DEF CountJobs, PassCount, InDoubt
  <2> QED BY <1>4, <2>2, <2>4 DEF CountJobs, Gate, Vault
<1>5. CASE Stage
  BY <1>5, RestoreRecords DEF Stage, Gate, Vault
<1>6. CASE StageFails
  <2>1. used' \in [mishaps : Nat, backups : Nat, restores : Nat]
    BY <1>6, MishapType DEF StageFails
  <2> QED BY <1>6, <2>1, RestoreRecords, RecordTypes DEF StageFails, Gate, Vault
<1>7. CASE \E k \in Keys : ApplyBlob(k)
  <2> PICK k \in Keys : ApplyBlob(k)
    BY <1>7
  <2>1. Record(k) \in Restore
    BY RestoreRecords DEF Record
  <2> QED BY <2>1 DEF ApplyBlob, Gate
<1>8. CASE \E k \in Keys : ApplyFails(k)
  <2> PICK k \in Keys : ApplyFails(k)
    BY <1>8
  <2>1. Record(k) \in Restore
    BY RestoreRecords DEF Record
  <2>2. restore' \in Restore
    BY <2>1 DEF ApplyFails, Restore
  <2> QED BY <2>2, MishapType DEF ApplyFails, Gate
<1>9. CASE SwapDatabase
  BY <1>9, RestoreRecords, RecordTypes, DoubtsType DEF SwapDatabase, Gate
<1>10. CASE SwapFails
  BY <1>10, MishapType, RestoreRecords, RecordTypes DEF SwapFails, Gate, Vault
<1>11. CASE SwapFailsLate
  <2>1. excused' \in [keys : SUBSET Keys, works : SUBSET Works]
    BY <1>11, DoubtsType DEF SwapFailsLate
  <2> QED BY <1>11, <2>1, MishapType, RestoreRecords, RecordTypes, DoubtsType
          DEF SwapFailsLate, Gate
<1>12. CASE \E k \in Keys : RollBack(k)
  <2> PICK k \in Keys : RollBack(k)
    BY <1>12
  <2>1. restore' \in Restore
    BY RestoreRecords DEF RollBack, Forget
  <2> QED BY <2>1 DEF RollBack, Gate
<1>13. CASE \E k \in Keys : RollBackFails(k)
  <2> PICK k \in Keys : RollBackFails(k)
    BY <1>13
  <2>1. restore' \in Restore
    BY RestoreRecords DEF RollBackFails, Forget
  <2>2. excused' \in [keys : SUBSET Keys, works : SUBSET Works]
    BY ExcusedType DEF RollBackFails, InDoubt
  <2> QED BY <2>1, <2>2 DEF RollBackFails, Gate, Vault
<1>14. CASE RolledBack
  BY <1>14, RestoreRecords, RecordTypes DEF RolledBack, Gate, Vault
<1>15. CASE EndRestore
  BY <1>15, RecordTypes DEF EndRestore, Vault
<1> QED BY <1>1, <1>2, <1>3, <1>4, <1>5, <1>6, <1>7, <1>8, <1>9, <1>10, <1>11, <1>12,
           <1>13, <1>14, <1>15 DEF RestoreStep

\* A crash keeps the types, and leaves no admission behind.
LEMMA CrashType ==
    ASSUME TypeOK, Crash
    PROVE  TypeOK' /\ Holding' = {}
<1> USE DEF TypeOK
<1>1. work' \in [Works -> Work] /\ \A w \in Works : work'[w].pc \in {"idle", "done"}
  <2>1. \A w \in Works : [work[w] EXCEPT !.pc = "done"] \in Work
    BY DEF Work
  <2>2. \A w \in Works : [work[w] EXCEPT !.pc = "done"].pc = "done"
    BY DEF Work
  <2> QED BY <2>1, <2>2 DEF Crash
<1>2. job' \in [Works -> JobStates]
  BY DEF Crash, JobStates
<1>3. excused' \in [keys : SUBSET Keys, works : SUBSET Works]
  <2>1. restore.overwrote \in SUBSET Keys /\ excused.keys \in SUBSET Keys
    BY DEF Restore
  <2>2. \A w \in Works : work[w].key \in Keys
    BY DEF Work
  <2> QED BY <2>1, <2>2 DEF Crash
<1>4. TypeOK'
  BY <1>1, <1>2, <1>3, MishapType, RecordTypes DEF Crash, Vault
<1> QED BY <1>1, <1>4 DEF Holding

-----------------------------------------------------------------------------
(* Nothing that was admitted runs under a restore *)

\* The invariant holds at the start.
LEMMA AdmissionsInit == Init => Admissions
<1> SUFFICES ASSUME Init PROVE Admissions
  OBVIOUS
<1>1. work \in [Works -> Work] /\ Holding = {}
  BY PlansAssumption DEF Init, Work, Holding
<1>2. archive \in Archive
  <2>1. rows \in SUBSET Keys
    BY KeysAssumption DEF Init
  <2>2. Archived(rows) \in SUBSET Keys
    BY <2>1 DEF Archived
  <2> QED BY <2>1, <2>2, RecordTypes DEF Init, Archive
<1>3. TypeOK
  BY <1>1, <1>2, RecordTypes, KeysAssumption DEF Init, TypeOK, JobStates
<1>4. backup.pc = "idle" /\ restore.pc = "idle"
  BY DEF Init, NoBackup, NoRestore
<1> QED BY <1>1, <1>3, <1>4, FS_EmptySet
        DEF Init, Admissions, Counted, GateShut, Quiet, Begun

\* What a step does to the works that hold an admission, it does to the counter.
LEMMA OneMore ==
    ASSUME TypeOK, Counted, NEW w \in Works
    PROVE  /\ w \notin Holding => Cardinality(Holding \cup {w}) = Cardinality(Holding) + 1
           /\ w \in Holding => Cardinality(Holding \ {w}) = Cardinality(Holding) - 1
BY HoldingFinite, FS_AddElement, FS_RemoveElement

\* A step of a work keeps the counter right.
LEMMA WorkStepCounted ==
    ASSUME Admissions, NEW w \in Works, WorkStep(w)
    PROVE  Admissions'
<1> USE DEF Admissions
<1>1. TypeOK'
  BY WorkStepType, HoldersAreCounted
<1>2. /\ work \in [Works -> Work] /\ active \in Nat
      /\ Cardinality(Holding) \in Nat
  BY HoldingFinite DEF TypeOK
<1>3. backup' = backup /\ restore' = restore /\ gate' = gate
  BY DEF WorkStep, Admit, ChangeBlob, CommitRow, CommitFails, Decline, Register,
         StartJob, JobWrites, JobCommits, JobFails, GiveBack, Gate
<1>9. Begun'
  <2>1. loose' \subseteq loose \cup {w} /\ \A v \in Works \ {w} : work'[v] = work[v]
    BY <1>2, GotoAlone
    DEF WorkStep, Admit, ChangeBlob, CommitRow, CommitFails, Decline, Register,
        StartJob, JobWrites, JobCommits, JobFails, GiveBack, Gate, Done, Pcs
  <2>2. work'[w].pc # "idle"
    BY <1>2, GotoAlone
    DEF WorkStep, Admit, ChangeBlob, CommitRow, CommitFails, Decline, Register,
        StartJob, JobWrites, JobCommits, JobFails, GiveBack, Done, Pcs
  <2> QED BY <2>1, <2>2 DEF Begun, TypeOK
<1>4. CASE Admit(w)
  <2>1. w \notin Holding /\ Holding' = Holding \cup {w}
    BY <1>2, <1>4, GotoType DEF Admit, Holding, Begun, Pcs
  <2>2. Counted'
    BY <1>2, <1>3, <1>4, <2>1, OneMore DEF Admit, Counted
  <2> QED BY <1>1, <1>3, <1>4, <1>9, <2>2 DEF Admit, GateShut, Quiet
<1>5. CASE (CommitRow(w) \/ CommitFails(w) \/ Decline(w) \/ Register(w) \/ GiveBack(w))
           /\ w \notin loose
  <2>1. w \in Holding /\ Holding' = Holding \ {w} /\ active' = active - 1
    <3>1. CASE GiveBack(w)
      BY <1>5, <3>1 DEF GiveBack, Leave, Holding
    <3>2. CASE ~GiveBack(w)
      BY <1>2, <1>5, <3>2, GotoType
      DEF CommitRow, CommitFails, Decline, Register, Ends, Leave, Done, Holding, Pcs
    <3> QED BY <3>1, <3>2
  <2>2. Counted'
    BY <1>2, <1>3, <2>1, OneMore DEF Counted
  <2>3. active # 0
    BY <2>1, HoldersAreCounted
  <2> QED BY <1>1, <1>3, <1>9, <2>2, <2>3 DEF GateShut, Quiet
<1>6. CASE ChangeBlob(w) \/ StartJob(w) \/ JobWrites(w) \/ JobCommits(w) \/ JobFails(w)
  <2>1. Holding' = Holding
    BY <1>2, <1>6, GotoType
    DEF ChangeBlob, StartJob, JobWrites, JobCommits, JobFails, InTask, Gate, Done, Holding, Pcs
  <2>2. active' = active
    BY <1>6 DEF ChangeBlob, StartJob, JobWrites, JobCommits, JobFails, Gate
  <2> QED BY <1>1, <1>3, <1>9, <2>1, <2>2 DEF Counted, GateShut, Quiet
<1>7. CASE (CommitRow(w) \/ CommitFails(w) \/ Decline(w) \/ Register(w)) /\ w \in loose
  <2>1. Holding' = Holding
    BY <1>2, <1>7, GotoType
    DEF CommitRow, CommitFails, Decline, Register, Done, Holding, Pcs
  <2>2. active' = active
    BY <1>7 DEF CommitRow, CommitFails, Decline, Register, Ends
  <2> QED BY <1>1, <1>3, <1>9, <2>1, <2>2 DEF Counted, GateShut, Quiet
<1>8. CASE GiveBack(w) /\ w \in loose
  BY <1>8 DEF GiveBack
<1> QED BY <1>4, <1>5, <1>6, <1>7, <1>8 DEF WorkStep

\* So does a step of a backup.
LEMMA BackupStepCounted ==
    ASSUME Admissions, RequestBackup \/ BackupStep \/ DeleteArchive
    PROVE  Admissions'
<1> USE DEF Admissions
<1>1. TypeOK'
  BY BackupStepType, HoldersAreCounted
<1>2. /\ active \in Nat /\ Cardinality(Holding) \in Nat
  BY HoldingFinite DEF TypeOK
<1>3. Holding' = Holding /\ restore' = restore /\ gate' = gate /\ Begun'
  BY DEF RequestBackup, BackupStep, Snapshot, CopyBlob, FinishBackup, DeleteArchive,
         Gate, Holding, Begun
<1>4. CASE RequestBackup
  <2>1. backup'.pc = "waiting"
    BY <1>4 DEF RequestBackup, TypeOK, Backup
  <2> QED BY <1>1, <1>2, <1>3, <1>4, <2>1 DEF RequestBackup, Counted, GateShut, Quiet
<1>5. CASE BackupStep
  <2>1. /\ backup.pc # "idle"
        /\ \/ backup'.pc # "idle" /\ active' = active
           \/ backup'.pc = "idle" /\ active' = active - 1
    <3>1. CASE Snapshot
      BY <3>1 DEF Snapshot, Leave, NoBackup
    <3>2. CASE FinishBackup
      BY <3>2 DEF FinishBackup, Leave, NoBackup
    <3>3. CASE \E k \in Keys : CopyBlob(k)
      <4> PICK k \in Keys : CopyBlob(k)
        BY <3>3
      <4>1. CASE k \in blobs
        <5>1. backup \in Backup
          BY DEF TypeOK
        <5>2. backup'.pc = backup.pc
          BY <4>1, <5>1 DEF CopyBlob, Backup
        <5> QED BY <4>1, <5>2 DEF CopyBlob, Gate
      <4>2. CASE k \notin blobs
        BY <4>2 DEF CopyBlob, Leave, NoBackup
      <4> QED BY <4>1, <4>2
    <3> QED BY <1>5, <3>1, <3>2, <3>3 DEF BackupStep
  <2>2. active # 0
    BY <2>1, HoldersAreCounted
  <2> QED BY <1>1, <1>2, <1>3, <2>1, <2>2 DEF Counted, GateShut, Quiet
<1>6. CASE DeleteArchive
  BY <1>1, <1>3, <1>6 DEF DeleteArchive, Gate, Counted, GateShut, Quiet
<1> QED BY <1>4, <1>5, <1>6

\* And a step of a restore, which opens the gate only when it is over and gets
\* past the drain only when the counter is zero.
LEMMA RestoreStepCounted ==
    ASSUME Admissions, BeginRestore \/ RestoreStep
    PROVE  Admissions'
<1> USE DEF Admissions
<1>1. TypeOK'
  BY RestoreStepType
<1>2. Holding' = Holding /\ backup' = backup /\ active' = active /\ Begun'
  BY DEF BeginRestore, RestoreStep, Drained, DrainTimesOut, CountJobs, Stage, StageFails,
         ApplyBlob, ApplyFails, SwapDatabase, SwapFails, SwapFailsLate, RollBack,
         RollBackFails, RolledBack, EndRestore, Gate, Holding, Begun
<1>3. Counted'
  BY <1>2 DEF Counted
<1>4. restore \in Restore
  BY DEF TypeOK
<1>5. CASE BeginRestore
  <2>1. restore'.pc = "drain"
    BY <1>4, <1>5 DEF BeginRestore, Restore
  <2> QED BY <1>1, <1>2, <1>3, <1>5, <2>1 DEF BeginRestore, GateShut, Quiet
<1>6. CASE DrainTimesOut \/ EndRestore
  BY <1>1, <1>2, <1>3, <1>6 DEF DrainTimesOut, EndRestore, NoRestore, GateShut, Quiet
<1>7. CASE Drained
  BY <1>1, <1>2, <1>3, <1>4, <1>7 DEF Drained, Gate, GateShut, Quiet, Restore
<1>8. CASE CountJobs \/ Stage \/ StageFails \/ SwapDatabase \/ SwapFails
           \/ SwapFailsLate \/ RolledBack
  <2>1. restore.pc \notin {"idle", "drain"} /\ restore'.pc \notin {"idle", "drain"}
    BY <1>4, <1>8 DEF CountJobs, PassCount, Stage, StageFails, SwapDatabase, SwapFails,
                      SwapFailsLate, RolledBack, Restore
  <2>2. gate' = gate
    BY <1>8 DEF CountJobs, Stage, StageFails, SwapDatabase, SwapFails, SwapFailsLate,
                RolledBack, Gate
  <2> QED BY <1>1, <1>2, <1>3, <2>1, <2>2 DEF GateShut, Quiet
<1>9. CASE \E k \in Keys : ApplyBlob(k) \/ ApplyFails(k) \/ RollBack(k) \/ RollBackFails(k)
  <2>1. restore.pc \notin {"idle", "drain"} /\ restore'.pc \notin {"idle", "drain"}
    BY <1>4, <1>9 DEF ApplyBlob, ApplyFails, RollBack, RollBackFails, Record, Forget,
                      Restore
  <2>2. gate' = gate
    BY <1>9 DEF ApplyBlob, ApplyFails, RollBack, RollBackFails, Gate
  <2> QED BY <1>1, <1>2, <1>3, <2>1, <2>2 DEF GateShut, Quiet
<1> QED BY <1>5, <1>6, <1>7, <1>8, <1>9 DEF RestoreStep

\* Every step keeps the counter of admissions right.
LEMMA AdmissionsStep == Admissions /\ [Next]_vars => Admissions'
<1> SUFFICES ASSUME Admissions, [Next]_vars PROVE Admissions'
  OBVIOUS
<1>1. CASE Crash
  <2>1. TypeOK' /\ Holding' = {}
    BY <1>1, CrashType DEF Admissions
  <2>2. backup'.pc = "idle" /\ restore'.pc = "idle" /\ active' = 0 /\ ~gate' /\ loose' = {}
    BY <1>1 DEF Crash, NoBackup, NoRestore
  <2> QED BY <2>1, <2>2, FS_EmptySet DEF Admissions, Counted, GateShut, Quiet, Begun
<1>2. CASE UNCHANGED vars
  BY <1>2 DEF vars, Admissions, TypeOK, Counted, Holding, GateShut, Quiet, Begun
<1> QED BY <1>1, <1>2, WorkStepCounted, BackupStepCounted, RestoreStepCounted DEF Next

\* The counter of admissions is right in every state.
THEOREM AdmissionsInvariant == Spec => []Admissions
BY AdmissionsInit, AdmissionsStep, PTL DEF Spec

\* The variables have their types in every state.
THEOREM TypeCorrect == Spec => []TypeOK
<1>1. Admissions => TypeOK
  BY DEF Admissions
<1> QED BY <1>1, AdmissionsInvariant, PTL

\* Whatever the works and the bounds: a restore that has got past the drain has
\* no backup beside it, and no writing request or tick of a loop but those whose
\* admission was given back before they ended.
THEOREM RestoreRunsAlone == Spec => []RestoreExcludesAdmitted
<1>1. Admissions => RestoreExcludesAdmitted
  BY HoldersAreCounted DEF Admissions, Quiet, Holding, RestoreExcludesAdmitted
<1> QED BY <1>1, AdmissionsInvariant, PTL

-----------------------------------------------------------------------------
(* A job is counted as running while its task runs *)

Early(w) == work[w].pc \in {"idle", "admitted", "half", "queued"}

\* What a list of job states, made at some time, says of the tasks of now: a job
\* it calls running has started since, and is either over or still called so.
Outdated(jobs) ==
    \A w \in Works : jobs[w] = "running" => /\ ~Early(w)
                                            /\ InTask(w) => job[w] = "running"

\* The lists there are: the table itself, the archive on disk, the one being
\* made and the one staged, which stays the one on disk until it is applied.
Remembered ==
    /\ Outdated(job) /\ Outdated(archive.jobs)
    /\ Outdated(backup.copy.jobs) /\ Outdated(restore.staged.jobs)
    /\ backup.pc # "copying" => backup.copy = NoArchive
    /\ restore.pc = "apply" => archive \in {restore.staged, NoArchive}

\* RunningMeansAtWork as an equivalence: a job in doubt is one that is
\* miscounted.
Miscounted == \A w \in Works : (job[w] = "running") # InTask(w) <=> w \in excused.works

\* OnlyUncountedUnderRestore for tasks, with those that are still to start.
Uncounted ==
    Closed => \A w \in Works :
        /\ InTask(w) => w \in restore.unstarted \cup excused.works \cup loose
        /\ work[w].pc = "queued" => w \in restore.unstarted \cup loose

Jobs == Admissions /\ Remembered /\ Miscounted /\ Uncounted

\* The archive a reset leaves says nothing of any job.
LEMMA NothingOutdated == Outdated(NoArchive.jobs)
BY DEF NoArchive, Outdated

\* At the start no job runs and no list says one does.
LEMMA JobsInit == Init => Jobs
<1> SUFFICES ASSUME Init PROVE Jobs
  OBVIOUS
<1>1. Admissions
  BY AdmissionsInit
<1>2. \A w \in Works : work[w].pc = "idle" /\ job[w] = "none"
  BY DEF Init
<1>3. archive.jobs = NoArchive.jobs
  BY DEF Init, NoArchive
<1>4. backup.copy = NoArchive /\ restore.staged = NoArchive /\ restore.pc = "idle"
  BY DEF Init, NoBackup, NoRestore
<1> QED BY <1>1, <1>2, <1>3, <1>4, NothingOutdated
        DEF Init, Jobs, Remembered, Outdated, Miscounted, Uncounted, Closed, InTask

\* A step of a work keeps the jobs accounted for.
LEMMA WorkStepJobs ==
    ASSUME Jobs, NEW w \in Works, WorkStep(w)
    PROVE  Jobs'
<1> USE DEF Jobs
<1>1. Admissions'
  BY WorkStepCounted
<1>2. /\ work \in [Works -> Work] /\ job \in [Works -> JobStates]
      /\ excused \in [keys : SUBSET Keys, works : SUBSET Works]
  BY DEF Admissions, TypeOK
<1>3. archive' = archive /\ backup' = backup /\ restore' = restore
  BY DEF WorkStep, Admit, ChangeBlob, CommitRow, CommitFails, Decline, Register,
         StartJob, JobWrites, JobCommits, JobFails, GiveBack
<1>9. \A v \in Works \ {w} : v \in loose => v \in loose'
  BY DEF WorkStep, Admit, ChangeBlob, CommitRow, CommitFails, Decline, Register,
         StartJob, JobWrites, JobCommits, JobFails, GiveBack, Done, Gate
<1>4. CASE Admit(w) \/ ChangeBlob(w) \/ CommitRow(w) \/ CommitFails(w) \/ Decline(w)
  <2>1. /\ work'[w].pc \in {"admitted", "half", "done"} /\ Early(w)
        /\ \A v \in Works \ {w} : work'[v] = work[v]
    BY <1>2, <1>4, GotoAlone
    DEF Admit, ChangeBlob, CommitRow, CommitFails, Decline, Done, Early, Pcs
  <2>2. job' = job /\ excused'.works = excused.works
    BY <1>2, <1>4 DEF Admit, ChangeBlob, CommitRow, CommitFails, Decline, InDoubt
  <2>3. Remembered' /\ Miscounted'
    BY <1>3, <2>1, <2>2 DEF Remembered, Outdated, Miscounted, InTask, Early
  <2>4. Uncounted'
    BY <1>3, <1>9, <2>1, <2>2 DEF Uncounted, Closed, InTask
  <2> QED BY <1>1, <2>3, <2>4
<1>5. CASE Register(w)
  <2>1. /\ work'[w].pc = "queued" /\ Early(w)
        /\ (w \in loose /\ w \in loose') \/ w \in Holding
        /\ \A v \in Works \ {w} : work'[v] = work[v]
    BY <1>2, <1>5, GotoAlone DEF Register, Early, Holding, Pcs
  <2>2. /\ job'[w] = "pending" /\ \A v \in Works \ {w} : job'[v] = job[v]
        /\ excused' = excused
    BY <1>2, <1>5 DEF Register
  <2>3. Remembered' /\ Miscounted'
    BY <1>3, <2>1, <2>2 DEF Remembered, Outdated, Miscounted, InTask, Early
  <2>4. Closed => w \in loose'
    BY <2>1, HoldersAreCounted DEF Closed, Admissions, Quiet
  <2>5. Uncounted'
    BY <1>3, <1>9, <2>1, <2>2, <2>4 DEF Uncounted, Closed, InTask
  <2> QED BY <1>1, <2>3, <2>5
<1>6. CASE StartJob(w)
  <2>1. /\ work'[w].pc = "running" /\ work[w].pc = "queued" /\ loose' = loose
        /\ \A v \in Works \ {w} : work'[v] = work[v]
    BY <1>2, <1>6, GotoAlone DEF StartJob, Gate, Pcs
  <2>2. /\ job'[w] = "running" /\ \A v \in Works \ {w} : job'[v] = job[v]
        /\ excused'.works = excused.works \ {w}
    BY <1>2, <1>6 DEF StartJob
  <2>3. Remembered' /\ Miscounted'
    BY <1>3, <2>1, <2>2 DEF Remembered, Outdated, Miscounted, InTask, Early
  <2>4. Uncounted'
    BY <1>3, <2>1, <2>2 DEF Uncounted, Closed, InTask
  <2> QED BY <1>1, <2>3, <2>4
<1>7. CASE JobWrites(w)
  <2>1. /\ work'[w].pc = "written" /\ work[w].pc = "running" /\ loose' = loose
        /\ \A v \in Works \ {w} : work'[v] = work[v]
    BY <1>2, <1>7, GotoAlone DEF JobWrites, Gate, Pcs
  <2>2. job' = job /\ excused'.works = excused.works
    BY <1>2, <1>7 DEF JobWrites, InDoubt
  <2>3. Remembered' /\ Miscounted'
    BY <1>3, <2>1, <2>2 DEF Remembered, Outdated, Miscounted, InTask, Early
  <2>4. Uncounted'
    BY <1>3, <2>1, <2>2 DEF Uncounted, Closed, InTask
  <2> QED BY <1>1, <2>3, <2>4
<1>8. CASE JobCommits(w) \/ JobFails(w)
  <2>1. /\ work'[w].pc = "done" /\ ~Early(w)
        /\ \A v \in Works \ {w} : work'[v] = work[v]
    BY <1>2, <1>8, GotoAlone DEF JobCommits, JobFails, InTask, Early, Done, Pcs
  <2>2. /\ job'[w] # "running" /\ \A v \in Works \ {w} : job'[v] = job[v]
        /\ excused'.works = excused.works \ {w}
    BY <1>2, <1>8 DEF JobCommits, JobFails
  <2>3. Remembered' /\ Miscounted'
    BY <1>3, <2>1, <2>2 DEF Remembered, Outdated, Miscounted, InTask, Early
  <2>4. Uncounted'
    BY <1>3, <1>9, <2>1, <2>2 DEF Uncounted, Closed, InTask
  <2> QED BY <1>1, <2>3, <2>4
<1>10. CASE GiveBack(w)
  <2>1. work' = work /\ job' = job /\ excused' = excused /\ loose \subseteq loose'
    BY <1>10 DEF GiveBack
  <2>2. Remembered' /\ Miscounted'
    BY <1>3, <2>1 DEF Remembered, Outdated, Miscounted, InTask, Early
  <2>3. Uncounted'
    BY <1>3, <2>1 DEF Uncounted, Closed, InTask
  <2> QED BY <1>1, <2>2, <2>3
<1> QED BY <1>4, <1>5, <1>6, <1>7, <1>8, <1>10 DEF WorkStep

\* So does a step of a backup.
LEMMA BackupStepJobs ==
    ASSUME Jobs, RequestBackup \/ BackupStep \/ DeleteArchive
    PROVE  Jobs'
<1> USE DEF Jobs
<1>1. Admissions'
  BY BackupStepCounted
<1>2. UNCHANGED <<work, job, excused, restore, loose>>
  BY DEF RequestBackup, BackupStep, Snapshot, CopyBlob, FinishBackup, DeleteArchive, Gate
<1>3. Miscounted' /\ Uncounted'
  BY <1>2 DEF Miscounted, Uncounted, Closed, InTask
<1>4. \A jobs : Outdated(jobs) => Outdated(jobs)'
  BY <1>2 DEF Outdated, Early, InTask
<1>5. backup \in Backup
  BY DEF Admissions, TypeOK
<1>6. CASE RequestBackup
  <2>1. backup'.copy = backup.copy /\ backup'.pc = "waiting" /\ archive' = archive
    BY <1>5, <1>6 DEF RequestBackup, Backup
  <2> QED BY <1>1, <1>2, <1>3, <1>4, <1>6, <2>1 DEF RequestBackup, Remembered, Outdated,
                                                   Early, InTask
<1>7. CASE BackupStep
  <2>1. restore.pc # "apply"
    BY <1>7, HoldersAreCounted
    DEF BackupStep, Snapshot, CopyBlob, FinishBackup, Admissions, Quiet
  <2>2. CASE Snapshot \/ \E k \in Keys : CopyBlob(k)
    <3>1. archive' = archive
      BY <2>2 DEF Snapshot, CopyBlob
    <3>2. \/ backup' = NoBackup
          \/ backup'.pc = "copying" /\ backup'.copy.jobs \in {job, backup.copy.jobs}
      <4>1. CASE Snapshot
        BY <4>1 DEF Snapshot
      <4>2. CASE \E k \in Keys : CopyBlob(k)
        <5> PICK k \in Keys : CopyBlob(k)
          BY <4>2
        <5>1. CASE k \in blobs
          <6>1. backup' = [backup EXCEPT !.todo = @ \ {k}, !.copy.blobs = @ \cup {k}]
            BY <5>1 DEF CopyBlob
          <6>2. backup.copy \in Archive
            BY <1>5 DEF Backup
          <6>3. backup'.copy.jobs = backup.copy.jobs
            BY <1>5, <6>1, <6>2 DEF Backup, Archive
          <6>4. backup'.pc = "copying"
            BY <1>5, <6>1 DEF Backup, CopyBlob
          <6> QED BY <6>3, <6>4
        <5>2. CASE k \notin blobs
          BY <5>2 DEF CopyBlob
        <5> QED BY <5>1, <5>2
      <4> QED BY <2>2, <4>1, <4>2
    <3>3. Outdated(backup'.copy.jobs)
      BY <3>2, NothingOutdated DEF Remembered, NoBackup
    <3>4. backup'.pc # "copying" => backup'.copy = NoArchive
      BY <3>2 DEF NoBackup
    <3> QED BY <1>1, <1>2, <1>3, <2>1, <3>1, <3>3, <3>4 DEF Remembered, Outdated, Early, InTask
  <2>3. CASE FinishBackup
    <3>1. archive' = backup.copy /\ backup'.copy = NoArchive
      BY <2>3 DEF FinishBackup, NoBackup
    <3> QED BY <1>1, <1>2, <1>3, <2>1, <3>1, NothingOutdated
            DEF Remembered, Outdated, Early, InTask
  <2> QED BY <1>7, <2>2, <2>3 DEF BackupStep
<1>8. CASE DeleteArchive
  <2>1. archive' = NoArchive /\ backup' = backup
    BY <1>8 DEF DeleteArchive
  <2> QED BY <1>1, <1>2, <1>3, <2>1, NothingOutdated DEF Remembered, Outdated, Early, InTask
<1> QED BY <1>6, <1>7, <1>8

\* And a step of a restore: counting the jobs lets through none but those in
\* doubt, and the archived table says of a task under way what the one it
\* replaces did, or leaves it in doubt.
LEMMA RestoreStepJobs ==
    ASSUME Jobs, BeginRestore \/ RestoreStep
    PROVE  Jobs'
<1> USE DEF Jobs
<1>1. Admissions'
  BY RestoreStepCounted
<1>2. UNCHANGED <<work, backup, archive, loose>>
  BY DEF BeginRestore, RestoreStep, Drained, DrainTimesOut, CountJobs, Stage, StageFails,
         ApplyBlob, ApplyFails, SwapDatabase, SwapFails, SwapFailsLate, RollBack,
         RollBackFails, RolledBack, EndRestore, Gate
<1>3. /\ restore \in Restore /\ job \in [Works -> JobStates]
      /\ excused \in [keys : SUBSET Keys, works : SUBSET Works]
  BY DEF Admissions, TypeOK
<1>4. CASE SwapDatabase \/ SwapFailsLate
  <2>1. /\ job' = restore.staged.jobs
        /\ excused'.works = {w \in Works : (restore.staged.jobs[w] = "running") # InTask(w)}
        /\ restore.pc = "apply"
    <3>1. CASE SwapDatabase
      BY <3>1 DEF SwapDatabase, Doubts
    <3>2. CASE SwapFailsLate
      BY <3>2 DEF SwapFailsLate, Doubts
    <3> QED BY <1>4, <3>1, <3>2
  <2>2. /\ restore'.pc \in {"end", "rollback"}
        /\ restore'.staged = restore.staged /\ restore'.unstarted = restore.unstarted
    BY <1>3, <1>4 DEF SwapDatabase, SwapFailsLate, Restore
  <2>3. Miscounted'
    BY <1>2, <2>1 DEF Miscounted, InTask
  <2>4. Remembered'
    <3>1. archive.jobs = restore.staged.jobs \/ archive.jobs = NoArchive.jobs
      BY <2>1 DEF Remembered
    <3>2. backup.pc = "idle"
      BY <2>1, HoldersAreCounted DEF Admissions, Quiet
    <3>3. backup.copy = NoArchive
      BY <3>2 DEF Remembered
    <3>4. \A w \in Works : restore.staged.jobs[w] = "running" => ~Early(w)
      BY DEF Remembered, Outdated
    <3>5. \A w \in Works : NoArchive.jobs[w] # "running"
      BY DEF NoArchive
    <3> QED BY <1>2, <2>1, <2>2, <3>1, <3>3, <3>4, <3>5 DEF Remembered, Outdated, Early, InTask
  <2>5. Uncounted'
    <3>1. Closed
      BY <2>1 DEF Closed
    <3>2. ASSUME NEW w \in Works, InTask(w), w \notin restore.unstarted
          PROVE  w \in excused'.works \cup loose
      <4> SUFFICES ASSUME w \notin loose PROVE w \in excused'.works
        OBVIOUS
      <4>1. job[w] # "running"
        BY <3>1, <3>2 DEF Uncounted, Miscounted
      <4>2. restore.staged.jobs[w] # "running"
        BY <3>2, <4>1 DEF Remembered, Outdated
      <4> QED BY <2>1, <3>2, <4>2
    <3> QED BY <1>2, <2>2, <3>1, <3>2 DEF Uncounted, InTask
  <2> QED BY <1>1, <2>3, <2>4, <2>5
<1>5. CASE ~(SwapDatabase \/ SwapFailsLate)
  <2>1. job' = job /\ excused'.works = excused.works
    BY <1>3, <1>5 DEF BeginRestore, RestoreStep, Drained, DrainTimesOut, CountJobs,
       PassCount, Stage, StageFails, ApplyBlob, ApplyFails, SwapFails, RollBack, RollBackFails, RolledBack,
       EndRestore, InDoubt
  <2>2. Miscounted'
    BY <1>2, <2>1 DEF Miscounted, InTask
  <2>3. \A jobs : Outdated(jobs) => Outdated(jobs)'
    BY <1>2, <2>1 DEF Outdated, Early, InTask
  <2>4. \/ /\ restore'.staged = restore.staged
           /\ restore'.pc = "apply" => restore.pc = "apply"
           /\ \/ restore'.unstarted = restore.unstarted /\ (Closed' => Closed)
              \/ CountJobs /\ restore'.pc = "stage"
        \/ restore'.staged = archive /\ restore'.unstarted = restore.unstarted /\ Closed
        \/ restore'.staged = NoArchive /\ restore'.pc = "idle"
    <3>1. CASE DrainTimesOut \/ EndRestore
      BY <3>1 DEF DrainTimesOut, EndRestore, NoRestore
    <3>2. CASE BeginRestore \/ Drained \/ CountJobs \/ StageFails \/ SwapFails \/ RolledBack
      BY <1>3, <3>2 DEF BeginRestore, Drained, CountJobs, PassCount, StageFails, SwapFails,
                        RolledBack, Restore, Closed
    <3>3. CASE Stage
      BY <1>3, <3>3 DEF Stage, Restore, Closed
    <3>4. ASSUME NEW k \in Keys, ApplyBlob(k) \/ ApplyFails(k)
          PROVE  /\ restore'.staged = restore.staged /\ restore.pc = "apply"
                 /\ restore'.unstarted = restore.unstarted
      BY <1>3, <3>4 DEF ApplyBlob, ApplyFails, Record, Restore
    <3>5. ASSUME NEW k \in Keys, RollBack(k) \/ RollBackFails(k)
          PROVE  /\ restore'.staged = restore.staged /\ restore'.pc = "rollback"
                 /\ restore'.unstarted = restore.unstarted /\ restore.pc = "rollback"
      BY <1>3, <3>5 DEF RollBack, RollBackFails, Forget, Restore
    <3> QED BY <1>5, <3>1, <3>2, <3>3, <3>4, <3>5 DEF RestoreStep, Closed
  <2>5. Remembered'
    BY <1>2, <2>1, <2>4, NothingOutdated DEF Remembered, Outdated, Early, InTask
  <2>6. CASE CountJobs /\ restore'.pc = "stage"
    <3>1. /\ \A w \in Works : job[w] # "running"
          /\ restore'.unstarted = {w \in Works : work[w].pc = "queued"}
      BY <1>3, <2>6 DEF CountJobs, PassCount, Restore
    <3>2. \A w \in Works : InTask(w) => w \in excused.works
      BY <3>1 DEF Miscounted
    <3> QED BY <1>1, <1>2, <2>1, <2>2, <2>5, <3>1, <3>2 DEF Uncounted, InTask
  <2>7. CASE ~(CountJobs /\ restore'.pc = "stage")
    <3>1. Closed' => Closed /\ restore'.unstarted = restore.unstarted
      BY <2>4, <2>7 DEF Closed
    <3> QED BY <1>1, <1>2, <2>1, <2>2, <2>5, <3>1 DEF Uncounted, InTask
  <2> QED BY <2>6, <2>7
<1> QED BY <1>4, <1>5

\* The restart leaves no task, and no job called running.
LEMMA CrashJobs ==
    ASSUME Jobs, Crash
    PROVE  Jobs'
<1> USE DEF Jobs
<1>1. Admissions'
  BY AdmissionsStep DEF Next
<1>2. \A w \in Works : /\ work'[w].pc \in {"idle", "done"}
                       /\ work'[w].pc = "idle" => work[w].pc = "idle"
  BY DEF Crash, Admissions, TypeOK, Work
<1>3. (\A w \in Works : job'[w] # "running") /\ excused'.works = {}
  BY DEF Crash
<1>4. restore'.pc = "idle" /\ restore'.staged = NoArchive /\ backup'.copy = NoArchive
  BY DEF Crash, NoBackup, NoRestore
<1>5. archive' = archive
  BY DEF Crash
<1>6. Remembered'
  BY <1>2, <1>3, <1>4, <1>5, NothingOutdated DEF Remembered, Outdated, Early, InTask
<1>7. Miscounted' /\ Uncounted'
  BY <1>2, <1>3, <1>4 DEF Miscounted, Uncounted, Closed, InTask
<1> QED BY <1>1, <1>6, <1>7

\* Every step keeps the jobs accounted for.
LEMMA JobsStep == Jobs /\ [Next]_vars => Jobs'
<1>1. ASSUME Jobs, UNCHANGED vars PROVE Jobs'
  BY <1>1, AdmissionsStep
  DEF vars, Jobs, Remembered, Outdated, Early, Miscounted, Uncounted, Closed, InTask
<1> QED BY <1>1, WorkStepJobs, BackupStepJobs, RestoreStepJobs, CrashJobs DEF Next

\* The jobs are accounted for in every state.
THEOREM JobsInvariant == Spec => []Jobs
BY JobsInit, JobsStep, PTL DEF Spec

\* A job is counted as running exactly while its task runs, but for those a
\* restore has put in doubt.
THEOREM RunningIsAtWork == Spec => []RunningMeansAtWork
<1>1. Jobs => RunningMeansAtWork
  BY DEF Jobs, Miscounted, RunningMeansAtWork
<1> QED BY <1>1, JobsInvariant, PTL

\* What is at work underneath a restore had not started when the jobs were
\* counted, was in doubt, or had its admission given back before it ended.
THEOREM NothingCountedUnderRestore == Spec => []OnlyUncountedUnderRestore
<1>1. Jobs => OnlyUncountedUnderRestore
  <2> SUFFICES ASSUME Jobs, Closed, NEW w \in Works, AtWork(w)
               PROVE  w \in restore.unstarted \cup excused.works \cup loose
    BY DEF OnlyUncountedUnderRestore
  <2>1. CASE InTask(w)
    BY <2>1 DEF Jobs, Uncounted
  <2>2. CASE work[w].pc \in {"admitted", "half"}
    BY <2>2, HoldersAreCounted DEF Jobs, Admissions, Quiet, Closed, Holding
  <2> QED BY <2>1, <2>2 DEF AtWork
<1> QED BY <1>1, JobsInvariant, PTL

-----------------------------------------------------------------------------
(* Every row has its blob *)

\* A work that has put a blob in place and not committed its row.
Adder(w) == \/ work[w].pc = "written"
            \/ work[w].pc = "half" /\ work[w].adds

\* Until it commits, an adder has the key to itself.
Adding ==
    \A w \in Works : Adder(w) =>
        \/ work[w].key \in excused.keys
        \/ /\ work[w].key \in blobs \ rows
           /\ \A v \in Works : Adder(v) /\ work[v].key = work[w].key => v = w

\* A task that has written under a restore, or that the database has forgotten,
\* has put its key in doubt, and so has other work between its two steps.
Forgotten ==
    \A w \in Works :
        \/ work[w].pc = "written" /\ (Closed \/ w \in excused.works)
        \/ work[w].pc = "half" /\ Closed
        => work[w].key \in excused.keys

\* An archive holds the primary blobs of its rows; one being made will.
Complete ==
    /\ archive.blobs = Archived(archive.rows)
    /\ restore.staged.blobs = Archived(restore.staged.rows)
    /\ backup.copy.blobs \cup backup.todo = Archived(backup.copy.rows)

\* What a restore has applied is there, and what it has created no row missed but
\* one in doubt.
Applying ==
    /\ restore.pc \in {"idle", "drain", "grace", "stage"} => Applied = {}
    /\ restore.pc = "apply" => Applied \subseteq blobs \cup excused.keys
    /\ restore.pc \in {"apply", "rollback"} => restore.created \cap rows \subseteq excused.keys

Intact == Jobs /\ VaultIntact /\ Adding /\ Forgotten /\ Complete /\ Applying

\* At the start every row has its blob and nothing is under way.
LEMMA IntactInit == Init => Intact
<1> SUFFICES ASSUME Init PROVE Intact
  OBVIOUS
<1>1. Jobs
  BY JobsInit
<1>2. /\ backup.copy.blobs = {} /\ backup.copy.rows = {} /\ backup.todo = {}
      /\ restore.staged.blobs = {} /\ restore.staged.rows = {}
      /\ restore.pc = "idle" /\ Applied = {}
  BY DEF Init, NoBackup, NoRestore, NoArchive, Applied
<1>3. archive.blobs = Archived(archive.rows)
  <2>1. \/ archive = NoArchive
        \/ archive.blobs = Archived(rows) /\ archive.rows = rows
    BY RecordTypes DEF Init, Archive
  <2>2. NoArchive.blobs = {} /\ NoArchive.rows = {}
    BY DEF NoArchive
  <2> QED BY <2>1, <2>2 DEF Archived
<1>4. Complete
  BY <1>2, <1>3 DEF Complete, Archived
<1>5. \A w \in Works : work[w].pc = "idle"
  BY DEF Init
<1> QED BY <1>1, <1>2, <1>4, <1>5
        DEF Init, Intact, VaultIntact, Adding, Adder, Forgotten, Applying

\* A deletion that has removed its blob goes on excusing the row when another
\* work moves.
LEMMA DeletionsStay ==
    ASSUME VaultIntact, NEW w \in Works, \A v \in Works \ {w} : work'[v] = work[v],
           ~(work[w].pc = "half" /\ ~work[w].adds)
    PROVE  \A k \in rows \ blobs :
             \/ k \in excused.keys
             \/ \E v \in Works : work'[v] = [pc |-> "half", key |-> k, adds |-> FALSE]
             \/ restore.pc = "rollback" /\ k \in restore.overwrote
<1> SUFFICES ASSUME NEW k \in rows \ blobs, k \notin excused.keys,
                    ~(restore.pc = "rollback" /\ k \in restore.overwrote)
             PROVE  \E v \in Works : work'[v] = [pc |-> "half", key |-> k, adds |-> FALSE]
  OBVIOUS
<1>1. PICK v \in Works : work[v] = [pc |-> "half", key |-> k, adds |-> FALSE]
  BY DEF VaultIntact
<1>2. v # w
  BY <1>1
<1> QED BY <1>1, <1>2

\* A step of a work keeps rows and blobs together.
LEMMA WorkStepIntact ==
    ASSUME Intact, NEW w \in Works, WorkStep(w)
    PROVE  Intact'
<1> USE DEF Intact
<1> DEFINE k == work[w].key
<1>1. Jobs'
  BY WorkStepJobs
<1>2. /\ work \in [Works -> Work] /\ rows \in SUBSET Keys /\ blobs \in SUBSET Keys
      /\ excused \in [keys : SUBSET Keys, works : SUBSET Works]
      /\ restore \in Restore
  BY DEF Jobs, Admissions, TypeOK
<1>3. archive' = archive /\ backup' = backup /\ restore' = restore
  BY DEF WorkStep, Admit, ChangeBlob, CommitRow, CommitFails, Decline, Register,
         StartJob, JobWrites, JobCommits, JobFails, GiveBack
<1>4. Complete'
  BY <1>3 DEF Complete, Archived
<1>5. CASE GiveBack(w)
  <2>1. UNCHANGED <<work, rows, blobs, excused>>
    BY <1>5 DEF GiveBack, Vault
  <2> QED BY <1>1, <1>3, <1>4, <2>1
          DEF VaultIntact, Adding, Adder, Forgotten, Closed, Applying, Applied
<1>6. CASE Admit(w) \/ Decline(w) \/ Register(w) \/ StartJob(w) \/ JobFails(w)
  <2>1. /\ work'[w].pc \notin {"half", "written"}
        /\ work[w].pc # "half"
        /\ \A v \in Works \ {w} : work'[v] = work[v]
    BY <1>2, <1>6, GotoAlone
    DEF Admit, Decline, Register, StartJob, JobFails, InTask, Done, Pcs
  <2>2. /\ rows' = rows /\ blobs' = blobs
        /\ excused'.keys = excused.keys /\ excused'.works \subseteq excused.works
    BY <1>2, <1>6 DEF Admit, Decline, Register, StartJob, JobFails, Vault
  <2>3. VaultIntact'
    BY <1>3, <2>1, <2>2 DEF VaultIntact
  <2>4. Adding' /\ Forgotten'
    BY <1>3, <2>1, <2>2 DEF Adding, Adder, Forgotten, Closed
  <2>5. Applying'
    BY <1>3, <2>2 DEF Applying, Applied
  <2> QED BY <1>1, <1>4, <2>3, <2>4, <2>5
<1>7. CASE ChangeBlob(w)
  <2>1. /\ work'[w].pc = "half" /\ work'[w].key = k /\ work'[w].adds = work[w].adds
        /\ work[w].pc = "admitted"
        /\ \A v \in Works \ {w} : work'[v] = work[v]
    BY <1>2, <1>7, GotoAlone DEF ChangeBlob, Pcs
  <2>2. /\ rows' = rows /\ excused'.works = excused.works
        /\ excused'.keys = excused.keys \cup IF Closed THEN {k} ELSE {}
    BY <1>2, <1>7 DEF ChangeBlob, InDoubt
  <2>3. Forgotten'
    BY <1>3, <2>1, <2>2 DEF Forgotten, Closed
  <2>7. blobs' \in {blobs \cup {k}, blobs \ {k}}
    BY <1>7 DEF ChangeBlob
  <2>4. Applying'
    BY <1>3, <2>2, <2>7 DEF Applying, Applied, Closed
  <2>5. CASE work[w].adds
    <3>1. k \notin rows /\ k \notin blobs /\ blobs' = blobs \cup {k}
      BY <1>7, <2>5 DEF ChangeBlob, Free
    <3>2. VaultIntact'
      BY <1>3, <2>1, <2>2, <2>5, <3>1 DEF VaultIntact
    <3>3. Adding'
      BY <1>2, <2>1, <2>2, <2>5, <3>1 DEF Adding, Adder
    <3> QED BY <1>1, <1>4, <2>3, <2>4, <3>2, <3>3
  <2>6. CASE ~work[w].adds
    <3>1. k \in rows /\ blobs' = blobs \ {k}
      BY <1>7, <2>6 DEF ChangeBlob
    <3>2. work'[w] = [pc |-> "half", key |-> k, adds |-> FALSE]
      BY <1>1, <2>1, <2>6 DEF Jobs, Admissions, TypeOK, Work
    <3>3. VaultIntact'
      BY <1>3, <2>1, <2>2, <3>1, <3>2, DeletionsStay DEF VaultIntact
    <3>4. Adding'
      BY <1>2, <2>1, <2>2, <2>6, <3>1 DEF Adding, Adder
    <3> QED BY <1>1, <1>4, <2>3, <2>4, <3>3, <3>4
  <2> QED BY <2>5, <2>6
<1>8. CASE CommitRow(w)
  <2>1. /\ work'[w].pc = "done" /\ work[w].pc = "half"
        /\ \A v \in Works \ {w} : work'[v] = work[v]
    BY <1>2, <1>8, GotoAlone DEF CommitRow, Done, Pcs
  <2>2. blobs' = blobs /\ excused' = excused
    BY <1>8 DEF CommitRow
  <2>3. rows' = IF work[w].adds THEN rows \cup {k} ELSE rows \ {k}
    BY <1>8 DEF CommitRow
  <2>4. VaultIntact'
    BY <1>2, <1>3, <2>1, <2>2, <2>3 DEF VaultIntact, Adding, Adder
  <2>5. Adding' /\ Forgotten'
    BY <1>2, <1>3, <2>1, <2>2, <2>3 DEF Adding, Adder, Forgotten, Closed
  <2>6. Closed => k \in excused.keys
    BY <2>1 DEF Forgotten
  <2>7. Applying'
    BY <1>3, <2>2, <2>3, <2>6 DEF Applying, Applied, Closed
  <2> QED BY <1>1, <1>4, <2>4, <2>5, <2>7
<1>9. CASE CommitFails(w)
  <2>1. /\ work'[w].pc = "done" /\ work[w].pc = "half"
        /\ \A v \in Works \ {w} : work'[v] = work[v]
    BY <1>2, <1>9, GotoAlone DEF CommitFails, Done, Pcs
  <2>2. /\ blobs' = blobs /\ rows' = rows /\ excused'.works = excused.works
        /\ excused'.keys = excused.keys \cup IF work[w].adds THEN {} ELSE {k}
    BY <1>2, <1>9 DEF CommitFails, InDoubt, Vault
  <2>3. VaultIntact'
    BY <1>2, <1>3, <2>1, <2>2 DEF VaultIntact
  <2>4. Adding' /\ Forgotten'
    BY <1>2, <1>3, <2>1, <2>2 DEF Adding, Adder, Forgotten, Closed
  <2>5. Applying'
    BY <1>3, <2>2 DEF Applying, Applied
  <2> QED BY <1>1, <1>4, <2>3, <2>4, <2>5
<1>10. CASE JobWrites(w)
  <2>1. /\ work'[w].pc = "written" /\ work'[w].key = k /\ work[w].pc = "running"
        /\ \A v \in Works \ {w} : work'[v] = work[v]
    BY <1>2, <1>10, GotoAlone DEF JobWrites, Pcs
  <2>2. /\ k \notin rows /\ k \notin blobs /\ blobs' = blobs \cup {k}
        /\ rows' = rows /\ excused'.works = excused.works
        /\ excused'.keys =
             excused.keys \cup IF Closed \/ w \in excused.works THEN {k} ELSE {}
    BY <1>2, <1>10 DEF JobWrites, InDoubt, Free
  <2>3. VaultIntact'
    BY <1>2, <1>3, <2>1, <2>2 DEF VaultIntact
  <2>4. Adding'
    BY <1>2, <2>1, <2>2 DEF Adding, Adder
  <2>5. Forgotten'
    BY <1>3, <2>1, <2>2 DEF Forgotten, Closed
  <2>6. Applying'
    BY <1>3, <2>2 DEF Applying, Applied
  <2> QED BY <1>1, <1>4, <2>3, <2>4, <2>5, <2>6
<1>11. CASE JobCommits(w)
  <2>1. /\ work'[w].pc = "done" /\ work[w].pc = "written"
        /\ \A v \in Works \ {w} : work'[v] = work[v]
    BY <1>2, <1>11, GotoAlone DEF JobCommits, Done, Pcs
  <2>2. /\ blobs' = blobs /\ rows' = rows \cup {k}
        /\ excused'.keys = excused.keys /\ excused'.works = excused.works \ {w}
    BY <1>2, <1>11 DEF JobCommits
  <2>3. k \in blobs \/ k \in excused.keys
    BY <2>1 DEF Adding, Adder
  <2>4. VaultIntact'
    BY <1>3, <2>1, <2>2, <2>3, DeletionsStay DEF VaultIntact
  <2>5. Adding'
    <3>1. ASSUME NEW v \in Works, v # w, Adder(v), work[v].key \notin excused.keys
          PROVE  work[v].key # k
      BY <2>1, <3>1 DEF Adding, Adder
    <3> QED BY <2>1, <2>2, <3>1 DEF Adding, Adder
  <2>6. Forgotten'
    BY <1>3, <2>1, <2>2 DEF Forgotten, Closed
  <2>7. Closed => k \in excused.keys
    BY <2>1 DEF Forgotten
  <2>8. Applying'
    BY <1>3, <2>2, <2>7 DEF Applying, Applied, Closed
  <2> QED BY <1>1, <1>4, <2>4, <2>5, <2>6, <2>8
<1> QED BY <1>5, <1>6, <1>7, <1>8, <1>9, <1>10, <1>11 DEF WorkStep

\* A backup changes neither rows nor blobs, and an archive that is finished is
\* complete.
LEMMA BackupStepIntact ==
    ASSUME Intact, RequestBackup \/ BackupStep \/ DeleteArchive
    PROVE  Intact'
<1> USE DEF Intact
<1>1. Jobs'
  BY BackupStepJobs
<1>2. UNCHANGED <<work, rows, blobs, excused, restore>>
  BY DEF RequestBackup, BackupStep, Snapshot, CopyBlob, FinishBackup, DeleteArchive, Vault
<1>3. VaultIntact' /\ Adding' /\ Forgotten' /\ Applying'
  BY <1>2 DEF VaultIntact, Adding, Adder, Forgotten, Closed, Applying, Applied
<1>4. NoArchive.blobs = Archived(NoArchive.rows) /\ NoArchive.blobs = {} /\ NoArchive.rows = {}
  BY DEF NoArchive, Archived
<1>5. NoBackup.copy.blobs \cup NoBackup.todo = Archived(NoBackup.copy.rows)
  BY <1>4 DEF NoBackup
<1>6. /\ restore'.staged.blobs = Archived(restore'.staged.rows)
      /\ \A S : Archived(S)' = Archived(S)
  BY <1>2 DEF Complete, Archived
<1>7. backup \in Backup
  BY DEF Jobs, Admissions, TypeOK
<1>8. CASE RequestBackup
  <2>1. archive' = archive /\ backup'.copy = backup.copy /\ backup'.todo = backup.todo
    BY <1>7, <1>8 DEF RequestBackup, Backup
  <2> QED BY <1>1, <1>3, <1>6, <2>1 DEF Complete, Archived
<1>9. CASE Snapshot
  <2>1. archive' = archive
    BY <1>9 DEF Snapshot
  <2>2. \/ backup' = NoBackup
        \/ /\ backup'.todo = Archived(rows) /\ backup'.copy.blobs = {}
           /\ backup'.copy.rows = rows
    BY <1>9 DEF Snapshot
  <2> QED BY <1>1, <1>3, <1>5, <1>6, <2>1, <2>2 DEF Complete, Archived
<1>10. ASSUME NEW k \in Keys, CopyBlob(k) PROVE Complete'
  <2>1. archive' = archive
    BY <1>10 DEF CopyBlob
  <2>2. CASE k \in blobs
    <3>1. /\ backup' = [backup EXCEPT !.todo = @ \ {k}, !.copy.blobs = @ \cup {k}]
          /\ k \in backup.todo
      BY <1>10, <2>2 DEF CopyBlob
    <3>2. backup.copy \in Archive
      BY <1>7 DEF Backup
    <3>3. /\ backup'.todo = backup.todo \ {k}
          /\ backup'.copy.blobs = backup.copy.blobs \cup {k}
          /\ backup'.copy.rows = backup.copy.rows
      BY <1>7, <3>1, <3>2 DEF Backup, Archive
    <3>4. backup'.copy.blobs \cup backup'.todo = backup.copy.blobs \cup backup.todo
      BY <3>1, <3>3
    <3> QED BY <1>6, <2>1, <3>3, <3>4 DEF Complete, Archived
  <2>3. CASE k \notin blobs
    <3>1. backup' = NoBackup
      BY <1>10, <2>3 DEF CopyBlob
    <3> QED BY <1>5, <1>6, <2>1, <3>1 DEF Complete, Archived
  <2> QED BY <2>2, <2>3
<1>11. CASE FinishBackup
  <2>1. archive' = backup.copy /\ backup' = NoBackup /\ backup.todo = {}
    BY <1>11 DEF FinishBackup
  <2>2. archive'.blobs = Archived(archive'.rows)
    BY <2>1 DEF Complete
  <2> QED BY <1>1, <1>3, <1>5, <1>6, <2>1, <2>2 DEF Complete, Archived
<1>12. CASE DeleteArchive
  <2>1. archive' = NoArchive /\ backup' = backup
    BY <1>12 DEF DeleteArchive
  <2> QED BY <1>1, <1>3, <1>4, <1>6, <2>1 DEF Complete, Archived
<1> QED BY <1>1, <1>3, <1>8, <1>9, <1>10, <1>11, <1>12 DEF BackupStep

\* Under a restore that has counted the jobs, the key of all work between its two
\* steps is in doubt.
LEMMA AloneWithTheVault ==
    ASSUME Intact, Closed
    PROVE  /\ \A k \in rows \ blobs : \/ k \in excused.keys
                                      \/ restore.pc = "rollback" /\ k \in restore.overwrote
           /\ \A w \in Works : Adder(w) => work[w].key \in excused.keys
<1>1. \A k \in rows \ blobs : \/ k \in excused.keys
                              \/ restore.pc = "rollback" /\ k \in restore.overwrote
  <2>1. ASSUME NEW k, NEW w \in Works, work[w] = [pc |-> "half", key |-> k, adds |-> FALSE]
        PROVE  k \in excused.keys
    <3>1. work[w].pc = "half" /\ work[w].key = k
      BY <2>1
    <3> QED BY <3>1 DEF Intact, Forgotten
  <2> QED BY <2>1 DEF Intact, VaultIntact
<1>2. \A w \in Works : Adder(w) => work[w].key \in excused.keys
  BY DEF Intact, Forgotten, Adder
<1> QED BY <1>1, <1>2

\* A restore keeps rows and blobs together, or puts a key in doubt.
LEMMA RestoreStepIntact ==
    ASSUME Intact, BeginRestore \/ RestoreStep
    PROVE  Intact'
<1> USE DEF Intact
<1>1. Jobs' /\ restore' \in Restore
  BY RestoreStepJobs DEF Jobs, Admissions, TypeOK
<1>2. work' = work /\ backup' = backup /\ archive' = archive
  BY DEF BeginRestore, RestoreStep, Drained, DrainTimesOut, CountJobs, Stage, StageFails,
         ApplyBlob, ApplyFails, SwapDatabase, SwapFails, SwapFailsLate, RollBack,
         RollBackFails, RolledBack, EndRestore
<1>3. /\ restore \in Restore /\ excused \in [keys : SUBSET Keys, works : SUBSET Works]
      /\ rows \in SUBSET Keys /\ blobs \in SUBSET Keys
  BY DEF Jobs, Admissions, TypeOK
<1>4. /\ NoRestore.pc = "idle" /\ NoRestore.overwrote = {} /\ NoRestore.created = {}
      /\ NoRestore.staged.blobs = {} /\ NoRestore.staged.rows = {}
  BY DEF NoRestore, NoArchive
<1>5. CASE BeginRestore \/ Drained \/ CountJobs \/ StageFails \/ SwapFails \/ RolledBack
           \/ Stage \/ DrainTimesOut \/ EndRestore
  <2>1. /\ UNCHANGED <<rows, blobs>> /\ excused'.works = excused.works
        /\ excused.keys \subseteq excused'.keys
    BY <1>3, <1>5 DEF BeginRestore, Drained, CountJobs, PassCount, InDoubt, StageFails,
                      SwapFails, RolledBack, Stage, DrainTimesOut, EndRestore, Vault
  <2>2. \/ /\ restore'.staged \in {restore.staged, archive}
           /\ restore'.overwrote = restore.overwrote /\ restore'.created = restore.created
           /\ restore'.pc # "apply" \/ Applied = {}
           /\ restore'.pc \in {"idle", "drain", "grace", "stage"} =>
                restore.pc \in {"idle", "drain", "grace"}
           /\ restore'.pc \in {"apply", "rollback"} => restore.pc \in {"stage", "apply"}
           /\ restore.pc = "rollback" => Applied = {}
        \/ /\ restore' = NoRestore
           /\ restore.pc \in {"drain", "end"}
    <3>1. CASE DrainTimesOut \/ EndRestore
      BY <3>1 DEF DrainTimesOut, EndRestore
    <3>2. CASE BeginRestore \/ Drained \/ CountJobs \/ StageFails \/ SwapFails \/ RolledBack
      BY <1>3, <3>2 DEF BeginRestore, Drained, CountJobs, PassCount, StageFails, SwapFails,
                        RolledBack, Restore
    <3>3. CASE Stage
      BY <1>3, <3>3 DEF Stage, Restore, Applying
    <3> QED BY <1>5, <3>1, <3>2, <3>3
  <2>3. VaultIntact'
    BY <1>2, <2>1, <2>2 DEF VaultIntact, Applied
  <2>4. Adding'
    BY <1>2, <2>1 DEF Adding, Adder
  <2>5. Forgotten'
    <3>1. CASE Closed' /\ ~Closed
      <4>1. PassCount /\ \A w \in Works : job[w] # "running"
        BY <1>3, <1>4, <1>5, <3>1 DEF BeginRestore, Drained, CountJobs, StageFails, SwapFails,
           RolledBack, Stage, DrainTimesOut, EndRestore, Closed, Restore
      <4>2. \A w \in Works : work[w].pc = "written" => w \in excused.works
        BY <4>1 DEF Jobs, Miscounted, InTask
      <4>3. \A w \in Works : work[w].pc = "half" => work[w].key \in excused'.keys
        BY <1>3, <4>1 DEF PassCount, InDoubt
      <4> QED BY <1>2, <2>1, <4>2, <4>3 DEF Forgotten
    <3>2. CASE ~(Closed' /\ ~Closed)
      BY <1>2, <2>1, <3>2 DEF Forgotten
    <3> QED BY <3>1, <3>2
  <2>6. Complete'
    BY <1>2, <1>4, <2>1, <2>2 DEF Complete, Archived
  <2>7. Applying'
    BY <1>4, <2>1, <2>2 DEF Applying, Applied
  <2> QED BY <1>1, <2>3, <2>4, <2>5, <2>6, <2>7
<1>6. ASSUME NEW k \in Keys, ApplyBlob(k) \/ ApplyFails(k) PROVE Intact'
  <2>1. /\ rows' = rows /\ excused' = excused /\ restore.pc = "apply"
        /\ restore'.staged = restore.staged
        /\ restore'.overwrote =
             restore.overwrote \cup IF k \in blobs THEN {k} ELSE {}
        /\ restore'.created = restore.created \cup IF k \in blobs THEN {} ELSE {k}
        /\ \/ restore'.pc = "apply" /\ blobs' = blobs \cup {k}
           \/ restore'.pc = "rollback" /\ blobs' = blobs \ {k}
    BY <1>3, <1>6 DEF ApplyBlob, ApplyFails, Record, Restore
  <2>2. Closed /\ Closed'
    BY <2>1 DEF Closed
  <2>3. VaultIntact'
    BY <2>1, <2>2, AloneWithTheVault DEF VaultIntact
  <2>4. Adding' /\ Forgotten'
    BY <1>2, <2>1, <2>2, AloneWithTheVault DEF Adding, Adder, Forgotten
  <2>5. Complete'
    BY <1>2, <2>1 DEF Complete, Archived
  <2>6. Applying'
    BY <2>1, <2>2, AloneWithTheVault DEF Applying, Applied
  <2> QED BY <1>1, <2>3, <2>4, <2>5, <2>6
<1>7. CASE SwapDatabase \/ SwapFailsLate
  <2>1. /\ blobs' = blobs /\ rows' = restore.staged.rows
        /\ restore.pc = "apply" /\ restore.staged.blobs = Applied
        /\ restore'.staged = restore.staged
        /\ restore'.overwrote = restore.overwrote /\ restore'.created = restore.created
        /\ excused.keys \subseteq excused'.keys
        /\ (restore.staged.rows \cap Secondary) \ blobs \subseteq excused'.keys
        /\ \/ restore'.pc = "end"
           \/ restore'.pc = "rollback" /\ restore.created \subseteq excused'.keys
    <3>1. CASE SwapDatabase
      BY <1>3, <3>1 DEF SwapDatabase, Doubts, Restore
    <3>2. CASE SwapFailsLate
      BY <1>3, <3>2 DEF SwapFailsLate, Doubts, Restore
    <3> QED BY <1>7, <3>1, <3>2
  <2>2. Archived(restore.staged.rows) \subseteq blobs \cup excused.keys
    BY <2>1 DEF Complete, Applying
  <2>3. VaultIntact'
    BY <2>1, <2>2 DEF VaultIntact, Archived
  <2>4. Closed
    BY <2>1 DEF Closed
  <2>5. Adding' /\ Forgotten'
    BY <1>2, <2>1, <2>4, AloneWithTheVault DEF Adding, Adder, Forgotten
  <2>6. Complete'
    BY <1>2, <2>1 DEF Complete, Archived
  <2>7. Applying'
    BY <2>1 DEF Applying, Applied
  <2> QED BY <1>1, <2>3, <2>5, <2>6, <2>7
<1>8. ASSUME NEW k \in Keys, RollBack(k) \/ RollBackFails(k) PROVE Intact'
  <2>1. /\ rows' = rows /\ restore.pc = "rollback" /\ restore'.pc = "rollback"
        /\ restore'.staged = restore.staged
        /\ restore'.overwrote = restore.overwrote \ {k}
        /\ restore'.created = restore.created \ {k}
        /\ k \in restore.overwrote \cup restore.created
        /\ \/ /\ excused' = excused
              /\ blobs' = IF k \in restore.overwrote THEN blobs \cup {k} ELSE blobs \ {k}
           \/ blobs' = blobs /\ excused'.keys = excused.keys \cup {k}
    BY <1>3, <1>8 DEF RollBack, RollBackFails, Forget, Applied, InDoubt, Vault, Restore
  <2>2. Closed /\ Closed'
    BY <2>1 DEF Closed
  <2>3. VaultIntact'
    BY <2>1, <2>2, AloneWithTheVault DEF VaultIntact, Applying
  <2>4. Adding' /\ Forgotten'
    BY <1>2, <2>1, <2>2, AloneWithTheVault DEF Adding, Adder, Forgotten
  <2>5. Complete'
    BY <1>2, <2>1 DEF Complete, Archived
  <2>6. Applying'
    BY <2>1 DEF Applying, Applied
  <2> QED BY <1>1, <2>3, <2>4, <2>5, <2>6
<1> QED BY <1>5, <1>6, <1>7, <1>8 DEF RestoreStep

\* A crash puts in doubt the deletions it interrupts and the blobs a restore had
\* half-written.
LEMMA CrashIntact ==
    ASSUME Intact, Crash
    PROVE  Intact'
<1> USE DEF Intact
<1>1. Jobs'
  BY CrashJobs
<1>2. \A w \in Works : work'[w].pc \in {"idle", "done"}
  BY DEF Crash, Jobs, Admissions, TypeOK, Work
<1>3. rows' = rows /\ blobs' = blobs /\ archive' = archive
  BY DEF Crash, Vault
<1>4. VaultIntact'
  <2>1. ASSUME NEW k \in rows \ blobs PROVE k \in excused'.keys
    <3>1. CASE k \in excused.keys
      BY <3>1 DEF Crash
    <3>2. ASSUME NEW w \in Works, work[w] = [pc |-> "half", key |-> k, adds |-> FALSE]
          PROVE  k \in excused'.keys
      BY <3>2 DEF Crash
    <3>3. CASE k \in restore.overwrote
      BY <2>1, <3>3 DEF Crash
    <3> QED BY <2>1, <3>1, <3>2, <3>3 DEF VaultIntact
  <2> QED BY <1>3, <2>1 DEF VaultIntact
<1>5. Adding' /\ Forgotten'
  BY <1>2 DEF Adding, Adder, Forgotten
<1>6. /\ backup'.copy.blobs = {} /\ backup'.copy.rows = {} /\ backup'.todo = {}
      /\ restore'.staged.blobs = {} /\ restore'.staged.rows = {}
      /\ restore'.pc = "idle" /\ restore'.overwrote = {} /\ restore'.created = {}
  BY DEF Crash, NoBackup, NoRestore, NoArchive
<1>7. Complete'
  BY <1>3, <1>6 DEF Complete, Archived
<1>8. Applying'
  BY <1>6 DEF Applying, Applied
<1> QED BY <1>1, <1>4, <1>5, <1>7, <1>8

\* Every step keeps rows, blobs and archives together.
LEMMA IntactStep == Intact /\ [Next]_vars => Intact'
<1>1. ASSUME Intact, UNCHANGED vars PROVE Intact'
  BY <1>1, JobsStep
  DEF vars, Intact, VaultIntact, Adding, Adder, Forgotten, Closed, Complete, Archived,
      Applying, Applied
<1> QED BY <1>1, WorkStepIntact, BackupStepIntact, RestoreStepIntact, CrashIntact DEF Next

\* Rows, blobs and archives fit together in every state.
THEOREM IntactInvariant == Spec => []Intact
BY IntactInit, IntactStep, PTL DEF Spec

\* Whatever requests, tasks, backups, restores and crashes come together, a row
\* has its blob but for the exceptions VaultIntact names.
THEOREM EveryRowHasItsBlob == Spec => []VaultIntact
<1>1. Intact => VaultIntact
  BY DEF Intact
<1> QED BY <1>1, IntactInvariant, PTL

==============================================================================
