----------------------------- MODULE OperationsProofs -----------------------------
(* What an operator runs beside the server, prune-attachments, the backups and the *)
(* restore, and seed-demo.  Receipts keep their files, for any number of uploads,  *)
(* deletions, reports, backups, restores and deaths of any process, save those     *)
(* whose upload a prune-attachments caught before its commit; backups are kept in  *)
(* pairs and the newest are kept.  seed-demo is idempotent, leaves what it finds   *)
(* alone, and fails only after a disturbance, for any number of runs, kills,       *)
(* months and changes.                                                             *)
EXTENDS Backups, DemoData, FiniteSetTheorems, TLAPS

-----------------------------------------------------------------------------
(* Receipts *)

\* The upload behind a row is over.
RowsAreUploaded == \A k \in row : request[k] \in {"done", "deleting", "interrupted"}

WrittenHaveFiles == \A k \in Keys : request[k] = "written" => k \in file \cup caught

\* An upload has renamed its temporary: its key may have a file.
Renamed == {"written", "done", "deleting", "interrupted"}

FilesAreRenamed == \A k \in file : request[k] \in Renamed

\* The rows prune has not read are of uploads it has caught, and so are those whose
\* files it will unlink, now or when they commit.  It unlinks no file that is not
\* there yet.
PruneSparesRows ==
    /\ prune.at = "read" => /\ row \subseteq prune.keep \cup caught
                            /\ \A k \in Keys : request[k] = "written" => k \in caught
    /\ prune.at = "sweep" =>
         \A k \in prune.todo : /\ request[k] \in Renamed
                               /\ k \in row \/ request[k] = "written" => k \in caught

\* No step on receipts breaks a type.
LEMMA TypeStep ==
    ASSUME TypeOK, [Next]_vars
    PROVE  TypeOK'
<1> USE DEF TypeOK, RequestStep
<1>1. ASSUME NEW k \in Keys, Upload(k)
      PROVE  TypeOK'
  BY <1>1 DEF Upload, WriteTemporary, Rename, CommitUpload, FailUpload
<1>2. ASSUME NEW k \in Keys, Delete(k)
      PROVE  TypeOK'
  BY <1>2 DEF Delete, Unlink, CommitDelete, FailDelete
<1>3. ASSUME NEW r \in Reports, DeleteReport(r)
      PROVE  TypeOK'
  BY <1>3 DEF DeleteReport
<1>4. CASE Prune
  <2>1. CASE ReadKeys
    BY <2>1 DEF ReadKeys
  <2>2. CASE ListFiles
    BY <2>2 DEF ListFiles
  <2>3. CASE UnlinkOrphan
    BY <2>3 DEF UnlinkOrphan
  <2>4. CASE EndPrune
    BY <2>4 DEF EndPrune, NoPrune
  <2> QED
    BY <1>4, <2>1, <2>2, <2>3, <2>4 DEF Prune
<1>5. CASE UNCHANGED vars
  BY <1>5 DEF vars
<1> QED
  BY <1>1, <1>2, <1>3, <1>4, <1>5 DEF Next

\* The types of rows, files, requests and the prune process.
THEOREM TypeCorrect == Spec => []TypeOK
<1>1. Init => TypeOK
  BY DEF Init, TypeOK, RequestStep, NoPrune
<1>2. TypeOK /\ [Next]_vars => TypeOK'
  BY TypeStep
<1> QED
  BY <1>1, <1>2, PTL DEF Spec

-----------------------------------------------------------------------------
PruneInv == RowsAreUploaded /\ WrittenHaveFiles /\ FilesAreRenamed /\ PruneSparesRows

\* Whatever prune overlaps, it sees every row but those of the uploads it catches.
LEMMA PruneStep ==
    ASSUME TypeOK, PruneInv, [Next]_vars
    PROVE  PruneInv'
<1> USE DEF TypeOK, RequestStep, Uploading, PruneInv, Renamed,
            RowsAreUploaded, WrittenHaveFiles, FilesAreRenamed, PruneSparesRows
<1>1. ASSUME NEW k \in Keys, Upload(k)
      PROVE  PruneInv'
  <2>1. CASE WriteTemporary(k)
    BY <2>1 DEF WriteTemporary
  <2>2. CASE Rename(k)
    BY <2>2 DEF Rename
  <2>3. CASE CommitUpload(k)
    BY <2>3 DEF CommitUpload
  <2>4. CASE FailUpload(k)
    BY <2>4 DEF FailUpload
  <2> QED
    BY <1>1, <2>1, <2>2, <2>3, <2>4 DEF Upload
<1>2. ASSUME NEW k \in Keys, Delete(k)
      PROVE  PruneInv'
  <2>1. CASE Unlink(k)
    BY <2>1 DEF Unlink
  <2>2. CASE CommitDelete(k)
    BY <2>2 DEF CommitDelete
  <2>3. CASE FailDelete(k)
    BY <2>3 DEF FailDelete
  <2> QED
    BY <1>2, <2>1, <2>2, <2>3 DEF Delete
<1>3. ASSUME NEW r \in Reports, DeleteReport(r)
      PROVE  PruneInv'
  BY <1>3 DEF DeleteReport
<1>4. CASE Prune
  <2>1. CASE ReadKeys
    BY <2>1 DEF ReadKeys
  <2>2. CASE ListFiles
    BY <2>2 DEF ListFiles
  <2>3. CASE UnlinkOrphan
    BY <2>3 DEF UnlinkOrphan
  <2>4. CASE EndPrune
    BY <2>4 DEF EndPrune, NoPrune
  <2> QED
    BY <1>4, <2>1, <2>2, <2>3, <2>4 DEF Prune
<1>5. CASE UNCHANGED vars
  BY <1>5 DEF vars
<1> QED
  BY <1>1, <1>2, <1>3, <1>4, <1>5 DEF Next

\* A receipt nobody asked to delete can be opened, unless a prune caught its upload: an
\* upload's row follows its file, a deletion's file goes under a request that says so,
\* and prune, whenever it runs, has seen every other row there is.
THEOREM PruneTakesOnlyCaught == Spec => []RowsHaveFiles
<1> USE DEF PruneInv, RowsAreUploaded, WrittenHaveFiles, FilesAreRenamed, PruneSparesRows,
            RowsHaveFiles
<1>1. Init => PruneInv /\ RowsHaveFiles
  BY DEF Init, NoPrune
<1>2. TypeOK /\ PruneInv /\ [Next]_vars => PruneInv'
  BY PruneStep
<1>3. TypeOK /\ PruneInv /\ RowsHaveFiles /\ [Next]_vars => RowsHaveFiles'
  <2> SUFFICES ASSUME TypeOK, PruneInv, RowsHaveFiles, [Next]_vars
               PROVE  RowsHaveFiles'
    OBVIOUS
  <2> USE DEF TypeOK, RequestStep, Uploading
  <2>1. ASSUME NEW k \in Keys, Upload(k)
        PROVE  RowsHaveFiles'
    BY <2>1 DEF Upload, WriteTemporary, Rename, CommitUpload, FailUpload
  <2>2. ASSUME NEW k \in Keys, Delete(k)
        PROVE  RowsHaveFiles'
    BY <2>2 DEF Delete, Unlink, CommitDelete, FailDelete
  <2>3. ASSUME NEW r \in Reports, DeleteReport(r)
        PROVE  RowsHaveFiles'
    BY <2>3 DEF DeleteReport
  <2>4. CASE Prune
    BY <2>4 DEF Prune, ReadKeys, ListFiles, UnlinkOrphan, EndPrune
  <2>5. CASE UNCHANGED vars
    BY <2>5 DEF vars
  <2> QED
    BY <2>1, <2>2, <2>3, <2>4, <2>5 DEF Next
<1> QED
  BY <1>1, <1>2, <1>3, TypeCorrect, PTL DEF Spec

-----------------------------------------------------------------------------
(* Backups: types, and who is at work *)

JobStep     == {"idle", "dumping", "dumped", "archiving", "pruning", "pruned"}
RestoreStep == {"idle", "database", "cleared", "killed"}
Jobs        == [at : JobStep, id : 0..MaxBackups, db : Database \cup {None},
                todo : Folder \cup {None}]

BackupTypes ==
    /\ dump \in [Ids -> Database \cup {None}]
    /\ archive \in [Ids -> Folder \cup {None}]
    /\ lock \in BOOLEAN
    /\ begun \in 0..MaxBackups
    /\ job \in [Processes -> Jobs]
    /\ restore \in [at : RestoreStep, id : 0..MaxBackups]

\* A backup under way has what its next step reads.
JobsInStep ==
    \A p \in Processes :
        /\ job[p].at # "idle" => job[p].id \in Ids
        /\ job[p].at = "dumping" => job[p].db \in Database
        /\ job[p].at = "archiving" => job[p].todo \in Folder

\* The lock lets one process in, and a restore runs with everything else at rest.
OneAtATime ==
    /\ \A p \in Processes : job[p].at # "idle" =>
         lock /\ \A q \in Processes : job[q].at # "idle" => q = p
    /\ restore.at # "idle" => Quiet

\* From its first step to its last, a restore has the dump and the archive it reads.
RestoreInStep ==
    restore.at \in {"database", "cleared"} =>
        /\ restore.id \in Listed
        /\ archive[restore.id] # None
        /\ row = dump[restore.id].row

Structure == TypeOK /\ BackupTypes /\ JobsInStep /\ OneAtATime /\ RestoreInStep

\* One step of backups or receipts is one of these.
LEMMA BackupStepCases ==
    ASSUME [NextBackups]_bvars
    PROVE  \/ restore.at = "idle" /\ Serve /\ UNCHANGED <<jobs, restore>>
           \/ \E p \in Processes :
                /\ \/ Begin(p) \/ FailDump(p) \/ FinishDump(p)
                   \/ ListFolder(p) \/ SkipArchive(p) \/ FinishArchive(p) \/ FailArchive(p)
                   \/ PruneDump(p) \/ PruneArchive(p) \/ End(p) \/ Kill(p)
                /\ UNCHANGED <<vars, restore, forfeit>>
           \/ RemoveLock /\ UNCHANGED <<vars, restore, forfeit>>
           \/ Restore /\ UNCHANGED jobs
           \/ UNCHANGED bvars
  BY DEF NextBackups, Backup

\* The server's and the prune's steps are those of Attachments.
LEMMA ServeIsNext == Serve => Next
  BY DEF Serve, Next, Upload, Delete

\* The step of one process keeps the types, and the other processes out.
LEMMA JobStepsKeepStructure ==
    ASSUME Structure, NEW p \in Processes, UNCHANGED <<vars, restore, forfeit>>,
           \/ Begin(p) \/ FailDump(p) \/ FinishDump(p)
           \/ ListFolder(p) \/ SkipArchive(p) \/ FinishArchive(p) \/ FailArchive(p)
           \/ PruneDump(p) \/ PruneArchive(p) \/ End(p) \/ Kill(p)
    PROVE  Structure'
<1> USE BackupsAssumption
    DEF BackupsAssumption, Structure, BackupTypes, JobsInStep, OneAtATime, RestoreInStep,
        JobStep, Jobs, Ids
<1>1. job[p] \in Jobs
  OBVIOUS
<1>2. ASSUME NEW new \in Jobs, job' = [job EXCEPT ![p] = new],
             new.at # "idle" => lock' /\ new.id \in Ids,
             new.at = "dumping" => new.db \in Database,
             new.at = "archiving" => new.todo \in Folder,
             dump' \in [Ids -> Database \cup {None}],
             archive' \in [Ids -> Folder \cup {None}],
             lock' \in BOOLEAN, begun' \in 0..MaxBackups,
             restore.at = "idle", \A q \in Processes : q # p => job[q].at = "idle"
      PROVE  Structure'
  <2>1. UNCHANGED <<partial, file, row, report, request, prune, caught, restore>>
    BY DEF vars
  <2>2. \A q \in Processes : job'[q] = IF q = p THEN new ELSE job[q]
    BY <1>2
  <2>3. TypeOK' /\ RestoreInStep'
    BY <1>2, <2>1 DEF TypeOK
  <2>4. BackupTypes'
    BY <1>2, <2>1
  <2>5. JobsInStep' /\ OneAtATime'
    BY <1>2, <2>1, <2>2
  <2> QED
    BY <2>3, <2>4, <2>5
<1>3. job[p].at # "idle" => /\ restore.at = "idle" /\ lock /\ job[p].id \in Ids
                            /\ \A q \in Processes : q # p => job[q].at = "idle"
  BY DEF Quiet
<1>4. NoJob \in Jobs /\ NoJob.at = "idle"
  BY DEF NoJob
<1>5. CASE Begin(p)
  <2> DEFINE new == [at |-> "dumping", id |-> begun + 1, db |-> ReadDatabase, todo |-> None]
  <2>1. ReadDatabase \in Database
    BY DEF ReadDatabase, Database, TypeOK
  <2>2. begun + 1 \in Ids /\ begun + 1 \in 0..MaxBackups
    BY <1>5 DEF Begin
  <2>3. new \in Jobs
    BY <2>1, <2>2
  <2>4. /\ job' = [job EXCEPT ![p] = new] /\ lock' = TRUE /\ begun' = begun + 1
        /\ restore.at = "idle" /\ UNCHANGED <<dump, archive>>
        /\ \A q \in Processes : job[q].at = "idle"
    BY <1>5 DEF Begin
  <2> QED
    BY <1>2, <2>1, <2>2, <2>3, <2>4
<1>6. CASE FailDump(p) \/ FailArchive(p) \/ End(p)
  BY <1>2, <1>3, <1>4, <1>6 DEF FailDump, FailArchive, End
<1>7. CASE FinishDump(p)
  <2> DEFINE new == [job[p] EXCEPT !.at = "dumped"]
  <2>1. new \in Jobs /\ new.id = job[p].id /\ new.at = "dumped"
    BY <1>1
  <2> HIDE DEF new
  <2>2. job' = [job EXCEPT ![p] = new]
    BY <1>7 DEF FinishDump, new
  <2> QED
    BY <1>2, <1>3, <1>7, <2>1, <2>2 DEF FinishDump
<1>8. CASE ListFolder(p)
  <2> DEFINE new == [job[p] EXCEPT !.at = "archiving", !.todo = ReadFolder]
  <2>1. ReadFolder \in Folder
    BY DEF ReadFolder, Folder, TypeOK
  <2>2. new \in Jobs /\ new.id = job[p].id /\ new.at = "archiving" /\ new.todo \in Folder
    BY <1>1, <2>1
  <2> HIDE DEF new
  <2>3. job' = [job EXCEPT ![p] = new]
    BY <1>8 DEF ListFolder, new
  <2> QED
    BY <1>2, <1>3, <1>8, <2>2, <2>3 DEF ListFolder
<1>9. CASE SkipArchive(p) \/ PruneArchive(p)
  <2> DEFINE new == [job[p] EXCEPT !.at = "pruning"]
  <2>1. new \in Jobs /\ new.id = job[p].id /\ new.at = "pruning"
    BY <1>1
  <2> HIDE DEF new
  <2>2. job' = [job EXCEPT ![p] = new]
    BY <1>9 DEF SkipArchive, PruneArchive, new
  <2> QED
    BY <1>2, <1>3, <1>9, <2>1, <2>2 DEF SkipArchive, PruneArchive
<1>10. CASE FinishArchive(p)
  <2> DEFINE new == [job[p] EXCEPT !.at = "pruning", !.todo = None]
  <2>1. new \in Jobs /\ new.id = job[p].id /\ new.at = "pruning"
    BY <1>1
  <2> HIDE DEF new
  <2>2. job' = [job EXCEPT ![p] = new]
    BY <1>10 DEF FinishArchive, new
  <2> QED
    BY <1>2, <1>3, <1>10, <2>1, <2>2 DEF FinishArchive
<1>11. CASE PruneDump(p)
  <2>1. PICK i \in Stale : /\ dump' = [dump EXCEPT ![i] = None]
                           /\ job' = [job EXCEPT ![p].at = "pruned", ![p].id = i]
    BY <1>11 DEF PruneDump
  <2>2. i \in Ids /\ i \in 0..MaxBackups
    BY <2>1 DEF Stale, Listed
  <2> DEFINE new == [job[p] EXCEPT !.at = "pruned", !.id = i]
  <2>3. new \in Jobs /\ new.id = i /\ new.at = "pruned"
    BY <1>1, <2>2
  <2> HIDE DEF new
  <2>4. job' = [job EXCEPT ![p] = new]
    BY <2>1 DEF new
  <2> QED
    BY <1>2, <1>3, <1>11, <2>1, <2>2, <2>3, <2>4 DEF PruneDump
<1>12. CASE Kill(p)
  BY <1>2, <1>3, <1>4, <1>12 DEF Kill
<1> QED
  BY <1>5, <1>6, <1>7, <1>8, <1>9, <1>10, <1>11, <1>12

\* Types, the lock and the quiet of a restore hold throughout.
LEMMA StructureInvariant == SpecBackups => []Structure
<1> USE BackupsAssumption DEF BackupsAssumption
<1>1. InitBackups => Structure
  <2> SUFFICES ASSUME InitBackups
               PROVE  Structure
    OBVIOUS
  <2> USE DEF InitBackups
  <2>1. TypeOK
    BY DEF Init, TypeOK, RequestStep, NoPrune
  <2>2. NoJob \in Jobs /\ NoJob.at = "idle"
    BY DEF NoJob, Jobs, JobStep
  <2>3. BackupTypes
    <3>1. 0 \in 0..MaxBackups
      OBVIOUS
    <3>2. restore \in [at : RestoreStep, id : 0..MaxBackups]
      BY <3>1 DEF RestoreStep, NoRestore
    <3>3. /\ dump \in [Ids -> Database \cup {None}]
          /\ archive \in [Ids -> Folder \cup {None}]
          /\ job \in [Processes -> Jobs]
      BY <2>2
    <3> QED
      BY <3>1, <3>2, <3>3 DEF BackupTypes
  <2>4. JobsInStep /\ OneAtATime /\ RestoreInStep
    BY <2>2 DEF JobsInStep, OneAtATime, RestoreInStep, NoRestore
  <2> QED
    BY <2>1, <2>3, <2>4 DEF Structure
<1>2. Structure /\ [NextBackups]_bvars => Structure'
  <2> SUFFICES ASSUME Structure, [NextBackups]_bvars
               PROVE  Structure'
    OBVIOUS
  <2>1. CASE restore.at = "idle" /\ Serve /\ UNCHANGED <<jobs, restore>>
    <3>1. TypeOK'
      BY <2>1, ServeIsNext, TypeStep DEF Structure
    <3>2. UNCHANGED <<dump, archive, lock, begun, job, restore>>
      BY <2>1 DEF jobs
    <3> QED
      BY <2>1, <3>1, <3>2 DEF Structure, BackupTypes, JobsInStep, OneAtATime, RestoreInStep
  <2>2. CASE RemoveLock /\ UNCHANGED <<vars, restore, forfeit>>
    BY <2>2 DEF RemoveLock, vars, Structure, TypeOK, BackupTypes, JobsInStep, OneAtATime,
                RestoreInStep, Quiet, Listed
  <2>3. CASE Restore /\ UNCHANGED jobs
    <3> USE DEF Structure, TypeOK, BackupTypes, JobsInStep, OneAtATime, RestoreInStep, Quiet,
                RestoreStep
    <3>0. UNCHANGED <<dump, archive, lock, begun, job>> /\ Listed' = Listed
      BY <2>3 DEF jobs, Listed
    <3>1. ASSUME NEW i \in Ids, RestoreDatabase(i)
          PROVE  Structure'
      <4>1. dump[i] \in Database /\ dump[i].row \subseteq Keys /\ dump[i].report \subseteq Reports
        BY <3>1 DEF RestoreDatabase, Listed, Database
      <4>2. i \in 0..MaxBackups
        BY DEF Ids
      <4> QED
        BY <3>0, <3>1, <4>1, <4>2 DEF RestoreDatabase, NoRestore
    <3>2. CASE ClearFolder
      BY <3>0, <3>2 DEF ClearFolder
    <3>3. CASE Extract
      <4>1. /\ archive[restore.id].file \subseteq Keys
            /\ archive[restore.id].partial \subseteq Keys
        BY <3>3 DEF Extract, Listed, Folder
      <4> QED
        BY <3>0, <3>3, <4>1 DEF Extract, NoRestore
    <3>4. CASE KillRestore
      BY <3>0, <3>4 DEF KillRestore, vars
    <3> QED
      BY <2>3, <3>1, <3>2, <3>3, <3>4 DEF Restore
  <2>4. CASE UNCHANGED bvars
    BY <2>4 DEF bvars, jobs, vars, Structure, TypeOK, BackupTypes, JobsInStep, OneAtATime,
                RestoreInStep, Quiet, Listed
  <2> QED
    BY <2>1, <2>2, <2>3, <2>4, JobStepsKeepStructure, BackupStepCases
<1> QED
  BY <1>1, <1>2, PTL DEF SpecBackups

-----------------------------------------------------------------------------
(* What pruning takes *)

\* A backup that has finished its dump has it.
DumpedIsListed ==
    \A p \in Processes : job[p].at \in {"dumped", "archiving"} => job[p].id \in Listed

\* A dump that is renamed into place is listed.
LEMMA FinishedIsListed ==
    ASSUME Structure, NEW p \in Processes, FinishDump(p)
    PROVE  Listed' = Listed \cup {job[p].id}
<1>1. dump' = [dump EXCEPT ![job[p].id] = job[p].db]
  BY DEF FinishDump
<1>2. job[p].id \in Ids /\ job[p].db # None
  BY BackupsAssumption DEF FinishDump, Structure, JobsInStep, BackupsAssumption
<1> QED
  BY <1>1, <1>2 DEF Listed, Structure, BackupTypes

\* One that is pruned is not.
LEMMA PrunedIsNotListed ==
    ASSUME Structure, NEW p \in Processes, PruneDump(p)
    PROVE  \E i \in Stale : /\ job'[p].id = i /\ job'[p].at = "pruned"
                            /\ Listed' = Listed \ {i}
<1> USE DEF Structure, BackupTypes
<1>1. PICK i \in Stale : /\ dump' = [dump EXCEPT ![i] = None]
                         /\ job' = [job EXCEPT ![p].at = "pruned", ![p].id = i]
  BY DEF PruneDump
<1>2. i \in Ids
  BY DEF Stale, Listed
<1>3. Listed' = Listed \ {i}
  BY <1>1, <1>2 DEF Listed
<1>4. job[p] \in Jobs
  OBVIOUS
<1>5. job'[p].id = i /\ job'[p].at = "pruned"
  BY <1>1, <1>4 DEF Jobs
<1> QED
  BY <1>3, <1>5

\* No other step writes a dump.
LEMMA DumpSteps ==
    ASSUME [NextBackups]_bvars, dump' # dump
    PROVE  \E p \in Processes : FinishDump(p) \/ PruneDump(p)
<1>1. ASSUME NEW p \in Processes,
             \/ Begin(p) \/ FailDump(p) \/ ListFolder(p) \/ SkipArchive(p) \/ FinishArchive(p)
             \/ FailArchive(p) \/ PruneArchive(p) \/ End(p) \/ Kill(p)
      PROVE  UNCHANGED dump
  BY <1>1 DEF Begin, FailDump, ListFolder, SkipArchive, FinishArchive, FailArchive, PruneArchive,
              End, Kill
<1>2. (RemoveLock \/ UNCHANGED jobs \/ UNCHANGED bvars) => UNCHANGED dump
  BY DEF RemoveLock, jobs, bvars
<1> QED
  BY <1>1, <1>2, BackupStepCases

\* A set of numbers up to n has a largest.
LEMMA LargestNumber ==
    ASSUME NEW n \in Nat, NEW S \in SUBSET (0..n), S # {}
    PROVE  Max(S) \in S /\ \A x \in S : x <= Max(S)
<1> DEFINE bounds == {b \in Nat : \A x \in S : x <= b}
<1>1. n \in bounds
  OBVIOUS
<1>2. PICK b \in bounds : \A c \in bounds : <<c, b>> \notin OpToRel(<, Nat)
  <2>1. bounds \subseteq Nat /\ bounds # {}
    BY <1>1
  <2> HIDE DEF bounds
  <2> QED
    BY <2>1, NatLessThanWellFounded, WFMin, Zenon
<1>3. \A c \in bounds : ~ (c < b)
  BY <1>2 DEF OpToRel
<1>4. b \in S
  <2> SUFFICES ASSUME b \notin S
               PROVE  FALSE
    OBVIOUS
  <2>1. \A x \in S : x \in Nat /\ x <= b - 1
    OBVIOUS
  <2>2. b - 1 \in Nat
    <3>1. PICK x \in S : TRUE
      OBVIOUS
    <3>2. b \in Nat /\ x \in Nat /\ x <= b - 1
      BY <2>1
    <3> HIDE DEF bounds
    <3> QED
      BY ONLY <3>2
  <2>3. b - 1 \in bounds
    BY <2>1, <2>2
  <2> QED
    BY <1>3, <2>3
<1>5. \E x \in S : \A y \in S : x >= y
  BY <1>4
<1> QED
  BY <1>5 DEF Max

\* A dump goes only when enough newer ones are there, so the newest never does.
THEOREM NewestAreKept == SpecBackups => NewestKept
<1> USE BackupsAssumption DEF BackupsAssumption
<1>1. ASSUME Structure, [NextBackups]_bvars, dump' # dump
      PROVE  /\ LastBackupAt' >= LastBackupAt
             /\ \A i \in Listed \ Listed' : Cardinality({j \in Listed' : j > i}) >= Retention
  <2>1. /\ Listed \cup {0} \subseteq 0..MaxBackups
        /\ Listed' \cup {0} \subseteq 0..MaxBackups
    BY DEF Listed, Ids
  <2>2. /\ LastBackupAt \in Listed \cup {0}
        /\ \A x \in Listed \cup {0} : x <= LastBackupAt
    BY <2>1, LargestNumber DEF LastBackupAt
  <2>3. /\ LastBackupAt' \in Listed' \cup {0}
        /\ \A x \in Listed' \cup {0} : x <= LastBackupAt'
    BY <2>1, LargestNumber DEF LastBackupAt
  <2>4. ASSUME Listed \subseteq Listed'
        PROVE  LastBackupAt' >= LastBackupAt /\ Listed \ Listed' = {}
    BY <2>1, <2>2, <2>3, <2>4
  <2>5. ASSUME NEW i \in Stale, Listed' = Listed \ {i}
        PROVE  /\ LastBackupAt' >= LastBackupAt
               /\ \A j \in Listed \ Listed' : Cardinality({k \in Listed' : k > j}) >= Retention
    <3> DEFINE newer == {j \in Listed : j > i}
    <3>1. i \in Listed /\ Cardinality(newer) >= Retention
      BY DEF Stale
    <3>2. newer = {j \in Listed' : j > i}
      BY <2>1, <2>5, <3>1
    <3>3. PICK j \in Listed : j > i
      <4>1. newer # {}
        BY <3>1, FS_EmptySet
      <4> QED
        BY <4>1
    <3>4. LastBackupAt \in Listed' \cup {0}
      BY <2>1, <2>2, <2>5, <3>1, <3>3
    <3> QED
      BY <2>1, <2>3, <2>5, <3>1, <3>2, <3>4
  <2> QED
    BY <1>1, <2>4, <2>5, DumpSteps, FinishedIsListed, PrunedIsNotListed
<1>2. Structure /\ [NextBackups]_bvars =>
        [/\ LastBackupAt' >= LastBackupAt
         /\ \A i \in Listed \ Listed' : Cardinality({j \in Listed' : j > i}) >= Retention]_<<dump>>
  BY <1>1
<1> QED
  BY <1>2, StructureInvariant, PTL DEF SpecBackups, NewestKept

\* A backup finds the dump it made, and an archive is next to its dump or a prune was
\* killed between the two.
LEMMA PairsInvariant == SpecBackups => [](DumpedIsListed /\ KeptTogether)
<1> USE BackupsAssumption DEF BackupsAssumption
<1> DEFINE Inv == DumpedIsListed /\ KeptTogether
<1>1. InitBackups => Inv
  BY DEF InitBackups, DumpedIsListed, KeptTogether, NoJob
<1>2. Structure /\ Structure' /\ Inv /\ [NextBackups]_bvars => Inv'
  <2> SUFFICES ASSUME Structure, Structure', Inv, [NextBackups]_bvars
               PROVE  Inv'
    OBVIOUS
  <2> USE DEF DumpedIsListed, KeptTogether
  <2>1. CASE UNCHANGED <<dump, archive, job, cut>>
    BY <2>1 DEF Listed
  <2> USE DEF Structure, BackupTypes, JobsInStep, OneAtATime
  <2>2. ASSUME NEW p \in Processes,
               \/ Begin(p) \/ FailDump(p) \/ ListFolder(p) \/ SkipArchive(p) \/ FailArchive(p) \/ End(p)
        PROVE  Inv'
    <3>1. UNCHANGED <<dump, archive, cut>> /\ Listed' = Listed
      BY <2>2 DEF Begin, FailDump, ListFolder, SkipArchive, FailArchive, End, Listed
    <3>2. \A q \in Processes : q # p => job'[q] = job[q]
      BY <2>2 DEF Begin, FailDump, ListFolder, SkipArchive, FailArchive, End
    <3>3. job[p].at # "pruned"
      BY <2>2 DEF Begin, FailDump, ListFolder, SkipArchive, FailArchive, End
    <3>4. job'[p].at \in {"dumped", "archiving"} => job'[p].id = job[p].id /\ job[p].at = "dumped"
      BY <2>2 DEF Begin, FailDump, ListFolder, SkipArchive, FailArchive, End, NoJob, Jobs
    <3> QED
      BY <3>1, <3>2, <3>3, <3>4
  <2>3. ASSUME NEW p \in Processes, FinishDump(p)
        PROVE  Inv'
    <3>0. Listed' = Listed \cup {job[p].id}
      BY <2>3, FinishedIsListed
    <3>1. /\ UNCHANGED <<archive, cut>> /\ job[p].at = "dumping"
          /\ job'[p].id = job[p].id /\ job'[p].at = "dumped"
          /\ \A q \in Processes : q # p => job'[q] = job[q]
      BY <2>3 DEF FinishDump, Jobs
    <3> QED
      BY <3>0, <3>1
  <2>4. ASSUME NEW p \in Processes, FinishArchive(p)
        PROVE  Inv'
    <3>1. /\ UNCHANGED <<dump, cut>> /\ Listed' = Listed /\ job[p].at = "archiving"
          /\ job'[p].at = "pruning"
          /\ \A q \in Processes : q # p => job'[q] = job[q]
      BY <2>4 DEF FinishArchive, Jobs, Listed
    <3>2. \A i \in Ids : i # job[p].id => archive'[i] = archive[i]
      BY <2>4 DEF FinishArchive
    <3>3. job[p].id \in Listed
      BY <3>1
    <3> QED
      BY <3>1, <3>2, <3>3
  <2>5. ASSUME NEW p \in Processes, PruneDump(p)
        PROVE  Inv'
    <3>0. PICK i \in Stale : /\ job'[p].id = i /\ job'[p].at = "pruned"
                             /\ Listed' = Listed \ {i}
      BY <2>5, PrunedIsNotListed
    <3>1. /\ UNCHANGED <<archive, cut>> /\ job[p].at = "pruning"
          /\ \A q \in Processes : q # p => job'[q] = job[q]
      BY <2>5 DEF PruneDump
    <3> QED
      BY <3>0, <3>1
  <2>6. ASSUME NEW p \in Processes, PruneArchive(p)
        PROVE  Inv'
    <3>1. /\ UNCHANGED <<dump, cut>> /\ Listed' = Listed /\ job[p].at = "pruned"
          /\ job'[p].at = "pruning"
          /\ \A q \in Processes : q # p => job'[q] = job[q]
      BY <2>6 DEF PruneArchive, Jobs, Listed
    <3>2. \A i \in Ids : archive'[i] = IF i = job[p].id THEN None ELSE archive[i]
      BY <2>6 DEF PruneArchive
    <3> QED
      BY <3>1, <3>2
  <2>7. ASSUME NEW p \in Processes, Kill(p)
        PROVE  Inv'
    <3>1. /\ UNCHANGED <<dump, archive>> /\ Listed' = Listed
          /\ job'[p] = NoJob
          /\ \A q \in Processes : q # p => job'[q] = job[q]
      BY <2>7 DEF Kill, Listed
    <3>2. cut \subseteq cut' /\ (job[p].at = "pruned" => job[p].id \in cut')
      BY <2>7 DEF Kill
    <3> QED
      BY <3>1, <3>2 DEF NoJob
  <2>8. (RemoveLock \/ UNCHANGED jobs \/ UNCHANGED bvars) => UNCHANGED <<dump, archive, job, cut>>
    BY DEF RemoveLock, jobs, bvars
  <2> QED
    BY <2>1, <2>2, <2>3, <2>4, <2>5, <2>6, <2>7, <2>8, BackupStepCases
<1> QED
  BY <1>1, <1>2, StructureInvariant, PTL DEF SpecBackups

\* Dump and archive are kept and pruned together.
THEOREM PairsAreKept == SpecBackups => []KeptTogether
  BY PairsInvariant, PTL

-----------------------------------------------------------------------------
(* What a restore finds *)

AfterUpload == {"done", "deleting", "interrupted"}

\* A dump holds rows of uploads that are over.
DumpsAreUploaded ==
    /\ \A i \in Listed : \A k \in dump[i].row : request[k] \in AfterUpload
    /\ \A p \in Processes : job[p].at = "dumping" =>
         \A k \in job[p].db.row : request[k] \in AfterUpload

\* Who unlinks a file gives it up.
UnlinkedIsGivenUp == \A k \in Keys : request[k] \in {"deleting", "interrupted"} => k \in forfeit

\* A backup not begun has no file.
BegunInOrder == \A i \in Ids : i > begun => dump[i] = None /\ archive[i] = None

\* The archives, and the list a backup is making one from, hold renamed files.
ArchivesAreRenamed ==
    /\ \A i \in Ids : archive[i] # None => \A k \in archive[i].file : request[k] \in Renamed
    /\ \A p \in Processes : job[p].at = "archiving" =>
         \A k \in job[p].todo.file : request[k] \in Renamed

\* The keys whose row may be without a file.
Excused == forfeit \cup caught

\* The rows a backup under way has dumped are there still or are excused, until the
\* folder is listed; then they are on the list or excused.
BackupInStep ==
    \A p \in Processes :
        LET i == job[p].id IN
        /\ job[p].at \in {"dumping", "dumped", "archiving"} => archive[i] = None /\ i <= begun
        /\ job[p].at = "dumping" => job[p].db.row \subseteq row \cup Excused
        /\ job[p].at = "dumped" => dump[i].row \subseteq row \cup Excused
        /\ job[p].at = "archiving" => dump[i].row \subseteq job[p].todo.file \cup Excused

\* An archive has the files of its dump's rows, save those excused.
ArchivesMatchDumps ==
    \A i \in Listed : archive[i] # None => dump[i].row \subseteq archive[i].file \cup Excused

\* What the server's steps may do, as far as backups can tell.
LEMMA ServeSteps ==
    ASSUME TypeOK, PruneInv, UnlinkedIsGivenUp, RestoredRowsHaveFiles, restore.at = "idle",
           Serve, UNCHANGED restore
    PROVE  /\ \A k \in Keys : request[k] \in AfterUpload => request'[k] \in AfterUpload
           /\ UnlinkedIsGivenUp'
           /\ RestoredRowsHaveFiles'
           /\ \A k \in Keys : request[k] \in Renamed => request'[k] \in Renamed
           /\ Excused \subseteq Excused'
           /\ row \subseteq row' \cup Excused'
<1> USE DEF TypeOK, RequestStep, PruneInv, RowsAreUploaded, WrittenHaveFiles, FilesAreRenamed,
            PruneSparesRows, Renamed, Excused, UnlinkedIsGivenUp, RestoredRowsHaveFiles, AfterUpload
<1>1. ASSUME NEW k \in Keys, Unlink(k), forfeit' = forfeit \cup {k}
      PROVE  /\ \A l \in Keys : request[l] \in AfterUpload => request'[l] \in AfterUpload
             /\ UnlinkedIsGivenUp' /\ RestoredRowsHaveFiles'
             /\ \A l \in Keys : request[l] \in Renamed => request'[l] \in Renamed
             /\ Excused \subseteq Excused' /\ row \subseteq row' \cup Excused'
  BY <1>1 DEF Unlink
<1>2. ASSUME NEW k \in Keys, Upload(k), forfeit' = forfeit
      PROVE  /\ \A l \in Keys : request[l] \in AfterUpload => request'[l] \in AfterUpload
             /\ UnlinkedIsGivenUp' /\ RestoredRowsHaveFiles'
             /\ \A l \in Keys : request[l] \in Renamed => request'[l] \in Renamed
             /\ Excused \subseteq Excused' /\ row \subseteq row' \cup Excused'
  BY <1>2 DEF Upload, WriteTemporary, Rename, CommitUpload, FailUpload, Uploading
<1>3. ASSUME NEW k \in Keys, CommitDelete(k) \/ FailDelete(k), forfeit' = forfeit
      PROVE  /\ \A l \in Keys : request[l] \in AfterUpload => request'[l] \in AfterUpload
             /\ UnlinkedIsGivenUp' /\ RestoredRowsHaveFiles'
             /\ \A l \in Keys : request[l] \in Renamed => request'[l] \in Renamed
             /\ Excused \subseteq Excused' /\ row \subseteq row' \cup Excused'
  BY <1>3 DEF CommitDelete, FailDelete
<1>4. ASSUME NEW r \in Reports, DeleteReport(r),
             forfeit' = forfeit \cup {k \in row : ReportOf[k] = r}
      PROVE  /\ \A l \in Keys : request[l] \in AfterUpload => request'[l] \in AfterUpload
             /\ UnlinkedIsGivenUp' /\ RestoredRowsHaveFiles'
             /\ \A l \in Keys : request[l] \in Renamed => request'[l] \in Renamed
             /\ Excused \subseteq Excused' /\ row \subseteq row' \cup Excused'
  BY <1>4 DEF DeleteReport
<1>5. ASSUME Prune, forfeit' = forfeit
      PROVE  /\ \A l \in Keys : request[l] \in AfterUpload => request'[l] \in AfterUpload
             /\ UnlinkedIsGivenUp' /\ RestoredRowsHaveFiles'
             /\ \A l \in Keys : request[l] \in Renamed => request'[l] \in Renamed
             /\ Excused \subseteq Excused' /\ row \subseteq row' \cup Excused'
  BY <1>5 DEF Prune, ReadKeys, ListFiles, UnlinkOrphan, EndPrune
<1> QED
  BY <1>1, <1>2, <1>3, <1>4, <1>5 DEF Serve

\* A receipt of a restored database has its file, unless somebody gave it up, a prune
\* caught its upload or the backup has no archive: the files are listed after the rows
\* are dumped, and any other file goes in between only when its receipt does.
THEOREM RestoresAreComplete == SpecBackups => []RestoredRowsHaveFiles
<1> USE BackupsAssumption DEF BackupsAssumption
<1> DEFINE Dumps == /\ DumpsAreUploaded /\ BegunInOrder /\ BackupInStep
                    /\ ArchivesMatchDumps /\ ArchivesAreRenamed
           Inv == PruneInv /\ UnlinkedIsGivenUp /\ RestoredRowsHaveFiles /\ Dumps
<1>1. InitBackups => Inv
  BY DEF InitBackups, Init, NoPrune, NoJob, PruneInv, RowsAreUploaded, WrittenHaveFiles,
         FilesAreRenamed, PruneSparesRows, UnlinkedIsGivenUp, RestoredRowsHaveFiles,
         DumpsAreUploaded, BegunInOrder, BackupInStep, ArchivesMatchDumps, ArchivesAreRenamed, Listed
<1>2. Structure /\ Structure' /\ DumpedIsListed /\ Inv /\ [NextBackups]_bvars => Inv'
  <2> SUFFICES ASSUME Structure, Structure', DumpedIsListed, Inv, [NextBackups]_bvars
               PROVE  Inv'
    OBVIOUS
  <2>1. CASE restore.at = "idle" /\ Serve /\ UNCHANGED <<jobs, restore>>
    <3>1. PruneInv'
      BY <2>1, ServeIsNext, PruneStep DEF Structure
    <3>2. /\ UnlinkedIsGivenUp' /\ RestoredRowsHaveFiles'
          /\ \A k \in Keys : request[k] \in AfterUpload => request'[k] \in AfterUpload
          /\ \A k \in Keys : request[k] \in Renamed => request'[k] \in Renamed
          /\ Excused \subseteq Excused' /\ row \subseteq row' \cup Excused'
      BY <2>1, ServeSteps DEF Structure
    <3>3. UNCHANGED <<dump, archive, begun, job>> /\ Listed' = Listed
      BY <2>1 DEF jobs, Listed
    <3>4. /\ \A i \in Listed : dump[i].row \subseteq Keys
          /\ \A p \in Processes : job[p].at = "dumping" => job[p].db.row \subseteq Keys
      BY DEF Structure, BackupTypes, JobsInStep, Listed, Database
    <3>5. DumpsAreUploaded' /\ BegunInOrder'
      BY <3>2, <3>3, <3>4 DEF DumpsAreUploaded, BegunInOrder
    <3>6. BackupInStep' /\ ArchivesMatchDumps'
      BY <3>2, <3>3 DEF BackupInStep, ArchivesMatchDumps
    <3>7. /\ \A i \in Ids : archive[i] # None => archive[i].file \subseteq Keys
          /\ \A p \in Processes : job[p].at = "archiving" => job[p].todo.file \subseteq Keys
      BY DEF Structure, BackupTypes, JobsInStep, Folder
    <3>8. ArchivesAreRenamed'
      BY <3>2, <3>3, <3>7 DEF ArchivesAreRenamed
    <3> QED
      BY <3>1, <3>2, <3>5, <3>6, <3>8
  <2>2. CASE Restore /\ UNCHANGED jobs
    <3>1. UNCHANGED <<dump, archive, begun, job>> /\ Listed' = Listed
      BY <2>2 DEF jobs, Listed
    <3> USE DEF PruneInv, RowsAreUploaded, WrittenHaveFiles, FilesAreRenamed, PruneSparesRows,
                UnlinkedIsGivenUp, RestoredRowsHaveFiles, Structure, OneAtATime, Quiet
    <3>2. ASSUME UNCHANGED <<request, caught>>, forfeit \subseteq forfeit',
                 \A p \in Processes : job[p].at = "idle"
          PROVE  Dumps'
      BY <3>1, <3>2 DEF DumpsAreUploaded, BegunInOrder, BackupInStep, ArchivesMatchDumps,
                        ArchivesAreRenamed, Excused
    <3>3. ASSUME NEW i \in Ids, RestoreDatabase(i)
          PROVE  Inv'
      <4>1. /\ row' = dump[i].row /\ i \in Listed /\ Quiet
            /\ UNCHANGED <<file, request, prune, caught>> /\ forfeit \subseteq forfeit'
            /\ restore'.at = "idle" => dump[i].row \ file \subseteq forfeit'
        BY <3>3 DEF RestoreDatabase, NoRestore
      <4>2. \A k \in row' : request'[k] \in AfterUpload
        BY <4>1 DEF DumpsAreUploaded
      <4>3. PruneInv' /\ UnlinkedIsGivenUp' /\ RestoredRowsHaveFiles'
        BY <4>1, <4>2 DEF AfterUpload, Uploading
      <4> QED
        BY <3>2, <4>1, <4>3
    <3>4. CASE ClearFolder \/ KillRestore
      <4>1. /\ UNCHANGED <<row, request, prune, caught, forfeit>> /\ restore'.at # "idle" /\ Quiet
            /\ file' \subseteq file
        BY <3>4 DEF ClearFolder, KillRestore, vars, BackupTypes, RestoreStep
      <4>2. PruneInv' /\ UnlinkedIsGivenUp' /\ RestoredRowsHaveFiles'
        BY <4>1 DEF Uploading
      <4> QED
        BY <3>2, <4>1, <4>2
    <3>5. CASE Extract
      <4>1. /\ UNCHANGED <<row, request, prune, caught, forfeit>> /\ Quiet
            /\ file' = archive[restore.id].file
        BY <3>5 DEF Extract
      <4>2. row \subseteq archive[restore.id].file \cup Excused
        BY <3>5 DEF Extract, RestoreInStep, ArchivesMatchDumps
      <4>a. \A k \in file' : request[k] \in Renamed
        BY <3>5, <4>1 DEF Extract, RestoreInStep, ArchivesAreRenamed, Listed
      <4>3. PruneInv' /\ UnlinkedIsGivenUp' /\ RestoredRowsHaveFiles'
        BY <4>1, <4>2, <4>a DEF Uploading, Excused
      <4> QED
        BY <3>2, <4>1, <4>3
    <3> QED
      BY <2>2, <3>3, <3>4, <3>5 DEF Restore
  <2>3. ASSUME UNCHANGED <<vars, restore, forfeit>>
        PROVE  PruneInv' /\ UnlinkedIsGivenUp' /\ RestoredRowsHaveFiles'
    BY <2>3 DEF vars, PruneInv, RowsAreUploaded, WrittenHaveFiles, FilesAreRenamed, PruneSparesRows,
                Uploading, UnlinkedIsGivenUp, RestoredRowsHaveFiles
  <2>4. ASSUME UNCHANGED <<vars, restore, forfeit>>, UNCHANGED <<dump, archive, begun, job>>
        PROVE  Dumps'
    BY <2>4 DEF vars, Listed, DumpsAreUploaded, BegunInOrder, BackupInStep, ArchivesMatchDumps,
                ArchivesAreRenamed, Excused
  <2>5. CASE (RemoveLock /\ UNCHANGED <<vars, restore, forfeit>>) \/ UNCHANGED bvars
    BY <2>3, <2>4, <2>5 DEF RemoveLock, bvars, jobs
  <2>6. ASSUME NEW p \in Processes, UNCHANGED <<vars, restore, forfeit>>,
               \/ Begin(p) \/ FailDump(p) \/ FinishDump(p)
               \/ ListFolder(p) \/ SkipArchive(p) \/ FinishArchive(p) \/ FailArchive(p)
               \/ PruneDump(p) \/ PruneArchive(p) \/ End(p) \/ Kill(p)
        PROVE  Dumps'
    <3>0. UNCHANGED <<row, file, request, Excused>>
      BY <2>6 DEF vars, Excused
    <3>l. FinishDump(p) => Listed' = Listed \cup {job[p].id}
      BY FinishedIsListed
    <3> USE DEF Structure, BackupTypes, JobsInStep, OneAtATime, Jobs, Ids
    <3>1. \A q \in Processes : q # p => job'[q] = job[q]
      BY <2>6 DEF Begin, FailDump, FinishDump, ListFolder, SkipArchive, FinishArchive,
                  FailArchive, PruneDump, PruneArchive, End, Kill
    <3>2. ASSUME UNCHANGED <<dump, archive, begun>>, job'[p].at \in {"idle", "pruning", "pruned"}
          PROVE  Dumps'
      BY <3>0, <3>1, <3>2 DEF Listed, DumpsAreUploaded, BegunInOrder, BackupInStep,
                              ArchivesMatchDumps, ArchivesAreRenamed
    <3>3. CASE FailDump(p) \/ SkipArchive(p) \/ FailArchive(p) \/ End(p) \/ Kill(p)
      BY <3>2, <3>3 DEF FailDump, SkipArchive, FailArchive, End, Kill, NoJob
    <3>4. CASE Begin(p)
      <4>1. /\ UNCHANGED <<dump, archive>> /\ Listed' = Listed /\ begun' = begun + 1
            /\ restore.at = "idle"
            /\ job'[p].at = "dumping" /\ job'[p].id = begun + 1 /\ job'[p].db = ReadDatabase
            /\ begun + 1 \in Ids
        BY <3>4 DEF Begin, Listed
      <4>2. ReadDatabase.row = row /\ \A k \in row : request[k] \in AfterUpload
        BY DEF ReadDatabase, PruneInv, RowsAreUploaded, AfterUpload
      <4> QED
        BY <3>0, <3>1, <4>1, <4>2 DEF DumpsAreUploaded, BegunInOrder, BackupInStep,
                                   ArchivesMatchDumps, ArchivesAreRenamed
    <3>5. CASE FinishDump(p)
      <4>1. job[p] \in Jobs /\ job[p].id \in Ids
        BY <3>5 DEF FinishDump
      <4>2. job[p].at = "dumping" /\ job'[p].at = "dumped" /\ job'[p].id = job[p].id
        BY <3>5, <4>1 DEF FinishDump
      <4>3. \A i \in Ids : dump'[i] = IF i = job[p].id THEN job[p].db ELSE dump[i]
        BY <3>5, <4>1 DEF FinishDump
      <4>4. UNCHANGED <<archive, begun>> /\ Listed' = Listed \cup {job[p].id} /\ Listed \subseteq Ids
        BY <3>5, <3>l DEF FinishDump, Listed
      <4>5. /\ archive[job[p].id] = None /\ job[p].id <= begun
            /\ job[p].db.row \subseteq row \cup Excused
            /\ \A k \in job[p].db.row : request[k] \in AfterUpload
        BY <4>2 DEF BackupInStep, DumpsAreUploaded
      <4>6. \A q \in Processes : q # p => job'[q].at = "idle"
        BY <3>1, <4>2
      <4>7. DumpsAreUploaded'
        BY <3>0, <4>2, <4>3, <4>4, <4>5, <4>6 DEF DumpsAreUploaded
      <4>8. BegunInOrder'
        BY <4>3, <4>4, <4>5 DEF BegunInOrder
      <4>9. BackupInStep'
        BY <3>0, <4>1, <4>2, <4>3, <4>4, <4>5, <4>6 DEF BackupInStep
      <4>10. ArchivesMatchDumps'
        BY <3>0, <4>1, <4>3, <4>4, <4>5 DEF ArchivesMatchDumps
      <4>11. ArchivesAreRenamed'
        BY <3>0, <4>2, <4>4, <4>6 DEF ArchivesAreRenamed
      <4> QED
        BY <4>7, <4>8, <4>9, <4>10, <4>11
    <3>6. CASE ListFolder(p)
      <4>1. job[p] \in Jobs /\ job[p].id \in Ids
        BY <3>6 DEF ListFolder
      <4>2. /\ job[p].at = "dumped" /\ job'[p].at = "archiving" /\ job'[p].id = job[p].id
            /\ job'[p].todo.file = file
        BY <3>6, <4>1 DEF ListFolder, ReadFolder
      <4>3. UNCHANGED <<dump, archive, begun>> /\ Listed' = Listed
        BY <3>6 DEF ListFolder, Listed
      <4>4. row \subseteq file \cup Excused /\ \A k \in file : request[k] \in Renamed
        BY <4>2 DEF RestoredRowsHaveFiles, Quiet, TypeOK, Excused, PruneInv, FilesAreRenamed
      <4>5. /\ archive[job[p].id] = None /\ job[p].id <= begun
            /\ dump[job[p].id].row \subseteq row \cup Excused
        BY <4>2 DEF BackupInStep
      <4>6. \A q \in Processes : q # p => job'[q].at = "idle"
        BY <3>1, <4>2
      <4>7. DumpsAreUploaded' /\ BegunInOrder' /\ ArchivesMatchDumps'
        BY <3>0, <4>2, <4>3, <4>6 DEF DumpsAreUploaded, BegunInOrder, ArchivesMatchDumps
      <4>9. ArchivesAreRenamed'
        BY <3>0, <4>2, <4>3, <4>4, <4>6 DEF ArchivesAreRenamed
      <4>8. BackupInStep'
        BY <3>0, <4>2, <4>3, <4>4, <4>5, <4>6 DEF BackupInStep
      <4> QED
        BY <4>7, <4>8, <4>9
    <3>7. CASE FinishArchive(p)
      <4>1. /\ UNCHANGED <<dump, begun>> /\ Listed' = Listed
            /\ job[p].at = "archiving" /\ job'[p].at = "pruning" /\ job[p].id \in Ids
            /\ \A i \in Ids : archive'[i] = IF i = job[p].id THEN job[p].todo ELSE archive[i]
        BY <3>7 DEF FinishArchive, Listed
      <4>2. Listed \subseteq Ids
        BY DEF Listed
      <4>3. ArchivesAreRenamed'
        BY <3>0, <3>1, <4>1 DEF ArchivesAreRenamed
      <4>4. DumpsAreUploaded' /\ BackupInStep'
        BY <3>0, <3>1, <4>1, <4>2 DEF DumpsAreUploaded, BackupInStep
      <4>5. BegunInOrder'
        BY <3>1, <4>1 DEF BegunInOrder, BackupInStep
      <4>6. ArchivesMatchDumps'
        <5>1. dump[job[p].id].row \subseteq job[p].todo.file \cup Excused
          BY <4>1 DEF BackupInStep
        <5> QED
          BY <3>0, <4>1, <4>2, <5>1 DEF ArchivesMatchDumps
      <4> QED
        BY <4>3, <4>4, <4>5, <4>6
    <3>8. CASE PruneDump(p)
      <4>1. PICK i \in Stale : job'[p].at = "pruned" /\ Listed' = Listed \ {i}
        BY <3>8, PrunedIsNotListed
      <4>2. /\ UNCHANGED <<archive, begun>> /\ Listed \subseteq Ids
            /\ \A j \in Ids : dump'[j] \in {None, dump[j]}
            /\ \A j \in Listed' : dump'[j] = dump[j]
        BY <3>8 DEF PruneDump, Listed
      <4>3. ArchivesAreRenamed'
        BY <3>0, <3>1, <4>1, <4>2 DEF ArchivesAreRenamed
      <4>4. DumpsAreUploaded' /\ BegunInOrder' /\ BackupInStep' /\ ArchivesMatchDumps'
        BY <3>0, <3>1, <3>8, <4>1, <4>2
        DEF PruneDump, DumpsAreUploaded, BegunInOrder, BackupInStep, ArchivesMatchDumps
      <4> QED
        BY <4>3, <4>4
    <3>9. CASE PruneArchive(p)
      <4>1. /\ UNCHANGED <<dump, begun>> /\ Listed' = Listed /\ Listed \subseteq Ids
            /\ job[p].at = "pruned" /\ job'[p].at = "pruning"
            /\ \A i \in Ids : archive'[i] = IF i = job[p].id THEN None ELSE archive[i]
        BY <3>9 DEF PruneArchive, Listed
      <4>2. ArchivesAreRenamed'
        BY <3>0, <3>1, <4>1 DEF ArchivesAreRenamed
      <4>3. DumpsAreUploaded' /\ BegunInOrder' /\ BackupInStep' /\ ArchivesMatchDumps'
        BY <3>0, <3>1, <4>1 DEF DumpsAreUploaded, BegunInOrder, BackupInStep, ArchivesMatchDumps
      <4> QED
        BY <4>2, <4>3
    <3> QED
      BY <2>6, <3>3, <3>4, <3>5, <3>6, <3>7, <3>8, <3>9
  <2> QED
    BY <2>1, <2>2, <2>3, <2>5, <2>6, BackupStepCases
<1> QED
  BY <1>1, <1>2, StructureInvariant, PairsInvariant, PTL DEF SpecBackups

-----------------------------------------------------------------------------
(* seed-demo *)

\* A loop's n-th record has been passed; in a settled database, once and for all.
Records(l)   == 1..Len(Over[l])
Passed(l, n) == loop > l \/ (loop = l /\ nth > n)
Sure(l, n)   == settled \/ (outcome = "running" /\ Passed(l, n))

InLoop(l) == outcome = "running" /\ loop = l

\* Where a run can be: within each loop's records, and within the steps of one.
PlaceOK ==
    /\ loop \in 1..12
    /\ nth \in 1..5
    /\ step \in 0..8
    /\ loop \notin {4, 6, 8, 9} => nth <= 3
    /\ loop \notin {4, 5, 6, 7, 8, 9} => nth = 1
    /\ loop \notin {6, 8, 9, 11} => step = 0
    /\ loop = 6 => step <= Len(Members[DemoProjects[nth]]) + 2
    /\ loop = 9 => step <= 5
    /\ loop = 11 => step <= 1
    /\ outcome # "running" => loop = 1 /\ nth = 1 /\ step = 0

DemoTypes ==
    /\ month \in FirstMonth..LastMonth
    /\ customer \in [Customers -> {Absent, "active", "archived"}]
    /\ project \in [Projects -> Project \cup {Absent}]
    /\ week \in [Users \X Months -> Week \cup {Absent}]
    /\ claim \in [Users \X Projects \X Months -> {Absent, "draft", "submitted", "approved"}]
    /\ period \in [Months -> {Absent, "sent", "drafted", "issued"}]
    /\ disturbed \in Nat
    /\ settled \in BOOLEAN

\* What a record's steps rely on of the ones before them.
StepsInOrder ==
    /\ InLoop(6) /\ step > 0 => project[Of] # Absent
    /\ InLoop(8) /\ step > 0 => Options(Of) # {}
    /\ InLoop(8) => \A j \in 1..3 : step > j => week[<<Of, Earliest + j - 1>>] # Absent
    /\ InLoop(9) /\ step > 0 => Cardinality(Options(Of)) >= 2
    /\ InLoop(9) /\ step > 1 => ReportsThisMonth(Of) # {}
    /\ InLoop(11) /\ step > 0 => period[Earliest] = "drafted"

\* What a loop has done for its n-th record.
Effect(l, n) ==
    /\ l = 1 => calendar # "empty"
    /\ l = 2 => calendar = "bridge"
    /\ l = 3 => profile # "placeholder"
    /\ l = 4 => DemoUsers[n] \in users
    /\ l = 5 => customer[DemoCustomers[n]] # Absent
    /\ l = 6 => project[DemoProjects[n]] # Absent
    /\ l = 7 => (DemoCustomers[n] \in Archived => customer[DemoCustomers[n]] = "archived")
    /\ l = 8 => HasEntries(DemoUsers[n]) \/ Options(DemoUsers[n]) = {}
    /\ l = 9 => \/ ReportsThisMonth(DemoUsers[n]) # {}
                \/ Cardinality(Options(DemoUsers[n])) < 2
                \/ ~ HasReviewer(DemoUsers[n])
    /\ l = 10 => period[Earliest] # Absent
    /\ l = 11 => period[Earliest] \notin {Absent, "sent"}

\* What a run has passed is done; in a settled database everything is, and no further
\* step is called for.
ScriptDone ==
    /\ \A l \in 1..11 : \A n \in Records(l) : Sure(l, n) => Effect(l, n)
    /\ settled => step = 0

DemoInv == PlaceOK /\ DemoTypes /\ StepsInOrder /\ ScriptDone

\* What a run found is still there, and the steps under way are not of it.
FoundIsKept ==
    /\ outcome = "running" => /\ \A p \in before.projects : p \in Projects /\ project[p] # Absent
                              /\ \A u \in before.booked : u \in Users /\ HasEntries(u)
    /\ InLoop(6) /\ step > 0 => Of \notin before.projects
    /\ InLoop(8) /\ step > 0 => Of \notin before.booked

\* Nobody is a member, or books, but where the demo data says.
OnlyMembersBook ==
    /\ \A p \in Projects : project[p] # Absent => project[p].members \subseteq Range(Members[p])
    /\ \A u \in Users, m \in Months :
          week[<<u, m>>] # Absent => u \in Range(Members[week[<<u, m>>].project])

Website == project[InvoiceProject]

\* The project to be invoiced is complete, but while it is being completed.
WebsiteReady ==
    Website # Absent =>
        /\ Website.active
        /\ \/ InLoop(6) /\ Of = InvoiceProject /\ step \in 1..3
           \/ "lead" \in Website.members
        /\ \/ InLoop(6) /\ Of = InvoiceProject /\ step \in 1..4
           \/ Website.rated

\* Customers are archived when every project has been made.
ArchivedLast == \A c \in Customers, p \in Projects : customer[c] = "archived" => project[p] # Absent

\* Whoever books, books the earliest month, which is approved but while it is reviewed.
EarliestFirst ==
    \A u \in Users, m \in Months : week[<<u, m>>] # Absent => week[<<u, Earliest>>] # Absent
EarliestReviewed ==
    \A u \in Users : week[<<u, Earliest>>] # Absent =>
        \/ InLoop(8) /\ Of = u /\ step \in 2..5
        \/ week[<<u, Earliest>>].status = "approved"

ClaimsOfMonth == \A u \in Users, p \in Projects, m \in Months : claim[<<u, p, m>>] # Absent => m = month

\* Undisturbed, each run leaves what the last commands need.
Undisturbed ==
    disturbed = 0 =>
        /\ month = FirstMonth
        /\ WebsiteReady
        /\ ArchivedLast
        /\ EarliestFirst /\ EarliestReviewed
        /\ ClaimsOfMonth
        /\ outcome # "failed"

\* The loops by their numbers.
LEMMA LoopNumbers ==
    ASSUME NEW do, At(do)
    PROVE  /\ outcome = "running"
           /\ loop \in 1..11
           /\ do = "holidays" => loop = 1
           /\ do = "bridge"   => loop = 2
           /\ do = "profile"  => loop = 3
           /\ do = "user"     => loop = 4
           /\ do = "customer" => loop = 5
           /\ do = "project"  => loop = 6
           /\ do = "archive"  => loop = 7
           /\ do = "hours"    => loop = 8
           /\ do = "expenses" => loop = 9
           /\ do = "send"     => loop = 10
           /\ do = "draft"    => loop = 11
BY DEF At, Loops

\* The demo records, one by one.
LEMMA Demo ==
    /\ Users = {"admin", "manager", "employee", "accountant", "lead"}
    /\ Customers = {"Acme", "Globex", "Initech"}
    /\ Projects = {"Website", "Tooling", "Overhead", "Platform", "Legacy"}
    /\ Len(DemoUsers) = 5 /\ Len(DemoCustomers) = 3 /\ Len(DemoProjects) = 5
    /\ \A n \in 1..5 : DemoUsers[n] \in Users /\ DemoProjects[n] \in Projects
    /\ \A n \in 1..3 : DemoCustomers[n] \in Customers
    /\ \A u \in Users : \E n \in 1..5 : u = DemoUsers[n]
    /\ \A c \in Customers : \E n \in 1..3 : c = DemoCustomers[n]
    /\ \A p \in Projects : \E n \in 1..5 : p = DemoProjects[n]
<1>1. Users = {"admin", "manager", "employee", "accountant", "lead"}
  BY DEF Users, DemoUsers, Range
<1>2. Customers = {"Acme", "Globex", "Initech"}
  BY DEF Customers, DemoCustomers, Range
<1>3. Projects = {"Website", "Tooling", "Overhead", "Platform", "Legacy"}
  BY DEF Projects, DemoProjects, Range
<1> QED
  BY <1>1, <1>2, <1>3 DEF DemoUsers, DemoCustomers, DemoProjects

\* The records of each loop, by their numbers.
LEMMA RecordsOf ==
    ASSUME NEW l \in 1..11
    PROVE  /\ l \in {4, 6, 8, 9} => Records(l) = 1..5
           /\ l \in {5, 7} => Records(l) = 1..3
           /\ l \in {1, 2, 3, 10, 11} => Records(l) = 1..1
           /\ \A n \in Records(l) : /\ l \in {4, 8, 9} => DemoUsers[n] \in Users
                                    /\ l \in {5, 7} => DemoCustomers[n] \in Customers
                                    /\ l = 6 => DemoProjects[n] \in Projects
<1>1. /\ l \in {4, 8, 9} => Over[l] = DemoUsers
      /\ l \in {5, 7} => Over[l] = DemoCustomers
      /\ l = 6 => Over[l] = DemoProjects
      /\ l \in {1, 2, 3, 10, 11} => Over[l] = Once
  BY DEF Over
<1>2. Len(DemoUsers) = 5 /\ Len(DemoCustomers) = 3 /\ Len(DemoProjects) = 5 /\ Len(Once) = 1
  BY Demo DEF Once
<1>3. l \in {4, 8, 9} => Records(l) = 1..5
  BY <1>1, <1>2 DEF Records
<1>4. l \in {5, 7} => Records(l) = 1..3
  BY <1>1, <1>2 DEF Records
<1>5. l = 6 => Records(l) = 1..5
  BY <1>1, <1>2 DEF Records
<1>6. l \in {1, 2, 3, 10, 11} => Records(l) = 1..1
  BY <1>1, <1>2 DEF Records
<1> QED
  BY <1>3, <1>4, <1>5, <1>6, Demo

\* The record a run is at.
LEMMA Record ==
    ASSUME PlaceOK, loop # 12
    PROVE  /\ loop \in {4, 8, 9} => Of = DemoUsers[nth] /\ Len(Over[loop]) = 5
           /\ loop \in {5, 7} => Of = DemoCustomers[nth] /\ Len(Over[loop]) = 3
           /\ loop = 6 => Of = DemoProjects[nth] /\ Len(Over[loop]) = 5
           /\ loop \in {1, 2, 3, 10, 11} => Len(Over[loop]) = 1
           /\ loop \in {4, 8, 9} => Of \in Users
           /\ loop \in {5, 7} => Of \in Customers
           /\ loop = 6 => Of \in Projects
<1>1. loop \in 1..11
  BY DEF PlaceOK
<1>2. Len(DemoUsers) = 5 /\ Len(DemoCustomers) = 3 /\ Len(DemoProjects) = 5 /\ Len(Once) = 1
  BY Demo DEF Once
<1>3. /\ loop \in {4, 8, 9} => Over[loop] = DemoUsers
      /\ loop \in {5, 7} => Over[loop] = DemoCustomers
      /\ loop = 6 => Over[loop] = DemoProjects
      /\ loop \in {1, 2, 3, 10, 11} => Over[loop] = Once
  BY <1>1 DEF Over
<1>4. /\ loop \in {4, 8, 9} => nth \in 1..5
      /\ loop \in {5, 7} => nth \in 1..3
      /\ loop = 6 => nth \in 1..5
  BY DEF PlaceOK
<1> QED
  BY <1>2, <1>3, <1>4, Demo DEF Of

\* A step goes on to the next record, which makes this one passed and no other, or
\* further at the same record, which passes none.
Onward ==
    /\ step' = 0
    /\ \A l \in 1..11 : \A n \in Records(l) : Sure(l, n)' => Sure(l, n) \/ (l = loop /\ n = nth)

Further ==
    /\ step' = step + 1 /\ loop' = loop /\ nth' = nth /\ Of' = Of
    /\ \A l \in 1..11 : \A n \in Records(l) : Sure(l, n)' = Sure(l, n)

\* A loop's last record is followed by the next loop's first.
LEMMA Continues ==
    ASSUME PlaceOK, outcome = "running", loop # 12, Continue
    PROVE  PlaceOK' /\ Onward
<1> DEFINE size == Len(Over[loop])
<1>1. /\ step' = 0 /\ outcome' = "running" /\ settled' = settled
      /\ \/ nth < size /\ nth' = nth + 1 /\ loop' = loop
         \/ ~ (nth < size) /\ nth' = 1 /\ loop' = loop + 1
  BY DEF Continue, history
<1>2. /\ loop \in {4, 6, 8, 9} => size = 5
      /\ loop \in {5, 7} => size = 3
      /\ loop \in {1, 2, 3, 10, 11} => size = 1
  BY Record
<1>3. \A n \in Records(loop) : n \in 1..size
  BY DEF Records
<1> HIDE DEF size
<1>4. loop \in 1..11 /\ nth \in 1..5 /\ size \in {1, 3, 5}
  BY <1>2 DEF PlaceOK
<1>5. /\ loop' \in 1..12 /\ nth' \in 1..5
      /\ loop' \notin {4, 6, 8, 9} => nth' <= 3
      /\ loop' \notin {4, 5, 6, 7, 8, 9} => nth' = 1
  BY <1>1, <1>2, <1>4
<1>6. DemoProjects[nth'] \in Projects
  BY <1>5, Demo
<1>7. \A p \in Projects : Len(Members[p]) \in {1, 2, 3}
  BY Demo DEF Members
<1>8. PlaceOK'
  BY <1>1, <1>5, <1>6, <1>7 DEF PlaceOK
<1>9. ASSUME NEW l \in 1..11, NEW n \in Records(l), Sure(l, n)', ~ Sure(l, n)
      PROVE  l = loop /\ n = nth
  <2>1. ~ settled /\ ~ Passed(l, n) /\ Passed(l, n)' /\ n \in Nat \ {0}
    BY <1>1, <1>9 DEF Sure, Records
  <2>2. loop <= l /\ (loop = l => nth <= n) /\ (loop' > l \/ (loop' = l /\ nth' > n))
    BY <2>1, <1>4 DEF Passed
  <2>3. l = loop
    BY <2>1, <2>2, <1>1, <1>4
  <2>4. n \in 1..size
    BY <2>3, <1>3
  <2> QED
    BY <2>2, <2>3, <2>4, <1>1, <1>4
<1> QED
  BY <1>1, <1>8, <1>9 DEF Onward

\* A record's last step is followed by the next record.
LEMMA Follows ==
    ASSUME NEW steps \in 1..8, PlaceOK, outcome = "running", Follow(steps),
           loop \in {6, 8, 9, 11},
           loop = 6 => steps = Len(Members[DemoProjects[nth]]) + 2,
           loop = 9 => steps = 5,
           loop = 11 => steps = 1
    PROVE  /\ PlaceOK'
           /\ UNCHANGED <<month, outcome, history>>
           /\ \/ step < steps /\ Further
              \/ step >= steps /\ Onward
<1>1. CASE step < steps
  <2>1. /\ step' = step + 1 /\ loop' = loop /\ nth' = nth
        /\ UNCHANGED <<month, outcome, history>> /\ settled' = settled
    BY <1>1 DEF Follow, history
  <2>2. DemoProjects[nth] \in Projects
    BY Demo DEF PlaceOK
  <2>3. \A p \in Projects : Len(Members[p]) \in {1, 2, 3}
    BY Demo DEF Members
  <2>4. PlaceOK'
    BY <2>1, <2>2, <2>3, <1>1 DEF PlaceOK
  <2> QED
    BY <2>1, <2>4, <1>1 DEF Further, Sure, Passed, Of
<1>2. CASE ~ (step < steps)
  <2>1. Continue
    BY <1>2 DEF Follow
  <2>2. step >= steps
    BY <1>2 DEF PlaceOK
  <2>3. UNCHANGED <<month, outcome, history>>
    BY <2>1 DEF Continue
  <2> QED
    BY <2>1, <2>2, <2>3, Continues
<1> QED
  BY <1>1, <1>2

\* The options by name.
LEMMA FirstIsIn ==
    ASSUME NEW S \in SUBSET Projects, S # {}
    PROVE  FirstByName(S) \in S
<1> DEFINE First(i) == ByName[i] \in S /\ \A j \in 1..i - 1 : ByName[j] \notin S
<1>1. DOMAIN ByName = 1..5
  BY DEF ByName
<1>2. /\ ByName[1] = "Overhead" /\ ByName[2] = "Tooling" /\ ByName[3] = "Legacy"
      /\ ByName[4] = "Platform" /\ ByName[5] = "Website"
  BY DEF ByName
<1>3. \E i \in 1..5 : ByName[i] \in S
  <2>1. PICK p \in S : TRUE
    OBVIOUS
  <2>2. p \in {"Website", "Tooling", "Overhead", "Platform", "Legacy"}
    BY <2>1, Demo
  <2>3. \E i \in 1..5 : p = ByName[i]
    BY <2>2, <1>2
  <2> QED
    BY <2>1, <2>3
<1>4. \E i \in 1..5 : First(i)
  <2>1. CASE ByName[1] \in S
    BY <2>1
  <2>2. CASE ByName[1] \notin S /\ ByName[2] \in S
    BY <2>2
  <2>3. CASE ByName[1] \notin S /\ ByName[2] \notin S /\ ByName[3] \in S
    BY <2>3
  <2>4. CASE ByName[1] \notin S /\ ByName[2] \notin S /\ ByName[3] \notin S /\ ByName[4] \in S
    BY <2>4
  <2>5. CASE ByName[1] \notin S /\ ByName[2] \notin S /\ ByName[3] \notin S /\ ByName[4] \notin S
    BY <2>5, <1>3
  <2> QED
    BY <2>1, <2>2, <2>3, <2>4, <2>5
<1> QED
  BY <1>1, <1>4 DEF FirstByName

\* The first option and, where there are two, the second are options.
LEMMA OptionsAreProjects ==
    ASSUME NEW u
    PROVE  /\ Options(u) \in SUBSET Projects
           /\ Options(u) # {} => FirstOption(u) \in Options(u)
           /\ Cardinality(Options(u)) >= 2 => /\ FirstOption(u) \in Options(u)
                                              /\ SecondOption(u) \in Options(u)
<1>1. Options(u) \in SUBSET Projects
  BY DEF Options
<1>2. Options(u) # {} => FirstOption(u) \in Options(u)
  BY <1>1, FirstIsIn DEF FirstOption
<1>3. ASSUME Cardinality(Options(u)) >= 2
      PROVE  FirstOption(u) \in Options(u) /\ SecondOption(u) \in Options(u)
  <2>1. Options(u) # {}
    BY <1>3, FS_EmptySet
  <2> DEFINE p == FirstOption(u)
             rest == Options(u) \ {p}
  <2>2. rest # {}
    <3>1. SUFFICES ASSUME rest = {} PROVE FALSE
      OBVIOUS
    <3>2. Options(u) = {p}
      BY <3>1, <2>1
    <3> QED
      BY <3>2, <1>3, FS_Singleton
  <2>3. rest \in SUBSET Projects
    BY <1>1
  <2> HIDE DEF rest
  <2>4. FirstByName(rest) \in rest
    BY <2>2, <2>3, FirstIsIn
  <2> QED
    BY <2>1, <2>4, <1>2 DEF SecondOption, rest
<1> QED
  BY <1>1, <1>2, <1>3

\* A cardinality of theirs is a number.
LEMMA OptionsAreFinite == ASSUME NEW u PROVE IsFiniteSet(Options(u))
<1>1. IsFiniteSet({"Website", "Tooling", "Overhead", "Platform", "Legacy"})
  <2>1. IsFiniteSet({"Website"})
    BY FS_Singleton
  <2>2. IsFiniteSet({"Website"} \cup {"Tooling"})
    BY <2>1, FS_AddElement
  <2>3. IsFiniteSet({"Website"} \cup {"Tooling"} \cup {"Overhead"})
    BY <2>2, FS_AddElement
  <2>4. IsFiniteSet({"Website"} \cup {"Tooling"} \cup {"Overhead"} \cup {"Platform"})
    BY <2>3, FS_AddElement
  <2>5. IsFiniteSet({"Website"} \cup {"Tooling"} \cup {"Overhead"} \cup {"Platform"} \cup {"Legacy"})
    BY <2>4, FS_AddElement
  <2>6. {"Website"} \cup {"Tooling"} \cup {"Overhead"} \cup {"Platform"} \cup {"Legacy"}
           = {"Website", "Tooling", "Overhead", "Platform", "Legacy"}
    OBVIOUS
  <2> QED
    BY <2>5, <2>6
<1>2. Options(u) \subseteq {"Website", "Tooling", "Overhead", "Platform", "Legacy"}
  BY Demo DEF Options
<1> QED
  BY <1>1, <1>2, FS_Subset

\* No command undoes what is done.
NothingUndone ==
    /\ month' = month
    /\ calendar # "empty" => calendar' # "empty"
    /\ calendar = "bridge" => calendar' = "bridge"
    /\ profile # "placeholder" => profile' # "placeholder"
    /\ users \subseteq users'
    /\ \A c \in Customers : customer[c] # Absent => customer'[c] # Absent
    /\ \A c \in Customers : customer[c] = "archived" => customer'[c] = "archived"
    /\ \A p \in Projects : project[p] # Absent => project'[p] # Absent
    /\ \A u \in Users, m \in Months : week[<<u, m>>] # Absent => week'[<<u, m>>] # Absent
    /\ \A u \in Users, p \in Projects, m \in Months :
          claim[<<u, p, m>>] # Absent => claim'[<<u, p, m>>] # Absent
    /\ \A m \in Months : period[m] # Absent => period'[m] # Absent
    /\ \A m \in Months : period[m] \notin {Absent, "sent"} => period'[m] \notin {Absent, "sent"}

\* The months booked are months, this one being the last.
LEMMA EarliestIsMonth ==
    ASSUME DemoTypes
    PROVE  /\ Earliest \in Months /\ Earliest + 1 \in Months /\ Earliest + 2 \in Months
           /\ Earliest + 2 = month /\ month \in Months /\ Months \subseteq Nat
BY DemoDataAssumption DEF DemoTypes, Earliest, Months, BookedMonths

\* What a loop has done for a record, no command undoes: the options of a user, which a new
\* project would add to, are asked for when the projects are made.
LEMMA EffectsStay ==
    ASSUME DemoTypes, NothingUndone,
           NEW l \in 1..11, NEW n \in Records(l),
           l \in {8, 9} => UNCHANGED project,
           Effect(l, n)
    PROVE  Effect(l, n)'
<1>1. /\ l \in {4, 8, 9} => DemoUsers[n] \in Users
      /\ l \in {5, 7} => DemoCustomers[n] \in Customers
      /\ l = 6 => DemoProjects[n] \in Projects
  BY RecordsOf
<1>2. Earliest' = Earliest /\ Earliest \in Months /\ month' = month /\ month \in Months
  BY EarliestIsMonth DEF NothingUndone, Earliest
<1>3. CASE l = 8
  <2>1. DemoUsers[n] \in Users
    BY <1>1, <1>3
  <2>2. Options(DemoUsers[n])' = Options(DemoUsers[n])
    BY <1>3 DEF Options
  <2>3. HasEntries(DemoUsers[n]) => HasEntries(DemoUsers[n])'
    BY <2>1 DEF HasEntries, NothingUndone
  <2> QED
    BY <1>3, <2>2, <2>3 DEF Effect
<1>4. CASE l = 9
  <2>1. DemoUsers[n] \in Users
    BY <1>1, <1>4
  <2>2. Options(DemoUsers[n])' = Options(DemoUsers[n])
    BY <1>4 DEF Options
  <2>3. ReportsThisMonth(DemoUsers[n]) # {} => ReportsThisMonth(DemoUsers[n])' # {}
    BY <2>1, <1>2 DEF ReportsThisMonth, NothingUndone
  <2> QED
    BY <1>4, <2>2, <2>3 DEF Effect, HasReviewer
<1>5. CASE l \notin {8, 9}
  BY <1>1, <1>2, <1>5 DEF Effect, NothingUndone
<1> QED
  BY <1>3, <1>4, <1>5

\* A command that goes on has done what the loop is for; one that goes further has
\* been called for.
DoneHere == \A l \in 1..11 : \A n \in Records(l) : l = loop /\ n = nth => Effect(l, n)'

\* A command that goes on has done its part, and one that goes further was called for: either
\* keeps the invariant.
LEMMA AfterCommand ==
    ASSUME DemoInv, NothingUndone, DemoTypes', PlaceOK', outcome = "running", loop # 12,
           UNCHANGED <<month, outcome, history>>,
           \/ Onward /\ DoneHere
           \/ Further /\ ~ settled /\ StepsInOrder',
           project' = project \/ (loop = 6 /\ ~ settled)
    PROVE  DemoInv'
<1>1. settled' = settled /\ outcome' = "running"
  BY DEF history
<1>2. StepsInOrder'
  <2>1. CASE Onward
    <3>1. step' = 0
      BY <2>1 DEF Onward
    <3>2. \A j \in 1..3 : ~ (step' > j)
      BY <3>1
    <3> QED
      BY <3>1, <3>2 DEF StepsInOrder
  <2> QED
    BY <2>1
<1>3. settled' => step' = 0
  BY <1>1 DEF Onward, Further
<1>4. ASSUME NEW l \in 1..11, NEW n \in Records(l), Sure(l, n)'
      PROVE  Effect(l, n)'
  <2>1. CASE Sure(l, n)
    <3>1. Effect(l, n)
      BY <2>1 DEF DemoInv, ScriptDone
    <3>2. l \in {8, 9} => UNCHANGED project
      BY <2>1 DEF Sure, Passed
    <3>3. DemoTypes
      BY DEF DemoInv
    <3> QED
      BY <3>1, <3>2, <3>3, EffectsStay
  <2>2. CASE ~ Sure(l, n)
    <3>1. Onward /\ DoneHere
      BY <1>4, <2>2 DEF Further
    <3>2. l = loop /\ n = nth
      BY <3>1, <1>4, <2>2 DEF Onward
    <3> QED
      BY <3>1, <3>2 DEF DoneHere
  <2> QED
    BY <2>1, <2>2
<1> QED
  BY <1>2, <1>3, <1>4 DEF DemoInv, ScriptDone

\* A command made once per record.
LEMMA AfterRecord ==
    ASSUME DemoInv, NothingUndone, DemoTypes', outcome = "running", loop # 12,
           Continue, UNCHANGED project, DoneHere
    PROVE  DemoInv'
<1>1. PlaceOK' /\ Onward
  BY Continues DEF DemoInv
<1>2. UNCHANGED <<month, outcome, history>>
  BY DEF Continue
<1> QED
  BY <1>1, <1>2, AfterCommand

\* The steps, command by command: each does its part, and undoes none.  First the calendar;
LEMMA CalendarStep == ASSUME DemoInv, SeedCalendar PROVE DemoInv' /\ NothingUndone
<1>1. outcome = "running" /\ step = 0 /\ loop \in {1, 2} /\ Continue
  BY LoopNumbers DEF SeedCalendar, Doing
<1>2. UNCHANGED <<profile, users, customer, project, week, claim, period, month, disturbed, settled>>
  BY <1>1 DEF SeedCalendar, bookings, Continue, history
<1>3. /\ loop = 1 => calendar' # "empty"
      /\ loop = 2 => calendar' = "bridge"
      /\ calendar # "empty" => calendar' # "empty"
      /\ calendar = "bridge" => calendar' = "bridge"
  BY LoopNumbers DEF SeedCalendar, Doing
<1>4. NothingUndone
  BY <1>2, <1>3 DEF NothingUndone
<1>5. DemoTypes'
  BY <1>2 DEF DemoInv, DemoTypes
<1>6. DoneHere
  BY <1>1, <1>3 DEF DoneHere, Effect
<1> QED
  BY <1>1, <1>2, <1>4, <1>5, <1>6, AfterRecord

\* the company's profile;
LEMMA ProfileStep == ASSUME DemoInv, SeedProfile PROVE DemoInv' /\ NothingUndone
<1>1. outcome = "running" /\ step = 0 /\ loop = 3 /\ Continue
  BY LoopNumbers DEF SeedProfile, Doing
<1>2. UNCHANGED <<calendar, users, customer, project, week, claim, period, month, disturbed, settled>>
  BY <1>1 DEF SeedProfile, bookings, Continue, history
<1>3. profile' # "placeholder"
  BY DEF SeedProfile
<1>4. NothingUndone
  BY <1>2, <1>3 DEF NothingUndone
<1>5. DemoTypes'
  BY <1>2 DEF DemoInv, DemoTypes
<1>6. DoneHere
  BY <1>1, <1>3 DEF DoneHere, Effect
<1> QED
  BY <1>1, <1>2, <1>4, <1>5, <1>6, AfterRecord

\* the users;
LEMMA UserStep == ASSUME DemoInv, SeedUser PROVE DemoInv' /\ NothingUndone
<1>1. outcome = "running" /\ step = 0 /\ loop = 4 /\ Continue
  BY LoopNumbers DEF SeedUser, Doing
<1>2. UNCHANGED <<calendar, profile, customer, project, week, claim, period, month, disturbed, settled>>
  BY <1>1 DEF SeedUser, bookings, Continue, history
<1>3. users' = users \cup {DemoUsers[nth]}
  BY <1>1, Record DEF SeedUser, DemoInv
<1>4. NothingUndone
  BY <1>2, <1>3 DEF NothingUndone
<1>5. DemoTypes'
  BY <1>2 DEF DemoInv, DemoTypes
<1>6. DoneHere
  BY <1>1, <1>3 DEF DoneHere, Effect
<1> QED
  BY <1>1, <1>2, <1>4, <1>5, <1>6, AfterRecord

\* the customers, which are archived once the projects are made;
LEMMA CustomerStep ==
    ASSUME DemoInv, SeedCustomer \/ ArchiveCustomer
    PROVE  DemoInv' /\ NothingUndone
<1>1. /\ outcome = "running" /\ step = 0 /\ loop \in {5, 7} /\ Continue
      /\ SeedCustomer => loop = 5
      /\ ArchiveCustomer => loop = 7
  BY LoopNumbers DEF SeedCustomer, ArchiveCustomer, Doing
<1>2. UNCHANGED <<calendar, profile, users, project, week, claim, period, month, disturbed, settled>>
  BY <1>1 DEF SeedCustomer, ArchiveCustomer, bookings, Continue, history
<1>3. Of = DemoCustomers[nth] /\ Of \in Customers
  BY <1>1, Record DEF DemoInv
<1>4. customer \in [Customers -> {Absent, "active", "archived"}]
  BY DEF DemoInv, DemoTypes
<1>5. /\ customer' \in [Customers -> {Absent, "active", "archived"}]
      /\ \A c \in Customers : customer[c] # Absent => customer'[c] # Absent
      /\ \A c \in Customers : customer[c] = "archived" => customer'[c] = "archived"
      /\ loop = 5 => customer'[Of] # Absent
      /\ loop = 7 /\ Of \in Archived => customer'[Of] = "archived"
  <2>1. CASE SeedCustomer
    BY <2>1, <1>1, <1>3, <1>4, DemoDataAssumption DEF SeedCustomer
  <2>2. CASE ArchiveCustomer
    BY <2>2, <1>1, <1>3, <1>4, DemoDataAssumption DEF ArchiveCustomer
  <2> QED
    BY <2>1, <2>2
<1>6. NothingUndone
  BY <1>2, <1>5 DEF NothingUndone
<1>7. DemoTypes'
  BY <1>2, <1>5 DEF DemoInv, DemoTypes
<1>8. DoneHere
  BY <1>1, <1>3, <1>5 DEF DoneHere, Effect
<1> QED
  BY <1>1, <1>2, <1>6, <1>7, <1>8, AfterRecord

\* A project has up to three members, all users.
LEMMA MembersOf ==
    ASSUME NEW p \in Projects
    PROVE  /\ Len(Members[p]) \in 1..3 /\ DOMAIN Members[p] = 1..Len(Members[p])
           /\ \A i \in DOMAIN Members[p] : Members[p][i] \in Users
           /\ Range(Members[p]) = {Members[p][i] : i \in DOMAIN Members[p]}
<1>1. /\ p = "Website"  => Members[p] = <<"manager", "employee", "lead">>
      /\ p = "Tooling"  => Members[p] = <<"employee", "accountant">>
      /\ p = "Overhead" => Members[p] = <<"accountant">>
      /\ p = "Platform" => Members[p] = <<"manager">>
      /\ p = "Legacy"   => Members[p] = <<"employee">>
  BY DEF Members
<1>2. \A u \in {"manager", "employee", "lead", "accountant"} : u \in Users
  BY Demo
<1>3. Range(Members[p]) = {Members[p][i] : i \in DOMAIN Members[p]}
  BY DEF Range
<1>4. CASE p = "Website"
  <2>1. Len(Members[p]) = 3 /\ DOMAIN Members[p] = 1..3
    BY <1>1, <1>4
  <2>2. \A i \in 1..3 : Members[p][i] \in {"manager", "employee", "lead"}
    BY <1>1, <1>4
  <2> QED
    BY <2>1, <2>2, <1>2, <1>3
<1>5. CASE p = "Tooling"
  <2>1. Len(Members[p]) = 2 /\ DOMAIN Members[p] = 1..2
    BY <1>1, <1>5
  <2>2. \A i \in 1..2 : Members[p][i] \in {"employee", "accountant"}
    BY <1>1, <1>5
  <2> QED
    BY <2>1, <2>2, <1>2, <1>3
<1>6. CASE p \in {"Overhead", "Platform", "Legacy"}
  <2>1. \E u \in {"accountant", "manager", "employee"} : Members[p] = <<u>>
    BY <1>1, <1>6
  <2>2. Len(Members[p]) = 1 /\ DOMAIN Members[p] = 1..1
    BY <2>1
  <2>3. \A i \in 1..1 : Members[p][i] \in Users
    BY <2>1, <1>2
  <2> QED
    BY <2>2, <2>3, <1>3
<1> QED
  BY <1>4, <1>5, <1>6, Demo

\* What is made is not absent.
LEMMA NoAbsentRecord == \A r \in Week \cup Project : r # Absent
BY DemoDataAssumption

\* the projects: one that exists calls for no step;
LEMMA ProjectStep == ASSUME DemoInv, SeedProject PROVE DemoInv' /\ NothingUndone
<1>1. outcome = "running" /\ step = 0 /\ loop = 6
  BY LoopNumbers DEF SeedProject, Doing
<1>2. UNCHANGED <<calendar, profile, users, customer, week, claim, period>>
  BY DEF SeedProject, bookings
<1>3. Of = DemoProjects[nth] /\ Of \in Projects /\ nth \in 1..5
  BY <1>1, Record DEF DemoInv, PlaceOK
<1>4. CASE project[Of] # Absent
  <2>1. Continue /\ UNCHANGED project
    BY <1>4 DEF SeedProject
  <2>2. UNCHANGED <<month, disturbed, settled>>
    BY <2>1 DEF Continue, history
  <2>3. NothingUndone
    BY <1>2, <2>1, <2>2 DEF NothingUndone
  <2>4. DemoTypes'
    BY <1>2, <2>1, <2>2 DEF DemoInv, DemoTypes
  <2>5. DoneHere
    BY <1>1, <1>3, <1>4, <2>1 DEF DoneHere, Effect
  <2> QED
    BY <1>1, <2>1, <2>3, <2>4, <2>5, AfterRecord
<1>5. CASE project[Of] = Absent
  <2>1. project' = [project EXCEPT ![Of] = NewProject] /\ Follow(Completion(Of))
    BY <1>5 DEF SeedProject
  <2>2. Completion(Of) = Len(Members[DemoProjects[nth]]) + 2 /\ Completion(Of) \in 3..5
    BY <1>3, Demo DEF Completion, Members
  <2>3. PlaceOK' /\ UNCHANGED <<month, outcome, history>> /\ Further
    <3> DEFINE steps == Completion(Of)
    <3>1. steps \in 1..8 /\ step < steps /\ ~ (step >= steps)
      BY <2>2, <1>1
    <3>2. Follow(steps) /\ steps = Len(Members[DemoProjects[nth]]) + 2
      BY <2>1, <2>2
    <3> HIDE DEF steps
    <3> QED
      BY <3>1, <3>2, <1>1, Follows DEF DemoInv
  <2>4. ~ settled
    <3>1. nth \in Records(6)
      BY <1>3, RecordsOf
    <3> QED
      BY <3>1, <1>3, <1>5 DEF DemoInv, ScriptDone, Sure, Effect
  <2>5. NewProject \in Project /\ NewProject # Absent
    BY NoAbsentRecord DEF NewProject, Project
  <2>6. project' \in [Projects -> Project \cup {Absent}] /\ project'[Of] # Absent
    BY <2>1, <2>5, <1>3 DEF DemoInv, DemoTypes
  <2>7. UNCHANGED <<month, disturbed, settled>>
    BY <2>3 DEF history
  <2>8. NothingUndone
    BY <1>2, <1>5, <2>1, <2>7 DEF NothingUndone, DemoInv, DemoTypes
  <2>9. DemoTypes'
    BY <1>2, <2>6, <2>7 DEF DemoInv, DemoTypes
  <2>10. StepsInOrder'
    BY <1>1, <2>3, <2>6 DEF StepsInOrder, Further, InLoop
  <2> QED
    BY <1>1, <2>3, <2>4, <2>8, <2>9, <2>10, AfterCommand DEF DemoInv
<1> QED
  BY <1>4, <1>5

\* the members, the rates and the end of a project just made;
LEMMA CompletionStep ==
    ASSUME DemoInv, CompleteProject
    PROVE  /\ DemoInv' /\ NothingUndone
           /\ InLoop(6) /\ step > 0 /\ ~ settled
           /\ \A p \in Projects : p # Of => project'[p] = project[p]
<1>1. outcome = "running" /\ loop = 6
  BY LoopNumbers DEF CompleteProject
<1>2. UNCHANGED <<calendar, profile, users, customer, week, claim, period>>
  BY DEF CompleteProject, bookings
<1>3. Of = DemoProjects[nth] /\ Of \in Projects /\ nth \in 1..5 /\ step \in 0..8
  BY <1>1, Record DEF DemoInv, PlaceOK
<1>4. Len(Members[Of]) \in 1..3 /\ DOMAIN Members[Of] = 1..Len(Members[Of])
      /\ \A i \in DOMAIN Members[Of] : Members[Of][i] \in Users
  BY <1>3, MembersOf
<1>5. step > 0 /\ Follow(Completion(Of))
  BY <1>3, <1>4 DEF CompleteProject
<1>6. ~ settled /\ project[Of] \in Project
  BY <1>1, <1>3, <1>5 DEF DemoInv, ScriptDone, StepsInOrder, InLoop, DemoTypes
<1>7. PICK r \in Project : project' = [project EXCEPT ![Of] = r]
  <2>1. CASE step \in DOMAIN Members[Of]
           /\ project' = [project EXCEPT ![Of].members = @ \cup {Members[Of][step]}]
    BY <2>1, <1>4, <1>6 DEF Project
  <2>2. CASE project' = [project EXCEPT ![Of].rated = Of \in Rated]
    <3> DEFINE priced == Of \in Rated
    <3>1. priced \in BOOLEAN
      OBVIOUS
    <3>2. project' = [project EXCEPT ![Of].rated = priced]
      BY <2>2
    <3> HIDE DEF priced
    <3> QED
      BY <3>1, <3>2, <1>6 DEF Project
  <2>3. CASE project' = [project EXCEPT ![Of].active = Of \notin Closed]
    <3> DEFINE open == Of \notin Closed
    <3>1. open \in BOOLEAN
      OBVIOUS
    <3>2. project' = [project EXCEPT ![Of].active = open]
      BY <2>3
    <3> HIDE DEF open
    <3> QED
      BY <3>1, <3>2, <1>6 DEF Project
  <2> QED
    BY <2>1, <2>2, <2>3 DEF CompleteProject
<1>8. /\ project' \in [Projects -> Project \cup {Absent}]
      /\ project'[Of] # Absent
      /\ \A p \in Projects : p # Of => project'[p] = project[p]
  BY <1>3, <1>7, NoAbsentRecord DEF DemoInv, DemoTypes
<1>9. PlaceOK' /\ UNCHANGED <<month, outcome, history>> /\ (Further \/ Onward)
  <2> DEFINE steps == Completion(Of)
  <2>1. steps \in 1..8 /\ steps = Len(Members[DemoProjects[nth]]) + 2
    <3> DEFINE size == Len(Members[Of])
    <3>1. size \in 1..3 /\ steps = size + 2
      BY <1>4 DEF Completion
    <3>2. size = Len(Members[DemoProjects[nth]])
      BY <1>3
    <3>3. steps = Len(Members[DemoProjects[nth]]) + 2
      BY <3>1, <3>2
    <3> HIDE DEF size, steps
    <3>4. steps \in 1..8
      BY <3>1
    <3> QED
      BY <3>3, <3>4
  <2>2. Follow(steps)
    BY <1>5
  <2> HIDE DEF steps
  <2> QED
    BY <2>1, <2>2, <1>1, Follows DEF DemoInv
<1>10. UNCHANGED <<month, disturbed, settled>>
  BY <1>9 DEF history
<1>11. NothingUndone
  BY <1>2, <1>8, <1>10 DEF NothingUndone
<1>12. DemoTypes'
  BY <1>2, <1>8, <1>10 DEF DemoInv, DemoTypes
<1>13. Further => StepsInOrder'
  BY <1>1, <1>8, <1>9 DEF StepsInOrder, Further, InLoop
<1>14. DoneHere
  BY <1>1, <1>3, <1>8 DEF DoneHere, Effect
<1> QED
  BY <1>1, <1>5, <1>6, <1>8, <1>9, <1>11, <1>12, <1>13, <1>14, AfterCommand DEF DemoInv, InLoop

\* the hours: a user who has booked, or has nothing to book on, calls for no step;
LEMMA HoursStep == ASSUME DemoInv, SeedHours PROVE DemoInv' /\ NothingUndone
<1>1. outcome = "running" /\ step = 0 /\ loop = 8
  BY LoopNumbers DEF SeedHours, Doing
<1>2. UNCHANGED <<calendar, profile, users, customer, project, week, claim, period>>
  BY DEF SeedHours, records, bookings
<1>3. Of = DemoUsers[nth] /\ Of \in Users /\ nth \in 1..5
  BY <1>1, Record DEF DemoInv, PlaceOK
<1>4. UNCHANGED <<month, outcome, history>>
  BY DEF SeedHours, Continue, Follow
<1>5. NothingUndone
  BY <1>2, <1>4 DEF NothingUndone
<1>6. DemoTypes'
  BY <1>2, <1>4 DEF DemoInv, DemoTypes, history
<1>7. CASE HasEntries(Of) \/ Options(Of) = {}
  <2>1. Continue
    BY <1>7 DEF SeedHours
  <2>2. SUFFICES ASSUME NEW l \in 1..11, NEW n \in Records(l), l = loop, n = nth
                 PROVE  Effect(l, n)'
    BY <1>1, <1>2, <1>5, <1>6, <2>1, AfterRecord DEF DoneHere
  <2>3. HasEntries(DemoUsers[n])' = HasEntries(DemoUsers[n])
    BY <1>2 DEF HasEntries
  <2>4. Options(DemoUsers[n])' = Options(DemoUsers[n])
    BY <1>2 DEF Options
  <2>5. HasEntries(DemoUsers[n]) \/ Options(DemoUsers[n]) = {}
    BY <1>3, <1>7, <2>2
  <2> QED
    BY <1>1, <2>2, <2>3, <2>4, <2>5 DEF Effect
<1>8. CASE ~ (HasEntries(Of) \/ Options(Of) = {})
  <2>1. Follow(WeekSteps) /\ WeekSteps = 8
    BY <1>8 DEF SeedHours, WeekSteps, BookedMonths
  <2>2. PlaceOK' /\ Further
    BY <1>1, <2>1, Follows DEF DemoInv
  <2>3. ~ settled
    <3>1. nth \in Records(8)
      BY <1>3, RecordsOf
    <3> QED
      BY <3>1, <1>3, <1>8 DEF DemoInv, ScriptDone, Sure, Effect
  <2>4. Options(Of)' = Options(Of)
    BY <1>2, <2>2 DEF Options, Further
  <2>5. StepsInOrder'
    BY <1>1, <1>8, <2>2, <2>4 DEF StepsInOrder, Further, InLoop
  <2> QED
    BY <1>1, <1>2, <1>4, <1>5, <1>6, <2>2, <2>3, <2>5, AfterCommand DEF DemoInv
<1> QED
  BY <1>7, <1>8

\* Every step of a user's hours writes one week.
LEMMA WeekWritten ==
    ASSUME DemoInv, BookWeek \/ ReviewWeek
    PROVE  /\ outcome = "running" /\ loop = 8 /\ step > 0 /\ step \in 1..8
           /\ Of = DemoUsers[nth] /\ Of \in Users
           /\ \E m \in Months, r \in Week : week' = [week EXCEPT ![<<Of, m>>] = r]
           /\ step \in 1..3 => week'[<<Of, Earliest + step - 1>>] # Absent
           /\ Follow(WeekSteps)
           /\ UNCHANGED <<records, claim, period>>
<1>1. outcome = "running" /\ loop = 8
  BY LoopNumbers DEF BookWeek, ReviewWeek
<1>2. step > 0 /\ step \in 1..8
  BY DEF BookWeek, ReviewWeek, DemoInv, PlaceOK, BookedMonths
<1>3. Of = DemoUsers[nth] /\ Of \in Users
  BY <1>1, Record DEF DemoInv
<1>4. /\ Earliest \in Months /\ Earliest + 1 \in Months /\ Earliest + 2 \in Months
      /\ Months \subseteq Nat
  BY EarliestIsMonth DEF DemoInv
<1>5. week \in [Users \X Months -> Week \cup {Absent}]
  BY DEF DemoInv, DemoTypes
<1>6. CASE BookWeek
  <2> DEFINE m == Earliest + step - 1
             r == [project |-> FirstOption(Of), status |-> "draft"]
  <2>1. week' = [week EXCEPT ![<<Of, m>>] = r] /\ step \in 1..3
    BY <1>6 DEF BookWeek, BookedMonths
  <2>2. m \in {Earliest, Earliest + 1, Earliest + 2}
    BY <2>1, <1>4
  <2>3. FirstOption(Of) \in Projects
    BY <1>1, <1>2, OptionsAreProjects DEF DemoInv, StepsInOrder, InLoop
  <2>4. r \in Week
    BY <2>3 DEF Week
  <2>5. m \in Months
    BY <2>2, <1>4
  <2> HIDE DEF r, m
  <2>6. week'[<<Of, m>>] # Absent
    BY <2>1, <2>4, <2>5, <1>3, <1>5, NoAbsentRecord
  <2> QED
    BY <2>1, <2>4, <2>5, <2>6, <1>1, <1>2, <1>3, <1>6 DEF BookWeek, m
<1>7. CASE ReviewWeek
  <2>1. PICK n \in 1..2 * BookedMonths - 1 :
          /\ step = BookedMonths + n
          /\ week' = [week EXCEPT ![<<Of, Earliest + (n - 1) \div 2>>].status =
                        IF n % 2 = 1 THEN "submitted" ELSE "approved"]
    BY <1>7 DEF ReviewWeek
  <2> DEFINE m == Earliest + (n - 1) \div 2
             status == IF n % 2 = 1 THEN "submitted" ELSE "approved"
  <2>2. n \in 1..5 /\ step = 3 + n /\ \E j \in 1..3 : m = Earliest + j - 1
    BY <2>1, <1>4 DEF BookedMonths
  <2>3. m \in Months /\ week[<<Of, m>>] # Absent
    BY <2>1, <2>2, <1>1, <1>4 DEF DemoInv, StepsInOrder, InLoop
  <2>4. status \in {"submitted", "approved"}
    OBVIOUS
  <2>5. week' = [week EXCEPT ![<<Of, m>>].status = status] /\ step \notin 1..3
    BY <2>1, <2>2
  <2> HIDE DEF m, status
  <2> DEFINE r == [week[<<Of, m>>] EXCEPT !.status = status]
  <2>6. week[<<Of, m>>] \in Week
    BY <2>3, <1>3, <1>5
  <2>7. r \in Week
    BY <2>4, <2>6 DEF Week
  <2>8. week' = [week EXCEPT ![<<Of, m>>] = r]
    BY <2>5
  <2> QED
    BY <2>3, <2>5, <2>7, <2>8, <1>1, <1>2, <1>3, <1>7 DEF ReviewWeek
<1> QED
  BY <1>6, <1>7

\* the weeks of a user who had booked none, no other user's being written;
LEMMA WeekStep ==
    ASSUME DemoInv, BookWeek \/ ReviewWeek
    PROVE  /\ DemoInv' /\ NothingUndone
           /\ \A u \in Users, m \in Months : u # Of => week'[<<u, m>>] = week[<<u, m>>]
<1>1. /\ outcome = "running" /\ loop = 8 /\ step > 0 /\ step \in 1..8
      /\ Of = DemoUsers[nth] /\ Of \in Users
      /\ step \in 1..3 => week'[<<Of, Earliest + step - 1>>] # Absent
      /\ Follow(WeekSteps) /\ WeekSteps = 8
      /\ UNCHANGED <<calendar, profile, users, customer, project, claim, period>>
  BY WeekWritten DEF WeekSteps, BookedMonths, records
<1>2. PICK m \in Months, r \in Week : week' = [week EXCEPT ![<<Of, m>>] = r]
  BY WeekWritten
<1>3. PlaceOK' /\ UNCHANGED <<month, outcome, history>> /\ (Further \/ (Onward /\ step >= 8))
  BY <1>1, Follows DEF DemoInv
<1>4. UNCHANGED <<month, disturbed, settled>>
  BY <1>3 DEF history
<1>5. week \in [Users \X Months -> Week \cup {Absent}]
  BY DEF DemoInv, DemoTypes
<1>6. /\ week' \in [Users \X Months -> Week \cup {Absent}]
      /\ \A u \in Users, k \in Months : week[<<u, k>>] # Absent => week'[<<u, k>>] # Absent
      /\ \A u \in Users, k \in Months : u # Of => week'[<<u, k>>] = week[<<u, k>>]
  BY <1>1, <1>2, <1>5, NoAbsentRecord
<1>7. NothingUndone
  BY <1>1, <1>4, <1>6 DEF NothingUndone
<1>8. DemoTypes'
  BY <1>1, <1>4, <1>6 DEF DemoInv, DemoTypes
<1>9. /\ Earliest \in Months /\ Earliest + 1 \in Months /\ Earliest + 2 \in Months
      /\ Months \subseteq Nat /\ Earliest' = Earliest
  BY <1>4, EarliestIsMonth DEF DemoInv, Earliest
<1>10. \A j \in 1..3 : step >= j => week'[<<Of, Earliest + j - 1>>] # Absent
  <2>1. TAKE j \in 1..3
  <2>2. HAVE step >= j
  <2>3. CASE step = j
    BY <2>3, <1>1
  <2>4. CASE step > j
    <3>1. week[<<Of, Earliest + j - 1>>] # Absent
      BY <2>4, <1>1 DEF DemoInv, StepsInOrder, InLoop
    <3>2. Earliest + j - 1 \in Months
      BY <1>9
    <3> QED
      BY <3>1, <3>2, <1>1, <1>6
  <2> QED
    BY <2>2, <2>3, <2>4, <1>1
<1>11. CASE Further
  <2>1. Options(Of)' = Options(Of) /\ Options(Of) # {}
    BY <1>1, <1>11 DEF Options, Further, DemoInv, StepsInOrder, InLoop
  <2>2. \A j \in 1..3 : step' > j => week'[<<Of', Earliest' + j - 1>>] # Absent
    <3>1. Of' = Of /\ Earliest' = Earliest /\ step' = step + 1
      BY <1>9, <1>11 DEF Further
    <3>2. \A j \in 1..3 : step + 1 > j => step >= j
      BY <1>1
    <3> QED
      BY <3>1, <3>2, <1>10
  <2>3. StepsInOrder'
    BY <2>1, <2>2, <1>1, <1>3, <1>11 DEF StepsInOrder, Further, InLoop
  <2>4. ~ settled
    BY <1>1 DEF DemoInv, ScriptDone
  <2> QED
    BY <2>3, <2>4, <1>1, <1>3, <1>6, <1>7, <1>8, <1>11, AfterCommand DEF DemoInv
<1>12. CASE Onward /\ step >= 8
  <2>1. week'[<<Of, Earliest + 1 - 1>>] # Absent
    <3>1. 1 \in 1..3 /\ step >= 1
      BY <1>1
    <3> QED
      BY <3>1, <1>10
  <2>2. Earliest + 1 - 1 \in Months
    BY <1>9
  <2>3. DoneHere
    BY <2>1, <2>2, <1>1 DEF DoneHere, Effect, HasEntries
  <2> QED
    BY <2>3, <1>1, <1>3, <1>6, <1>7, <1>8, <1>12, AfterCommand DEF DemoInv
<1> QED
  BY <1>3, <1>11, <1>12

\* the expenses: a report of this month calls for no step;
LEMMA ExpensesStep == ASSUME DemoInv, SeedExpenses PROVE DemoInv' /\ NothingUndone
<1>1. outcome = "running" /\ step = 0 /\ loop = 9
  BY LoopNumbers DEF SeedExpenses, Doing
<1>2. UNCHANGED <<calendar, profile, users, customer, project, week, claim, period>>
  BY DEF SeedExpenses, records, bookings
<1>3. Of = DemoUsers[nth] /\ Of \in Users /\ nth \in 1..5
  BY <1>1, Record DEF DemoInv, PlaceOK
<1>4. UNCHANGED <<month, outcome, history>>
  BY DEF SeedExpenses, Continue, Follow
<1>5. NothingUndone
  BY <1>2, <1>4 DEF NothingUndone
<1>6. DemoTypes'
  BY <1>2, <1>4 DEF DemoInv, DemoTypes, history
<1>7. CASE ReportsThisMonth(Of) # {} \/ Cardinality(Options(Of)) < 2 \/ ~ HasReviewer(Of)
  <2>1. Continue
    BY <1>7 DEF SeedExpenses
  <2>2. SUFFICES ASSUME NEW l \in 1..11, NEW n \in Records(l), l = loop, n = nth
                 PROVE  Effect(l, n)'
    BY <1>1, <1>2, <1>5, <1>6, <2>1, AfterRecord DEF DoneHere
  <2>3. ReportsThisMonth(DemoUsers[n])' = ReportsThisMonth(DemoUsers[n])
    BY <1>2, <1>4 DEF ReportsThisMonth
  <2>4. Options(DemoUsers[n])' = Options(DemoUsers[n])
    BY <1>2 DEF Options
  <2>5. \/ ReportsThisMonth(DemoUsers[n]) # {}
        \/ Cardinality(Options(DemoUsers[n])) < 2
        \/ ~ HasReviewer(DemoUsers[n])
    BY <1>3, <1>7, <2>2
  <2> QED
    BY <1>1, <2>2, <2>3, <2>4, <2>5 DEF Effect, HasReviewer
<1>8. CASE ~ (ReportsThisMonth(Of) # {} \/ Cardinality(Options(Of)) < 2 \/ ~ HasReviewer(Of))
  <2>1. Follow(Len(ReportSteps)) /\ Len(ReportSteps) = 5
    BY <1>8 DEF SeedExpenses, ReportSteps
  <2>2. PlaceOK' /\ Further
    <3>1. Follow(5)
      BY <2>1
    <3> QED
      BY <1>1, <3>1, Follows DEF DemoInv
  <2>3. ~ settled
    <3>1. nth \in Records(9)
      BY <1>3, RecordsOf
    <3> QED
      BY <3>1, <1>3, <1>8 DEF DemoInv, ScriptDone, Sure, Effect
  <2>4. Options(Of)' = Options(Of) /\ Cardinality(Options(Of)) >= 2
    <3>1. Cardinality(Options(Of)) \in Nat
      BY FS_CardinalityType, OptionsAreFinite
    <3> QED
      BY <3>1, <1>2, <1>8, <2>2 DEF Options, Further
  <2>5. StepsInOrder'
    BY <1>1, <2>2, <2>4 DEF StepsInOrder, Further, InLoop
  <2> QED
    BY <1>1, <1>2, <1>4, <1>5, <1>6, <2>2, <2>3, <2>5, AfterCommand DEF DemoInv
<1> QED
  BY <1>7, <1>8

\* the reports of this month;
LEMMA ClaimStep ==
    ASSUME DemoInv, Claim
    PROVE  /\ DemoInv' /\ NothingUndone
           /\ \A u \in Users, p \in Projects, m \in Months :
                 m # month => claim'[<<u, p, m>>] = claim[<<u, p, m>>]
<1>1. outcome = "running" /\ loop = 9 /\ step \in 1..5
  BY LoopNumbers DEF Claim, ReportSteps
<1>2. UNCHANGED <<calendar, profile, users, customer, project, week, period>>
  BY DEF Claim, records
<1>3. Of = DemoUsers[nth] /\ Of \in Users /\ nth \in 1..5
  BY <1>1, Record DEF DemoInv, PlaceOK
<1>4. Cardinality(Options(Of)) >= 2
  BY <1>1 DEF DemoInv, StepsInOrder, InLoop
<1> DEFINE p == IF step <= 3 THEN FirstOption(Of) ELSE SecondOption(Of)
           status == ReportSteps[step]
<1>5. p \in Projects
  BY <1>4, OptionsAreProjects
<1>6. status \in {"draft", "submitted", "approved"}
  BY <1>1 DEF ReportSteps
<1>7. /\ claim' = [claim EXCEPT ![<<Of, p, month>>] = status]
      /\ Follow(Len(ReportSteps)) /\ Len(ReportSteps) = 5
  BY DEF Claim, ReportSteps
<1> HIDE DEF p, status
<1>8. PlaceOK' /\ UNCHANGED <<month, outcome, history>> /\ (Further \/ Onward)
  <2>1. Follow(5)
    BY <1>7
  <2> QED
    BY <1>1, <2>1, Follows DEF DemoInv
<1>9. UNCHANGED <<month, disturbed, settled>>
  BY <1>8 DEF history
<1>10. month \in Months
  BY EarliestIsMonth DEF DemoInv
<1>11. status # Absent
  BY <1>6, DemoDataAssumption
<1>12. claim \in [Users \X Projects \X Months -> {Absent, "draft", "submitted", "approved"}]
  BY DEF DemoInv, DemoTypes
<1>13. /\ claim' \in [Users \X Projects \X Months -> {Absent, "draft", "submitted", "approved"}]
       /\ \A u \in Users, q \in Projects, m \in Months :
             claim[<<u, q, m>>] # Absent => claim'[<<u, q, m>>] # Absent
       /\ \A u \in Users, q \in Projects, m \in Months :
             m # month => claim'[<<u, q, m>>] = claim[<<u, q, m>>]
       /\ claim'[<<Of, p, month>>] # Absent
  BY <1>3, <1>5, <1>6, <1>7, <1>10, <1>11, <1>12
<1>14. NothingUndone
  BY <1>2, <1>9, <1>13 DEF NothingUndone
<1>15. DemoTypes'
  BY <1>2, <1>9, <1>13 DEF DemoInv, DemoTypes
<1>16. ~ settled
  BY <1>1 DEF DemoInv, ScriptDone
<1>17. CASE Further
  <2>1. Options(Of)' = Options(Of)
    BY <1>2, <1>17 DEF Options, Further
  <2>2. ReportsThisMonth(Of)' # {}
    BY <1>5, <1>9, <1>13, <1>17 DEF ReportsThisMonth, Further
  <2>3. StepsInOrder'
    BY <1>1, <1>4, <1>8, <1>17, <2>1, <2>2 DEF StepsInOrder, Further, InLoop
  <2> QED
    BY <1>1, <1>2, <1>8, <1>13, <1>14, <1>15, <1>16, <1>17, <2>3, AfterCommand DEF DemoInv
<1>18. CASE Onward
  <2>1. DoneHere
    BY <1>1, <1>3, <1>5, <1>9, <1>13 DEF DoneHere, Effect, ReportsThisMonth
  <2> QED
    BY <1>1, <1>2, <1>8, <1>13, <1>14, <1>15, <1>18, <2>1, AfterCommand DEF DemoInv
<1> QED
  BY <1>8, <1>17, <1>18

\* and what is sent, drafted and issued, which no later run takes back.
LEMMA BillingStep == ASSUME DemoInv, Send \/ Draft \/ Issue PROVE DemoInv' /\ NothingUndone
<1>1. /\ outcome = "running" /\ loop \in {10, 11}
      /\ Send => loop = 10 /\ step = 0
      /\ Draft => loop = 11 /\ step = 0
      /\ Issue => loop = 11 /\ step = 1
  BY LoopNumbers DEF Send, Draft, Issue, Doing
<1>2. UNCHANGED <<calendar, profile, users, customer, project, week, claim>>
  BY DEF Send, Draft, Issue, records
<1>3. period \in [Months -> {Absent, "sent", "drafted", "issued"}] /\ Earliest \in Months
  BY EarliestIsMonth DEF DemoInv, DemoTypes
<1>4. UNCHANGED <<month, outcome, history>>
  BY DEF Send, Draft, Issue, Continue, Follow
<1>5. UNCHANGED <<month, disturbed, settled>> /\ Earliest' = Earliest
  BY <1>4 DEF history, Earliest
<1>6. nth = 1 /\ 1 \in Records(11)
  BY <1>1, RecordsOf DEF DemoInv, PlaceOK
<1>7. CASE Send
  <2>1. /\ period' \in [Months -> {Absent, "sent", "drafted", "issued"}]
        /\ \A m \in Months : period[m] # Absent => period'[m] # Absent
        /\ \A m \in Months : period[m] \notin {Absent, "sent"} => period'[m] \notin {Absent, "sent"}
        /\ period'[Earliest] # Absent
    BY <1>3, <1>7, DemoDataAssumption DEF Send
  <2>2. NothingUndone
    BY <1>2, <1>5, <2>1 DEF NothingUndone
  <2>3. DemoTypes'
    BY <1>2, <1>5, <2>1 DEF DemoInv, DemoTypes
  <2>4. DoneHere
    BY <1>1, <1>5, <1>7, <2>1 DEF DoneHere, Effect
  <2>5. Continue
    BY <1>7 DEF Send
  <2> QED
    BY <1>1, <1>2, <2>2, <2>3, <2>4, <2>5, AfterRecord
<1>8. CASE Draft /\ period[Earliest] # "sent"
  <2>1. Continue /\ UNCHANGED period
    BY <1>8 DEF Draft
  <2>2. period[Earliest] # Absent
    BY <1>1, <1>6, <1>8, RecordsOf DEF DemoInv, ScriptDone, Sure, Passed, Effect
  <2>3. NothingUndone
    BY <1>2, <1>5, <2>1 DEF NothingUndone
  <2>4. DemoTypes'
    BY <1>2, <1>5, <2>1 DEF DemoInv, DemoTypes
  <2>5. DoneHere
    BY <1>1, <1>5, <1>8, <2>1, <2>2 DEF DoneHere, Effect
  <2> QED
    BY <1>1, <1>2, <2>1, <2>3, <2>4, <2>5, AfterRecord
<1>9. CASE Draft /\ period[Earliest] = "sent"
  <2>1. period' = [period EXCEPT ![Earliest] = "drafted"] /\ Follow(1)
    BY <1>9 DEF Draft
  <2>2. /\ period' \in [Months -> {Absent, "sent", "drafted", "issued"}]
        /\ \A m \in Months : period[m] # Absent => period'[m] # Absent
        /\ \A m \in Months : period[m] \notin {Absent, "sent"} => period'[m] \notin {Absent, "sent"}
        /\ period'[Earliest] = "drafted"
    BY <1>3, <2>1, DemoDataAssumption
  <2>3. PlaceOK' /\ Further
    BY <1>1, <1>9, <2>1, Follows DEF DemoInv
  <2>4. ~ settled
    BY <1>6, <1>9 DEF DemoInv, ScriptDone, Sure, Effect
  <2>5. NothingUndone
    BY <1>2, <1>5, <2>2 DEF NothingUndone
  <2>6. DemoTypes'
    BY <1>2, <1>5, <2>2 DEF DemoInv, DemoTypes
  <2>7. StepsInOrder'
    BY <1>1, <1>5, <1>9, <2>2, <2>3 DEF StepsInOrder, Further, InLoop
  <2> QED
    BY <1>1, <1>2, <1>4, <2>3, <2>4, <2>5, <2>6, <2>7, AfterCommand DEF DemoInv
<1>10. CASE Issue
  <2>1. period[Earliest] = "drafted"
    BY <1>1, <1>10 DEF DemoInv, StepsInOrder, InLoop
  <2>2. /\ period' \in [Months -> {Absent, "sent", "drafted", "issued"}]
        /\ \A m \in Months : period[m] # Absent => period'[m] # Absent
        /\ \A m \in Months : period[m] \notin {Absent, "sent"} => period'[m] \notin {Absent, "sent"}
        /\ period'[Earliest] \notin {Absent, "sent"}
    BY <1>3, <1>10, <2>1, DemoDataAssumption DEF Issue
  <2>3. Continue
    BY <1>1, <1>10 DEF Issue, Follow
  <2>4. NothingUndone
    BY <1>2, <1>5, <2>2 DEF NothingUndone
  <2>5. DemoTypes'
    BY <1>2, <1>5, <2>2 DEF DemoInv, DemoTypes
  <2>6. DoneHere
    BY <1>1, <1>5, <1>10, <2>2 DEF DoneHere, Effect
  <2> QED
    BY <1>1, <1>2, <2>3, <2>4, <2>5, <2>6, AfterRecord
<1> QED
  BY <1>7, <1>8, <1>9, <1>10

\* Where a run begins or ends, nothing is written.
LEMMA AtTheEnds ==
    ASSUME DemoInv, PlaceOK', step' = 0, UNCHANGED <<month, records, bookings>>,
           disturbed' \in Nat, settled' \in BOOLEAN,
           \A l \in 1..11 : \A n \in Records(l) : Sure(l, n)' => Sure(l, n)
    PROVE  DemoInv'
<1>1. UNCHANGED <<month, calendar, profile, users, customer, project, week, claim, period>>
  BY DEF records, bookings
<1>2. NothingUndone
  BY <1>1 DEF NothingUndone
<1>3. DemoTypes'
  BY <1>1 DEF DemoInv, DemoTypes
<1>4. StepsInOrder'
  <2>1. \A j \in 1..3 : ~ (step' > j)
    OBVIOUS
  <2> QED
    BY <2>1 DEF StepsInOrder
<1>5. ASSUME NEW l \in 1..11, NEW n \in Records(l), Sure(l, n)'
      PROVE  Effect(l, n)'
  <2>1. Effect(l, n)
    BY <1>5 DEF DemoInv, ScriptDone
  <2> QED
    BY <1>1, <1>2, <2>1, EffectsStay DEF DemoInv
<1> QED
  BY <1>3, <1>4, <1>5 DEF DemoInv, ScriptDone

\* Records are numbered from 1.
LEMMA NumbersBegin == \A l \in 1..11 : \A n \in Records(l) : n \in Nat /\ n >= 1
<1> TAKE l \in 1..11
<1>1. Records(l) \in {1..5, 1..3, 1..1}
  BY RecordsOf
<1> QED
  BY <1>1

\* From the first to the last command, and between two runs.
LEMMA DemoStep == ASSUME DemoInv, [NextDemo]_dvars PROVE DemoInv'
<1>1. CASE Command /\ ~ Refused
  BY <1>1, CalendarStep, ProfileStep, UserStep, CustomerStep, ProjectStep, CompletionStep,
     HoursStep, WeekStep, ExpensesStep, ClaimStep, BillingStep DEF Command
<1>2. CASE Refused \/ KillRun
  <2>1. /\ outcome' # "running" /\ loop' = 1 /\ nth' = 1 /\ step' = 0 /\ settled' = settled
        /\ UNCHANGED <<month, records, bookings>>
        /\ disturbed' \in Nat /\ settled \in BOOLEAN
    BY <1>2 DEF Refused, KillRun, Rewind, history, DemoInv, DemoTypes
  <2>2. PlaceOK'
    BY <2>1 DEF PlaceOK
  <2> QED
    BY <2>1, <2>2, AtTheEnds DEF Sure
<1>3. CASE BeginRun
  <2>1. /\ outcome' = "running" /\ loop = 1 /\ nth = 1 /\ step = 0
        /\ UNCHANGED <<month, records, bookings, place, disturbed, settled>>
        /\ disturbed \in Nat /\ settled \in BOOLEAN
    BY <1>3 DEF BeginRun, DemoInv, DemoTypes, PlaceOK
  <2>2. UNCHANGED <<loop, nth, step>>
    BY <2>1 DEF place
  <2>3. PlaceOK'
    BY <2>1, <2>2 DEF PlaceOK
  <2>4. \A l \in 1..11 : \A n \in Records(l) : Sure(l, n)' => Sure(l, n)
    BY <2>1, <2>2, NumbersBegin DEF Sure, Passed
  <2> QED
    BY <2>1, <2>2, <2>3, <2>4, AtTheEnds
<1>4. CASE EndRun
  <2>1. /\ outcome = "running" /\ loop = 12
        /\ outcome' # "running" /\ loop' = 1 /\ nth' = 1 /\ step' = 0 /\ settled' = TRUE
        /\ UNCHANGED <<month, records, bookings, disturbed>>
        /\ disturbed \in Nat
    BY <1>4 DEF EndRun, Rewind, DemoInv, DemoTypes, PlaceOK, Loops
  <2>2. PlaceOK'
    BY <2>1 DEF PlaceOK
  <2>3. \A l \in 1..11 : \A n \in Records(l) : Sure(l, n)
    BY <2>1 DEF Sure, Passed
  <2> QED
    BY <2>1, <2>2, <2>3, AtTheEnds
<1>5. CASE NextMonth \/ ChangeCustomer \/ Customize
  <2>1. /\ outcome # "running" /\ outcome' = outcome /\ settled' = FALSE
        /\ UNCHANGED <<bookings, place>> /\ disturbed' = disturbed + 1
        /\ UNCHANGED <<users, project>>
    BY <1>5 DEF NextMonth, ChangeCustomer, Customize, Disturb, records
  <2>2. UNCHANGED <<loop, nth, step, week, claim, period>>
    BY <2>1 DEF place, bookings
  <2>3. PlaceOK' /\ loop' = 1 /\ step' = 0
    BY <2>1, <2>2 DEF PlaceOK, DemoInv
  <2>4. month' \in FirstMonth..LastMonth
    BY <1>5, DemoDataAssumption DEF NextMonth, ChangeCustomer, Customize, DemoInv, DemoTypes
  <2>5. customer' \in [Customers -> {Absent, "active", "archived"}]
    BY <1>5 DEF NextMonth, ChangeCustomer, Customize, DemoInv, DemoTypes, records
  <2>6. DemoTypes'
    <3>1. disturbed' \in Nat
      BY <2>1 DEF DemoInv, DemoTypes
    <3>3. settled' \in BOOLEAN
      BY <2>1
    <3>2. UNCHANGED project
      BY <2>1
    <3> QED
      BY <2>2, <2>4, <2>5, <3>1, <3>2, <3>3 DEF DemoInv, DemoTypes
  <2>7. StepsInOrder'
    BY <2>1 DEF StepsInOrder, InLoop
  <2>8. ScriptDone'
    BY <2>1, <2>3 DEF ScriptDone, Sure
  <2> QED
    BY <2>3, <2>6, <2>7, <2>8 DEF DemoInv
<1>6. CASE UNCHANGED dvars
  <2>1. /\ UNCHANGED <<month, records, bookings, place, outcome, history>>
        /\ UNCHANGED <<loop, nth, step, disturbed, settled>>
    BY <1>6 DEF dvars, place, history
  <2>2. PlaceOK' /\ StepsInOrder'
    BY <2>1 DEF PlaceOK, StepsInOrder, DemoInv, InLoop, Of, Options, Earliest, ReportsThisMonth,
                records, bookings
  <2>3. DemoTypes' /\ NothingUndone
    BY <2>1 DEF DemoTypes, DemoInv, NothingUndone, records, bookings
  <2>4. ScriptDone'
    <3>1. ASSUME NEW l \in 1..11, NEW n \in Records(l), Sure(l, n)'
          PROVE  Effect(l, n)'
      <4>1. Effect(l, n)
        BY <2>1, <3>1 DEF DemoInv, ScriptDone, Sure, Passed
      <4> QED
        BY <2>1, <2>3, <4>1, EffectsStay DEF DemoInv, records
    <3> QED
      BY <2>1, <3>1 DEF DemoInv, ScriptDone
  <2> QED
    BY <2>2, <2>3, <2>4 DEF DemoInv
<1> QED
  BY <1>1, <1>2, <1>3, <1>4, <1>5, <1>6 DEF NextDemo

\* At any point of any run, what it has passed is done.
LEMMA DemoInvariant == SpecDemo => []DemoInv
<1>1. InitDemo => DemoInv
  <2> SUFFICES ASSUME InitDemo PROVE DemoInv
    OBVIOUS
  <2> USE DEF InitDemo
  <2>1. PlaceOK
    BY DEF PlaceOK
  <2>2. DemoTypes
    <3>1. month \in FirstMonth..LastMonth
      BY DemoDataAssumption
    <3>2. /\ customer \in [Customers -> {Absent, "active", "archived"}]
          /\ project \in [Projects -> Project \cup {Absent}]
          /\ week \in [Users \X Months -> Week \cup {Absent}]
          /\ claim \in [Users \X Projects \X Months -> {Absent, "draft", "submitted", "approved"}]
          /\ period \in [Months -> {Absent, "sent", "drafted", "issued"}]
      OBVIOUS
    <3>3. disturbed \in Nat
      OBVIOUS
    <3>4. settled \in BOOLEAN
      OBVIOUS
    <3> QED
      BY <3>1, <3>2, <3>3, <3>4 DEF DemoTypes
  <2>3. StepsInOrder
    BY DEF StepsInOrder, InLoop
  <2>4. ScriptDone
    BY DEF ScriptDone, Sure
  <2> QED
    BY <2>1, <2>2, <2>3, <2>4 DEF DemoInv
<1>2. DemoInv /\ [NextDemo]_dvars => DemoInv'
  BY DemoStep
<1> QED
  BY <1>1, <1>2, PTL DEF SpecDemo

-----------------------------------------------------------------------------
\* Where a run is, there is a record.
LEMMA NthIsRecord ==
    ASSUME PlaceOK, loop # 12
    PROVE  nth \in Records(loop)
<1>1. loop \in 1..11 /\ nth \in 1..5
  BY DEF PlaceOK
<1>2. /\ loop \in {4, 6, 8, 9} => Records(loop) = 1..5
      /\ loop \in {5, 7} => Records(loop) = 1..3
      /\ loop \in {1, 2, 3, 10, 11} => Records(loop) = 1..1
  BY <1>1, RecordsOf
<1>3. /\ loop \notin {4, 6, 8, 9} => nth \in 1..3
      /\ loop \notin {4, 5, 6, 7, 8, 9} => nth \in 1..1
  BY <1>1 DEF PlaceOK
<1> QED
  BY <1>1, <1>2, <1>3

\* What a command would make, it finds in a settled database.
LEMMA SettledLooks ==
    ASSUME DemoInv, settled, Command
    PROVE  UNCHANGED <<records, bookings>>
<1>1. step = 0 /\ PlaceOK
  BY DEF DemoInv, ScriptDone
<1>2. loop \in 1..11 => Effect(loop, nth)
  BY <1>1, NthIsRecord DEF DemoInv, ScriptDone, Sure
<1>3. CASE SeedCalendar
  <2>1. \/ loop = 1 /\ calendar' = IF calendar = "empty" THEN "imported" ELSE calendar
        \/ loop = 2 /\ calendar' = "bridge"
    BY <1>3, LoopNumbers DEF SeedCalendar, Doing
  <2>2. calendar' = calendar
    BY <1>2, <2>1 DEF Effect
  <2> QED
    BY <1>3, <2>2 DEF SeedCalendar, records
<1>4. CASE SeedProfile
  <2>1. loop = 3
    BY <1>4, LoopNumbers DEF SeedProfile, Doing
  <2>2. profile' = profile
    BY <1>2, <1>4, <2>1 DEF Effect, SeedProfile
  <2> QED
    BY <1>4, <2>2 DEF SeedProfile, records
<1>5. CASE SeedUser
  <2>1. loop = 4
    BY <1>5, LoopNumbers DEF SeedUser, Doing
  <2>2. Of \in users
    BY <1>1, <1>2, <2>1, Record DEF Effect
  <2>3. users' = users
    BY <1>5, <2>2 DEF SeedUser
  <2> QED
    BY <1>5, <2>3 DEF SeedUser, records
<1>6. CASE SeedCustomer \/ ArchiveCustomer
  <2>1. (SeedCustomer => loop = 5) /\ (ArchiveCustomer => loop = 7) /\ loop \in {5, 7}
    BY <1>6, LoopNumbers DEF SeedCustomer, ArchiveCustomer, Doing
  <2>2. Of = DemoCustomers[nth] /\ Of \in Customers
    BY <1>1, <2>1, Record
  <2>3. /\ SeedCustomer => customer[Of] # Absent
        /\ ArchiveCustomer /\ Of \in Archived => customer[Of] = "archived"
    BY <1>2, <2>1, <2>2 DEF Effect
  <2>4. customer \in [Customers -> {Absent, "active", "archived"}]
    BY DEF DemoInv, DemoTypes
  <2>5. customer' = customer
    BY <1>6, <2>2, <2>3, <2>4 DEF SeedCustomer, ArchiveCustomer
  <2> QED
    BY <1>6, <2>5 DEF SeedCustomer, ArchiveCustomer, records
<1>7. CASE SeedProject
  <2>1. loop = 6
    BY <1>7, LoopNumbers DEF SeedProject, Doing
  <2>2. project[Of] # Absent
    BY <1>1, <1>2, <2>1, Record DEF Effect
  <2> QED
    BY <1>7, <2>2 DEF SeedProject, records
<1>8. CASE SeedHours \/ SeedExpenses
  BY <1>8 DEF SeedHours, SeedExpenses
<1>9. CASE CompleteProject \/ BookWeek \/ ReviewWeek \/ Claim \/ Issue
  <2>1. ~ CompleteProject
    BY <1>1, CompletionStep
  <2>2. ~ (BookWeek \/ ReviewWeek)
    BY <1>1, WeekWritten
  <2>3. ~ Claim /\ ~ Issue
    BY <1>1 DEF Claim, Issue, ReportSteps
  <2> QED
    BY <1>9, <2>1, <2>2, <2>3
<1>10. CASE Send \/ Draft
  <2>1. (Send => loop = 10) /\ (Draft => loop = 11)
    BY LoopNumbers DEF Send, Draft, Doing
  <2>2. (Send => period[Earliest] # Absent) /\ (Draft => period[Earliest] # "sent")
    BY <1>2, <2>1 DEF Effect
  <2>3. UNCHANGED period
    BY <1>10, <2>2 DEF Send, Draft
  <2> QED
    BY <1>10, <2>3 DEF Send, Draft, bookings
<1>11. CASE Refused
  BY <1>11 DEF Refused
<1> QED
  BY <1>3, <1>4, <1>5, <1>6, <1>7, <1>8, <1>9, <1>10, <1>11 DEF Command

\* A run over what a run has ended writes nothing, however often it is begun and
\* killed: every record its commands look for is found, and calls for no step.
THEOREM SeedingIsIdempotent == SpecDemo => Idempotent
<1>1. ASSUME DemoInv, [NextDemo]_dvars, settled, settled'
      PROVE  UNCHANGED <<records, bookings>>
  <2>1. CASE Command
    BY <1>1, <2>1, SettledLooks
  <2>2. CASE BeginRun \/ EndRun \/ KillRun
    BY <2>2 DEF BeginRun, EndRun, KillRun
  <2>3. CASE NextMonth \/ ChangeCustomer \/ Customize
    BY <1>1, <2>3 DEF NextMonth, ChangeCustomer, Customize, Disturb
  <2>4. CASE UNCHANGED dvars
    BY <2>4 DEF dvars
  <2> QED
    BY <1>1, <2>1, <2>2, <2>3, <2>4 DEF NextDemo
<1>2. DemoInv /\ [NextDemo]_dvars =>
         [settled /\ settled' => UNCHANGED <<records, bookings>>]_dvars
  BY <1>1
<1> QED
  BY <1>2, DemoInvariant, PTL DEF SpecDemo, Idempotent

-----------------------------------------------------------------------------
\* A command goes on to a record it has not looked at, or further at this one.
LEMMA GoesOn ==
    ASSUME Command, ~ Refused
    PROVE  /\ outcome = "running" /\ loop \in 1..11
           /\ UNCHANGED <<month, outcome, history>>
           /\ \/ step' = 0
              \/ step' = step + 1 /\ loop' = loop /\ nth' = nth /\ Of' = Of
<1>1. outcome = "running" /\ loop \in 1..11
  BY LoopNumbers DEF Command, SeedCalendar, SeedProfile, SeedUser, SeedCustomer, SeedProject,
     CompleteProject, ArchiveCustomer, SeedHours, BookWeek, ReviewWeek, SeedExpenses, Claim,
     Send, Draft, Issue, Doing
<1>2. CASE SeedCalendar \/ SeedProfile \/ SeedUser \/ SeedCustomer \/ ArchiveCustomer \/ Send
  BY <1>1, <1>2 DEF SeedCalendar, SeedProfile, SeedUser, SeedCustomer, ArchiveCustomer, Send, Continue
<1>3. CASE SeedProject \/ CompleteProject \/ SeedHours \/ BookWeek \/ ReviewWeek
              \/ SeedExpenses \/ Claim \/ Draft \/ Issue
  <2>1. Continue \/ (\E steps \in {Completion(Of), WeekSteps, Len(ReportSteps), 1} : Follow(steps))
    BY <1>3 DEF SeedProject, CompleteProject, SeedHours, BookWeek, ReviewWeek, SeedExpenses, Claim,
                Draft, Issue
  <2>2. CASE Continue
    BY <2>2, <1>1 DEF Continue
  <2>3. ASSUME NEW steps, Follow(steps), ~ Continue
        PROVE  /\ step' = step + 1 /\ loop' = loop /\ nth' = nth
               /\ UNCHANGED <<month, outcome, history>>
    BY <2>3 DEF Follow
  <2> QED
    BY <2>1, <2>2, <2>3, <1>1 DEF Of
<1> QED
  BY <1>2, <1>3 DEF Command

\* What a run finds of a record is asked before its first step.
LEMMA FoundStep ==
    ASSUME DemoInv, FoundIsKept, [NextDemo]_dvars
    PROVE  FoundIsKept'
<1>1. CASE Command /\ ~ Refused
  <2>1. NothingUndone
    BY <1>1, CalendarStep, ProfileStep, UserStep, CustomerStep, ProjectStep, CompletionStep,
       HoursStep, WeekStep, ExpensesStep, ClaimStep, BillingStep DEF Command
  <2>2. outcome = "running" /\ before' = before
    BY <1>1, GoesOn DEF history
  <2>3. /\ \A p \in before'.projects : p \in Projects /\ project'[p] # Absent
        /\ \A u \in before'.booked : u \in Users /\ HasEntries(u)'
    BY <2>1, <2>2 DEF FoundIsKept, NothingUndone, HasEntries
  <2>4. ASSUME loop' \in {6, 8}, step' > 0
        PROVE  /\ step' = step + 1 /\ loop' = loop /\ Of' = Of
               /\ loop = 6 /\ step = 0 => Of \notin before.projects
               /\ loop = 8 /\ step = 0 => Of \notin before.booked
    <3>1. step' # 0
      BY <2>4
    <3>2. step' = step + 1 /\ loop' = loop /\ Of' = Of
      BY <1>1, <3>1, GoesOn
    <3>3. ~ Continue
      BY <3>1 DEF Continue
    <3>4. ASSUME loop = 6, step = 0
          PROVE  Of \notin before.projects
      <4>1. SeedProject \/ CompleteProject
        BY <1>1, <3>4, LoopNumbers DEF Command, SeedCalendar, SeedProfile, SeedUser, SeedCustomer,
           ArchiveCustomer, SeedHours, BookWeek, ReviewWeek, SeedExpenses, Claim, Send, Draft, Issue,
           Doing
      <4>2. project[Of] = Absent
        BY <3>3, <3>4, <4>1, CompletionStep DEF SeedProject
      <4> QED
        BY <4>2, <2>2 DEF FoundIsKept
    <3>5. ASSUME loop = 8, step = 0
          PROVE  Of \notin before.booked
      <4>1. SeedHours \/ BookWeek \/ ReviewWeek
        BY <1>1, <3>5, LoopNumbers DEF Command, SeedCalendar, SeedProfile, SeedUser, SeedCustomer,
           ArchiveCustomer, SeedProject, CompleteProject, SeedExpenses, Claim, Send, Draft, Issue,
           Doing
      <4>2. ~ HasEntries(Of)
        BY <3>3, <3>5, <4>1, WeekWritten DEF SeedHours
      <4> QED
        BY <4>2, <2>2 DEF FoundIsKept
    <3> QED
      BY <3>2, <3>4, <3>5
  <2>5. ASSUME loop' \in {6, 8}, step' > 0
        PROVE  /\ loop = 6 => Of \notin before.projects
               /\ loop = 8 => Of \notin before.booked
    <3>1. step \in 0..8
      BY DEF DemoInv, PlaceOK
    <3> QED
      BY <2>2, <2>4, <2>5, <3>1 DEF FoundIsKept, InLoop
  <2> QED
    BY <2>2, <2>3, <2>4, <2>5 DEF FoundIsKept, InLoop
<1>2. CASE Refused \/ KillRun \/ EndRun
  BY <1>2 DEF Refused, KillRun, EndRun, FoundIsKept, InLoop
<1>3. CASE BeginRun
  <2>1. before' = [projects |-> {p \in Projects : project[p] # Absent},
                   booked   |-> {u \in Users : HasEntries(u)}]
    BY <1>3 DEF BeginRun
  <2>2. UNCHANGED <<project, week, step>> /\ step = 0
    BY <1>3 DEF BeginRun, records, bookings, place, DemoInv, PlaceOK
  <2> QED
    BY <2>1, <2>2 DEF FoundIsKept, InLoop, HasEntries
<1>4. CASE NextMonth \/ ChangeCustomer \/ Customize
  BY <1>4 DEF NextMonth, ChangeCustomer, Customize, Disturb, FoundIsKept, InLoop
<1>5. CASE UNCHANGED dvars
  BY <1>5 DEF dvars, history, place, records, bookings, FoundIsKept, InLoop, Of, HasEntries
<1> QED
  BY <1>1, <1>2, <1>3, <1>4, <1>5 DEF NextDemo

\* A project that was there when the run began is completed no further, a user who had
\* booked is booked no more, and a customized profile stays.
LEMMA FoundIsUntouched ==
    ASSUME DemoInv, FoundIsKept, [NextDemo]_dvars
    PROVE  /\ outcome = "running" => \A p \in before.projects : project'[p] = project[p]
           /\ outcome = "running" =>
                 \A u \in before.booked, m \in Months : week'[<<u, m>>] = week[<<u, m>>]
           /\ profile = "custom" => profile' = "custom"
<1>1. ASSUME outcome = "running", NEW p \in before.projects
      PROVE  project'[p] = project[p]
  <2>1. p \in Projects /\ project[p] # Absent
    BY <1>1 DEF FoundIsKept
  <2>2. CASE SeedProject
    <3>1. DOMAIN project = Projects
      BY DEF DemoInv, DemoTypes
    <3> QED
      BY <2>1, <2>2, <3>1 DEF SeedProject
  <2>3. CASE CompleteProject
    BY <2>1, <2>3, <1>1, CompletionStep DEF FoundIsKept
  <2>4. CASE ~ SeedProject /\ ~ CompleteProject
    <3>1. UNCHANGED project
      BY <2>4, <1>1 DEF NextDemo, Command, SeedCalendar, SeedProfile, SeedUser, SeedCustomer,
         ArchiveCustomer, SeedHours, BookWeek, ReviewWeek, SeedExpenses, Claim, Send, Draft, Issue,
         Refused, BeginRun, EndRun, KillRun, NextMonth, ChangeCustomer, Customize, dvars, records
    <3> QED
      BY <3>1
  <2> QED
    BY <2>2, <2>3, <2>4
<1>2. ASSUME outcome = "running", NEW u \in before.booked, NEW m \in Months
      PROVE  week'[<<u, m>>] = week[<<u, m>>]
  <2>1. u \in Users
    BY <1>2 DEF FoundIsKept
  <2>2. CASE BookWeek \/ ReviewWeek
    BY <2>1, <2>2, <1>2, WeekStep, WeekWritten DEF FoundIsKept, InLoop
  <2>3. CASE ~ BookWeek /\ ~ ReviewWeek
    <3>1. UNCHANGED week
      BY <2>3, <1>2 DEF NextDemo, Command, SeedCalendar, SeedProfile, SeedUser, SeedCustomer,
         SeedProject, CompleteProject, ArchiveCustomer, SeedHours, SeedExpenses, Claim, Send, Draft,
         Issue, Refused, BeginRun, EndRun, KillRun, NextMonth, ChangeCustomer, Customize, Disturb,
         dvars, bookings
    <3> QED
      BY <3>1
  <2> QED
    BY <2>2, <2>3
<1>3. ASSUME profile = "custom"
      PROVE  profile' = "custom"
  BY <1>3 DEF NextDemo, Command, SeedCalendar, SeedProfile, SeedUser, SeedCustomer,
     SeedProject, CompleteProject, ArchiveCustomer, SeedHours, BookWeek, ReviewWeek, SeedExpenses,
     Claim, Send, Draft, Issue, Refused, BeginRun, EndRun, KillRun, NextMonth, ChangeCustomer,
     Customize, Disturb, dvars, records
<1> QED
  BY <1>1, <1>2, <1>3

\* A run changes nothing of the projects, weeks and profile that were there before it,
\* killed runs before it or not: only what it has made itself is completed.
THEOREM SeedingLeavesExistingAlone == SpecDemo => ExistingLeftAlone
<1>1. InitDemo => FoundIsKept
  BY DEF InitDemo, FoundIsKept, InLoop
<1>2. DemoInv /\ FoundIsKept /\ [NextDemo]_dvars => FoundIsKept'
  BY FoundStep
<1>3. DemoInv /\ FoundIsKept /\ [NextDemo]_dvars =>
        [/\ outcome = "running" => \A p \in before.projects : project'[p] = project[p]
         /\ outcome = "running" =>
               \A u \in before.booked, m \in Months : week'[<<u, m>>] = week[<<u, m>>]
         /\ profile = "custom" => profile' = "custom"]_dvars
  BY FoundIsUntouched
<1> QED
  BY <1>1, <1>2, <1>3, DemoInvariant, PTL DEF SpecDemo, ExistingLeftAlone

-----------------------------------------------------------------------------
\* A project's members are those the demo data gives it.
LEMMA ProjectsHaveTheirMembers ==
    ASSUME DemoInv, OnlyMembersBook, SeedProject \/ CompleteProject,
           NEW p \in Projects, project'[p] # Absent
    PROVE  project'[p].members \subseteq Range(Members[p])
<1>1. project \in [Projects -> Project \cup {Absent}]
  BY DEF DemoInv, DemoTypes
<1>2. project[p] # Absent => project[p].members \subseteq Range(Members[p])
  BY DEF OnlyMembersBook
<1>3. Of \in Projects
  BY LoopNumbers, Record DEF DemoInv, SeedProject, CompleteProject, Doing
<1>4. CASE SeedProject
  BY <1>1, <1>2, <1>3, <1>4 DEF SeedProject, NewProject
<1>5. CASE CompleteProject
  <2>1. CASE p # Of
    BY <1>2, <1>5, <2>1, CompletionStep
  <2>2. CASE p = Of
    <3>1. project[p] # Absent
      BY <1>5, <2>2, CompletionStep DEF DemoInv, StepsInOrder
    <3>2. project[p] \in Project
      BY <1>1, <3>1
    <3>3. CASE step \in DOMAIN Members[Of]
      <4> DEFINE size == Len(Members[Of])
      <4>1. Members[p][step] \in Range(Members[p])
        BY <2>2, <3>3 DEF Range
      <4>2. DOMAIN Members[Of] = 1..size
        BY <1>3, MembersOf
      <4>3. size \in Nat
        BY <1>3, MembersOf
      <4> HIDE DEF size
      <4>4. step # size + 1 /\ step # size + 2
        BY <3>3, <4>2, <4>3
      <4>5. project' = [project EXCEPT ![Of].members = @ \cup {Members[Of][step]}]
        BY <1>5, <4>4 DEF CompleteProject, size
      <4>6. project'[p].members = project[p].members \cup {Members[p][step]}
        BY <1>1, <1>3, <2>2, <3>2, <4>5 DEF Project
      <4> QED
        BY <1>2, <3>1, <4>1, <4>6
    <3>4. CASE step \notin DOMAIN Members[Of]
      <4> DEFINE a == Of \in Rated
                 b == Of \notin Closed
      <4>1. \/ project' = [project EXCEPT ![Of].rated = a]
            \/ project' = [project EXCEPT ![Of].active = b]
        BY <1>5, <3>4 DEF CompleteProject
      <4> HIDE DEF a, b
      <4>2. project'[p].members = project[p].members
        BY <1>1, <1>3, <2>2, <3>2, <4>1 DEF Project
      <4> QED
        BY <1>2, <3>1, <4>2
    <3> QED
      BY <3>3, <3>4
  <2> QED
    BY <2>1, <2>2
<1> QED
  BY <1>4, <1>5

\* Weeks are booked on an option, a project the user is a member of.
LEMMA WeeksAreMembers ==
    ASSUME DemoInv, OnlyMembersBook, BookWeek \/ ReviewWeek,
           NEW u \in Users, NEW m \in Months, week'[<<u, m>>] # Absent
    PROVE  u \in Range(Members[week'[<<u, m>>].project])
<1>1. week \in [Users \X Months -> Week \cup {Absent}]
  BY DEF DemoInv, DemoTypes
<1>2. week[<<u, m>>] # Absent => u \in Range(Members[week[<<u, m>>].project])
  BY DEF OnlyMembersBook
<1>3. /\ outcome = "running" /\ loop = 8 /\ step > 0 /\ Of \in Users
      /\ Earliest \in Months /\ Earliest + 1 \in Months /\ Earliest + 2 \in Months
      /\ Months \subseteq Nat
  BY WeekWritten, EarliestIsMonth DEF DemoInv
<1>4. CASE BookWeek
  <2> DEFINE p == FirstOption(Of)
             k == Earliest + step - 1
  <2>1. p \in Options(Of)
    BY <1>3, OptionsAreProjects DEF DemoInv, StepsInOrder, InLoop
  <2>2. p \in Projects /\ project[p] # Absent /\ Of \in project[p].members
    BY <2>1 DEF Options
  <2>3. Of \in Range(Members[p])
    BY <2>2 DEF OnlyMembersBook
  <2>4. week' = [week EXCEPT ![<<Of, k>>] = [project |-> p, status |-> "draft"]]
    BY <1>4 DEF BookWeek
  <2> HIDE DEF p, k
  <2>5. CASE <<u, m>> = <<Of, k>>
    <3>1. week'[<<u, m>>] = [project |-> p, status |-> "draft"] /\ u = Of
      BY <1>1, <2>4, <2>5
    <3> QED
      BY <2>3, <3>1
  <2>6. CASE <<u, m>> # <<Of, k>>
    <3>1. week'[<<u, m>>] = week[<<u, m>>]
      BY <1>1, <2>4, <2>6
    <3> QED
      BY <1>2, <3>1
  <2> QED
    BY <2>5, <2>6
<1>5. CASE ReviewWeek
  <2>1. PICK n \in 1..2 * BookedMonths - 1 :
          /\ step = BookedMonths + n
          /\ week' = [week EXCEPT ![<<Of, Earliest + (n - 1) \div 2>>].status =
                        IF n % 2 = 1 THEN "submitted" ELSE "approved"]
    BY <1>5 DEF ReviewWeek
  <2> DEFINE k == Earliest + (n - 1) \div 2
             status == IF n % 2 = 1 THEN "submitted" ELSE "approved"
  <2>2. step = 3 + n /\ n \in 1..5 /\ \E j \in 1..3 : k = Earliest + j - 1
    BY <2>1, <1>3 DEF BookedMonths
  <2>3. week[<<Of, k>>] # Absent
    BY <2>2, <1>3 DEF DemoInv, StepsInOrder, InLoop
  <2>4. k \in Months
    BY <2>2, <1>3
  <2>5. week' = [week EXCEPT ![<<Of, k>>].status = status]
    BY <2>1
  <2> HIDE DEF k, status
  <2>6. week[<<Of, k>>] \in Week
    BY <1>1, <1>3, <2>3, <2>4
  <2>7. week'[<<u, m>>].project = week[<<u, m>>].project /\ week[<<u, m>>] # Absent
    <3>1. CASE <<u, m>> = <<Of, k>>
      BY <1>1, <2>3, <2>5, <2>6, <3>1 DEF Week
    <3>2. CASE <<u, m>> # <<Of, k>>
      BY <1>1, <2>5, <3>2
    <3> QED
      BY <3>1, <3>2
  <2> QED
    BY <1>2, <2>7
<1> QED
  BY <1>4, <1>5

\* Nobody else becomes a member of a demo project, or books on one.
LEMMA MembersStep ==
    ASSUME DemoInv, OnlyMembersBook, [NextDemo]_dvars
    PROVE  OnlyMembersBook'
<1>1. project' = project \/ SeedProject \/ CompleteProject
  BY DEF NextDemo, Command, SeedCalendar, SeedProfile, SeedUser, SeedCustomer,
         ArchiveCustomer, SeedHours, BookWeek, ReviewWeek, SeedExpenses, Claim, Send, Draft, Issue,
         Refused, BeginRun, EndRun, KillRun, NextMonth, ChangeCustomer, Customize, dvars, records
<1>2. week' = week \/ BookWeek \/ ReviewWeek
  BY DEF NextDemo, Command, SeedCalendar, SeedProfile, SeedUser, SeedCustomer,
         SeedProject, CompleteProject, ArchiveCustomer, SeedHours, SeedExpenses, Claim, Send, Draft,
         Issue, Refused, BeginRun, EndRun, KillRun, NextMonth, ChangeCustomer, Customize, Disturb,
         dvars, bookings
<1>3. \A p \in Projects : project'[p] # Absent => project'[p].members \subseteq Range(Members[p])
  BY <1>1, ProjectsHaveTheirMembers DEF OnlyMembersBook
<1>4. \A u \in Users, m \in Months :
         week'[<<u, m>>] # Absent => u \in Range(Members[week'[<<u, m>>].project])
  BY <1>2, WeeksAreMembers DEF OnlyMembersBook
<1> QED
  BY <1>3, <1>4 DEF OnlyMembersBook

\* The lead is a member of the project to be invoiced and no other, the last to be added.
LEMMA TheLead ==
    /\ Members["Website"] = <<"manager", "employee", "lead">>
    /\ InvoiceProject = "Website" /\ InvoiceProject \in Projects
    /\ InvoiceProject \in Rated /\ InvoiceProject \notin Closed
    /\ \A p \in Projects : "lead" \in Range(Members[p]) => p = InvoiceProject
<1>1. /\ Members["Website"] = <<"manager", "employee", "lead">>
      /\ Members["Tooling"] = <<"employee", "accountant">>
      /\ Members["Overhead"] = <<"accountant">>
      /\ Members["Platform"] = <<"manager">>
      /\ Members["Legacy"] = <<"employee">>
  BY Demo DEF Members
<1>2. /\ "lead" \notin Range(<<"employee", "accountant">>)
      /\ "lead" \notin Range(<<"accountant">>)
      /\ "lead" \notin Range(<<"manager">>)
      /\ "lead" \notin Range(<<"employee">>)
  BY DEF Range
<1>3. InvoiceProject = "Website" /\ InvoiceProject \in Projects
      /\ InvoiceProject \in Rated /\ InvoiceProject \notin Closed
  BY Demo DEF InvoiceProject, Rated, Closed
<1>4. \A p \in Projects : "lead" \in Range(Members[p]) => p = InvoiceProject
  BY <1>1, <1>2, <1>3, Demo
<1> QED
  BY <1>1, <1>3, <1>4

\* The project to be invoiced is left with its members and its rates.
LEMMA WebsiteStays ==
    ASSUME DemoInv, WebsiteReady, Command, ~ Refused
    PROVE  WebsiteReady'
<1>1. project \in [Projects -> Project \cup {Absent}] /\ step \in Nat
  BY DEF DemoInv, DemoTypes, PlaceOK
<1>2. CASE project' = project /\ ~ CompleteProject
  <2>1. ~ (InLoop(6) /\ step \in 1..4)
    BY <1>2, LoopNumbers DEF InLoop, Command, SeedCalendar, SeedProfile, SeedUser, SeedCustomer,
       SeedProject, ArchiveCustomer, SeedHours, BookWeek, ReviewWeek, SeedExpenses, Claim, Send,
       Draft, Issue, Refused, Doing
  <2>2. 1..3 \subseteq 1..4
    OBVIOUS
  <2> QED
    BY <1>2, <2>1, <2>2 DEF WebsiteReady, Website
<1>3. CASE SeedProject \/ CompleteProject
  <2>1. /\ outcome = "running" /\ loop = 6 /\ Of \in Projects
        /\ SeedProject => step = 0
    BY <1>3, LoopNumbers, Record DEF DemoInv, SeedProject, CompleteProject, Doing
  <2>2. CASE Of # InvoiceProject
    <3>1. Website' = Website
      BY <1>1, <1>3, <2>1, <2>2, TheLead, CompletionStep DEF Website, SeedProject
    <3> QED
      BY <2>2, <3>1 DEF WebsiteReady
  <2>3. CASE Of = InvoiceProject /\ SeedProject /\ project[Of] # Absent
    <3>1. Website' = Website
      BY <2>3 DEF Website, SeedProject
    <3> QED
      BY <2>1, <2>3, <3>1 DEF WebsiteReady
  <2>4. CASE Of = InvoiceProject /\ ~ (SeedProject /\ project[Of] # Absent)
    <3>1. Follow(Completion(Of)) /\ Completion(Of) = 5 /\ Len(Members[Of]) = 3
      <4>1. Follow(Completion(Of))
        BY <1>3, <2>4 DEF SeedProject, CompleteProject
      <4>2. Len(Members["Website"]) = 3
        BY TheLead
      <4>3. Len(Members[Of]) = 3
        BY <2>4, <4>2, TheLead
      <4>4. Completion(Of) = 5
        BY <4>3 DEF Completion
      <4> QED
        BY <4>1, <4>3, <4>4
    <3>2. ASSUME step < 5
          PROVE  InLoop(6)' /\ Of' = InvoiceProject /\ step' = step + 1
      BY <2>1, <2>4, <3>1, <3>2 DEF Follow, InLoop, Of
    <3>3. CASE SeedProject
      <4>1. Website' = NewProject
        BY <1>1, <2>4, <3>3, TheLead DEF SeedProject, Website
      <4> QED
        BY <2>1, <3>2, <3>3, <4>1 DEF WebsiteReady, NewProject
    <3>4. CASE CompleteProject
      <4>1. InLoop(6) /\ step \in 1..5 /\ Website # Absent
        <5>1. Of = DemoProjects[nth] /\ step > 0 /\ project[Of] # Absent
          BY <2>1, <3>4, Record, CompletionStep DEF DemoInv, StepsInOrder
        <5>2. step <= 5
          <6>1. step <= Len(Members[Of]) + 2
            BY <2>1, <5>1 DEF DemoInv, PlaceOK
          <6> QED
            BY <3>1, <6>1
        <5> QED
          BY <1>1, <2>1, <2>4, <5>1, <5>2 DEF Website, InLoop
      <4>2. Website \in Project /\ Website.active /\ Website' = project'[Of]
        BY <1>1, <2>4, <4>1, TheLead DEF WebsiteReady, Website
      <4>3. CASE step \in 1..3
        <5>1. step \in DOMAIN Members[Of] /\ Members[Of][3] = "lead"
          BY <2>4, <4>3, TheLead
        <5>2. project' = [project EXCEPT ![Of].members = @ \cup {Members[Of][step]}]
          BY <3>1, <3>4, <4>3, <5>1 DEF CompleteProject
        <5>3. /\ Website'.active = Website.active
              /\ Website'.members = Website.members \cup {Members[Of][step]}
          BY <1>1, <2>1, <2>4, <4>2, <5>2 DEF Website, Project
        <5>4. step \in 1..2 \/ "lead" \in Website'.members
          BY <4>3, <5>1, <5>3
        <5> QED
          BY <3>2, <4>2, <4>3, <5>3, <5>4 DEF WebsiteReady
      <4>4. CASE step = 4
        <5> DEFINE rated == Of \in Rated
        <5>1. step \notin DOMAIN Members[Of]
          BY <2>4, <4>4, TheLead
        <5>2. project' = [project EXCEPT ![Of].rated = rated]
          BY <3>1, <3>4, <4>4, <5>1 DEF CompleteProject
        <5>3. rated = TRUE
          BY <2>4, TheLead
        <5> HIDE DEF rated
        <5>4. /\ Website'.active = Website.active
              /\ Website'.members = Website.members
              /\ Website'.rated = rated
          BY <1>1, <2>1, <2>4, <4>2, <5>2 DEF Website, Project
        <5>5. "lead" \in Website.members
          BY <4>1, <4>4 DEF WebsiteReady
        <5> QED
          BY <4>2, <5>3, <5>4, <5>5 DEF WebsiteReady
      <4>5. CASE step = 5
        <5> DEFINE active == Of \notin Closed
        <5>1. step \notin DOMAIN Members[Of]
          BY <2>4, <4>5, TheLead
        <5>2. project' = [project EXCEPT ![Of].active = active]
          BY <3>1, <3>4, <4>5, <5>1 DEF CompleteProject
        <5>3. active = TRUE
          BY <2>4, TheLead
        <5> HIDE DEF active
        <5>4. /\ Website'.active = active
              /\ Website'.members = Website.members
              /\ Website'.rated = Website.rated
          BY <1>1, <2>1, <2>4, <4>2, <5>2 DEF Website, Project
        <5>5. "lead" \in Website.members /\ Website.rated
          BY <4>1, <4>5 DEF WebsiteReady
        <5> QED
          BY <4>2, <5>3, <5>4, <5>5 DEF WebsiteReady
      <4> QED
        BY <4>1, <4>3, <4>4, <4>5
    <3> QED
      BY <1>3, <3>3, <3>4
  <2> QED
    BY <2>2, <2>3, <2>4
<1> QED
  BY <1>2, <1>3 DEF Command, SeedCalendar, SeedProfile, SeedUser, SeedCustomer,
         ArchiveCustomer, SeedHours, BookWeek, ReviewWeek, SeedExpenses, Claim, Send, Draft, Issue,
         Refused, records

\* No customer is archived before the projects are made.
LEMMA ArchivedStays ==
    ASSUME DemoInv, ArchivedLast, Command, ~ Refused
    PROVE  ArchivedLast'
<1>1. customer \in [Customers -> {Absent, "active", "archived"}]
  BY DEF DemoInv, DemoTypes
<1>2. NothingUndone
  BY CalendarStep, ProfileStep, UserStep, CustomerStep, ProjectStep, CompletionStep,
     HoursStep, WeekStep, ExpensesStep, ClaimStep, BillingStep DEF Command
<1>3. CASE ArchiveCustomer
  <2>1. outcome = "running" /\ loop = 7
    BY <1>3, LoopNumbers DEF ArchiveCustomer, Doing
  <2>2. \A n \in 1..5 : project[DemoProjects[n]] # Absent
    <3>1. 6 \in 1..11 /\ Records(6) = 1..5
      BY RecordsOf
    <3>2. \A n \in 1..5 : Sure(6, n)
      BY <2>1 DEF Sure, Passed
    <3> QED
      BY <3>1, <3>2 DEF DemoInv, ScriptDone, Effect
  <2>3. \A p \in Projects : project'[p] # Absent
    BY <2>2, <1>2, Demo DEF NothingUndone
  <2> QED
    BY <2>3 DEF ArchivedLast
<1>4. CASE ~ ArchiveCustomer
  <2>1. \A c \in Customers : customer'[c] = "archived" => customer[c] = "archived"
    BY <1>1, <1>4 DEF Command, SeedCalendar, SeedProfile, SeedUser, SeedCustomer, SeedProject,
       CompleteProject, SeedHours, BookWeek, ReviewWeek, SeedExpenses, Claim, Send, Draft, Issue,
       Refused, records
  <2> QED
    BY <1>2, <2>1 DEF ArchivedLast, NothingUndone
<1> QED
  BY <1>3, <1>4

\* The earliest week is booked first, and approved before the others are reviewed.
LEMMA EarliestStays ==
    ASSUME DemoInv, EarliestFirst, EarliestReviewed, Command, ~ Refused
    PROVE  EarliestFirst' /\ EarliestReviewed'
<1>1. /\ week \in [Users \X Months -> Week \cup {Absent}]
      /\ Earliest \in Months /\ Earliest + 1 \in Months /\ Earliest + 2 \in Months
      /\ Months \subseteq Nat
  BY EarliestIsMonth DEF DemoInv, DemoTypes
<1>2. Earliest' = Earliest /\ NothingUndone
  BY CalendarStep, ProfileStep, UserStep, CustomerStep, ProjectStep, CompletionStep,
     HoursStep, WeekStep, ExpensesStep, ClaimStep, BillingStep DEF Command, NothingUndone, Earliest
<1>3. CASE ~ BookWeek /\ ~ ReviewWeek
  <2>1. week' = week
    BY <1>3 DEF Command, SeedCalendar, SeedProfile, SeedUser, SeedCustomer, SeedProject,
       CompleteProject, ArchiveCustomer, SeedHours, SeedExpenses, Claim, Send, Draft, Issue,
       Refused, bookings
  <2>2. ~ (InLoop(8) /\ step \in 2..5)
    BY <1>3, LoopNumbers DEF InLoop, Command, SeedCalendar, SeedProfile, SeedUser, SeedCustomer,
       SeedProject, CompleteProject, ArchiveCustomer, SeedHours, SeedExpenses, Claim, Send,
       Draft, Issue, Doing
  <2> QED
    BY <1>2, <2>1, <2>2 DEF EarliestFirst, EarliestReviewed
<1>4. CASE BookWeek \/ ReviewWeek
  <2>1. /\ outcome = "running" /\ loop = 8 /\ step \in 1..8 /\ Of \in Users
        /\ Follow(WeekSteps) /\ WeekSteps = 8
        /\ \A u \in Users, m \in Months : u # Of => week'[<<u, m>>] = week[<<u, m>>]
    BY <1>4, WeekWritten, WeekStep DEF WeekSteps, BookedMonths
  <2>2. step \in 1..5 => InLoop(8)' /\ Of' = Of /\ step' = step + 1
    BY <2>1 DEF Follow, InLoop, Of
  <2>3. week'[<<Of, Earliest>>] # Absent
    <3>1. CASE step = 1
      <4>1. step \in 1..3 /\ Earliest + step - 1 = Earliest
        BY <1>1, <3>1
      <4>2. step \in 1..3 => week'[<<Of, Earliest + step - 1>>] # Absent
        BY <1>4, WeekWritten
      <4> QED
        BY <4>1, <4>2
    <3>2. CASE step > 1
      <4>1. week[<<Of, Earliest + 1 - 1>>] # Absent
        <5>1. 1 \in 1..3 /\ step > 1
          BY <3>2
        <5> QED
          BY <2>1, <5>1 DEF DemoInv, StepsInOrder, InLoop
      <4>2. Earliest + 1 - 1 = Earliest
        BY <1>1
      <4> QED
        BY <1>1, <1>2, <2>1, <4>1, <4>2 DEF NothingUndone
    <3> QED
      BY <2>1, <3>1, <3>2
  <2>4. EarliestFirst'
    <3>1. ASSUME NEW u \in Users, NEW m \in Months, week'[<<u, m>>] # Absent
          PROVE  week'[<<u, Earliest>>] # Absent
      BY <1>1, <2>1, <2>3, <3>1 DEF EarliestFirst
    <3> QED
      BY <1>2, <3>1 DEF EarliestFirst
  <2>5. step \in 1..4 \/ week'[<<Of, Earliest>>].status = "approved"
    <3>1. SUFFICES ASSUME step \in 5..8
                   PROVE  week'[<<Of, Earliest>>].status = "approved"
      BY <2>1
    <3>2. ReviewWeek
      BY <1>4, <3>1 DEF BookWeek, BookedMonths
    <3>3. PICK n \in 1..2 * BookedMonths - 1 :
            /\ step = BookedMonths + n
            /\ week' = [week EXCEPT ![<<Of, Earliest + (n - 1) \div 2>>].status =
                          IF n % 2 = 1 THEN "submitted" ELSE "approved"]
      BY <3>2 DEF ReviewWeek
    <3> DEFINE k == Earliest + (n - 1) \div 2
               status == IF n % 2 = 1 THEN "submitted" ELSE "approved"
    <3>4. n \in 2..5 /\ step = 3 + n
      BY <3>1, <3>3 DEF BookedMonths
    <3>5. week' = [week EXCEPT ![<<Of, k>>].status = status]
      BY <3>3
    <3>6. CASE n = 2
      <4>1. k = Earliest /\ status = "approved"
        BY <1>1, <3>6
      <4>2. week[<<Of, Earliest>>] # Absent
        <5>1. week[<<Of, Earliest + 1 - 1>>] # Absent
          <6>1. 1 \in 1..3 /\ step > 1
            BY <3>1
          <6> QED
            BY <2>1, <6>1 DEF DemoInv, StepsInOrder, InLoop
        <5>2. Earliest + 1 - 1 = Earliest
          BY <1>1
        <5> QED
          BY <5>1, <5>2
      <4>3. week[<<Of, Earliest>>] \in Week
        BY <1>1, <2>1, <4>2
      <4> HIDE DEF k, status
      <4> QED
        BY <1>1, <2>1, <3>5, <4>1, <4>3 DEF Week
    <3>7. CASE n \in 3..5
      <4>1. k # Earliest
        BY <1>1, <3>7
      <4> HIDE DEF k, status
      <4>2. week'[<<Of, Earliest>>] = week[<<Of, Earliest>>]
        BY <1>1, <2>1, <3>5, <4>1
      <4>3. week[<<Of, Earliest>>] # Absent /\ step \notin 2..5
        BY <2>3, <3>4, <3>7, <4>2
      <4> QED
        BY <2>1, <4>2, <4>3 DEF EarliestReviewed
    <3> QED
      BY <3>4, <3>6, <3>7
  <2>6. EarliestReviewed'
    <3>1. ASSUME NEW u \in Users, week'[<<u, Earliest>>] # Absent
          PROVE  \/ (InLoop(8) /\ Of = u /\ step \in 2..5)'
                 \/ week'[<<u, Earliest>>].status = "approved"
      <4>1. CASE u # Of
        <5>1. week'[<<u, Earliest>>] = week[<<u, Earliest>>]
          BY <1>1, <2>1, <4>1
        <5> QED
          BY <3>1, <4>1, <5>1 DEF EarliestReviewed
      <4>2. CASE u = Of
        BY <2>2, <2>5, <4>2
      <4> QED
        BY <4>1, <4>2
    <3> QED
      BY <1>2, <3>1 DEF EarliestReviewed
  <2> QED
    BY <2>4, <2>6
<1> QED
  BY <1>3, <1>4

\* Reports are of this month.
LEMMA ClaimsStay ==
    ASSUME DemoInv, ClaimsOfMonth, Command, ~ Refused
    PROVE  ClaimsOfMonth'
<1>1. month' = month
  BY GoesOn
<1>2. CASE Claim
  BY <1>1, <1>2, ClaimStep DEF ClaimsOfMonth
<1>3. CASE ~ Claim
  <2>1. claim' = claim
    BY <1>3 DEF Command, SeedCalendar, SeedProfile, SeedUser, SeedCustomer, SeedProject,
       CompleteProject, ArchiveCustomer, SeedHours, BookWeek, ReviewWeek, SeedExpenses, Send, Draft,
       Issue, Refused, bookings
  <2> QED
    BY <1>1, <2>1 DEF ClaimsOfMonth
<1> QED
  BY <1>2, <1>3

\* Undisturbed, no command is refused: customers are active while projects are made, the
\* lead has booked the earliest month and all of it is approved, and the project has rates.
LEMMA NothingRefused ==
    ASSUME DemoInv, OnlyMembersBook, WebsiteReady, ArchivedLast, EarliestFirst, EarliestReviewed,
           ClaimsOfMonth
    PROVE  ~ Refused
<1>1. SUFFICES ASSUME Refused
               PROVE  FALSE
  OBVIOUS
<1>2. CASE Doing("project") /\ project[Of] = Absent /\ customer[CustomerOf[Of]] = "archived"
  <2>1. loop = 6
    BY <1>2, LoopNumbers DEF Doing
  <2>2. Of \in Projects
    BY <2>1, Record DEF DemoInv
  <2>3. \A p \in Projects : CustomerOf[p] \in Customers
    BY Demo DEF CustomerOf
  <2> QED
    BY <1>2, <2>2, <2>3 DEF ArchivedLast
<1>3. ASSUME outcome = "running", loop \in {10, 11}
      PROVE  Website # Absent /\ Website.active /\ "lead" \in Website.members /\ Website.rated
  <2>1. 1 \in Records(6) /\ DemoProjects[1] = InvoiceProject
    BY RecordsOf DEF DemoProjects, InvoiceProject
  <2>2. Sure(6, 1)
    BY <1>3 DEF Sure, Passed
  <2>3. Website # Absent
    BY <2>1, <2>2 DEF DemoInv, ScriptDone, Effect, Website
  <2> QED
    BY <1>3, <2>3 DEF WebsiteReady, InLoop
<1>4. CASE Doing("send") /\ ~ Ready(Earliest)
  <2> DEFINE weeks  == {u \in Users : week[<<u, Earliest>>] # Absent
                                       /\ week[<<u, Earliest>>].project = InvoiceProject}
             claims == {u \in Users : claim[<<u, InvoiceProject, Earliest>>] # Absent}
  <2>1. outcome = "running" /\ loop = 10
    BY <1>4, LoopNumbers DEF Doing
  <2>2. /\ Earliest \in Months /\ Earliest # month /\ "lead" \in Users /\ InvoiceProject \in Projects
        /\ week \in [Users \X Months -> Week \cup {Absent}]
    BY EarliestIsMonth, Demo, TheLead DEF DemoInv, DemoTypes
  <2>3. Options("lead") # {}
    BY <1>3, <2>1, <2>2 DEF Options, Website
  <2>4. HasEntries("lead")
    <3>1. 5 \in Records(8) /\ DemoUsers[5] = "lead"
      BY RecordsOf DEF DemoUsers
    <3>2. Sure(8, 5)
      BY <2>1 DEF Sure, Passed
    <3>3. HasEntries(DemoUsers[5]) \/ Options(DemoUsers[5]) = {}
      BY <3>1, <3>2 DEF DemoInv, ScriptDone, Effect
    <3> QED
      BY <2>3, <3>1, <3>3
  <2>5. week[<<"lead", Earliest>>] # Absent
    BY <2>2, <2>4 DEF HasEntries, EarliestFirst
  <2>6. week[<<"lead", Earliest>>].project = InvoiceProject
    <3>1. week[<<"lead", Earliest>>].project \in Projects
      BY <2>2, <2>5 DEF Week
    <3>2. "lead" \in Range(Members[week[<<"lead", Earliest>>].project])
      BY <2>2, <2>5 DEF OnlyMembersBook
    <3> QED
      BY <3>1, <3>2, TheLead
  <2>7. weeks # {}
    BY <2>2, <2>5, <2>6
  <2>8. \A u \in weeks : week[<<u, Earliest>>].status = "approved"
    BY <2>1 DEF EarliestReviewed, InLoop
  <2>9. claims = {}
    BY <2>2 DEF ClaimsOfMonth
  <2>10. Ready(Earliest)
    BY <2>7, <2>8, <2>9 DEF Ready
  <2> QED
    BY <1>4, <2>10
<1>5. CASE Doing("draft") /\ ~ project[InvoiceProject].rated
  <2>1. outcome = "running" /\ loop = 11
    BY <1>5, LoopNumbers DEF Doing
  <2> QED
    BY <1>3, <1>5, <2>1 DEF Website
<1> QED
  BY <1>1, <1>2, <1>4, <1>5 DEF Refused

\* What the last commands need is kept by every step that is no disturbance.
LEMMA UndisturbedStep ==
    ASSUME DemoInv, OnlyMembersBook, Undisturbed, [NextDemo]_dvars
    PROVE  Undisturbed'
<1>1. CASE KillRun \/ NextMonth \/ ChangeCustomer \/ Customize
  <2>1. disturbed' = disturbed + 1 /\ disturbed \in Nat
    BY <1>1 DEF KillRun, NextMonth, ChangeCustomer, Customize, Disturb, DemoInv, DemoTypes
  <2>2. disturbed' # 0
    BY <2>1
  <2> QED
    BY <2>2 DEF Undisturbed
<1>2. CASE Command
  <2>1. SUFFICES ASSUME disturbed' = 0
                 PROVE  Undisturbed'
    BY DEF Undisturbed
  <2>2. disturbed = 0
    <3>1. CASE Refused
      BY <2>1, <3>1 DEF Refused, history
    <3>2. CASE ~ Refused
      BY <1>2, <2>1, <3>2, GoesOn DEF history
    <3> QED
      BY <3>1, <3>2
  <2>3. ~ Refused
    BY <2>2, NothingRefused DEF Undisturbed
  <2>4. month' = month /\ outcome' = "running"
    BY <1>2, <2>3, GoesOn
  <2>5. /\ WebsiteReady' /\ ArchivedLast' /\ EarliestFirst' /\ EarliestReviewed' /\ ClaimsOfMonth'
    BY <1>2, <2>2, <2>3, WebsiteStays, ArchivedStays, EarliestStays, ClaimsStay DEF Undisturbed
  <2> QED
    BY <2>2, <2>4, <2>5 DEF Undisturbed
<1>3. CASE BeginRun \/ EndRun \/ UNCHANGED dvars
  <2>1. /\ UNCHANGED <<month, customer, project, week, claim, disturbed>> /\ Earliest' = Earliest
        /\ outcome' \in {outcome, "running", "ended"}
    BY <1>3 DEF BeginRun, EndRun, dvars, records, bookings, history, Earliest
  <2>2. /\ InLoop(6) /\ step \in 1..4 => UNCHANGED dvars
        /\ InLoop(8) => UNCHANGED dvars
    BY <1>3 DEF BeginRun, EndRun, InLoop, Loops
  <2>3. 1..3 \subseteq 1..4
    OBVIOUS
  <2>4. UNCHANGED dvars => (InLoop(6)' = InLoop(6) /\ InLoop(8)' = InLoop(8) /\ Of' = Of /\ step' = step)
    BY DEF dvars, place, InLoop, Of
  <2>5. disturbed = 0 => WebsiteReady'
    BY <2>1, <2>2, <2>3, <2>4 DEF Undisturbed, WebsiteReady, Website
  <2>6. disturbed = 0 => EarliestReviewed'
    BY <2>1, <2>2, <2>4 DEF Undisturbed, EarliestReviewed
  <2>7. disturbed = 0 => ArchivedLast' /\ EarliestFirst' /\ ClaimsOfMonth'
    BY <2>1 DEF Undisturbed, ArchivedLast, EarliestFirst, ClaimsOfMonth
  <2> QED
    BY <2>1, <2>5, <2>6, <2>7 DEF Undisturbed
<1> QED
  BY <1>1, <1>2, <1>3 DEF NextDemo

\* A run fails only after a kill, a month or a change: until then, what the last commands
\* need is what every run before them has left.
THEOREM UndisturbedRunsSucceed == SpecDemo => []FailsOnlyIfDisturbed
<1>1. InitDemo => OnlyMembersBook /\ Undisturbed
  <2> SUFFICES ASSUME InitDemo PROVE OnlyMembersBook /\ Undisturbed
    OBVIOUS
  <2>1. /\ \A p \in Projects : project[p] = Absent
        /\ \A u \in Users, m \in Months : week[<<u, m>>] = Absent
        /\ \A u \in Users, p \in Projects, m \in Months : claim[<<u, p, m>>] = Absent
        /\ \A c \in Customers : customer[c] # "archived"
    BY DemoDataAssumption DEF InitDemo
  <2>2. Earliest \in Months /\ InvoiceProject \in Projects
    BY TheLead, DemoDataAssumption DEF InitDemo, Earliest, BookedMonths, Months
  <2> QED
    BY <2>1, <2>2 DEF InitDemo, OnlyMembersBook, Undisturbed, WebsiteReady, Website, ArchivedLast,
                      EarliestFirst, EarliestReviewed, ClaimsOfMonth
<1>2. DemoInv /\ OnlyMembersBook /\ [NextDemo]_dvars => OnlyMembersBook'
  BY MembersStep
<1>3. DemoInv /\ OnlyMembersBook /\ Undisturbed /\ [NextDemo]_dvars => Undisturbed'
  BY UndisturbedStep
<1>4. DemoInv /\ Undisturbed => FailsOnlyIfDisturbed
  BY DEF DemoInv, DemoTypes, Undisturbed, FailsOnlyIfDisturbed
<1> QED
  BY <1>1, <1>2, <1>3, <1>4, DemoInvariant, PTL DEF SpecDemo
=============================================================================
