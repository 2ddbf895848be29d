-------------------------------- MODULE Backups --------------------------------
(***************************************************************************)
(* Backups of the database and of the receipts' files, and their restore.  *)
(*                                                                         *)
(* A backup is a dump and, next to it, an archive of the attachment        *)
(* directory.  The server, the backup service and the migrate container    *)
(* are processes of their own over the same backup directory: a lock file  *)
(* lets one of them in, and none of them stops the server, whose uploads   *)
(* and deletions (module Attachments) go on between the snapshot pg_dump   *)
(* takes and the moment the files are read.  Any of them may be killed.    *)
(*                                                                         *)
(* A backup is named after the second it was begun in: its number here.    *)
(* Of the database, the reports and the rows of their receipts are kept.   *)
(***************************************************************************)
EXTENDS Attachments, FiniteSetsExt

CONSTANTS
    Processes,
    Retention,      \* backup_retention_count
    MaxBackups,     \* bound on the backups begun
    None            \* no such file on disk

VARIABLES
    dump,           \* the .dump files: what a listed backup restores
    archive,        \* the -attachments.tar.gz files
    lock,           \* .backup.lock exists
    begun,          \* how many backups have been begun
    job,            \* per process: the backup it is making
    restore,        \* the restore under way
    forfeit,        \* history: keys whose file somebody has given up
    cut             \* history: backups whose pruning was cut short

jobs == <<dump, archive, lock, begun, job, cut>>
bvars == <<vars, jobs, restore, forfeit>>

Ids      == 1..MaxBackups
Database == [row : SUBSET Keys, report : SUBSET Reports]
Folder   == [file : SUBSET Keys, partial : SUBSET Keys]

ASSUME BackupsAssumption ==
    /\ Retention \in Nat \ {0}
    /\ MaxBackups \in Nat
    /\ None \notin Database \cup Folder

NoJob     == [at |-> "idle", id |-> 0, db |-> None, todo |-> None]
NoRestore == [at |-> "idle", id |-> 0]

InitBackups ==
    /\ Init
    /\ dump = [i \in Ids |-> None]
    /\ archive = [i \in Ids |-> None]
    /\ lock = FALSE
    /\ begun = 0
    /\ job = [p \in Processes |-> NoJob]
    /\ restore = NoRestore
    /\ forfeit = {}
    /\ cut = {}

-----------------------------------------------------------------------------
\* list(): the dumps, whether or not they have an archive.
Listed == {i \in Ids : dump[i] # None}

LastBackupAt == Max(Listed \cup {0})

\* Mutant of Stale: the backup just made is counted twice.
Stale_OffByOne == {i \in Listed : Cardinality({j \in Listed : j > i}) + 1 >= Retention}

\* What prune() takes: all but the newest, as many as are retained.
Stale == {i \in Listed : Cardinality({j \in Listed : j > i}) >= Retention}

ReadDatabase == [row |-> row, report |-> report]
ReadFolder   == [file |-> file, partial |-> partial]

\* An upload has made the directory, or a restore has.
FolderExists == \E k \in Keys : request[k] # "unused"

-----------------------------------------------------------------------------
(* BackupService.create, one step per file it makes, renames or unlinks *)

\* Mutant of Begin: the lock file is made without O_EXCL.
Begin_Shared(p) ==
    /\ job[p].at = "idle"
    /\ begun < MaxBackups
    /\ restore.at = "idle"
    /\ lock' = TRUE
    /\ begun' = begun + 1
    /\ job' = [job EXCEPT ![p] =
                  [at |-> "dumping", id |-> begun + 1, db |-> ReadDatabase, todo |-> None]]
    /\ UNCHANGED <<dump, archive, cut>>

\* The lock, the dotfile, and pg_dump's snapshot of the database.
Begin(p) ==
    /\ job[p].at = "idle"
    /\ begun < MaxBackups
    /\ restore.at = "idle"
    /\ ~ lock
    /\ lock' = TRUE
    /\ begun' = begun + 1
    /\ job' = [job EXCEPT ![p] =
                  [at |-> "dumping", id |-> begun + 1, db |-> ReadDatabase, todo |-> None]]
    /\ UNCHANGED <<dump, archive, cut>>

\* pg_dump exits with an error or times out: the dotfile and the lock go.
FailDump(p) ==
    /\ job[p].at = "dumping"
    /\ job' = [job EXCEPT ![p] = NoJob]
    /\ lock' = FALSE
    /\ UNCHANGED <<dump, archive, begun, cut>>

\* pg_dump exits 0: its dotfile is renamed into place.
FinishDump(p) ==
    /\ job[p].at = "dumping"
    /\ dump' = [dump EXCEPT ![job[p].id] = job[p].db]
    /\ job' = [job EXCEPT ![p].at = "dumped"]
    /\ UNCHANGED <<archive, lock, begun, cut>>

\* tar.add lists the directory before it reads the files.
ListFolder(p) ==
    /\ job[p].at = "dumped"
    /\ FolderExists
    /\ job' = [job EXCEPT ![p].at = "archiving", ![p].todo = ReadFolder]
    /\ UNCHANGED <<dump, archive, lock, begun, cut>>

SkipArchive(p) ==
    /\ job[p].at = "dumped"
    /\ ~ FolderExists
    /\ job' = [job EXCEPT ![p].at = "pruning"]
    /\ UNCHANGED <<dump, archive, lock, begun, cut>>

Readable(folder) == folder.file \subseteq file /\ folder.partial \subseteq partial

\* Mutant of FinishArchive: the dump is read anew once the archive is written.
FinishArchive_DumpLast(p) ==
    /\ job[p].at = "archiving"
    /\ Readable(job[p].todo)
    /\ archive' = [archive EXCEPT ![job[p].id] = job[p].todo]
    /\ dump' = [dump EXCEPT ![job[p].id] = ReadDatabase]
    /\ job' = [job EXCEPT ![p].at = "pruning", ![p].todo = None]
    /\ UNCHANGED <<lock, begun, cut>>

\* Every file listed was still there to read; the archive is renamed into place.
FinishArchive(p) ==
    /\ job[p].at = "archiving"
    /\ Readable(job[p].todo)
    /\ archive' = [archive EXCEPT ![job[p].id] = job[p].todo]
    /\ job' = [job EXCEPT ![p].at = "pruning", ![p].todo = None]
    /\ UNCHANGED <<dump, lock, begun, cut>>

\* A file listed is gone when it is read, or the disk is full: the error ends the
\* backup, lock and all, and leaves a dump that has no archive.
FailArchive(p) ==
    /\ job[p].at = "archiving"
    /\ job' = [job EXCEPT ![p] = NoJob]
    /\ lock' = FALSE
    /\ UNCHANGED <<dump, archive, begun, cut>>

\* prune(): of a stale backup, the dump goes first,
PruneDump(p) ==
    /\ job[p].at = "pruning"
    /\ \E i \in Stale :
         /\ dump' = [dump EXCEPT ![i] = None]
         /\ job' = [job EXCEPT ![p].at = "pruned", ![p].id = i]
    /\ UNCHANGED <<archive, lock, begun, cut>>

\* then the archive that lies next to it.
PruneArchive(p) ==
    /\ job[p].at = "pruned"
    /\ archive' = [archive EXCEPT ![job[p].id] = None]
    /\ job' = [job EXCEPT ![p].at = "pruning"]
    /\ UNCHANGED <<dump, lock, begun, cut>>

End(p) ==
    /\ job[p].at = "pruning"
    /\ Stale = {}
    /\ job' = [job EXCEPT ![p] = NoJob]
    /\ lock' = FALSE
    /\ UNCHANGED <<dump, archive, begun, cut>>

\* The process dies: dotfiles and the lock file stay where they are.
Kill(p) ==
    /\ job[p].at # "idle"
    /\ job' = [job EXCEPT ![p] = NoJob]
    /\ cut' = IF job[p].at = "pruned" THEN cut \cup {job[p].id} ELSE cut
    /\ UNCHANGED <<dump, archive, lock, begun>>

\* Nothing in the code removes a lock file that was left; somebody does, by hand.
RemoveLock ==
    /\ lock
    /\ \A p \in Processes : job[p].at = "idle"
    /\ lock' = FALSE
    /\ UNCHANGED <<dump, archive, begun, job, cut>>

Backup ==
    \/ \E p \in Processes :
         \/ Begin(p) \/ FailDump(p) \/ FinishDump(p)
         \/ ListFolder(p) \/ SkipArchive(p) \/ FinishArchive(p) \/ FailArchive(p)
         \/ PruneDump(p) \/ PruneArchive(p) \/ End(p) \/ Kill(p)
    \/ RemoveLock

-----------------------------------------------------------------------------
(* BackupService.restore, with the server stopped and no other command running *)

Quiet ==
    /\ \A k \in Keys : request[k] \notin {"writing", "written", "deleting"}
    /\ prune.at = "idle"
    /\ \A p \in Processes : job[p].at = "idle"

\* pg_restore, in a single transaction: all of the dump or nothing.  Without an
\* archive the files are left as they are, and what they lack is given up.
RestoreDatabase(i) ==
    /\ Quiet
    /\ restore.at \in {"idle", "killed"}
    /\ i \in Listed
    /\ row' = dump[i].row
    /\ report' = dump[i].report
    /\ IF archive[i] = None
       THEN /\ restore' = NoRestore
            /\ forfeit' = forfeit \cup (dump[i].row \ file)
       ELSE /\ restore' = [at |-> "database", id |-> i]
            /\ UNCHANGED forfeit
    /\ UNCHANGED <<partial, file, request, prune, caught>>

ClearFolder ==
    /\ restore.at = "database"
    /\ file' = {}
    /\ partial' = {}
    /\ restore' = [restore EXCEPT !.at = "cleared"]
    /\ UNCHANGED <<row, report, request, prune, caught, forfeit>>

Extract ==
    /\ restore.at = "cleared"
    /\ file' = archive[restore.id].file
    /\ partial' = archive[restore.id].partial
    /\ restore' = NoRestore
    /\ UNCHANGED <<row, report, request, prune, caught, forfeit>>

\* The command dies half way: it is run again before the server is started.
KillRestore ==
    /\ restore.at \in {"database", "cleared"}
    /\ restore' = [at |-> "killed", id |-> 0]
    /\ UNCHANGED <<vars, forfeit>>

Restore == (\E i \in Ids : RestoreDatabase(i)) \/ ClearFolder \/ Extract \/ KillRestore

-----------------------------------------------------------------------------
\* The server and prune-attachments, and what their users give up by deleting.
Serve ==
    \/ \E k \in Keys :
         \/ Unlink(k) /\ forfeit' = forfeit \cup {k}
         \/ (Upload(k) \/ CommitDelete(k) \/ FailDelete(k)) /\ UNCHANGED forfeit
    \/ \E r \in Reports :
         DeleteReport(r) /\ forfeit' = forfeit \cup {k \in row : ReportOf[k] = r}
    \/ Prune /\ UNCHANGED forfeit

NextBackups ==
    \/ restore.at = "idle" /\ Serve /\ UNCHANGED <<jobs, restore>>
    \/ Backup /\ UNCHANGED <<vars, restore, forfeit>>
    \/ Restore /\ UNCHANGED jobs

SpecBackups == InitBackups /\ [][NextBackups]_bvars

-----------------------------------------------------------------------------
(* Properties *)

\* backup_service.py:113: the dump is taken before the archive, while the server
\* runs.  Whatever is uploaded, deleted or killed meanwhile, a receipt of a restored
\* database has its file, unless somebody asked to delete it, its upload was caught by a
\* prune-attachments, or the backup has no archive, as docs/operations.md says of it.
RestoredRowsHaveFiles ==
    restore.at = "idle" => \A k \in row : k \in file \/ k \in forfeit \/ k \in caught

\* docs/operations.md:147: dump and archive are "kept and pruned together": an archive
\* without its dump, which no later prune would find, is left only by a prune that
\* was killed between the two.
KeptTogether ==
    \A i \in Ids : archive[i] # None =>
        \/ i \in Listed
        \/ i \in cut
        \/ \E p \in Processes : job[p].at = "pruned" /\ job[p].id = i

\* backup_service.py:166: pruning never takes the newest backups: the time of the last
\* one, on the status page, does not move back, and a dump goes only when as many
\* newer ones as are retained are there.
NewestKept ==
    [][/\ LastBackupAt' >= LastBackupAt
       /\ \A i \in Listed \ Listed' :
             Cardinality({j \in Listed' : j > i}) >= Retention]_<<dump>>
=============================================================================
