------------------------------ MODULE Attachments ------------------------------
(***************************************************************************)
(* Receipts: the file on disk and the row that refers to it.  The two are  *)
(* never one transaction, and three kinds of process write them: requests  *)
(* of the server, which may die at any step, the deletion of a report,     *)
(* which removes rows only, and the prune-attachments command, a process   *)
(* of its own that reads the rows, then lists the files, then unlinks.     *)
(*                                                                         *)
(* A key is a storage key, drawn at random for each upload and never used  *)
(* again.  Within the server the file steps of one request are not         *)
(* interleaved with another's, but prune may run between any two of them.  *)
(***************************************************************************)
EXTENDS Naturals, FiniteSets

CONSTANTS
    Keys,
    Reports,
    ReportOf        \* [Keys -> Reports], the report a key is uploaded to

ASSUME AttachmentsAssumption == ReportOf \in [Keys -> Reports]

VARIABLES
    partial,        \* keys whose dotfile temporary is on disk
    file,           \* keys whose file is on disk under its final name
    row,            \* keys with a committed expense_attachments row
    report,         \* the reports that exist
    request,        \* what the last request on a key has reached
    prune,          \* the prune process: its step, the keys it keeps and unlinks
    caught          \* history: keys whose upload had its file in place and no row yet
                    \* while a prune was between reading the rows and listing the files

vars == <<partial, file, row, report, request, prune, caught>>

-----------------------------------------------------------------------------
\* "unused": the key has not been drawn.  "writing" and "written": an upload has
\* begun its temporary, or renamed it and not committed its row.  "deleting": a
\* deletion has unlinked the file and not committed.  "interrupted": it never did.
RequestStep == {"unused", "writing", "written", "deleting", "interrupted", "done"}

NoPrune == [at |-> "idle", keep |-> {}, todo |-> {}]

TypeOK ==
    /\ partial \subseteq Keys
    /\ file \subseteq Keys
    /\ row \subseteq Keys
    /\ report \subseteq Reports
    /\ request \in [Keys -> RequestStep]
    /\ prune \in [at : {"idle", "read", "sweep"}, keep : SUBSET Keys, todo : SUBSET Keys]
    /\ caught \subseteq Keys

Init ==
    /\ partial = {}
    /\ file = {}
    /\ row = {}
    /\ report = Reports
    /\ request = [k \in Keys |-> "unused"]
    /\ prune = NoPrune
    /\ caught = {}

Uploading == {k \in Keys : request[k] \in {"writing", "written"}}

-----------------------------------------------------------------------------
(* AddExpenseAttachment: temporary, rename, row, commit *)

WriteTemporary(k) ==
    /\ request[k] = "unused"
    /\ ReportOf[k] \in report
    /\ partial' = partial \cup {k}
    /\ request' = [request EXCEPT ![k] = "writing"]
    /\ UNCHANGED <<file, row, report, prune, caught>>

Rename(k) ==
    /\ request[k] = "writing"
    /\ partial' = partial \ {k}
    /\ file' = file \cup {k}
    /\ request' = [request EXCEPT ![k] = "written"]
    /\ caught' = IF prune.at = "read" THEN caught \cup {k} ELSE caught
    /\ UNCHANGED <<row, report, prune>>

\* Mutant of CommitUpload: the row is committed before the file is in place.
CommitUpload_RowFirst(k) ==
    /\ request[k] \in {"writing", "written"}
    /\ ReportOf[k] \in report
    /\ row' = row \cup {k}
    /\ request' = [request EXCEPT ![k] = "done"]
    /\ UNCHANGED <<partial, file, report, prune, caught>>

\* A report deleted in the meantime breaks the row's foreign key.
CommitUpload(k) ==
    /\ request[k] = "written"
    /\ ReportOf[k] \in report
    /\ row' = row \cup {k}
    /\ request' = [request EXCEPT ![k] = "done"]
    /\ UNCHANGED <<partial, file, report, prune, caught>>

\* A rollback, or the process dying: what is on disk stays there.
FailUpload(k) ==
    /\ k \in Uploading
    /\ request' = [request EXCEPT ![k] = "done"]
    /\ UNCHANGED <<partial, file, row, report, prune, caught>>

-----------------------------------------------------------------------------
(* DeleteExpenseAttachment unlinks the file first; DeleteExpenseReport cascades *)

Unlink(k) ==
    /\ k \in row
    /\ request[k] \in {"done", "interrupted"}
    /\ file' = file \ {k}
    /\ request' = [request EXCEPT ![k] = "deleting"]
    /\ UNCHANGED <<partial, row, report, prune, caught>>

CommitDelete(k) ==
    /\ request[k] = "deleting"
    /\ row' = row \ {k}
    /\ request' = [request EXCEPT ![k] = "done"]
    /\ UNCHANGED <<partial, file, report, prune, caught>>

FailDelete(k) ==
    /\ request[k] = "deleting"
    /\ request' = [request EXCEPT ![k] = "interrupted"]
    /\ UNCHANGED <<partial, file, row, report, prune, caught>>

DeleteReport(r) ==
    /\ r \in report
    /\ report' = report \ {r}
    /\ row' = {k \in row : ReportOf[k] # r}
    /\ UNCHANGED <<partial, file, request, prune, caught>>

-----------------------------------------------------------------------------
(* prune-attachments *)

ReadKeys ==
    /\ prune.at = "idle"
    /\ prune' = [at |-> "read", keep |-> row, todo |-> {}]
    /\ caught' = caught \cup {k \in Keys : request[k] = "written"}
    /\ UNCHANGED <<partial, file, row, report, request>>

\* Mutant of ListFiles: nothing is ever unlinked (dry_run left on).
ListFiles_DryRun ==
    /\ prune.at = "read"
    /\ prune' = [prune EXCEPT !.at = "sweep"]
    /\ UNCHANGED <<partial, file, row, report, request, caught>>

\* A temporary's name does not match the key pattern: it is left alone.
ListFiles ==
    /\ prune.at = "read"
    /\ prune' = [prune EXCEPT !.at = "sweep", !.todo = file \ prune.keep]
    /\ UNCHANGED <<partial, file, row, report, request, caught>>

UnlinkOrphan ==
    /\ prune.at = "sweep"
    /\ \E k \in prune.todo :
         /\ file' = file \ {k}
         /\ prune' = [prune EXCEPT !.todo = prune.todo \ {k}]
    /\ UNCHANGED <<partial, row, report, request, caught>>

EndPrune ==
    /\ prune.at = "sweep"
    /\ prune.todo = {}
    /\ prune' = NoPrune
    /\ UNCHANGED <<partial, file, row, report, request, caught>>

-----------------------------------------------------------------------------
Upload(k) == WriteTemporary(k) \/ Rename(k) \/ CommitUpload(k) \/ FailUpload(k)
Delete(k) == Unlink(k) \/ CommitDelete(k) \/ FailDelete(k)
Prune     == ReadKeys \/ ListFiles \/ UnlinkOrphan \/ EndPrune

Next ==
    \/ \E k \in Keys : Upload(k) \/ Delete(k)
    \/ \E r \in Reports : DeleteReport(r)
    \/ Prune

Spec == Init /\ [][Next]_vars

\* A request that has begun ends, in a commit, a rollback or the server's death,
\* and prune runs on a schedule: neither waits for ever.
EndRequest(k) ==
    Rename(k) \/ CommitUpload(k) \/ FailUpload(k) \/ CommitDelete(k) \/ FailDelete(k)

FairSpec ==
    /\ Spec
    /\ \A k \in Keys : WF_vars(EndRequest(k))
    /\ WF_vars(Prune)

-----------------------------------------------------------------------------
(* Properties *)

\* A receipt its owner has not asked to delete can be opened: its row has a file
\* behind it, whatever died or was rolled back.  prune-attachments may run at any time
\* and takes the file of a row in one case only: it read the rows before the upload
\* committed and listed the files after its rename (cli.py:272).
RowsHaveFiles ==
    \A k \in row : k \in file \/ request[k] \in {"deleting", "interrupted"} \/ k \in caught

\* A file that no row refers to is removed in the end: left by a failed upload or
\* by the deletion of its report.
Orphan(k) == k \in file \ row /\ request[k] \in {"done", "interrupted"}

OrphansRemoved == \A k \in Keys : Orphan(k) ~> k \notin file
=============================================================================
