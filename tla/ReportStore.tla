---------------------------- MODULE ReportStore -----------------------------
(***************************************************************************)
(* What happens to the logs on disk: a log that is appended to and moved   *)
(* to a bucket when it is old (archiver.ts), in a directory that is backed *)
(* up and restored (backup.ts).  Each is a process of its own and can die  *)
(* between two of its steps.                                               *)
(*                                                                         *)
(* The log is one file whose name does not change (relay-events.log,       *)
(* oncall-pages.log), a set of the numbers of its lines.  stale says that  *)
(* its mtime is beyond the retention.                                      *)
(***************************************************************************)
EXTENDS Integers, FiniteSets

CONSTANT
    MaxLines            \* bound on the lines written

ASSUME StoreAssumption == MaxLines \in Nat

VARIABLES
    lines,              \* number of lines written so far
    log,                \* the lines of the log
    stale,
    bucket,             \* the lines of the object under the log's key
    archiver,           \* "idle", "old", "sending", "sent"
    upload,             \* the lines the upload has read
    backup,             \* the lines of the backup
    copying,            \* "no", "backup", "restore"
    overtaken,          \* history: lines unlinked that the upload had not read
    replaced,           \* history: lines of an object another one replaced
    discarded,          \* history: lines a restore took away that the backup lacked
    torn                \* history: lines a restore that died left in the backup only

storeVars == <<lines, log, stale, bucket, archiver, upload, backup, copying,
               overtaken, replaced, discarded, torn>>

StoreInit ==
    /\ lines = 0 /\ log = {} /\ stale = FALSE
    /\ bucket = {} /\ archiver = "idle" /\ upload = {}
    /\ backup = {} /\ copying = "no"
    /\ overtaken = {} /\ replaced = {} /\ discarded = {} /\ torn = {}

-----------------------------------------------------------------------------
(* The log: external, whoever calls appendFile(). *)
AppendLine ==
    /\ lines < MaxLines
    /\ lines' = lines + 1
    /\ log' = log \union {lines + 1}
    /\ stale' = FALSE
    /\ UNCHANGED <<bucket, archiver, upload, backup, copying,
                   overtaken, replaced, discarded, torn>>

GrowsOld ==
    /\ log # {} /\ ~stale
    /\ stale' = TRUE
    /\ UNCHANGED <<lines, log, bucket, archiver, upload, backup, copying,
                   overtaken, replaced, discarded, torn>>

(* archiveDirectory(): stat() finds the file beyond the cutoff. *)
FindOld ==
    /\ archiver = "idle" /\ stale /\ log # {}
    /\ archiver' = "old"
    /\ UNCHANGED <<lines, log, stale, bucket, upload, backup, copying,
                   overtaken, replaced, discarded, torn>>

(* archiveFile(): the stream reads the file, if it is still there. *)
ReadForUpload ==
    /\ archiver = "old" /\ log # {}
    /\ upload' = log
    /\ archiver' = "sending"
    /\ UNCHANGED <<lines, log, stale, bucket, backup, copying,
                   overtaken, replaced, discarded, torn>>

\* Slip: the file is removed while the upload is under way.
MayUnlinkEarly == archiver \in {"sending", "sent"}

MayUnlink == archiver = "sent"

(* send() has returned: the object under the key of that name is replaced. *)
Uploaded ==
    /\ archiver = "sending"
    /\ bucket' = upload
    /\ replaced' = replaced \union (bucket \ upload)
    /\ archiver' = "sent"
    /\ UNCHANGED <<lines, log, stale, upload, backup, copying, overtaken, discarded, torn>>

(* unlink() of the local copy, as it is by now. *)
Unlink ==
    /\ MayUnlink
    /\ overtaken' = overtaken \union (log \ upload)
    /\ log' = {} /\ stale' = FALSE
    /\ archiver' = "idle"
    /\ UNCHANGED <<lines, bucket, upload, backup, copying, replaced, discarded, torn>>

(* An upload that fails, or a process that dies, leaves the file. *)
ArchiverStops ==
    /\ archiver # "idle"
    /\ archiver' = "idle"
    /\ UNCHANGED <<lines, log, stale, bucket, upload, backup, copying,
                   overtaken, replaced, discarded, torn>>

-----------------------------------------------------------------------------
(* copyDirectory(): the destination is removed, then written; the process  *)
(* may die in between.  backupLogs() copies the directory to the backup,   *)
(* with --dry-run also.                                                    *)
BeginBackup ==
    /\ copying = "no"
    /\ copying' = "backup"
    /\ backup' = {}
    /\ UNCHANGED <<lines, log, stale, bucket, archiver, upload,
                   overtaken, replaced, discarded, torn>>

EndBackup ==
    /\ copying = "backup"
    /\ backup' = log
    /\ copying' = "no"
    /\ UNCHANGED <<lines, log, stale, bucket, archiver, upload,
                   overtaken, replaced, discarded, torn>>

(* restoreLogs() copies whatever is in the backup over the directory. *)
BeginRestore ==
    /\ copying = "no"
    /\ copying' = "restore"
    /\ discarded' = discarded \union (log \ backup)
    /\ log' = {} /\ stale' = FALSE
    /\ UNCHANGED <<lines, bucket, archiver, upload, backup, overtaken, replaced, torn>>

EndRestore ==
    /\ copying = "restore"
    /\ discarded' = discarded \union (log \ backup)
    /\ log' = backup /\ stale' = FALSE
    /\ copying' = "no"
    /\ UNCHANGED <<lines, bucket, archiver, upload, backup, overtaken, replaced, torn>>

CopyDies ==
    /\ copying # "no"
    /\ copying' = "no"
    /\ torn' = IF copying = "restore" THEN torn \union (backup \ log) ELSE torn
    /\ UNCHANGED <<lines, log, stale, bucket, archiver, upload, backup,
                   overtaken, replaced, discarded>>

StoreNext ==
    \/ AppendLine \/ GrowsOld
    \/ FindOld \/ ReadForUpload \/ Uploaded \/ Unlink \/ ArchiverStops
    \/ BeginBackup \/ EndBackup \/ BeginRestore \/ EndRestore \/ CopyDies

StoreSpec == StoreInit /\ [][StoreNext]_storeVars

-----------------------------------------------------------------------------
(* No line is lost by a step that fails or a process that dies: a line     *)
(* written is in the log or in the bucket, but for the losses the code     *)
(* allows: a line that came to the log after the upload read it, an object *)
(* replaced by the next one of the same name, a line newer than the backup *)
(* that was restored, and what a restore that died did not bring back.     *)
(* Only while a restore is under way is the backup the one place of a      *)
(* line; a backup, which removes its destination first, may therefore die  *)
(* anywhere and lose nothing that is not lost otherwise.                   *)
LinesAccounted ==
    1 .. lines \subseteq log \union bucket \union overtaken \union replaced
                        \union discarded \union torn
                        \union (IF copying = "restore" THEN backup ELSE {})
=============================================================================
