--------------------------- MODULE OverwriteRestore ---------------------------
(***************************************************************************)
(* BackupService.restoreBackup in overwrite mode: the attachments of the   *)
(* archive are written beside the present ones, a staged database is       *)
(* rewritten to the names they got, the live database file is replaced by  *)
(* one rename, and only after the replaced database has been verified are  *)
(* the old attachments deleted.  Any call may throw, the rename may throw  *)
(* after having renamed, the process may die between any two steps.        *)
(*                                                                         *)
(* A ledger (database file) is the function from its rows that have an     *)
(* attachment to the path in their image_path column; the other columns    *)
(* and the relation table do not matter to this protocol.                  *)
(***************************************************************************)
EXTENDS MediaStore

CONSTANTS
    Rows,           \* orders and invoices that have an attachment
    Archives,       \* the backup files the user may pick
    InitialBundles, \* the live databases and attachments there may be at first
    SchemaVersion,  \* AppConstants.databaseVersion
    MaxRestores,    \* bound: restores started
    DeleteMayFail,  \* whether _safeDeleteFile may fail (silently)
    NoFile,         \* there is no such database file
    Corrupt         \* a database file no connection can read

Partial(f, S, T) == DOMAIN f \subseteq S /\ f \in [DOMAIN f -> T]
IsLedger(l) == Partial(l, Rows, Paths)
Ledgers == UNION {[S -> Paths] : S \in SUBSET Rows}

(***************************************************************************)
(* An archive: its attachments by name, the name each row refers to, and   *)
(* the version of its database.                                            *)
(***************************************************************************)
IsArchive(a) ==
    /\ a = [rows |-> a.rows, files |-> a.files, version |-> a.version]
    /\ IsLedger(a.rows)
    /\ Partial(a.files, Paths, Contents)
    /\ a.version \in Nat

(* A database file and the attachment directories at one moment. *)
IsBundle(b) ==
    /\ b = [live |-> b.live, media |-> b.media]
    /\ b.live = Corrupt \/ IsLedger(b.live)
    /\ b.media \in Files

ASSUME RestoreAssumption ==
    /\ \A a \in Archives : IsArchive(a)
    /\ \A b \in InitialBundles : IsBundle(b) /\ b.live # Corrupt
    /\ SchemaVersion \in Nat
    /\ MaxRestores \in Nat
    /\ DeleteMayFail \in BOOLEAN
    /\ NoFile \notin Ledgers
    /\ Corrupt \notin Ledgers
    /\ NoFile # Corrupt

VARIABLES
    media,          \* the attachment directories
    live,           \* receipt_tamer.db
    staged,         \* receipt_tamer.db.restore_new_<token>
    rollback,       \* receipt_tamer.db.restore_old_<token>
    strays,         \* such copies of earlier restores that nothing deleted
    sidecar,        \* the database whose -journal/-wal/-shm file stands
                    \* beside the live file: none, live, replaced
    conn,           \* DatabaseHelper holds an open connection
    pc,             \* the statement _restoreOverwrite has reached
    archive,        \* prepared: the validated archive
    listed,         \* oldImageFiles, oldPdfFiles
    dest,           \* imagePaths, pdfPaths: archive name -> path it got
    created,        \* createdMediaFiles
    commitState,    \* databaseCommitState
    result,         \* the BackupResult reported
    base,           \* history: live and media when the restore started
    renamed,        \* history: this restore has renamed the staged file
    starts          \* restores started, for MaxRestores

fileVars == <<media, live, staged, rollback, strays, sidecar>>
runVars == <<archive, listed, dest, created, commitState, result>>
histVars == <<base, renamed, starts>>
vars == <<media, live, staged, rollback, strays, sidecar, conn, pc,
          archive, listed, dest, created, commitState, result,
          base, renamed, starts>>

(***************************************************************************)
(* _prepareBackup: every reference of the archived database names a        *)
(* non-empty file of the archive (_validateArchiveMediaReferences), and    *)
(* the database is not newer than the application.                         *)
(***************************************************************************)
Restorable(a) ==
    /\ \A r \in DOMAIN a.rows :
          /\ a.rows[r] \in DOMAIN a.files
          /\ a.files[a.rows[r]] # Empty
    /\ a.version <= SchemaVersion

(* _validateRestoredMediaFiles *)
AttachmentsPresent(ledger) == \A r \in DOMAIN ledger : NonEmpty(media, ledger[r])

(* _safeDeleteFile: a failure is logged and otherwise ignored. *)
AfterDelete(f, gone) == IF DeleteMayFail THEN {f, gone} ELSE {gone}

Init ==
    /\ base \in InitialBundles
    /\ media = base.media
    /\ live = base.live
    /\ staged = NoFile
    /\ rollback = NoFile
    /\ strays = {}
    /\ sidecar = "none"
    /\ conn = TRUE
    /\ pc = "idle"
    /\ archive \in {a \in Archives : Restorable(a)}
    /\ listed = {}
    /\ dest = << >>
    /\ created = {}
    /\ commitState = "notCommitted"
    /\ result = "none"
    /\ renamed = FALSE
    /\ starts = 0

(***************************************************************************)
(* A call of restoreBackup.  The token in the names of the two copies is   *)
(* new, so copies that an earlier restore left behind become strays.       *)
(***************************************************************************)
Call ==
    /\ pc = "idle"
    /\ strays' = strays \union ({staged, rollback} \ {NoFile})
    /\ staged' = NoFile
    /\ rollback' = NoFile
    /\ commitState' = "notCommitted"
    /\ base' = [live |-> live, media |-> media]
    /\ renamed' = FALSE

(* _prepareBackup throws or canRestore is false: nothing is touched. *)
Reject(a) ==
    /\ Call
    /\ ~Restorable(a)
    /\ result' = "failure"
    /\ UNCHANGED <<media, live, sidecar, conn, pc, archive, listed, dest, created, starts>>

Start(a) ==
    /\ Call
    /\ Restorable(a)
    /\ starts < MaxRestores
    /\ starts' = starts + 1
    /\ pc' = "media"
    /\ archive' = a
    /\ listed' = {p \in Paths : Exists(media, p)}
    /\ dest' = << >>
    /\ created' = {}
    /\ result' = "none"
    /\ UNCHANGED <<media, live, sidecar, conn>>

(* A bug: a file that was there already is recorded as created. *)
RestoreFileRecordsAll(n) ==
    /\ pc = "media"
    /\ n \in DOMAIN archive.files \ DOMAIN dest
    /\ \E d \in Destinations(media, n, archive.files[n]) :
          /\ media' = [media EXCEPT ![d] = archive.files[n]]
          /\ created' = created \union {d}
          /\ dest' = Extend(dest, n, d)
    /\ UNCHANGED <<live, staged, rollback, strays, sidecar, conn, pc,
                   archive, listed, commitState, result, histVars>>

(***************************************************************************)
(* One iteration of _restoreMediaIncrementally.  The code takes the names  *)
(* of images/ and then of pdfs/ in sorted order; the order is left open.   *)
(***************************************************************************)
RestoreFile(n) ==
    /\ pc = "media"
    /\ n \in DOMAIN archive.files \ DOMAIN dest
    /\ \E d \in Destinations(media, n, archive.files[n]) :
          /\ media' = [media EXCEPT ![d] = archive.files[n]]
          /\ created' = IF Exists(media, d) THEN created ELSE created \union {d}
          /\ dest' = Extend(dest, n, d)
    /\ UNCHANGED <<live, staged, rollback, strays, sidecar, conn, pc,
                   archive, listed, commitState, result, histVars>>

(* writeAsBytes creates the file, then fails: it never reaches created. *)
RestoreFileFails(n) ==
    /\ pc = "media"
    /\ n \in DOMAIN archive.files \ DOMAIN dest
    /\ \E d \in Destinations(media, n, archive.files[n]) :
          /\ ~Exists(media, d)
          /\ media' = [media EXCEPT ![d] = Torn]
    /\ pc' = "undo"
    /\ UNCHANGED <<live, staged, rollback, strays, sidecar, conn, runVars, histVars>>

StageDatabase ==
    /\ pc = "media"
    /\ DOMAIN dest = DOMAIN archive.files
    /\ staged' = archive.rows
    /\ pc' = "rewrite"
    /\ UNCHANGED <<media, live, rollback, strays, sidecar, conn, runVars, histVars>>

StageDatabaseFails ==
    /\ pc = "media"
    /\ DOMAIN dest = DOMAIN archive.files
    /\ staged' \in {NoFile, Corrupt}
    /\ pc' = "undo"
    /\ UNCHANGED <<media, live, rollback, strays, sidecar, conn, runVars, histVars>>

(* _rewritePreparedMediaPaths, one transaction on the staged file. *)
RewritePaths ==
    /\ pc = "rewrite"
    /\ staged' = [r \in DOMAIN staged |-> dest[staged[r]]]
    /\ pc' = "recheck"
    /\ UNCHANGED <<media, live, rollback, strays, sidecar, conn, runVars, histVars>>

RecheckStaged ==
    /\ pc = "recheck"
    /\ pc' = IF AttachmentsPresent(staged) THEN "close" ELSE "undo"
    /\ UNCHANGED <<fileVars, conn, runVars, histVars>>

(* Closing may leave a sidecar behind. *)
CloseLive ==
    /\ pc = "close"
    /\ conn' = FALSE
    /\ sidecar' \in {"none", "live"}
    /\ pc' = "sidecars"
    /\ UNCHANGED <<media, live, staged, rollback, strays, runVars, histVars>>

(* A bug: the sidecars stay. *)
KeepSidecars ==
    /\ pc = "sidecars"
    /\ pc' = "keep"
    /\ UNCHANGED <<fileVars, conn, runVars, histVars>>

(* _deleteDatabaseSidecarsStrict *)
DeleteSidecars ==
    /\ pc = "sidecars"
    /\ sidecar' = "none"
    /\ pc' = "keep"
    /\ UNCHANGED <<media, live, staged, rollback, strays, conn, runVars, histVars>>

KeepRollback ==
    /\ pc = "keep"
    /\ rollback' = live
    /\ pc' = "inspect"
    /\ UNCHANGED <<media, live, staged, strays, sidecar, conn, runVars, histVars>>

KeepRollbackFails ==
    /\ pc = "keep"
    /\ rollback' \in {NoFile, Corrupt}
    /\ pc' = "undo"
    /\ UNCHANGED <<media, live, staged, strays, sidecar, conn, runVars, histVars>>

InspectRollback ==
    /\ pc = "inspect"
    /\ pc' = IF rollback = Corrupt THEN "undo" ELSE "swap"
    /\ UNCHANGED <<fileVars, conn, runVars, histVars>>

(* An exception before the replacement leaves the files as they are. *)
Throw ==
    /\ pc \in {"media", "rewrite", "recheck", "close", "sidecars", "inspect"}
    /\ pc' = "undo"
    /\ UNCHANGED <<fileVars, conn, runVars, histVars>>

(* A bug: only the live file is asked for. *)
DetectedFromLive(stagedExists, liveExists) ==
    {"unknown", IF liveExists THEN "committed" ELSE "unknown"}

(***************************************************************************)
(* _detectDatabaseReplacementCommitState after the rename threw: which of  *)
(* the two files exist tells, unless asking throws as well.                *)
(***************************************************************************)
DetectedStates(stagedExists, liveExists) ==
    {"unknown",
     IF liveExists THEN IF stagedExists THEN "notCommitted" ELSE "committed"
                   ELSE "unknown"}

(* A bug: an unknown state is cleaned up like a failure before the commit. *)
UndoUnlessCommitted(state) ==
    IF state = "committed" THEN "reopen" ELSE "undo"

(* The branch of the catch block, or the statement after the replacement. *)
AfterDetection(state) ==
    CASE state = "committed" -> "reopen"
      [] state = "notCommitted" -> "undo"
      [] state = "unknown" -> "report"

(* The rename of the staged file over the live one, the commit point. *)
Replace ==
    /\ pc = "swap"
    /\ live' = staged
    /\ staged' = NoFile
    /\ sidecar' = IF sidecar = "live" THEN "replaced" ELSE sidecar
    /\ renamed' = TRUE
    /\ commitState' \in {"committed"} \union DetectedStates(FALSE, TRUE)
    /\ pc' = AfterDetection(commitState')
    /\ UNCHANGED <<media, rollback, strays, conn, archive, listed,
                   dest, created, result, base, starts>>

ReplaceFails ==
    /\ pc = "swap"
    /\ commitState' \in DetectedStates(staged # NoFile, live # NoFile)
    /\ pc' = AfterDetection(commitState')
    /\ UNCHANGED <<fileVars, conn, archive, listed, dest, created, result, histVars>>

(***************************************************************************)
(* Opening the live file applies a sidecar found beside it.  One that was  *)
(* left by the database that has been replaced ruins the new one.          *)
(***************************************************************************)
OpenLive ==
    /\ conn' = TRUE
    /\ sidecar' = "none"
    /\ live' = IF sidecar = "replaced" THEN Corrupt ELSE live

ReopenReplaced ==
    /\ pc = "reopen"
    /\ OpenLive
    /\ pc' = "verify"
    /\ UNCHANGED <<media, staged, rollback, strays, runVars, histVars>>

(* _inspectDatabase and _validateRestoredMediaFiles on the live file. *)
VerifyReplaced ==
    /\ pc = "verify"
    /\ pc' = IF live # Corrupt /\ AttachmentsPresent(live) THEN "sweep" ELSE "report"
    /\ UNCHANGED <<fileVars, conn, runVars, histVars>>

(* Reopening or verifying throws after the commit: everything is kept. *)
ThrowAfterCommit ==
    /\ pc \in {"reopen", "verify"}
    /\ pc' = "report"
    /\ UNCHANGED <<fileVars, conn, runVars, histVars>>

(* A bug: the names in the archive are retained, not the paths they got. *)
RetainedByName == DOMAIN dest

(* retainedImagePaths, retainedPdfPaths *)
Retained == {dest[n] : n \in DOMAIN dest}

(* _deleteUnretainedMediaFiles, one file of the old lists at a time. *)
DeleteOldFile(p) ==
    /\ pc = "sweep"
    /\ p \in listed \ Retained
    /\ listed' = listed \ {p}
    /\ \E content \in AfterDelete(media[p], Absent) :
          media' = [media EXCEPT ![p] = content]
    /\ UNCHANGED <<live, staged, rollback, strays, sidecar, conn, pc, archive,
                   dest, created, commitState, result, histVars>>

DropRollback ==
    /\ pc = "sweep"
    /\ listed \subseteq Retained
    /\ rollback' \in AfterDelete(rollback, NoFile)
    /\ pc' = "succeeded"
    /\ UNCHANGED <<media, live, staged, strays, sidecar, conn, runVars, histVars>>

(* The finally block, and the report of success. *)
ReportSuccess ==
    /\ pc = "succeeded"
    /\ staged' \in AfterDelete(staged, NoFile)
    /\ rollback' \in AfterDelete(rollback, NoFile)
    /\ result' = "success"
    /\ pc' = "idle"
    /\ UNCHANGED <<media, live, strays, sidecar, conn, archive, listed, dest,
                   created, commitState, histVars>>

(* The catch block after a commit, or when its state is unknown. *)
ReportKept ==
    /\ pc = "report"
    /\ \/ conn = FALSE /\ OpenLive
       \/ UNCHANGED <<conn, sidecar, live>>
    /\ staged' \in IF commitState = "unknown" THEN {staged}
                                              ELSE AfterDelete(staged, NoFile)
    /\ result' = "failure"
    /\ pc' = "idle"
    /\ UNCHANGED <<media, rollback, strays, archive, listed, dest, created,
                   commitState, histVars>>

(* The catch block before the commit: reopen if closed, ... *)
ReopenOld ==
    /\ pc = "undo"
    /\ \/ conn = FALSE /\ OpenLive
       \/ UNCHANGED <<conn, sidecar, live>>
    /\ pc' = "undoMedia"
    /\ UNCHANGED <<media, staged, rollback, strays, runVars, histVars>>

(* A bug: the list of created files is walked without being consumed. *)
DeleteCreatedAgain(p) ==
    /\ pc = "undoMedia"
    /\ p \in created
    /\ \E content \in AfterDelete(media[p], Absent) :
          media' = [media EXCEPT ![p] = content]
    /\ UNCHANGED <<live, staged, rollback, strays, sidecar, conn, pc, runVars, histVars>>

(* ... delete what was created, in reverse order (left open here), ... *)
DeleteCreated(p) ==
    /\ pc = "undoMedia"
    /\ p \in created
    /\ created' = created \ {p}
    /\ \E content \in AfterDelete(media[p], Absent) :
          media' = [media EXCEPT ![p] = content]
    /\ UNCHANGED <<live, staged, rollback, strays, sidecar, conn, pc, archive,
                   listed, dest, commitState, result, histVars>>

(* A bug: the rollback copy is deleted after a success only. *)
ReportUndoneKeepsRollback ==
    /\ pc = "undoMedia"
    /\ created = {}
    /\ staged' \in AfterDelete(staged, NoFile)
    /\ result' = "failure"
    /\ pc' = "idle"
    /\ UNCHANGED <<media, live, rollback, strays, sidecar, conn, archive, listed,
                   dest, created, commitState, histVars>>

(* ... and in the finally block both database copies. *)
ReportUndone ==
    /\ pc = "undoMedia"
    /\ created = {}
    /\ staged' \in AfterDelete(staged, NoFile)
    /\ rollback' \in AfterDelete(rollback, NoFile)
    /\ result' = "failure"
    /\ pc' = "idle"
    /\ UNCHANGED <<media, live, strays, sidecar, conn, archive, listed, dest,
                   created, commitState, histVars>>

(***************************************************************************)
(* The process dies: the files stay, the connection is lost, and whatever  *)
(* write was under way is torn.                                            *)
(***************************************************************************)
Crash ==
    /\ pc # "idle"
    /\ pc' = "idle"
    /\ conn' = FALSE
    /\ sidecar' \in IF conn THEN {"none", "live"} ELSE {sidecar}
    /\ \/ UNCHANGED <<media, staged, rollback>>
       \/ /\ pc = "media"
          /\ \E n \in DOMAIN archive.files \ DOMAIN dest :
             \E d \in Destinations(media, n, archive.files[n]) :
                /\ ~Exists(media, d)
                /\ media' = [media EXCEPT ![d] = Torn]
          /\ UNCHANGED <<staged, rollback>>
       \/ /\ pc = "media"
          /\ DOMAIN dest = DOMAIN archive.files
          /\ staged' = Corrupt
          /\ UNCHANGED <<media, rollback>>
       \/ /\ pc = "keep"
          /\ rollback' = Corrupt
          /\ UNCHANGED <<media, staged>>
    /\ UNCHANGED <<live, strays, runVars, histVars>>

(* The next use of DatabaseHelper.database opens a closed database. *)
Reopen ==
    /\ pc = "idle"
    /\ ~conn
    /\ OpenLive
    /\ UNCHANGED <<media, staged, rollback, strays, pc, runVars, histVars>>

(* The statements of a restore that has started. *)
Step ==
    \/ \E n \in Paths : RestoreFile(n) \/ RestoreFileFails(n)
    \/ StageDatabase \/ StageDatabaseFails
    \/ RewritePaths \/ RecheckStaged
    \/ CloseLive \/ DeleteSidecars
    \/ KeepRollback \/ KeepRollbackFails \/ InspectRollback
    \/ Throw
    \/ Replace \/ ReplaceFails
    \/ ReopenReplaced \/ VerifyReplaced \/ ThrowAfterCommit
    \/ \E p \in Paths : DeleteOldFile(p) \/ DeleteCreated(p)
    \/ DropRollback \/ ReportSuccess
    \/ ReportKept \/ ReopenOld \/ ReportUndone

Next ==
    \/ \E a \in Archives : Start(a) \/ Reject(a)
    \/ Step
    \/ Crash
    \/ Reopen

Spec == Init /\ [][Next]_vars

(* The event loop runs every pending continuation: a started restore goes  *)
(* on, step by step, unless the process dies.                              *)
FairSpec == Spec /\ WF_vars(Step)

-------------------------------------------------------------------------------

InProgress == pc # "idle"

PCs == {"idle", "media", "rewrite", "recheck", "close", "sidecars", "keep",
        "inspect", "swap", "reopen", "verify", "sweep", "succeeded", "report",
        "undo", "undoMedia"}

BeforeCommit == {"media", "rewrite", "recheck", "close", "sidecars", "keep",
                 "inspect", "swap", "undo", "undoMedia"}

TypeOK ==
    /\ media \in Files
    /\ live = Corrupt \/ IsLedger(live)
    /\ staged \in {NoFile, Corrupt} \/ IsLedger(staged)
    /\ rollback \in {NoFile, Corrupt} \/ IsLedger(rollback)
    /\ \A l \in strays : l = Corrupt \/ IsLedger(l)
    /\ sidecar \in {"none", "live", "replaced"}
    /\ conn \in BOOLEAN
    /\ pc \in PCs
    /\ archive \in Archives
    /\ listed \subseteq Paths
    /\ Partial(dest, Paths, Paths)
    /\ created \subseteq Paths
    /\ commitState \in {"notCommitted", "committed", "unknown"}
    /\ result \in {"none", "success", "failure"}
    /\ IsBundle(base)
    /\ renamed \in BOOLEAN
    /\ starts \in Nat

(***************************************************************************)
(* Until the rename the user's data are what they were: the live database  *)
(* is the one the restore found, and every attachment it found is there    *)
(* with the bytes it had, through failures, their clean-up and crashes.    *)
(***************************************************************************)
OldBundleUntilCommit ==
    ~renamed =>
        /\ live = base.live
        /\ \A p \in Paths : Exists(base.media, p) => media[p] = base.media[p]

(***************************************************************************)
(* From the rename on the user's data are exactly the archive's: every row *)
(* of the archived database, and the attachment it refers to holds the     *)
(* bytes the archive has for it, whatever name it had to be written under. *)
(***************************************************************************)
NewBundleAfterCommit ==
    renamed =>
        /\ live # Corrupt
        /\ View(live, media) =
              [r \in DOMAIN archive.rows |-> archive.files[archive.rows[r]]]

(***************************************************************************)
(* What the catch block believes about the commit is never wrong; where it *)
(* cannot know, it says unknown.                                           *)
(***************************************************************************)
CommitStateSound ==
    /\ commitState = "committed" => renamed
    /\ InProgress /\ renamed => commitState \in {"committed", "unknown"}
    /\ result = "success" => renamed

(***************************************************************************)
(* As long as the new database has not passed its verification, and when a *)
(* restore ends without having passed it, the old bundle can be had back:  *)
(* its database is live or in the rollback copy, its attachments are       *)
(* untouched.                                                              *)
(***************************************************************************)
OldBundleRecoverable ==
    (pc \in {"reopen", "verify", "report"} \/ result = "failure") =>
        /\ base.live \in {live, rollback}
        /\ \A p \in Paths : Exists(base.media, p) => media[p] = base.media[p]

(***************************************************************************)
(* A restore that reports a failure from before the commit leaves no copy  *)
(* of a database behind (when files can be deleted).                       *)
(***************************************************************************)
FailureLeavesNoCopies ==
    ~DeleteMayFail /\ result = "failure" /\ commitState = "notCommitted"
        => staged = NoFile /\ rollback = NoFile

(***************************************************************************)
(* PROCESSING.md:610 says that a failure before the commit cleans up the   *)
(* files this restore added: an attachment there is after such a failure   *)
(* was there before it.                                                    *)
(***************************************************************************)
FailureLeavesNoNewFiles ==
    ~InProgress /\ result = "failure" /\ commitState = "notCommitted" =>
        \A p \in Paths : Exists(media, p) => Exists(base.media, p)

(***************************************************************************)
(* No attachment is overwritten, and none is deleted too early or wrongly: *)
(* a step changes a file by writing one that was not there, or by deleting *)
(* one.  It deletes a file that the restore found only after the rename,   *)
(* when no row of the new database refers to it, and one that the restore  *)
(* did not find, which it wrote itself, only when it is undone.            *)
(***************************************************************************)
NeverOverwrites ==
    [][\A p \in Paths :
          media'[p] # media[p] =>
              \/ ~Exists(media, p)
              \/ /\ ~Exists(media', p)
                 /\ IF Exists(base.media, p)
                    THEN renamed /\ \A r \in DOMAIN live : live[r] # p
                    ELSE ~renamed]_vars

(* A restore that has started ends with a report, unless the process dies. *)
RestoreEnds == InProgress ~> ~InProgress

-------------------------------------------------------------------------------
(***************************************************************************)
(* The inductive invariant: what is true at each statement of the restore. *)
(***************************************************************************)
AfterCommit == {"reopen", "verify", "sweep", "succeeded", "report"}

(* The staged ledger after its paths have been rewritten. *)
Rewritten == [r \in DOMAIN archive.rows |-> dest[archive.rows[r]]]

(* What has been placed stays in place, unless the restore is undone. *)
PlacedInv ==
    /\ Restorable(archive)
    /\ pc \notin {"idle", "undo", "undoMedia"} \/ renamed =>
          \A n \in DOMAIN dest :
             /\ n \in DOMAIN archive.files
             /\ media[dest[n]] = archive.files[n]
    /\ pc \notin {"idle", "media", "undo", "undoMedia"} \/ renamed =>
          DOMAIN dest = DOMAIN archive.files

DatabaseInv ==
    /\ pc = "rewrite" => staged = archive.rows
    /\ pc \in {"recheck", "close", "sidecars", "keep", "inspect", "swap"} =>
          staged = Rewritten
    /\ live = IF renamed THEN Rewritten ELSE base.live
    /\ live # Corrupt
    /\ pc \in {"inspect", "swap", "reopen", "verify", "report"} =>
          rollback = base.live
    /\ sidecar # "replaced"
    /\ pc \in {"keep", "inspect", "swap"} => sidecar = "none"

OldFilesInv ==
    /\ InProgress => \A p \in created : base.media[p] = Absent
    /\ InProgress => \A p \in listed : Exists(base.media, p)
    /\ pc \notin {"sweep", "succeeded"} /\ (~renamed \/ InProgress \/ result = "failure") =>
          \A p \in Paths : Exists(base.media, p) => media[p] = base.media[p]

CommitInv ==
    /\ InProgress => result = "none"
    /\ pc \in BeforeCommit => ~renamed /\ commitState = "notCommitted"
    /\ pc \in AfterCommit \ {"report"} => renamed /\ commitState = "committed"
    /\ pc = "report" => commitState \in {"committed", "unknown"}
    /\ commitState = "committed" => renamed
    /\ result = "success" => renamed
    /\ result = "failure" => base.live \in {live, rollback}

IInv == TypeOK /\ PlacedInv /\ DatabaseInv /\ OldFilesInv /\ CommitInv

-------------------------------------------------------------------------------
(* Every row of a bundle the user starts with has its attachment. *)
BundlesComplete ==
    \A b \in InitialBundles : \A r \in DOMAIN b.live : Exists(b.media, b.live[r])

(* The promise of the restore, see AtomicRestore. *)
Visible(ledger, files) == IF ledger = Corrupt THEN Corrupt ELSE View(ledger, files)
Contract == INSTANCE AtomicRestore WITH
    Views <- {View(b.live, b.media) : b \in InitialBundles},
    Bundles <- {[r \in DOMAIN a.rows |-> a.files[a.rows[r]]] :
                   a \in {x \in Archives : Restorable(x)}},
    view <- Visible(live, media),
    running <- InProgress,
    goal <- [r \in DOMAIN archive.rows |-> archive.files[archive.rows[r]]],
    replaced <- renamed,
    result <- result
ImplementsContract == Contract!Spec
===============================================================================
