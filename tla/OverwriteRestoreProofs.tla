------------------------ MODULE OverwriteRestoreProofs ------------------------
(***************************************************************************)
(* Proofs about OverwriteRestore for all paths, contents, rows, archives   *)
(* and initial bundles.                                                    *)
(***************************************************************************)
EXTENDS OverwriteRestore, TLAPS

USE ContentsAssumption, AlternativesAssumption, RestoreAssumption

(***************************************************************************)
(* A destination is a path at which nothing, or exactly the content to be  *)
(* written, is found.                                                      *)
(***************************************************************************)
LEMMA DestinationUsable ==
    ASSUME NEW m, NEW p \in Paths, NEW c \in Contents,
           NEW d \in Destinations(m, p, c)
    PROVE  d \in Paths /\ m[d] \in {Absent, c}
<1>1. Alternatives[<<p, c>>] \in Seq(Paths)
  BY AlternativesAssumption
<1>2. PICK k \in DOMAIN Alternatives[<<p, c>>] :
        d = Alternatives[<<p, c>>][k] /\ Usable(m, Alternatives[<<p, c>>][k], c)
  BY DEF Destinations
<1>3. Alternatives[<<p, c>>][k] \in Paths
  BY <1>1
<1> QED
  BY <1>2, <1>3 DEF Usable

(* What a step of the restore may rely on about the archive in use. *)
LEMMA ArchiveTyped ==
    ASSUME NEW a \in Archives
    PROVE  /\ DOMAIN a.rows \subseteq Rows
           /\ \A r \in DOMAIN a.rows : a.rows[r] \in Paths
           /\ DOMAIN a.files \subseteq Paths
           /\ \A n \in DOMAIN a.files : a.files[n] \in Contents
           /\ IsLedger(a.rows)
BY DEF IsArchive, IsLedger, Partial

LEMMA LedgerNotMarker ==
    ASSUME NEW l, IsLedger(l)
    PROVE  l # NoFile /\ l # Corrupt
<1>1. l \in Ledgers
  BY DEF IsLedger, Partial, Ledgers
<1> QED
  BY <1>1

(* The staged ledger is one whose rows refer to paths. *)
LEMMA RewrittenIsLedger ==
    ASSUME TypeOK, Restorable(archive), DOMAIN dest = DOMAIN archive.files
    PROVE  IsLedger(Rewritten)
<1>1. \A n \in DOMAIN dest : dest[n] \in Paths
  BY DEF TypeOK, Partial
<1>2. \A r \in DOMAIN archive.rows : dest[archive.rows[r]] \in Paths
  BY <1>1 DEF Restorable
<1> QED
  BY <1>2, ArchiveTyped DEF TypeOK, Rewritten, IsLedger, Partial

-------------------------------------------------------------------------------
(* The initial states satisfy the inductive invariant. *)
LEMMA InitEstablishes == Init => IInv
<1> SUFFICES ASSUME Init PROVE IInv
  OBVIOUS
<1>1. IsBundle(base) /\ base.live # Corrupt
  BY DEF Init
<1>2. Partial(dest, Paths, Paths)
  BY DEF Init, Partial
<1>3. TypeOK
  BY <1>1, <1>2 DEF Init, TypeOK, IsBundle, PCs
<1>4. PlacedInv /\ DatabaseInv
  BY <1>1 DEF Init, PlacedInv, DatabaseInv
<1>5. OldFilesInv /\ CommitInv
  BY <1>1 DEF Init, OldFilesInv, CommitInv, InProgress, BeforeCommit, AfterCommit
<1> QED
  BY <1>3, <1>4, <1>5 DEF IInv

(* A step keeps the types. *)
LEMMA TypeStep ==
    ASSUME IInv, [Next]_vars
    PROVE  TypeOK'
<1> USE DEF fileVars, runVars, histVars
<1> USE DEF IInv
<1>1. ASSUME NEW a \in Archives, Start(a)
      PROVE  TypeOK'
  <2>1. Partial(dest', Paths, Paths)
    BY <1>1 DEF Start, Partial
  <2>2. IsBundle(base')
    BY <1>1 DEF Start, Call, TypeOK, IsBundle
  <2>3. \A l \in strays' : l = Corrupt \/ IsLedger(l)
    BY <1>1 DEF Start, Call, TypeOK
  <2>4. listed' \subseteq Paths /\ starts' \in Nat /\ pc' \in PCs
    BY <1>1 DEF Start, TypeOK, PCs
  <2> QED
    BY <1>1, <2>1, <2>2, <2>3, <2>4 DEF Start, Call, TypeOK
<1>2. ASSUME NEW a \in Archives, Reject(a)
      PROVE  TypeOK'
  BY <1>2 DEF Reject, Call, TypeOK, PCs, IsBundle
<1>3. ASSUME NEW n \in Paths, RestoreFile(n)
      PROVE  TypeOK'
  <2>1. archive.files[n] \in Contents
    BY <1>3, ArchiveTyped DEF RestoreFile, TypeOK
  <2>2. PICK d \in Destinations(media, n, archive.files[n]) :
          /\ media' = [media EXCEPT ![d] = archive.files[n]]
          /\ created' = IF Exists(media, d) THEN created ELSE created \union {d}
          /\ dest' = Extend(dest, n, d)
    BY <1>3 DEF RestoreFile
  <2>3. d \in Paths
    BY <2>1, <2>2, DestinationUsable
  <2>4. media' \in Files
    BY <2>1, <2>2, <2>3 DEF TypeOK, Files
  <2>5. created' \subseteq Paths
    BY <2>2, <2>3 DEF TypeOK
  <2>6. Partial(dest', Paths, Paths)
    BY <2>2, <2>3 DEF TypeOK, Extend, Partial
  <2> QED
    BY <1>3, <2>4, <2>5, <2>6 DEF RestoreFile, TypeOK, IsBundle
<1>4. ASSUME NEW n \in Paths, RestoreFileFails(n)
      PROVE  TypeOK'
  <2>1. archive.files[n] \in Contents
    BY <1>4, ArchiveTyped DEF RestoreFileFails, TypeOK
  <2>2. PICK d \in Destinations(media, n, archive.files[n]) :
          media' = [media EXCEPT ![d] = Torn]
    BY <1>4 DEF RestoreFileFails
  <2>3. media' \in Files
    BY <2>1, <2>2, DestinationUsable DEF TypeOK, Files
  <2> QED
    BY <1>4, <2>3 DEF RestoreFileFails, TypeOK, PCs, IsBundle
<1>5. CASE StageDatabase
  BY <1>5, ArchiveTyped DEF StageDatabase, TypeOK, PCs, IsBundle
<1>6. CASE StageDatabaseFails
  BY <1>6 DEF StageDatabaseFails, TypeOK, PCs, IsBundle
<1>7. CASE RewritePaths
  <2>1. staged' = Rewritten
    BY <1>7 DEF RewritePaths, DatabaseInv, Rewritten
  <2>2. IsLedger(staged')
    BY <1>7, <2>1, RewrittenIsLedger DEF RewritePaths, PlacedInv
  <2> QED
    BY <1>7, <2>2 DEF RewritePaths, TypeOK, PCs, IsBundle
<1>8. CASE RecheckStaged
  BY <1>8 DEF RecheckStaged, TypeOK, PCs, IsBundle
<1>9. CASE CloseLive
  BY <1>9 DEF CloseLive, TypeOK, PCs, IsBundle
<1>10. CASE DeleteSidecars
  BY <1>10 DEF DeleteSidecars, TypeOK, PCs, IsBundle
<1>11. CASE KeepRollback
  BY <1>11 DEF KeepRollback, TypeOK, PCs, IsBundle
<1>12. CASE KeepRollbackFails
  BY <1>12 DEF KeepRollbackFails, TypeOK, PCs, IsBundle
<1>13. CASE InspectRollback
  BY <1>13 DEF InspectRollback, TypeOK, PCs, IsBundle
<1>14. CASE Throw
  BY <1>14 DEF Throw, TypeOK, PCs, IsBundle
<1>15. CASE Replace
  <2>1. IsLedger(staged)
    BY <1>15, RewrittenIsLedger DEF Replace, DatabaseInv, PlacedInv
  <2>2. staged # NoFile /\ staged # Corrupt /\ live # NoFile
    BY <2>1, LedgerNotMarker DEF TypeOK
  <2>3. commitState' \in {"notCommitted", "committed", "unknown"}
    BY <1>15 DEF Replace, DetectedStates
  <2>4. pc' \in PCs
    BY <1>15, <2>3 DEF Replace, AfterDetection, PCs
  <2> QED
    BY <1>15, <2>1, <2>2, <2>3, <2>4 DEF Replace, TypeOK, IsBundle
<1>16. CASE ReplaceFails
  <2>1. IsLedger(staged)
    BY <1>16, RewrittenIsLedger DEF ReplaceFails, DatabaseInv, PlacedInv
  <2>2. staged # NoFile /\ staged # Corrupt /\ live # NoFile
    BY <2>1, LedgerNotMarker DEF TypeOK
  <2>3. commitState' \in {"notCommitted", "committed", "unknown"}
    BY <1>16 DEF ReplaceFails, DetectedStates
  <2>4. pc' \in PCs
    BY <1>16, <2>3 DEF ReplaceFails, AfterDetection, PCs
  <2> QED
    BY <1>16, <2>1, <2>2, <2>3, <2>4 DEF ReplaceFails, TypeOK, IsBundle
<1>17. CASE ReopenReplaced
  BY <1>17 DEF ReopenReplaced, OpenLive, TypeOK, PCs, IsBundle
<1>18. CASE VerifyReplaced
  BY <1>18 DEF VerifyReplaced, TypeOK, PCs, IsBundle
<1>19. CASE ThrowAfterCommit
  BY <1>19 DEF ThrowAfterCommit, TypeOK, PCs, IsBundle
<1>20. ASSUME NEW p \in Paths, DeleteOldFile(p)
      PROVE  TypeOK'
  <2>1. media' \in Files
    BY <1>20 DEF DeleteOldFile, AfterDelete, TypeOK, Files
  <2> QED
    BY <1>20, <2>1 DEF DeleteOldFile, TypeOK, IsBundle
<1>21. ASSUME NEW p \in Paths, DeleteCreated(p)
      PROVE  TypeOK'
  <2>1. media' \in Files
    BY <1>21 DEF DeleteCreated, AfterDelete, TypeOK, Files
  <2> QED
    BY <1>21, <2>1 DEF DeleteCreated, TypeOK, IsBundle
<1>22. CASE DropRollback
  BY <1>22 DEF DropRollback, AfterDelete, TypeOK, PCs, IsBundle
<1>23. CASE ReportSuccess
  BY <1>23 DEF ReportSuccess, AfterDelete, TypeOK, PCs, IsBundle
<1>24. CASE ReportKept
  BY <1>24 DEF ReportKept, AfterDelete, OpenLive, TypeOK, PCs, IsBundle
<1>25. CASE ReopenOld
  BY <1>25 DEF ReopenOld, OpenLive, TypeOK, PCs, IsBundle
<1>26. CASE ReportUndone
  BY <1>26 DEF ReportUndone, AfterDelete, TypeOK, PCs, IsBundle
<1>27. CASE Crash
  <2>1. media' \in Files
    <3>1. CASE UNCHANGED media
      BY <3>1 DEF TypeOK
    <3>2. CASE \E n \in DOMAIN archive.files \ DOMAIN dest :
               \E d \in Destinations(media, n, archive.files[n]) :
                  media' = [media EXCEPT ![d] = Torn]
      <4>1. PICK n \in DOMAIN archive.files :
              \E d \in Destinations(media, n, archive.files[n]) :
                 media' = [media EXCEPT ![d] = Torn]
        BY <3>2
      <4>2. n \in Paths /\ archive.files[n] \in Contents
        BY ArchiveTyped DEF TypeOK
      <4> QED
        BY <4>1, <4>2, DestinationUsable DEF TypeOK, Files
    <3> QED
      BY <1>27, <3>1, <3>2 DEF Crash
  <2>2. /\ staged' \in {NoFile, Corrupt} \/ IsLedger(staged')
        /\ rollback' \in {NoFile, Corrupt} \/ IsLedger(rollback')
    BY <1>27 DEF Crash, TypeOK
  <2>3. sidecar' \in {"none", "live", "replaced"}
    BY <1>27 DEF Crash, TypeOK
  <2> QED
    BY <1>27, <2>1, <2>2, <2>3 DEF Crash, TypeOK, PCs, IsBundle
<1>28. CASE Reopen
  BY <1>28 DEF Reopen, OpenLive, TypeOK, PCs, IsBundle
<1>29. CASE UNCHANGED vars
  BY <1>29 DEF vars, TypeOK, IsBundle
<1> QED
  BY <1>1, <1>2, <1>3, <1>4, <1>5, <1>6, <1>7, <1>8, <1>9, <1>10, <1>11,
       <1>12, <1>13, <1>14, <1>15, <1>16, <1>17, <1>18, <1>19, <1>20, <1>21,
       <1>22, <1>23, <1>24, <1>25, <1>26, <1>27, <1>28, <1>29 DEF Next, Step

(* A step keeps what has been placed in place. *)
LEMMA PlacedStep ==
    ASSUME IInv, [Next]_vars
    PROVE  PlacedInv'
<1> USE DEF fileVars, runVars, histVars
<1> USE DEF IInv
<1>1. ASSUME NEW a \in Archives, Start(a)
      PROVE  PlacedInv'
  BY <1>1 DEF Start, Call, PlacedInv, Restorable, CommitInv, BeforeCommit,
       AfterCommit
<1>2. ASSUME NEW a \in Archives, Reject(a)
      PROVE  PlacedInv'
  BY <1>2 DEF Reject, Call, PlacedInv, Restorable, CommitInv, BeforeCommit,
       AfterCommit
<1>3. ASSUME NEW n \in Paths, RestoreFile(n)
      PROVE  PlacedInv'
  <2>1. n \in Paths /\ archive.files[n] \in Contents
    BY <1>3, ArchiveTyped DEF RestoreFile, TypeOK
  <2>2. PICK d \in Destinations(media, n, archive.files[n]) :
          /\ media' = [media EXCEPT ![d] = archive.files[n]]
          /\ created' = IF Exists(media, d) THEN created ELSE created \union {d}
          /\ dest' = Extend(dest, n, d)
    BY <1>3 DEF RestoreFile
  <2>3. d \in Paths /\ media[d] \in {Absent, archive.files[n]}
    BY <2>1, <2>2, DestinationUsable
  <2>4. pc = "media" /\ ~renamed /\ UNCHANGED <<pc, archive, renamed>>
    BY <1>3 DEF RestoreFile, histVars, CommitInv, BeforeCommit
  <2>5. DOMAIN dest' = DOMAIN dest \union {n} /\ n \in DOMAIN archive.files
    BY <1>3, <2>2 DEF RestoreFile, Extend
  <2>6. ASSUME NEW m \in DOMAIN dest'
        PROVE  m \in DOMAIN archive.files /\ media'[dest'[m]] = archive.files[m]
    <3>1. CASE m = n
      BY <2>2, <2>3, <2>5, <3>1 DEF Extend, TypeOK, Files
    <3>2. CASE m # n
      <4>1. /\ m \in DOMAIN dest /\ dest'[m] = dest[m]
            /\ m \in DOMAIN archive.files
            /\ media[dest[m]] = archive.files[m]
        BY <2>2, <2>4, <2>5, <3>2 DEF Extend, PlacedInv
      <4>2. archive.files[m] \in Contents /\ dest[m] \in Paths
        BY <4>1, ArchiveTyped DEF TypeOK, Partial
      <4> QED
        BY <2>2, <2>3, <4>1, <4>2 DEF TypeOK, Files
    <3> QED
      BY <3>1, <3>2
  <2> QED
    BY <2>4, <2>6 DEF PlacedInv, Restorable
<1>4. ASSUME NEW n \in Paths, RestoreFileFails(n)
      PROVE  PlacedInv'
  BY <1>4 DEF RestoreFileFails, PlacedInv, Restorable, CommitInv,
       BeforeCommit, AfterCommit
<1>5. CASE StageDatabase
  BY <1>5 DEF StageDatabase, PlacedInv, Restorable, CommitInv, BeforeCommit,
       AfterCommit
<1>6. CASE StageDatabaseFails
  BY <1>6 DEF StageDatabaseFails, PlacedInv, Restorable, CommitInv,
       BeforeCommit, AfterCommit
<1>7. CASE RewritePaths
  BY <1>7 DEF RewritePaths, PlacedInv, Restorable, CommitInv, BeforeCommit,
       AfterCommit
<1>8. CASE RecheckStaged
  BY <1>8 DEF RecheckStaged, PlacedInv, Restorable, CommitInv, BeforeCommit,
       AfterCommit
<1>9. CASE CloseLive
  BY <1>9 DEF CloseLive, PlacedInv, Restorable, CommitInv, BeforeCommit,
       AfterCommit
<1>10. CASE DeleteSidecars
  BY <1>10 DEF DeleteSidecars, PlacedInv, Restorable, CommitInv,
       BeforeCommit, AfterCommit
<1>11. CASE KeepRollback
  BY <1>11 DEF KeepRollback, PlacedInv, Restorable, CommitInv, BeforeCommit,
       AfterCommit
<1>12. CASE KeepRollbackFails
  BY <1>12 DEF KeepRollbackFails, PlacedInv, Restorable, CommitInv,
       BeforeCommit, AfterCommit
<1>13. CASE InspectRollback
  BY <1>13 DEF InspectRollback, PlacedInv, Restorable, CommitInv,
       BeforeCommit, AfterCommit
<1>14. CASE Throw
  BY <1>14 DEF Throw, PlacedInv, Restorable, CommitInv, BeforeCommit,
       AfterCommit
<1>15. CASE Replace
  BY <1>15 DEF Replace, DetectedStates, AfterDetection, PlacedInv,
       Restorable, CommitInv, BeforeCommit, AfterCommit
<1>16. CASE ReplaceFails
  BY <1>16 DEF ReplaceFails, DetectedStates, AfterDetection, PlacedInv,
       Restorable, CommitInv, BeforeCommit, AfterCommit
<1>17. CASE ReopenReplaced
  BY <1>17 DEF ReopenReplaced, OpenLive, PlacedInv, Restorable, CommitInv,
       BeforeCommit, AfterCommit
<1>18. CASE VerifyReplaced
  BY <1>18 DEF VerifyReplaced, PlacedInv, Restorable, CommitInv,
       BeforeCommit, AfterCommit
<1>19. CASE ThrowAfterCommit
  BY <1>19 DEF ThrowAfterCommit, PlacedInv, Restorable, CommitInv,
       BeforeCommit, AfterCommit
<1>20. ASSUME NEW p \in Paths, DeleteOldFile(p)
      PROVE  PlacedInv'
  <2>1. /\ p \notin Retained /\ UNCHANGED <<pc, archive, dest, renamed>>
        /\ pc = "sweep"
    BY <1>20 DEF DeleteOldFile
  <2>2. ASSUME NEW n \in DOMAIN dest PROVE media'[dest[n]] = media[dest[n]]
    BY <1>20, <2>1 DEF DeleteOldFile, Retained, TypeOK, Files
  <2> QED
    BY <2>1, <2>2 DEF PlacedInv, Restorable
<1>21. ASSUME NEW p \in Paths, DeleteCreated(p)
      PROVE  PlacedInv'
  BY <1>21 DEF DeleteCreated, AfterDelete, PlacedInv, Restorable, CommitInv,
       BeforeCommit, AfterCommit
<1>22. CASE DropRollback
  BY <1>22 DEF DropRollback, AfterDelete, PlacedInv, Restorable, CommitInv,
       BeforeCommit, AfterCommit
<1>23. CASE ReportSuccess
  BY <1>23 DEF ReportSuccess, AfterDelete, PlacedInv, Restorable, CommitInv,
       BeforeCommit, AfterCommit
<1>24. CASE ReportKept
  BY <1>24 DEF ReportKept, AfterDelete, OpenLive, PlacedInv, Restorable,
       CommitInv, BeforeCommit, AfterCommit
<1>25. CASE ReopenOld
  BY <1>25 DEF ReopenOld, OpenLive, PlacedInv, Restorable, CommitInv,
       BeforeCommit, AfterCommit
<1>26. CASE ReportUndone
  BY <1>26 DEF ReportUndone, AfterDelete, PlacedInv, Restorable, CommitInv,
       BeforeCommit, AfterCommit
<1>27. CASE Crash
  BY <1>27 DEF Crash, PlacedInv, Restorable, CommitInv, BeforeCommit,
       AfterCommit
<1>28. CASE Reopen
  BY <1>28 DEF Reopen, OpenLive, PlacedInv, Restorable, CommitInv,
       BeforeCommit, AfterCommit
<1>29. CASE UNCHANGED vars
  BY <1>29 DEF vars, PlacedInv, Restorable, CommitInv, BeforeCommit,
       AfterCommit
<1> QED
  BY <1>1, <1>2, <1>3, <1>4, <1>5, <1>6, <1>7, <1>8, <1>9, <1>10, <1>11,
       <1>12, <1>13, <1>14, <1>15, <1>16, <1>17, <1>18, <1>19, <1>20, <1>21,
       <1>22, <1>23, <1>24, <1>25, <1>26, <1>27, <1>28, <1>29 DEF Next, Step

(* A step keeps the database files what the statement needs them to be. *)
LEMMA DatabaseStep ==
    ASSUME IInv, [Next]_vars
    PROVE  DatabaseInv'
<1> USE DEF fileVars, runVars, histVars
<1> USE DEF IInv
<1>1. ASSUME NEW a \in Archives, Start(a)
      PROVE  DatabaseInv'
  BY <1>1 DEF Start, Call, DatabaseInv, CommitInv, BeforeCommit,
       AfterCommit, Rewritten
<1>2. ASSUME NEW a \in Archives, Reject(a)
      PROVE  DatabaseInv'
  BY <1>2 DEF Reject, Call, DatabaseInv, CommitInv, BeforeCommit,
       AfterCommit, Rewritten
<1>3. ASSUME NEW n \in Paths, RestoreFile(n)
      PROVE  DatabaseInv'
  BY <1>3 DEF RestoreFile, DatabaseInv, CommitInv, BeforeCommit,
       AfterCommit, Rewritten
<1>4. ASSUME NEW n \in Paths, RestoreFileFails(n)
      PROVE  DatabaseInv'
  BY <1>4 DEF RestoreFileFails, DatabaseInv, CommitInv, BeforeCommit,
       AfterCommit, Rewritten
<1>5. CASE StageDatabase
  BY <1>5 DEF StageDatabase, DatabaseInv, CommitInv, BeforeCommit,
       AfterCommit, Rewritten
<1>6. CASE StageDatabaseFails
  BY <1>6 DEF StageDatabaseFails, DatabaseInv, CommitInv, BeforeCommit,
       AfterCommit, Rewritten
<1>7. CASE RewritePaths
  BY <1>7 DEF RewritePaths, DatabaseInv, CommitInv, BeforeCommit,
       AfterCommit, Rewritten
<1>8. CASE RecheckStaged
  BY <1>8 DEF RecheckStaged, DatabaseInv, CommitInv, BeforeCommit,
       AfterCommit, Rewritten
<1>9. CASE CloseLive
  BY <1>9 DEF CloseLive, DatabaseInv, CommitInv, BeforeCommit, AfterCommit,
       Rewritten
<1>10. CASE DeleteSidecars
  BY <1>10 DEF DeleteSidecars, DatabaseInv, CommitInv, BeforeCommit,
       AfterCommit, Rewritten
<1>11. CASE KeepRollback
  BY <1>11 DEF KeepRollback, DatabaseInv, CommitInv, BeforeCommit,
       AfterCommit, Rewritten
<1>12. CASE KeepRollbackFails
  BY <1>12 DEF KeepRollbackFails, DatabaseInv, CommitInv, BeforeCommit,
       AfterCommit, Rewritten
<1>13. CASE InspectRollback
  BY <1>13 DEF InspectRollback, DatabaseInv, CommitInv, BeforeCommit,
       AfterCommit, Rewritten
<1>14. CASE Throw
  BY <1>14 DEF Throw, DatabaseInv, CommitInv, BeforeCommit, AfterCommit,
       Rewritten
<1>15. CASE Replace
  <2>1. staged = Rewritten /\ IsLedger(staged)
    BY <1>15, RewrittenIsLedger DEF Replace, DatabaseInv, PlacedInv
  <2>2. live' # Corrupt /\ Rewritten' = Rewritten
    BY <1>15, <2>1, LedgerNotMarker DEF Replace, Rewritten
  <2>3. pc' \in {"reopen", "undo", "report"}
    BY <1>15 DEF Replace, DetectedStates, AfterDetection
  <2>4. rollback' = base'.live /\ sidecar' # "replaced"
    BY <1>15 DEF Replace, DatabaseInv
  <2> QED
    BY <1>15, <2>1, <2>2, <2>3, <2>4 DEF Replace, DatabaseInv, AfterCommit
<1>16. CASE ReplaceFails
  BY <1>16 DEF ReplaceFails, DetectedStates, AfterDetection, DatabaseInv,
       CommitInv, BeforeCommit, AfterCommit, Rewritten
<1>17. CASE ReopenReplaced
  BY <1>17 DEF ReopenReplaced, OpenLive, DatabaseInv, CommitInv,
       BeforeCommit, AfterCommit, Rewritten
<1>18. CASE VerifyReplaced
  BY <1>18 DEF VerifyReplaced, DatabaseInv, CommitInv, BeforeCommit,
       AfterCommit, Rewritten
<1>19. CASE ThrowAfterCommit
  BY <1>19 DEF ThrowAfterCommit, DatabaseInv, CommitInv, BeforeCommit,
       AfterCommit, Rewritten
<1>20. ASSUME NEW p \in Paths, DeleteOldFile(p)
      PROVE  DatabaseInv'
  BY <1>20 DEF DeleteOldFile, AfterDelete, DatabaseInv, CommitInv,
       BeforeCommit, AfterCommit, Rewritten
<1>21. ASSUME NEW p \in Paths, DeleteCreated(p)
      PROVE  DatabaseInv'
  BY <1>21 DEF DeleteCreated, AfterDelete, DatabaseInv, CommitInv,
       BeforeCommit, AfterCommit, Rewritten
<1>22. CASE DropRollback
  BY <1>22 DEF DropRollback, AfterDelete, DatabaseInv, CommitInv,
       BeforeCommit, AfterCommit, Rewritten
<1>23. CASE ReportSuccess
  BY <1>23 DEF ReportSuccess, AfterDelete, DatabaseInv, CommitInv,
       BeforeCommit, AfterCommit, Rewritten
<1>24. CASE ReportKept
  BY <1>24 DEF ReportKept, AfterDelete, OpenLive, DatabaseInv, CommitInv,
       BeforeCommit, AfterCommit, Rewritten
<1>25. CASE ReopenOld
  BY <1>25 DEF ReopenOld, OpenLive, DatabaseInv, CommitInv, BeforeCommit,
       AfterCommit, Rewritten
<1>26. CASE ReportUndone
  BY <1>26 DEF ReportUndone, AfterDelete, DatabaseInv, CommitInv,
       BeforeCommit, AfterCommit, Rewritten
<1>27. CASE Crash
  BY <1>27 DEF Crash, DatabaseInv, CommitInv, BeforeCommit, AfterCommit,
       Rewritten
<1>28. CASE Reopen
  BY <1>28 DEF Reopen, OpenLive, DatabaseInv, CommitInv, BeforeCommit,
       AfterCommit, Rewritten
<1>29. CASE UNCHANGED vars
  BY <1>29 DEF vars, DatabaseInv, CommitInv, BeforeCommit, AfterCommit,
       Rewritten
<1> QED
  BY <1>1, <1>2, <1>3, <1>4, <1>5, <1>6, <1>7, <1>8, <1>9, <1>10, <1>11,
       <1>12, <1>13, <1>14, <1>15, <1>16, <1>17, <1>18, <1>19, <1>20, <1>21,
       <1>22, <1>23, <1>24, <1>25, <1>26, <1>27, <1>28, <1>29 DEF Next, Step

(* A step touches no attachment of the old bundle too early. *)
LEMMA OldFilesStep ==
    ASSUME IInv, [Next]_vars
    PROVE  OldFilesInv'
<1> USE DEF fileVars, runVars, histVars
<1> USE DEF IInv
<1>1. ASSUME NEW a \in Archives, Start(a)
      PROVE  OldFilesInv'
  BY <1>1 DEF Start, Call, OldFilesInv, CommitInv, BeforeCommit,
       AfterCommit, InProgress, Exists
<1>2. ASSUME NEW a \in Archives, Reject(a)
      PROVE  OldFilesInv'
  BY <1>2 DEF Reject, Call, OldFilesInv, CommitInv, BeforeCommit,
       AfterCommit, InProgress, Exists
<1>3. ASSUME NEW n \in Paths, RestoreFile(n)
      PROVE  OldFilesInv'
  <2>1. n \in Paths /\ archive.files[n] \in Contents
    BY <1>3, ArchiveTyped DEF RestoreFile, TypeOK
  <2>2. PICK d \in Destinations(media, n, archive.files[n]) :
          /\ media' = [media EXCEPT ![d] = archive.files[n]]
          /\ created' = IF Exists(media, d) THEN created ELSE created \union {d}
          /\ dest' = Extend(dest, n, d)
    BY <1>3 DEF RestoreFile
  <2>3. d \in Paths /\ media[d] \in {Absent, archive.files[n]}
    BY <2>1, <2>2, DestinationUsable
  <2>4. pc = "media" /\ ~renamed /\ UNCHANGED <<pc, listed, base, renamed, result>>
    BY <1>3 DEF RestoreFile, histVars, CommitInv, BeforeCommit
  <2>5. base.media \in Files /\ media \in Files
    BY DEF TypeOK, IsBundle
  <2>6. \A p \in Paths : Exists(base.media, p) => media'[p] = base.media[p]
    BY <2>2, <2>3, <2>4, <2>5 DEF OldFilesInv, InProgress, Exists, Files
  <2>7. \A p \in created' : base.media[p] = Absent
    BY <2>2, <2>3, <2>4, <2>5 DEF OldFilesInv, InProgress, Exists, Files
  <2>8. \A p \in listed' : Exists(base'.media, p)
    BY <2>4 DEF OldFilesInv, InProgress
  <2> QED
    BY <2>4, <2>6, <2>7, <2>8 DEF OldFilesInv
<1>4. ASSUME NEW n \in Paths, RestoreFileFails(n)
      PROVE  OldFilesInv'
  BY <1>4 DEF RestoreFileFails, OldFilesInv, CommitInv, BeforeCommit,
       AfterCommit, InProgress, Exists
<1>5. CASE StageDatabase
  BY <1>5 DEF StageDatabase, OldFilesInv, CommitInv, BeforeCommit,
       AfterCommit, InProgress, Exists
<1>6. CASE StageDatabaseFails
  BY <1>6 DEF StageDatabaseFails, OldFilesInv, CommitInv, BeforeCommit,
       AfterCommit, InProgress, Exists
<1>7. CASE RewritePaths
  BY <1>7 DEF RewritePaths, OldFilesInv, CommitInv, BeforeCommit,
       AfterCommit, InProgress, Exists
<1>8. CASE RecheckStaged
  BY <1>8 DEF RecheckStaged, OldFilesInv, CommitInv, BeforeCommit,
       AfterCommit, InProgress, Exists
<1>9. CASE CloseLive
  BY <1>9 DEF CloseLive, OldFilesInv, CommitInv, BeforeCommit, AfterCommit,
       InProgress, Exists
<1>10. CASE DeleteSidecars
  BY <1>10 DEF DeleteSidecars, OldFilesInv, CommitInv, BeforeCommit,
       AfterCommit, InProgress, Exists
<1>11. CASE KeepRollback
  BY <1>11 DEF KeepRollback, OldFilesInv, CommitInv, BeforeCommit,
       AfterCommit, InProgress, Exists
<1>12. CASE KeepRollbackFails
  BY <1>12 DEF KeepRollbackFails, OldFilesInv, CommitInv, BeforeCommit,
       AfterCommit, InProgress, Exists
<1>13. CASE InspectRollback
  BY <1>13 DEF InspectRollback, OldFilesInv, CommitInv, BeforeCommit,
       AfterCommit, InProgress, Exists
<1>14. CASE Throw
  BY <1>14 DEF Throw, OldFilesInv, CommitInv, BeforeCommit, AfterCommit,
       InProgress, Exists
<1>15. CASE Replace
  BY <1>15 DEF Replace, DetectedStates, AfterDetection, OldFilesInv,
       CommitInv, BeforeCommit, AfterCommit, InProgress, Exists
<1>16. CASE ReplaceFails
  BY <1>16 DEF ReplaceFails, DetectedStates, AfterDetection, OldFilesInv,
       CommitInv, BeforeCommit, AfterCommit, InProgress, Exists
<1>17. CASE ReopenReplaced
  BY <1>17 DEF ReopenReplaced, OpenLive, OldFilesInv, CommitInv,
       BeforeCommit, AfterCommit, InProgress, Exists
<1>18. CASE VerifyReplaced
  BY <1>18 DEF VerifyReplaced, OldFilesInv, CommitInv, BeforeCommit,
       AfterCommit, InProgress, Exists
<1>19. CASE ThrowAfterCommit
  BY <1>19 DEF ThrowAfterCommit, OldFilesInv, CommitInv, BeforeCommit,
       AfterCommit, InProgress, Exists
<1>20. ASSUME NEW p \in Paths, DeleteOldFile(p)
      PROVE  OldFilesInv'
  BY <1>20 DEF DeleteOldFile, AfterDelete, OldFilesInv, CommitInv,
       BeforeCommit, AfterCommit, InProgress, Exists
<1>21. ASSUME NEW p \in Paths, DeleteCreated(p)
      PROVE  OldFilesInv'
  BY <1>21 DEF DeleteCreated, AfterDelete, OldFilesInv, CommitInv,
       BeforeCommit, AfterCommit, InProgress, Exists
<1>22. CASE DropRollback
  BY <1>22 DEF DropRollback, AfterDelete, OldFilesInv, CommitInv,
       BeforeCommit, AfterCommit, InProgress, Exists
<1>23. CASE ReportSuccess
  BY <1>23 DEF ReportSuccess, AfterDelete, OldFilesInv, CommitInv,
       BeforeCommit, AfterCommit, InProgress, Exists
<1>24. CASE ReportKept
  BY <1>24 DEF ReportKept, AfterDelete, OpenLive, OldFilesInv, CommitInv,
       BeforeCommit, AfterCommit, InProgress, Exists
<1>25. CASE ReopenOld
  BY <1>25 DEF ReopenOld, OpenLive, OldFilesInv, CommitInv, BeforeCommit,
       AfterCommit, InProgress, Exists
<1>26. CASE ReportUndone
  BY <1>26 DEF ReportUndone, AfterDelete, OldFilesInv, CommitInv,
       BeforeCommit, AfterCommit, InProgress, Exists
<1>27. CASE Crash
  <2>1. CASE UNCHANGED media
    BY <1>27, <2>1 DEF Crash, OldFilesInv, CommitInv, BeforeCommit, AfterCommit,
                   InProgress, Exists
  <2>2. CASE /\ pc = "media"
             /\ \E n \in DOMAIN archive.files \ DOMAIN dest :
                \E d \in Destinations(media, n, archive.files[n]) :
                   ~Exists(media, d) /\ media' = [media EXCEPT ![d] = Torn]
    <3>1. PICK d : ~Exists(media, d) /\ media' = [media EXCEPT ![d] = Torn]
      BY <2>2
    <3>2. base.media \in Files /\ media \in Files
      BY DEF TypeOK, IsBundle
    <3>3. \A p \in Paths : Exists(base.media, p) => media'[p] = base.media[p]
      BY <2>2, <3>1, <3>2 DEF OldFilesInv, CommitInv, BeforeCommit, Exists, Files
    <3> QED
      BY <1>27, <3>3 DEF Crash, OldFilesInv, InProgress
  <2> QED
    BY <1>27, <2>1, <2>2 DEF Crash
<1>28. CASE Reopen
  BY <1>28 DEF Reopen, OpenLive, OldFilesInv, CommitInv, BeforeCommit,
       AfterCommit, InProgress, Exists
<1>29. CASE UNCHANGED vars
  BY <1>29 DEF vars, OldFilesInv, CommitInv, BeforeCommit, AfterCommit,
       InProgress, Exists
<1> QED
  BY <1>1, <1>2, <1>3, <1>4, <1>5, <1>6, <1>7, <1>8, <1>9, <1>10, <1>11,
       <1>12, <1>13, <1>14, <1>15, <1>16, <1>17, <1>18, <1>19, <1>20, <1>21,
       <1>22, <1>23, <1>24, <1>25, <1>26, <1>27, <1>28, <1>29 DEF Next, Step

(* A step keeps what is known about the commit true. *)
LEMMA CommitStep ==
    ASSUME IInv, [Next]_vars
    PROVE  CommitInv'
<1> USE DEF fileVars, runVars, histVars
<1> USE DEF IInv
<1>1. ASSUME NEW a \in Archives, Start(a)
      PROVE  CommitInv'
  BY <1>1 DEF Start, Call, CommitInv, DatabaseInv, BeforeCommit,
       AfterCommit, InProgress
<1>2. ASSUME NEW a \in Archives, Reject(a)
      PROVE  CommitInv'
  BY <1>2 DEF Reject, Call, CommitInv, DatabaseInv, BeforeCommit,
       AfterCommit, InProgress
<1>3. ASSUME NEW n \in Paths, RestoreFile(n)
      PROVE  CommitInv'
  BY <1>3 DEF RestoreFile, CommitInv, DatabaseInv, BeforeCommit,
       AfterCommit, InProgress
<1>4. ASSUME NEW n \in Paths, RestoreFileFails(n)
      PROVE  CommitInv'
  BY <1>4 DEF RestoreFileFails, CommitInv, DatabaseInv, BeforeCommit,
       AfterCommit, InProgress
<1>5. CASE StageDatabase
  BY <1>5 DEF StageDatabase, CommitInv, DatabaseInv, BeforeCommit,
       AfterCommit, InProgress
<1>6. CASE StageDatabaseFails
  BY <1>6 DEF StageDatabaseFails, CommitInv, DatabaseInv, BeforeCommit,
       AfterCommit, InProgress
<1>7. CASE RewritePaths
  BY <1>7 DEF RewritePaths, CommitInv, DatabaseInv, BeforeCommit,
       AfterCommit, InProgress
<1>8. CASE RecheckStaged
  BY <1>8 DEF RecheckStaged, CommitInv, DatabaseInv, BeforeCommit,
       AfterCommit, InProgress
<1>9. CASE CloseLive
  BY <1>9 DEF CloseLive, CommitInv, DatabaseInv, BeforeCommit, AfterCommit,
       InProgress
<1>10. CASE DeleteSidecars
  BY <1>10 DEF DeleteSidecars, CommitInv, DatabaseInv, BeforeCommit,
       AfterCommit, InProgress
<1>11. CASE KeepRollback
  BY <1>11 DEF KeepRollback, CommitInv, DatabaseInv, BeforeCommit,
       AfterCommit, InProgress
<1>12. CASE KeepRollbackFails
  BY <1>12 DEF KeepRollbackFails, CommitInv, DatabaseInv, BeforeCommit,
       AfterCommit, InProgress
<1>13. CASE InspectRollback
  BY <1>13 DEF InspectRollback, CommitInv, DatabaseInv, BeforeCommit,
       AfterCommit, InProgress
<1>14. CASE Throw
  BY <1>14 DEF Throw, CommitInv, DatabaseInv, BeforeCommit, AfterCommit,
       InProgress
<1>15. CASE Replace
  BY <1>15 DEF Replace, DetectedStates, AfterDetection, CommitInv,
       DatabaseInv, BeforeCommit, AfterCommit, InProgress
<1>16. CASE ReplaceFails
  <2>1. staged # NoFile /\ live # NoFile
    BY <1>16, RewrittenIsLedger, LedgerNotMarker
       DEF ReplaceFails, DatabaseInv, PlacedInv, TypeOK
  <2>2. commitState' \in {"notCommitted", "unknown"}
    BY <1>16, <2>1 DEF ReplaceFails, DetectedStates
  <2> QED
    BY <1>16, <2>2 DEF ReplaceFails, AfterDetection, CommitInv, BeforeCommit,
                   AfterCommit, InProgress
<1>17. CASE ReopenReplaced
  BY <1>17 DEF ReopenReplaced, OpenLive, CommitInv, DatabaseInv,
       BeforeCommit, AfterCommit, InProgress
<1>18. CASE VerifyReplaced
  BY <1>18 DEF VerifyReplaced, CommitInv, DatabaseInv, BeforeCommit,
       AfterCommit, InProgress
<1>19. CASE ThrowAfterCommit
  BY <1>19 DEF ThrowAfterCommit, CommitInv, DatabaseInv, BeforeCommit,
       AfterCommit, InProgress
<1>20. ASSUME NEW p \in Paths, DeleteOldFile(p)
      PROVE  CommitInv'
  BY <1>20 DEF DeleteOldFile, AfterDelete, CommitInv, DatabaseInv,
       BeforeCommit, AfterCommit, InProgress
<1>21. ASSUME NEW p \in Paths, DeleteCreated(p)
      PROVE  CommitInv'
  BY <1>21 DEF DeleteCreated, AfterDelete, CommitInv, DatabaseInv,
       BeforeCommit, AfterCommit, InProgress
<1>22. CASE DropRollback
  BY <1>22 DEF DropRollback, AfterDelete, CommitInv, DatabaseInv,
       BeforeCommit, AfterCommit, InProgress
<1>23. CASE ReportSuccess
  BY <1>23 DEF ReportSuccess, AfterDelete, CommitInv, DatabaseInv,
       BeforeCommit, AfterCommit, InProgress
<1>24. CASE ReportKept
  BY <1>24 DEF ReportKept, AfterDelete, OpenLive, CommitInv, DatabaseInv,
       BeforeCommit, AfterCommit, InProgress
<1>25. CASE ReopenOld
  BY <1>25 DEF ReopenOld, OpenLive, CommitInv, DatabaseInv, BeforeCommit,
       AfterCommit, InProgress
<1>26. CASE ReportUndone
  BY <1>26 DEF ReportUndone, AfterDelete, CommitInv, DatabaseInv,
       BeforeCommit, AfterCommit, InProgress
<1>27. CASE Crash
  BY <1>27 DEF Crash, CommitInv, DatabaseInv, BeforeCommit, AfterCommit,
       InProgress
<1>28. CASE Reopen
  BY <1>28 DEF Reopen, OpenLive, CommitInv, DatabaseInv, BeforeCommit,
       AfterCommit, InProgress
<1>29. CASE UNCHANGED vars
  BY <1>29 DEF vars, CommitInv, DatabaseInv, BeforeCommit, AfterCommit,
       InProgress
<1> QED
  BY <1>1, <1>2, <1>3, <1>4, <1>5, <1>6, <1>7, <1>8, <1>9, <1>10, <1>11,
       <1>12, <1>13, <1>14, <1>15, <1>16, <1>17, <1>18, <1>19, <1>20, <1>21,
       <1>22, <1>23, <1>24, <1>25, <1>26, <1>27, <1>28, <1>29 DEF Next, Step

-------------------------------------------------------------------------------
LEMMA Inductive == Spec => []IInv
<1>1. IInv /\ [Next]_vars => IInv'
  BY TypeStep, PlacedStep, DatabaseStep, OldFilesStep, CommitStep DEF IInv
<1> QED
  BY InitEstablishes, <1>1, PTL DEF Spec

(* The restore keeps its variables within their types. *)
THEOREM TypeCorrect == Spec => []TypeOK
<1>1. IInv => TypeOK
  BY DEF IInv
<1> QED
  BY Inductive, <1>1, PTL

(***************************************************************************)
(* Whatever fails and wherever the process dies, until the rename the      *)
(* database and the attachments are those the restore found.               *)
(***************************************************************************)
THEOREM OldBundleSafe == Spec => []OldBundleUntilCommit
<1>1. IInv => OldBundleUntilCommit
  <2> SUFFICES ASSUME IInv, ~renamed
               PROVE  /\ live = base.live
                      /\ \A p \in Paths :
                            Exists(base.media, p) => media[p] = base.media[p]
    BY DEF OldBundleUntilCommit
  <2>1. pc \notin {"sweep", "succeeded"}
    BY DEF IInv, CommitInv, AfterCommit
  <2> QED
    BY <2>1 DEF IInv, DatabaseInv, OldFilesInv
<1> QED
  BY Inductive, <1>1, PTL

(***************************************************************************)
(* From the rename on, the user's data are the archive's: row by row, and  *)
(* with the archive's bytes in every attachment.                           *)
(***************************************************************************)
THEOREM NewBundleSafe == Spec => []NewBundleAfterCommit
<1>1. IInv => NewBundleAfterCommit
  <2> SUFFICES ASSUME IInv, renamed
               PROVE  /\ live # Corrupt
                      /\ View(live, media) =
                           [r \in DOMAIN archive.rows |-> archive.files[archive.rows[r]]]
    BY DEF NewBundleAfterCommit
  <2>1. live = Rewritten /\ live # Corrupt
    BY DEF IInv, DatabaseInv
  <2>2. \A n \in DOMAIN archive.files : media[dest[n]] = archive.files[n]
    BY DEF IInv, PlacedInv
  <2>3. \A r \in DOMAIN archive.rows : archive.rows[r] \in DOMAIN archive.files
    BY DEF IInv, PlacedInv, Restorable
  <2> QED
    BY <2>1, <2>2, <2>3 DEF View, Rewritten
<1> QED
  BY Inductive, <1>1, PTL

(***************************************************************************)
(* The catch block is never wrong about the commit.                        *)
(***************************************************************************)
THEOREM CommitKnown == Spec => []CommitStateSound
<1>1. IInv => CommitStateSound
  BY DEF IInv, TypeOK, PCs, CommitInv, CommitStateSound, BeforeCommit,
         AfterCommit, InProgress
<1> QED
  BY Inductive, <1>1, PTL

(***************************************************************************)
(* While the new database is unverified, and after every reported failure, *)
(* the old bundle can be had back.                                         *)
(***************************************************************************)
THEOREM OldBundleKept == Spec => []OldBundleRecoverable
<1>1. IInv => OldBundleRecoverable
  <2> SUFFICES ASSUME IInv,
                      pc \in {"reopen", "verify", "report"} \/ result = "failure"
               PROVE  /\ base.live \in {live, rollback}
                      /\ \A p \in Paths :
                            Exists(base.media, p) => media[p] = base.media[p]
    BY DEF OldBundleRecoverable
  <2>1. pc \notin {"sweep", "succeeded"}
    BY DEF IInv, CommitInv, InProgress
  <2> QED
    BY <2>1 DEF IInv, DatabaseInv, OldFilesInv, CommitInv, InProgress
<1> QED
  BY Inductive, <1>1, PTL
-------------------------------------------------------------------------------
(***************************************************************************)
(* A step that changes what a path holds finds nothing there, or is one    *)
(* that deletes the file: of the sweep or of the undoing.                  *)
(***************************************************************************)
LEMMA FileStep ==
    ASSUME TypeOK, [Next]_vars, NEW p \in Paths
    PROVE  media'[p] # media[p] /\ Exists(media, p) =>
               ~Exists(media', p) /\ (DeleteOldFile(p) \/ DeleteCreated(p))
<1> SUFFICES ASSUME media'[p] # media[p], Exists(media, p)
             PROVE  ~Exists(media', p) /\ (DeleteOldFile(p) \/ DeleteCreated(p))
  OBVIOUS
<1> USE DEF fileVars, runVars, histVars
<1>1. media \in Files
  BY DEF TypeOK
<1>2. ASSUME NEW n \in DOMAIN archive.files, NEW d \in Destinations(media, n, archive.files[n]),
             \/ media' = [media EXCEPT ![d] = archive.files[n]]
             \/ ~Exists(media, d) /\ media' = [media EXCEPT ![d] = Torn]
      PROVE  FALSE
  <2>1. n \in Paths /\ archive.files[n] \in Contents
    BY ArchiveTyped DEF TypeOK
  <2>2. d \in Paths /\ media[d] \in {Absent, archive.files[n]}
    BY <2>1, DestinationUsable
  <2>3. p = d
    BY <1>1, <1>2 DEF Files
  <2> QED
    BY <1>1, <1>2, <2>2, <2>3 DEF Files, Exists
<1>3. ASSUME NEW q \in Paths, DeleteOldFile(q) \/ DeleteCreated(q)
      PROVE  ~Exists(media', p) /\ (DeleteOldFile(p) \/ DeleteCreated(p))
  <2>1. PICK content \in {media[q], Absent} : media' = [media EXCEPT ![q] = content]
    BY <1>3 DEF DeleteOldFile, DeleteCreated, AfterDelete
  <2>2. p = q /\ content = Absent
    BY <1>1, <2>1 DEF Files
  <2> QED
    BY <1>1, <1>3, <2>1, <2>2 DEF Files, Exists
<1>4. ASSUME NEW n \in Paths, RestoreFile(n) \/ RestoreFileFails(n)
      PROVE  FALSE
  BY <1>2, <1>4 DEF RestoreFile, RestoreFileFails
<1>5. CASE Crash
  BY <1>2, <1>5 DEF Crash
<1> QED
  BY <1>3, <1>4, <1>5
     DEF Next, Step, Start, Reject, Call, StageDatabase, StageDatabaseFails, RewritePaths,
         RecheckStaged, CloseLive, DeleteSidecars, KeepRollback, KeepRollbackFails,
         InspectRollback, Throw, Replace, ReplaceFails, ReopenReplaced, VerifyReplaced,
         ThrowAfterCommit, DropRollback, ReportSuccess, ReportKept, ReopenOld,
         ReportUndone, Reopen, vars

(* What NeverOverwrites says of one path. *)
ChangesWell(p) ==
    media'[p] # media[p] =>
        \/ ~Exists(media, p)
        \/ /\ ~Exists(media', p)
           /\ IF Exists(base.media, p)
              THEN renamed /\ \A r \in DOMAIN live : live[r] # p
              ELSE ~renamed

LEMMA DeletionStep ==
    ASSUME IInv, [Next]_vars, NEW p \in Paths
    PROVE  ChangesWell(p)
<1> SUFFICES ASSUME media'[p] # media[p], Exists(media, p)
             PROVE  /\ ~Exists(media', p)
                    /\ IF Exists(base.media, p)
                       THEN renamed /\ \A r \in DOMAIN live : live[r] # p
                       ELSE ~renamed
  BY DEF ChangesWell
<1>1. ~Exists(media', p) /\ (DeleteOldFile(p) \/ DeleteCreated(p))
  BY FileStep DEF IInv
<1>2. CASE DeleteOldFile(p)
  <2>1. pc = "sweep" /\ p \in listed \ Retained
    BY <1>2 DEF DeleteOldFile
  <2>2. renamed /\ Exists(base.media, p)
    BY <2>1 DEF IInv, OldFilesInv, CommitInv, InProgress, AfterCommit
  <2>3. /\ live = Rewritten
        /\ \A r \in DOMAIN archive.rows : archive.rows[r] \in DOMAIN dest
    BY <2>2 DEF IInv, DatabaseInv, PlacedInv, Restorable
  <2>4. \A r \in DOMAIN live : live[r] \in Retained
    BY <2>3 DEF Rewritten, Retained
  <2> QED
    BY <1>1, <2>1, <2>2, <2>4
<1>3. CASE DeleteCreated(p)
  <2>1. pc = "undoMedia" /\ p \in created
    BY <1>3 DEF DeleteCreated
  <2>2. ~renamed /\ ~Exists(base.media, p)
    BY <2>1 DEF IInv, OldFilesInv, CommitInv, InProgress, BeforeCommit, Exists
  <2> QED
    BY <1>1, <2>2
<1> QED
  BY <1>1, <1>2, <1>3

(***************************************************************************)
(* Whatever the archive brings, whatever is there and whatever fails: no   *)
(* file is overwritten, a file the restore found outlives the rename       *)
(* unless it is not needed then, one that it wrote outlives it always.     *)
(***************************************************************************)
THEOREM NothingOverwritten == Spec => NeverOverwrites
<1>1. IInv /\ [Next]_vars => [\A p \in Paths : ChangesWell(p)]_vars
  BY DeletionStep
<1>2. IInv /\ [Next]_vars =>
        [\A p \in Paths :
          media'[p] # media[p] =>
              \/ ~Exists(media, p)
              \/ /\ ~Exists(media', p)
                 /\ IF Exists(base.media, p)
                    THEN renamed /\ \A r \in DOMAIN live : live[r] # p
                    ELSE ~renamed]_vars
  BY <1>1 DEF ChangesWell
<1> QED
  BY <1>2, Inductive, PTL DEF Spec, NeverOverwrites

-------------------------------------------------------------------------------
(***************************************************************************)
(* What a report leaves: only the failures before the commit are reported  *)
(* with the commit state notCommitted, and they drop both copies.          *)
(***************************************************************************)
LEMMA CopiesStep ==
    ASSUME IInv, FailureLeavesNoCopies, [Next]_vars
    PROVE  FailureLeavesNoCopies'
<1> SUFFICES ASSUME ~DeleteMayFail, result' = "failure", commitState' = "notCommitted"
             PROVE  staged' = NoFile /\ rollback' = NoFile
  BY DEF FailureLeavesNoCopies
<1> USE DEF fileVars, runVars, histVars
<1>1. InProgress => result = "none"
  BY DEF IInv, CommitInv
<1>2. ASSUME NEW a \in Archives, Start(a) \/ Reject(a)
      PROVE  staged' = NoFile /\ rollback' = NoFile
  BY <1>2 DEF Start, Reject, Call
<1>3. CASE ReportUndone
  BY <1>3 DEF ReportUndone, AfterDelete
<1>4. CASE ReportKept
  BY <1>4 DEF ReportKept, IInv, CommitInv
<1>5. CASE UNCHANGED <<staged, rollback, result, commitState>> /\ pc = "idle"
  BY <1>5 DEF FailureLeavesNoCopies
<1>6. CASE UNCHANGED result /\ InProgress
  BY <1>1, <1>6
<1> QED
  BY <1>2, <1>3, <1>4, <1>5, <1>6
     DEF Next, Step, InProgress, RestoreFile, RestoreFileFails, StageDatabase,
         StageDatabaseFails, RewritePaths, RecheckStaged, CloseLive, DeleteSidecars,
         KeepRollback, KeepRollbackFails, InspectRollback, Throw, Replace, ReplaceFails,
         ReopenReplaced, VerifyReplaced, ThrowAfterCommit, DeleteOldFile, DeleteCreated,
         DropRollback, ReportSuccess, ReopenOld, Crash, Reopen, vars

(* A reported failure from before the commit has no copy of a database behind it. *)
THEOREM NoCopiesLeft == Spec => []FailureLeavesNoCopies
<1>1. Init => FailureLeavesNoCopies
  BY DEF Init, FailureLeavesNoCopies
<1>2. IInv /\ FailureLeavesNoCopies /\ [Next]_vars => FailureLeavesNoCopies'
  BY CopiesStep
<1> QED
  BY <1>1, <1>2, Inductive, PTL DEF Spec
-------------------------------------------------------------------------------
(* The refinement of AtomicRestore.                                        *)

(* What the archive in use would show. *)
Goal == [r \in DOMAIN archive.rows |-> archive.files[archive.rows[r]]]

(* The bundle that the restore found has all its attachments. *)
BaseComplete == \A r \in DOMAIN base.live : Exists(base.media, base.live[r])

(***************************************************************************)
(* What the user sees is, before the rename, what the restore found, and,  *)
(* after it, what the archive shows.                                       *)
(***************************************************************************)
ViewInv ==
    /\ BaseComplete
    /\ Visible(live, media) = IF renamed THEN Goal ELSE View(base.live, base.media)
    /\ \A r \in DOMAIN live : Exists(media, live[r])

LEMMA ViewKnown ==
    ASSUME IInv, BaseComplete
    PROVE  ViewInv
<1> USE DEF ViewInv
<1>1. live # Corrupt
  BY DEF IInv, DatabaseInv
<1>2. CASE renamed
  <2>1. live = Rewritten
    BY <1>2 DEF IInv, DatabaseInv
  <2>2. \A n \in DOMAIN archive.files : media[dest[n]] = archive.files[n]
    BY <1>2 DEF IInv, PlacedInv
  <2>3. \A r \in DOMAIN archive.rows : archive.rows[r] \in DOMAIN archive.files
    BY DEF IInv, PlacedInv, Restorable
  <2>4. \A n \in DOMAIN archive.files : archive.files[n] # Absent
    BY ArchiveTyped DEF IInv, TypeOK
  <2>5. \A r \in DOMAIN live : Exists(media, live[r])
    BY <2>1, <2>2, <2>3, <2>4 DEF Rewritten, Exists
  <2>6. View(live, media) = Goal
    BY <2>1, <2>2, <2>3 DEF View, Rewritten, Goal
  <2> QED
    BY <1>1, <1>2, <2>5, <2>6 DEF Visible
<1>3. CASE ~renamed
  <2>1. live = base.live /\ pc \notin {"sweep", "succeeded"}
    BY <1>3 DEF IInv, DatabaseInv, CommitInv, AfterCommit
  <2>2. \A p \in Paths : Exists(base.media, p) => media[p] = base.media[p]
    BY <1>3, <2>1 DEF IInv, OldFilesInv
  <2>3. \A r \in DOMAIN live : live[r] \in Paths
    BY <1>1 DEF IInv, TypeOK, IsLedger, Partial
  <2>4. \A r \in DOMAIN live : media[live[r]] = base.media[live[r]] /\ Exists(media, live[r])
    BY <2>1, <2>2, <2>3 DEF BaseComplete, Exists
  <2>5. View(live, media) = View(base.live, base.media)
    BY <2>1, <2>4 DEF View
  <2> QED
    BY <1>1, <1>3, <2>4, <2>5 DEF Visible
<1> QED
  BY <1>2, <1>3

(* A bundle in use stays complete: the next restore finds one, too. *)
LEMMA BaseStep ==
    ASSUME IInv, BaseComplete, [Next]_vars
    PROVE  BaseComplete'
<1> USE DEF fileVars, runVars, histVars
<1>1. ASSUME NEW a \in Archives, Start(a) \/ Reject(a)
      PROVE  BaseComplete'
  <2>1. base' = [live |-> live, media |-> media]
    BY <1>1 DEF Start, Reject, Call
  <2> QED
    BY <2>1, ViewKnown DEF BaseComplete, ViewInv
<1>2. CASE UNCHANGED base
  BY <1>2 DEF BaseComplete
<1> QED
  BY <1>1, <1>2
     DEF Next, Step, RestoreFile, RestoreFileFails, StageDatabase, StageDatabaseFails,
         RewritePaths, RecheckStaged, CloseLive, DeleteSidecars, KeepRollback,
         KeepRollbackFails, InspectRollback, Throw, Replace, ReplaceFails, ReopenReplaced,
         VerifyReplaced, ThrowAfterCommit, DeleteOldFile, DeleteCreated, DropRollback,
         ReportSuccess, ReportKept, ReopenOld, ReportUndone, Crash, Reopen, vars

(* Nothing that happens between two reports or renames can be seen. *)
LEMMA ViewSteady ==
    ASSUME ViewInv, ViewInv', UNCHANGED <<base, archive, renamed>>
    PROVE  Visible(live, media)' = Visible(live, media) /\ Goal' = Goal
<1>1. Goal' = Goal
  BY DEF Goal
<1> QED
  BY <1>1 DEF ViewInv, View

promised == <<Visible(live, media), InProgress, Goal, renamed, result>>

(* Each step of the restore is a step of the promise or cannot be seen. *)
LEMMA StepRefines ==
    ASSUME IInv, ViewInv, ViewInv', [Next]_vars
    PROVE  [Contract!Next]_promised
<1> USE DEF fileVars, runVars, histVars, promised
<1>1. ASSUME NEW a \in Archives, Start(a)
      PROVE  Contract!Start
  <2>1. Visible(live, media)' = Visible(live, media)
    BY <1>1 DEF Start, Visible, View
  <2>2. archive' = a /\ Restorable(a)
    BY <1>1 DEF Start
  <2>3. Goal' \in {[r \in DOMAIN x.rows |-> x.files[x.rows[r]]] :
                      x \in {y \in Archives : Restorable(y)}}
    BY <2>2 DEF Goal
  <2> QED
    BY <1>1, <2>1, <2>3 DEF Start, Call, InProgress, Goal, Contract!Start
<1>2. ASSUME NEW a \in Archives, Reject(a)
      PROVE  Contract!Reject
  <2>1. Visible(live, media)' = Visible(live, media) /\ Goal' = Goal
    BY <1>2 DEF Reject, Visible, View, Goal
  <2> QED
    BY <1>2, <2>1 DEF Reject, Call, InProgress, Goal, Contract!Reject
<1>3. CASE Replace
  <2>1. UNCHANGED <<base, archive, result>> /\ renamed' /\ ~renamed
    BY <1>3 DEF Replace, IInv, CommitInv, BeforeCommit
  <2>2. pc = "swap" /\ pc' # "idle"
    BY <1>3 DEF Replace, DetectedStates, AfterDetection
  <2>3. Goal' = Goal /\ Visible(live, media)' = Goal'
    BY <2>1 DEF ViewInv, Goal
  <2> QED
    BY <2>1, <2>2, <2>3 DEF InProgress, Goal, Contract!Replace, Contract!Next
<1>4. CASE ReportSuccess
  <2>1. UNCHANGED <<base, archive, renamed>> /\ renamed
    BY <1>4 DEF ReportSuccess, IInv, CommitInv, AfterCommit
  <2>2. Visible(live, media)' = Visible(live, media) /\ Goal' = Goal
    BY <2>1, ViewSteady
  <2> QED
    BY <1>4, <2>1, <2>2 DEF ReportSuccess, InProgress, Goal, Contract!Succeed, Contract!Next
<1>5. CASE ReportKept \/ ReportUndone
  <2>1. UNCHANGED <<base, archive, renamed>>
    BY <1>5 DEF ReportKept, ReportUndone
  <2>2. Visible(live, media)' = Visible(live, media) /\ Goal' = Goal
    BY <2>1, ViewSteady
  <2> QED
    BY <1>5, <2>1, <2>2
       DEF ReportKept, ReportUndone, InProgress, Goal, Contract!Fail, Contract!Next
<1>6. CASE Crash
  <2>1. UNCHANGED <<base, archive, renamed, result>> /\ pc # "idle" /\ pc' = "idle"
    BY <1>6 DEF Crash
  <2>2. Visible(live, media)' = Visible(live, media) /\ Goal' = Goal
    BY <2>1, ViewSteady
  <2> QED
    BY <2>1, <2>2 DEF InProgress, Goal, Contract!Crash, Contract!Next
<1>7. ASSUME UNCHANGED <<base, archive, renamed, result>>, (pc = "idle") <=> (pc' = "idle")
      PROVE  UNCHANGED promised
  BY <1>7, ViewSteady DEF InProgress
<1>8. CASE \/ \E n \in Paths : RestoreFile(n) \/ RestoreFileFails(n)
           \/ StageDatabase \/ StageDatabaseFails \/ RewritePaths \/ RecheckStaged
           \/ CloseLive \/ DeleteSidecars \/ KeepRollback \/ KeepRollbackFails
           \/ InspectRollback \/ Throw
           \/ ReopenReplaced \/ VerifyReplaced \/ ThrowAfterCommit
           \/ \E p \in Paths : DeleteOldFile(p) \/ DeleteCreated(p)
           \/ DropRollback \/ ReopenOld \/ Reopen \/ UNCHANGED vars
  <2>1. UNCHANGED <<base, archive, renamed, result>> /\ ((pc = "idle") <=> (pc' = "idle"))
    BY <1>8
       DEF RestoreFile, RestoreFileFails, StageDatabase, StageDatabaseFails, RewritePaths,
           RecheckStaged, CloseLive, DeleteSidecars, KeepRollback, KeepRollbackFails,
           InspectRollback, Throw, ReopenReplaced, VerifyReplaced, ThrowAfterCommit,
           DeleteOldFile, DeleteCreated, DropRollback, ReopenOld, Reopen, vars
  <2> QED
    BY <1>7, <2>1
<1>9. CASE ReplaceFails
  <2>1. UNCHANGED <<base, archive, renamed, result>> /\ pc # "idle" /\ pc' # "idle"
    BY <1>9 DEF ReplaceFails, DetectedStates, AfterDetection
  <2> QED
    BY <1>7, <2>1
<1> QED
  BY <1>1, <1>2, <1>3, <1>4, <1>5, <1>6, <1>8, <1>9 DEF Next, Step, Contract!Next

(***************************************************************************)
(* When no row of the user's bundles lacks its attachment, an overwrite    *)
(* restore is atomic to the eye, whatever fails and wherever the process   *)
(* dies: the ledger with its attachments changes at most once, and in one  *)
(* step, to what the archive shows, and success is reported only then.     *)
(***************************************************************************)
THEOREM RestoreIsAtomic == BundlesComplete => (Spec => ImplementsContract)
<1>1. BundlesComplete /\ Init => BaseComplete /\ Contract!Init
  <2> SUFFICES ASSUME BundlesComplete, Init PROVE BaseComplete /\ Contract!Init
    OBVIOUS
  <2>1. BaseComplete
    BY DEF BundlesComplete, Init, BaseComplete
  <2>2. live = base.live /\ media = base.media /\ live # Corrupt /\ base \in InitialBundles
    BY DEF Init
  <2>3. Visible(live, media) \in {View(b.live, b.media) : b \in InitialBundles}
    BY <2>2 DEF Visible
  <2> QED
    BY <2>1, <2>3 DEF Init, InProgress, Contract!Init
<1>2. IInv /\ BaseComplete /\ [Next]_vars => BaseComplete'
  BY BaseStep
<1>3. IInv /\ BaseComplete => ViewInv
  BY ViewKnown
<1>4. IInv /\ ViewInv /\ ViewInv' /\ [Next]_vars => [Contract!Next]_(Contract!vars)
  BY StepRefines DEF promised, Goal, Contract!vars
<1> QED
  BY <1>1, <1>2, <1>3, <1>4, Inductive, PTL DEF Spec, ImplementsContract, Contract!Spec
===============================================================================
