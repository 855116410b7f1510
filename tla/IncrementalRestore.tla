-------------------------- MODULE IncrementalRestore --------------------------
(***************************************************************************)
(* BackupService.restoreBackup in incremental mode: the attachments of the *)
(* archive are written beside the present ones, then one transaction       *)
(* merges the rows of the archive into the live database, each one used    *)
(* for an equal row that is there already, or inserted.  Between restores  *)
(* the user may delete an order, with its attachment when no row is left   *)
(* that refers to it.                                                      *)
(*                                                                         *)
(* A path stands for its file name: rows are compared by the base name of  *)
(* their image_path (_recordFingerprint).                                  *)
(***************************************************************************)
EXTENDS MediaStore, LedgerTables, FiniteSetsExt

CONSTANTS
    Archives,       \* the backup files the user may pick
    InitialLedgers, \* what database and directories may hold at the start
    SchemaVersion,  \* AppConstants.databaseVersion
    MaxRestores,    \* bound: restores started
    MaxForgets      \* bound: orders deleted by the user

Rows == [data : Data, updated : Nat, path : Paths \union {None}]
IsTable(t) ==
    /\ IsFiniteSet(DOMAIN t) /\ DOMAIN t \subseteq Nat
    /\ t \in [DOMAIN t -> Rows]

(***************************************************************************)
(* Archives carry complete files; the live foreign keys resolve, and the   *)
(* live relations have passed the unique index on order_id.                *)
(***************************************************************************)
ASSUME IncrementalAssumption ==
    /\ None \notin Paths
    /\ \A a \in Archives :
          /\ {"version", "orders", "invoices", "rel", "files"} \subseteq DOMAIN a
          /\ IsTable(a.orders) /\ IsTable(a.invoices)
          /\ a.rel \subseteq Nat \X Nat
          /\ DOMAIN a.files \subseteq Paths
          /\ \A n \in DOMAIN a.files : a.files[n] \in Contents
    /\ \A l \in InitialLedgers :
          /\ IsTable(l.orders) /\ IsTable(l.invoices)
          /\ l.rel \subseteq (DOMAIN l.invoices) \X (DOMAIN l.orders)
          /\ OneInvoicePerOrder(l.rel)
          /\ l.media \in Files

VARIABLES
    media,          \* the attachment directories
    orders,         \* the orders table
    invoices,       \* the invoices table
    rel,            \* the invoice_order_relations table
    pc,             \* idle, media, merge, undo
    archive,        \* the prepared archive
    dest,           \* imagePaths, pdfPaths
    created,        \* createdFiles
    result,         \* what was reported: none, success, failure
    conflicts,      \* summary.relationConflicts of the last success
    base,           \* history: the ledger when the last restore started, or
                    \* as the user's last deletion left it
    merged,         \* history: the archives merged so far
    starts, forgets \* counters for the bounds

ledger == <<orders, invoices, rel>>
vars == <<media, orders, invoices, rel, pc, archive, dest, created, result,
          conflicts, base, merged, starts, forgets>>

(***************************************************************************)
(* _prepareBackup.  An archive of the current version must have valid      *)
(* foreign keys; a database of any version is opened in isolation, which   *)
(* deletes orphaned and duplicate relations (_prepareDatabaseForRestore).  *)
(***************************************************************************)
Restorable(a) ==
    /\ a.version <= SchemaVersion
    /\ a.version = SchemaVersion => KeysResolve(a.rel, a.invoices, a.orders)
    /\ \A p \in ReferencedPaths(a.orders, a.invoices) :
          p \in DOMAIN a.files /\ a.files[p] # Empty

Prepared(a) ==
    [a EXCEPT !.rel = WithoutDuplicates(WithoutOrphans(@, a.invoices, a.orders), a.invoices)]

Snapshot == [orders |-> orders, invoices |-> invoices, rel |-> rel, media |-> media]

Init ==
    /\ base \in InitialLedgers
    /\ media = base.media
    /\ orders = base.orders
    /\ invoices = base.invoices
    /\ rel = base.rel
    /\ pc = "idle"
    /\ archive \in {a \in Archives : Restorable(a)}
    /\ dest = << >>
    /\ created = {}
    /\ result = "none"
    /\ conflicts = 0
    /\ merged = {}
    /\ starts = 0
    /\ forgets = 0

Reject(a) ==
    /\ pc = "idle"
    /\ ~Restorable(a)
    /\ result' = "failure"
    /\ base' = Snapshot
    /\ UNCHANGED <<media, ledger, pc, archive, dest, created, conflicts, merged, starts, forgets>>

Start(a) ==
    /\ pc = "idle"
    /\ Restorable(a)
    /\ starts < MaxRestores
    /\ starts' = starts + 1
    /\ pc' = "media"
    /\ archive' = Prepared(a)
    /\ dest' = << >>
    /\ created' = {}
    /\ result' = "none"
    /\ conflicts' = 0
    /\ base' = Snapshot
    /\ UNCHANGED <<media, ledger, merged, forgets>>

(* A bug: a file that was there already is recorded as created. *)
RestoreFileRecordsAll(n) ==
    /\ pc = "media"
    /\ n \in DOMAIN archive.files \ DOMAIN dest
    /\ \E d \in Destinations(media, n, archive.files[n]) :
          /\ media' = [media EXCEPT ![d] = archive.files[n]]
          /\ created' = created \union {d}
          /\ dest' = Extend(dest, n, d)
    /\ UNCHANGED <<ledger, pc, archive, result, conflicts, base, merged, starts, forgets>>

(* One iteration of _restoreMediaIncrementally, in any order of the names. *)
RestoreFile(n) ==
    /\ pc = "media"
    /\ n \in DOMAIN archive.files \ DOMAIN dest
    /\ \E d \in Destinations(media, n, archive.files[n]) :
          /\ media' = [media EXCEPT ![d] = archive.files[n]]
          /\ created' = IF Exists(media, d) THEN created ELSE created \union {d}
          /\ dest' = Extend(dest, n, d)
    /\ UNCHANGED <<ledger, pc, archive, result, conflicts, base, merged, starts, forgets>>

RestoreFileFails(n) ==
    /\ pc = "media"
    /\ n \in DOMAIN archive.files \ DOMAIN dest
    /\ \E d \in Destinations(media, n, archive.files[n]) :
          /\ ~Exists(media, d)
          /\ media' = [media EXCEPT ![d] = Torn]
    /\ pc' = "undo"
    /\ UNCHANGED <<ledger, archive, dest, created, result, conflicts, base, merged, starts, forgets>>

MediaRestored ==
    /\ pc = "media"
    /\ DOMAIN dest = DOMAIN archive.files
    /\ pc' = "merge"
    /\ UNCHANGED <<media, ledger, archive, dest, created, result, conflicts, base, merged, starts, forgets>>

(* _resolveOrderMediaPath, _resolveInvoiceMediaPath *)
Resolved(row) == IF row.path = None THEN row ELSE [row EXCEPT !.path = dest[@]]

(***************************************************************************)
(* Rows are equal when their fingerprints are.  The k-th source row of a   *)
(* fingerprint uses the k-th present row that has it, in the order of ids; *)
(* a source row that finds none is inserted under a new id.  (SQLite never *)
(* gives an id twice; no property tells a new id from a reused one.)       *)
(***************************************************************************)
Like(table, row) == {i \in DOMAIN table : table[i] = row}

(* A bug: source rows do not use up the rows they match. *)
EqualsWithoutUse(source, table, s) ==
    LET like == Like(table, Resolved(source[s]))
    IN  {i \in like : Rank(like, i) = 1}

(* A bug: the fingerprint is taken before the attachment's name is known. *)
EqualsUnresolved(source, table, s) ==
    LET twins == {i \in DOMAIN source : source[i] = source[s]}
        like == Like(table, source[s])
    IN  {i \in like : Rank(like, i) = Rank(twins, s)}

Equals(source, table, s) ==
    LET twins == {i \in DOMAIN source : Resolved(source[i]) = Resolved(source[s])}
        like == Like(table, Resolved(source[s]))
    IN  {i \in like : Rank(like, i) = Rank(twins, s)}

Inserted(source, table) == {s \in DOMAIN source : Equals(source, table, s) = {}}

(* orderIdMap, invoiceIdMap *)
IdOf(source, table, s) ==
    IF Equals(source, table, s) # {}
    THEN CHOOSE i \in Equals(source, table, s) : TRUE
    ELSE Max(DOMAIN table \union {0}) + Rank(Inserted(source, table), s)

MergedTable(source, table) ==
    LET new == {IdOf(source, table, s) : s \in Inserted(source, table)}
    IN  [i \in DOMAIN table \union new |->
            IF i \in DOMAIN table THEN table[i]
            ELSE Resolved(source[CHOOSE s \in Inserted(source, table) :
                                    IdOf(source, table, s) = i])]

(* A bug: the ids of the archive are taken for ids of the live database. *)
SourceRelations == archive.rel

(* The relations of the source under the ids of the live database. *)
MappedRelations ==
    {<<IdOf(archive.invoices, invoices, r[1]), IdOf(archive.orders, orders, r[2])>> :
        r \in archive.rel}

(* An order that has an invoice keeps it. *)
NewRelations == {r \in MappedRelations : InvoicesOf(rel, r[2]) = {}}

(* summary.relationConflicts *)
Conflicts ==
    Cardinality({r \in MappedRelations : InvoicesOf(rel, r[2]) # {} /\ r \notin rel})

(* _mergeDatabaseData, one transaction on the live database. *)
Merge ==
    /\ pc = "merge"
    /\ orders' = MergedTable(archive.orders, orders)
    /\ invoices' = MergedTable(archive.invoices, invoices)
    /\ rel' = rel \union NewRelations
    /\ conflicts' = Conflicts
    /\ result' = "success"
    /\ merged' = merged \union {archive}
    /\ pc' = "idle"
    /\ UNCHANGED <<media, archive, dest, created, base, starts, forgets>>

(* A statement throws; a transaction that throws is rolled back. *)
Throw ==
    /\ pc \in {"media", "merge"}
    /\ pc' = "undo"
    /\ UNCHANGED <<media, ledger, archive, dest, created, result, conflicts, base, merged, starts, forgets>>

(* The finally block when the merge was not committed. *)
DeleteCreated(p) ==
    /\ pc = "undo"
    /\ p \in created
    /\ created' = created \ {p}
    /\ \E content \in {media[p], Absent} : media' = [media EXCEPT ![p] = content]
    /\ UNCHANGED <<ledger, pc, archive, dest, result, conflicts, base, merged, starts, forgets>>

ReportFailure ==
    /\ pc = "undo"
    /\ created = {}
    /\ result' = "failure"
    /\ pc' = "idle"
    /\ UNCHANGED <<media, ledger, archive, dest, created, conflicts, base, merged, starts, forgets>>

Crash ==
    /\ pc # "idle"
    /\ pc' = "idle"
    /\ \/ UNCHANGED media
       \/ /\ pc = "media"
          /\ \E n \in DOMAIN archive.files \ DOMAIN dest :
             \E d \in Destinations(media, n, archive.files[n]) :
                /\ ~Exists(media, d)
                /\ media' = [media EXCEPT ![d] = Torn]
    /\ UNCHANGED <<ledger, archive, dest, created, result, conflicts, base, merged, starts, forgets>>

(***************************************************************************)
(* CleanupService.deleteOrders on one order, without its related records.  *)
(* The deletion of the attachment follows the commit and may fail.         *)
(***************************************************************************)
Forget(o) ==
    /\ pc = "idle"
    /\ o \in DOMAIN orders
    /\ forgets < MaxForgets
    /\ forgets' = forgets + 1
    /\ orders' = [i \in DOMAIN orders \ {o} |-> orders[i]]
    /\ rel' = {r \in rel : r[2] # o}
    /\ \/ UNCHANGED media
       \/ /\ orders[o].path \notin ReferencedPaths(orders', invoices) \union {None}
          /\ media' = [media EXCEPT ![orders[o].path] = Absent]
    /\ result' = "none"
    /\ UNCHANGED invoices
    /\ base' = Snapshot'
    /\ UNCHANGED <<pc, archive, dest, created, conflicts, merged, starts>>

Step ==
    \/ \E n \in Paths : RestoreFile(n) \/ RestoreFileFails(n)
    \/ MediaRestored \/ Merge \/ Throw
    \/ \E p \in Paths : DeleteCreated(p)
    \/ ReportFailure

Next ==
    \/ \E a \in Archives : Start(a) \/ Reject(a)
    \/ Step
    \/ Crash
    \/ \E o \in DOMAIN orders : Forget(o)

Spec == Init /\ [][Next]_vars
-------------------------------------------------------------------------------
(* Rows are rows, files are files, and every foreign key resolves. *)
TypeOK ==
    /\ media \in Files
    /\ IsTable(orders) /\ IsTable(invoices)
    /\ rel \subseteq (DOMAIN invoices) \X (DOMAIN orders)
    /\ pc \in {"idle", "media", "merge", "undo"}
    /\ DOMAIN dest \subseteq Paths /\ dest \in [DOMAIN dest -> Paths]
    /\ created \subseteq Paths
    /\ result \in {"none", "success", "failure"}

(* What the user sees of a row: its columns and the bytes of its attachment. *)
Shown(row, files) ==
    [data |-> row.data, updated |-> row.updated,
     bytes |-> IF row.path = None THEN None ELSE files[row.path]]
Showing(table, files, shown) == {i \in DOMAIN table : Shown(table[i], files) = shown}
AllShown(table, files) == {Shown(table[i], files) : i \in DOMAIN table}

(***************************************************************************)
(* A restore takes nothing away: while it runs, when it has ended, and     *)
(* when it died, every row and relation it found is there, and so is every *)
(* attachment it found, with its bytes.                                    *)
(***************************************************************************)
NothingTakenAway ==
    /\ \A i \in DOMAIN base.orders : i \in DOMAIN orders /\ orders[i] = base.orders[i]
    /\ \A i \in DOMAIN base.invoices : i \in DOMAIN invoices /\ invoices[i] = base.invoices[i]
    /\ base.rel \subseteq rel
    /\ \A p \in Paths : Exists(base.media, p) => media[p] = base.media[p]

(***************************************************************************)
(* A successful restore brings everything: each order and invoice of the   *)
(* archive can be seen, with the archive's bytes, as many times as the     *)
(* archive has it.                                                         *)
(***************************************************************************)
EverythingRestored ==
    result = "success" =>
        /\ \A x \in AllShown(archive.orders, archive.files) :
              Cardinality(Showing(orders, media, x))
                >= Cardinality(Showing(archive.orders, archive.files, x))
        /\ \A x \in AllShown(archive.invoices, archive.files) :
              Cardinality(Showing(invoices, media, x))
                >= Cardinality(Showing(archive.invoices, archive.files, x))

(* The ways to find each row of a source, under an id of its own, in a      *)
(* table where it shows what the source shows.                              *)
Findings(source, sourceFiles, table, files) ==
    {at \in Injection(DOMAIN source, DOMAIN table) :
        \A s \in DOMAIN source : Shown(table[at[s]], files) = Shown(source[s], sourceFiles)}

(***************************************************************************)
(* The orders and the invoices of the archive can be found, one for one,   *)
(* among rows that show the same, so that every relation of the archive    *)
(* joins the rows that were found for its own, or its order had an invoice *)
(* before and keeps it; the warning counts exactly the latter.  At no time *)
(* has an order two invoices (the unique index).                           *)
(***************************************************************************)
RelationsRestored ==
    /\ OneInvoicePerOrder(rel)
    /\ result = "success" =>
        \E orderAt \in Findings(archive.orders, archive.files, orders, media),
           invoiceAt \in Findings(archive.invoices, archive.files, invoices, media) :
            LET kept == {r \in archive.rel : <<invoiceAt[r[1]], orderAt[r[2]]>> \notin rel}
            IN  /\ conflicts = Cardinality(kept)
                /\ \A r \in kept : InvoicesOf(base.rel, orderAt[r[2]]) # {}

(***************************************************************************)
(* Restoring a backup once more changes nothing in the database, whatever  *)
(* other backups, failures and crashes came in between.                    *)
(***************************************************************************)
RepeatChangesNothing ==
    [][Merge /\ archive \in merged /\ forgets = 0 => UNCHANGED ledger]_vars

===============================================================================
