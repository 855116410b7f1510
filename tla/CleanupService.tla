---------------------------- MODULE CleanupService ----------------------------
(***************************************************************************)
(* CleanupService.deleteOrders and deleteInvoices: one transaction works   *)
(* out what is deleted along with the chosen rows and deletes it; when it  *)
(* has committed, the attachments no row refers to any more are deleted,   *)
(* each one on its own.  The two methods mirror each other; kind says      *)
(* which one runs.                                                         *)
(***************************************************************************)
EXTENDS LedgerTables

CONSTANT InitialTables      \* what the database and the store may hold at the start

(* Tables, with the foreign keys and the unique index of the schema. *)
ASSUME TablesAssumption ==
    \A t \in InitialTables :
        /\ t.orders = [i \in DOMAIN t.orders |-> t.orders[i]]
        /\ t.invoices = [i \in DOMAIN t.invoices |-> t.invoices[i]]
        /\ KeysResolve(t.rel, t.invoices, t.orders)
        /\ OneInvoicePerOrder(t.rel)

Kinds == {"orders", "invoices"}

VARIABLES
    orders, invoices, rel,  \* the database
    files,                  \* the attachments that exist
    job,                    \* the call that runs, with pc = idle when none does
    undeleted,              \* undeletedFilePaths
    outcome,                \* of the last call: none, success, failure
    before                  \* history: database and files when it started

ledger == <<orders, invoices, rel>>
serviceVars == <<ledger, files, job, undeleted, outcome, before>>

Snapshot == [orders |-> orders, invoices |-> invoices, rel |-> rel, files |-> files]

NoJob == [pc |-> "idle", kind |-> "orders", roots |-> {}, related |-> FALSE, doomed |-> {}]

ServiceInit ==
    /\ before \in InitialTables
    /\ orders = before.orders
    /\ invoices = before.invoices
    /\ rel = before.rel
    /\ files = before.files
    /\ job = NoJob
    /\ undeleted = {}
    /\ outcome = "none"

(* _invoiceIdsForOrders, _orderIdsForInvoices *)
InvoicesFor(S) == {r[1] : r \in {q \in rel : q[2] \in S}}
OrdersFor(S) == {r[2] : r \in {q \in rel : q[1] \in S}}

(***************************************************************************)
(* What one call deletes: the roots; with related records also their       *)
(* siblings, one hop away, and the partners of both.                       *)
(***************************************************************************)
Siblings(kind, roots) ==
    (IF kind = "orders" THEN OrdersFor(InvoicesFor(roots)) ELSE InvoicesFor(OrdersFor(roots)))
        \ roots

(* A bug: the siblings of the roots are forgotten. *)
ScopeOfRoots(kind, roots, related) ==
    LET partners == IF ~related THEN {}
                    ELSE IF kind = "orders" THEN InvoicesFor(roots) ELSE OrdersFor(roots)
    IN  IF kind = "orders" THEN [orders |-> roots, invoices |-> partners]
        ELSE [orders |-> partners, invoices |-> roots]

Scope(kind, roots, related) ==
    LET all == IF related THEN roots \union Siblings(kind, roots) ELSE roots
        partners == IF ~related THEN {}
                    ELSE IF kind = "orders" THEN InvoicesFor(all) ELSE OrdersFor(all)
    IN  IF kind = "orders" THEN [orders |-> all, invoices |-> partners]
        ELSE [orders |-> partners, invoices |-> all]

Without(table, S) == [i \in DOMAIN table \ S |-> table[i]]

AttachmentsOf(table, S) == {table[i].path : i \in DOMAIN table \intersect S} \ {None}

(* A bug: only the table the call is about is searched for references. *)
DoomedByOrders(scope) ==
    (AttachmentsOf(orders, scope.orders) \union AttachmentsOf(invoices, scope.invoices))
        \ AttachmentsOf(orders, DOMAIN orders \ scope.orders)

(***************************************************************************)
(* _attachmentPaths before the deletion, without those that rows left      *)
(* behind refer to (_unreferencedAttachmentPaths).                         *)
(***************************************************************************)
Doomed(scope) ==
    (AttachmentsOf(orders, scope.orders) \union AttachmentsOf(invoices, scope.invoices))
        \ ReferencedPaths(Without(orders, scope.orders), Without(invoices, scope.invoices))

Begin(kind, roots, related) ==
    /\ job.pc = "idle"
    /\ job' = [pc |-> "transaction", kind |-> kind, roots |-> roots,
               related |-> related, doomed |-> {}]
    /\ undeleted' = {}
    /\ outcome' = "none"
    /\ before' = Snapshot
    /\ UNCHANGED <<ledger, files>>

(* The transaction: relations, orders and invoices together. *)
Commit ==
    /\ job.pc = "transaction"
    /\ LET scope == Scope(job.kind, job.roots, job.related) IN
        /\ orders' = Without(orders, scope.orders)
        /\ invoices' = Without(invoices, scope.invoices)
        /\ rel' = {r \in rel : r[2] \notin scope.orders /\ r[1] \notin scope.invoices}
        /\ job' = [job EXCEPT !.pc = "files", !.doomed = Doomed(scope)]
    /\ UNCHANGED <<files, undeleted, outcome, before>>

(* A statement throws, the transaction is rolled back, the call rethrows. *)
Rollback ==
    /\ job.pc = "transaction"
    /\ job' = NoJob
    /\ outcome' = "failure"
    /\ UNCHANGED <<ledger, files, undeleted, before>>

(* One iteration of _deleteAttachments. *)
DeleteAttachment(p) ==
    /\ job.pc = "files"
    /\ p \in job.doomed
    /\ job' = [job EXCEPT !.doomed = @ \ {p}]
    /\ files' = files \ {p}
    /\ UNCHANGED <<ledger, undeleted, outcome, before>>

(* A bug: an attachment that cannot be deleted is forgotten. *)
DeleteAttachmentFailsSilently(p) ==
    /\ job.pc = "files"
    /\ p \in job.doomed
    /\ job' = [job EXCEPT !.doomed = @ \ {p}]
    /\ UNCHANGED <<ledger, files, undeleted, outcome, before>>

DeleteAttachmentFails(p) ==
    /\ job.pc = "files"
    /\ p \in job.doomed
    /\ job' = [job EXCEPT !.doomed = @ \ {p}]
    /\ undeleted' = undeleted \union {p}
    /\ UNCHANGED <<ledger, files, outcome, before>>

Finish ==
    /\ job.pc = "files"
    /\ job.doomed = {}
    /\ job' = NoJob
    /\ outcome' = "success"
    /\ UNCHANGED <<ledger, files, undeleted, before>>

(* The process dies; what SQLite has committed stays. *)
ServiceDies ==
    /\ job' = NoJob
    /\ undeleted' = {}
    /\ outcome' = "none"
    /\ UNCHANGED <<ledger, files, before>>

AllPaths == UNION {ReferencedPaths(t.orders, t.invoices) : t \in InitialTables}

AllIds == UNION {DOMAIN t.orders \union DOMAIN t.invoices : t \in InitialTables}

ServiceStep ==
    \/ Commit \/ Rollback \/ Finish
    \/ \E p \in AllPaths : DeleteAttachment(p) \/ DeleteAttachmentFails(p)

(* The chosen rows may have gone: the list they were chosen from can be old. *)
ServiceNext ==
    \/ \E kind \in Kinds : \E roots \in (SUBSET AllIds) \ {{}} :
          \E related \in BOOLEAN : Begin(kind, roots, related)
    \/ ServiceStep
    \/ job.pc # "idle" /\ ServiceDies

ServiceSpec == ServiceInit /\ [][ServiceNext]_serviceVars
-------------------------------------------------------------------------------
ServiceTypeOK ==
    /\ orders = Without(before.orders, DOMAIN before.orders \ DOMAIN orders)
    /\ invoices = Without(before.invoices, DOMAIN before.invoices \ DOMAIN invoices)
    /\ rel \subseteq before.rel
    /\ files \subseteq before.files
    /\ job \in [pc : {"idle", "transaction", "files"}, kind : Kinds, roots : SUBSET AllIds,
               related : BOOLEAN, doomed : SUBSET (AllPaths \ undeleted)]
    /\ undeleted \subseteq AllPaths
    /\ outcome \in {"none", "success", "failure"}

(***************************************************************************)
(* No clean-up, finished, failed or killed, takes an attachment away from  *)
(* a row that is still in the database, although rows may share one.       *)
(***************************************************************************)
AttachmentsStay == ReferencedPaths(orders, invoices) \intersect before.files \subseteq files

(* A failed clean-up has deleted nothing, neither rows nor attachments. *)
FailureTouchesNothing == outcome = "failure" => Snapshot = before

(***************************************************************************)
(* When a clean-up is done, an attachment that lost its last row is gone   *)
(* or is reported as not deleted.                                          *)
(***************************************************************************)
OrphansReported ==
    outcome = "success" =>
        \A p \in ReferencedPaths(before.orders, before.invoices) \intersect files :
            p \in ReferencedPaths(orders, invoices) \union undeleted

(* No clean-up leaves a relation to a deleted row, whatever kind it is of. *)
RelationsResolve == KeysResolve(rel, invoices, orders)

(***************************************************************************)
(* When related records are deleted too, no row that stays loses its       *)
(* partner: an order that stays keeps its invoice, an invoice its orders.  *)
(***************************************************************************)
NoneLeftAlone ==
    [][Commit /\ job.related =>
          \A r \in rel : (r[1] \in DOMAIN invoices' \/ r[2] \in DOMAIN orders') => r \in rel']_serviceVars
===============================================================================
