----------------------------- MODULE LedgerTables -----------------------------
(***************************************************************************)
(* The three tables of receipt_tamer.db as values, and the statements the  *)
(* services run on them.  A table is a function from ids to rows; a row is *)
(* its image_path (None when empty), its updated_at and created_at as one  *)
(* number, and the rest of its columns, a member of Data.  The relation    *)
(* table is a set of pairs <<invoice, order>>, its primary key.            *)
(***************************************************************************)
EXTENDS Naturals, FiniteSets

CONSTANTS
    Data,           \* the other columns of a row
    None            \* an empty image_path

(* The attachments that rows of the tables t and u refer to. *)
ReferencedPaths(t, u) ==
    ({t[i].path : i \in DOMAIN t} \union {u[i].path : i \in DOMAIN u}) \ {None}

(* deleteOrphanedRelations *)
WithoutOrphans(rel, invoices, orders) ==
    {r \in rel : r[1] \in DOMAIN invoices /\ r[2] \in DOMAIN orders}

(***************************************************************************)
(* enforceSingleInvoicePerOrder: of the invoices of one order the one last *)
(* updated stays, the greater id deciding among equals.                    *)
(***************************************************************************)
InvoicesOf(rel, order) == {r[1] : r \in {q \in rel : q[2] = order}}

LastUpdated(S, invoices) ==
    CHOOSE i \in S : \A j \in S :
        \/ invoices[i].updated > invoices[j].updated
        \/ invoices[i].updated = invoices[j].updated /\ i >= j

WithoutDuplicates(rel, invoices) ==
    {r \in rel : r[1] = LastUpdated(InvoicesOf(rel, r[2]), invoices)}

(* The unique index on order_id. *)
OneInvoicePerOrder(rel) == \A r, s \in rel : r[2] = s[2] => r = s

(* Both foreign keys. *)
KeysResolve(rel, invoices, orders) == WithoutOrphans(rel, invoices, orders) = rel

Rank(S, x) == Cardinality({y \in S : y <= x})
===============================================================================
