-------------------------- MODULE MCCleanupService --------------------------
(***************************************************************************)
(* An instance of CleanupService: two orders on one invoice, one order on  *)
(* another, one on none; attachments shared within and across the tables.  *)
(***************************************************************************)
EXTENDS CleanupService

OrderRow(date, p) == [data |-> date, path |-> p]

MCTables ==
    { [orders |-> <<OrderRow("recent", "a"), OrderRow("old", "b"),
                    OrderRow("recent", "b"), OrderRow("recent", None)>>,
       invoices |-> <<OrderRow("recent", "f"), OrderRow("old", "g")>>,
       rel |-> {<<1, 1>>, <<1, 2>>, <<2, 3>>},
       files |-> {"a", "b", "f", "g"}],
      [orders |-> <<OrderRow("recent", "a"), OrderRow("recent", "c")>>,
       invoices |-> <<OrderRow("recent", "c"), OrderRow("recent", "a"), OrderRow("old", "f")>>,
       rel |-> {<<1, 1>>, <<2, 2>>},
       files |-> {"a", "c", "f"}] }
=============================================================================
