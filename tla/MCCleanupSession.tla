-------------------------- MODULE MCCleanupSession --------------------------
(***************************************************************************)
(* Instances of CleanupSession: two orders on one invoice, one of them out *)
(* of the date range.                                                      *)
(***************************************************************************)
EXTENDS CleanupSession

Rec(date, p) == [data |-> date, path |-> p]

MCBare ==
    { [orders |-> <<Rec("recent", None), Rec("old", None)>>,
       invoices |-> <<Rec("recent", None)>>, rel |-> {<<1, 1>>, <<1, 2>>}, files |-> {}] }

(* Two pairs of orders, each on an invoice; an attachment. *)
MCPairs ==
    { [orders |-> <<Rec("recent", "a"), Rec("recent", None), Rec("recent", None), Rec("old", None)>>,
       invoices |-> <<Rec("recent", None), Rec("recent", None)>>,
       rel |-> {<<1, 1>>, <<1, 2>>, <<2, 3>>, <<2, 4>>},
       files |-> {"a"}] }
=============================================================================
