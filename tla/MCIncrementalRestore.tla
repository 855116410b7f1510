------------------------- MODULE MCIncrementalRestore -------------------------
(***************************************************************************)
(* An instance of IncrementalRestore: an image name a with the names it    *)
(* gets when it collides, and a PDF name b.                                *)
(***************************************************************************)
EXTENDS IncrementalRestore, TLC

MCPaths == {"a", "aX", "aX1", "b", "bY"}
MCContents == {"X", "Y", ""}
MCAlternatives ==
    [e \in MCPaths \X MCContents |->
        CASE e = <<"a", "X">> -> <<"a", "aX", "aX1">>
          [] e = <<"b", "Y">> -> <<"b", "bY">>
          [] OTHER -> <<e[1]>>]

Row(d, u, p) == [data |-> d, updated |-> u, path |-> p]
Holding(f) == [p \in MCPaths |-> IF p \in DOMAIN f THEN f[p] ELSE Absent]

MCArchives ==
    { \* two orders that are equal, the first one invoiced
      [orders |-> <<Row("d", 1, "a"), Row("d", 1, "a")>>,
       invoices |-> <<Row("d", 1, "b")>>, rel |-> {<<1, 1>>},
       files |-> "a" :> "X" @@ "b" :> "Y", version |-> 2],
      \* version 1: an order with two invoices, and an orphaned relation
      [orders |-> <<Row("d", 1, "a")>>,
       invoices |-> <<Row("e", 2, None), Row("e", 1, "b")>>,
       rel |-> {<<1, 1>>, <<2, 1>>, <<3, 1>>},
       files |-> "a" :> "X" @@ "b" :> "Y", version |-> 1],
      \* refused: an orphaned relation in a current database
      [orders |-> <<Row("d", 1, None)>>, invoices |-> << >>, rel |-> {<<1, 1>>},
       files |-> << >>, version |-> 2] }

MCInitialLedgers ==
    { \* nothing yet
      [orders |-> << >>, invoices |-> << >>, rel |-> {}, media |-> Holding(<< >>)],
      \* an order whose attachment has the name of the archive's, not its bytes
      [orders |-> <<Row("d", 1, "a")>>, invoices |-> << >>, rel |-> {},
       media |-> Holding("a" :> "Y")],
      \* the archive's order, on another invoice
      [orders |-> <<Row("d", 1, "a")>>, invoices |-> <<Row("f", 1, None)>>,
       rel |-> {<<1, 1>>}, media |-> Holding("a" :> "X" @@ "b" :> Torn)] }
===============================================================================
