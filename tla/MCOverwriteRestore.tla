-------------------------- MODULE MCOverwriteRestore --------------------------
(***************************************************************************)
(* An instance of OverwriteRestore with two attachment names, a and b,     *)
(* whose names with a content token and a suffix are aX, aX1, ...  One     *)
(* archive carries a file that is itself called aX, so that the name given *)
(* to a colliding file may be taken in turn.                               *)
(***************************************************************************)
EXTENDS OverwriteRestore, TLC

MCPaths == {"a", "aX", "aX1", "aX2", "aXY", "aXY1", "b", "bY", "bY1"}
MCContents == {"X", "Y", ""}
MCAlternatives ==
    [pc_ \in MCPaths \X MCContents |->
        CASE pc_ = <<"a", "X">>  -> <<"a", "aX", "aX1", "aX2">>
          [] pc_ = <<"aX", "Y">> -> <<"aX", "aXY", "aXY1">>
          [] pc_ = <<"b", "Y">>  -> <<"b", "bY", "bY1">>
          [] OTHER -> <<pc_[1]>>]

MCArchives ==
    { \* an ordinary backup
      [rows |-> "r1" :> "a" @@ "r2" :> "b",
       files |-> "a" :> "X" @@ "b" :> "Y", version |-> 2],
      \* of an older version, with a file named like a collision name
      [rows |-> "r1" :> "a" @@ "r3" :> "aX",
       files |-> "a" :> "X" @@ "aX" :> "Y", version |-> 1],
      \* refused: too new; a reference without a file; an empty file
      [rows |-> "r1" :> "a", files |-> "a" :> "X", version |-> 3],
      [rows |-> "r1" :> "b", files |-> "a" :> "X", version |-> 2],
      [rows |-> "r1" :> "a", files |-> "a" :> "", version |-> 2] }

Holding(f) == [p \in MCPaths |-> IF p \in DOMAIN f THEN f[p] ELSE Absent]

(* Bundles whose every row has its attachment: nothing in the way, a      *)
(* collision with other bytes, and one with a collision name in use.       *)
MCCompleteBundles ==
    { [live |-> "r1" :> "a", media |-> Holding("a" :> "Y" @@ "b" :> "Y")],
      [live |-> "r1" :> "a" @@ "r2" :> "aX",
       media |-> Holding("a" :> "Y" @@ "aX" :> "X")] }

(* Bundles as an earlier failure may have left them: a row whose attachment *)
(* is missing, an attachment cut short, one that no row refers to.         *)
MCDamagedBundles ==
    { [live |-> "r1" :> "b" @@ "r2" :> "a", media |-> Holding("a" :> Torn)],
      [live |-> "r1" :> "a", media |-> Holding("a" :> "X" @@ "aX" :> "X")] }
MCBundles == MCCompleteBundles \union MCDamagedBundles
===============================================================================
