---------------------------- MODULE AtomicRestore ----------------------------
(***************************************************************************)
(* What an overwrite restore promises, whatever fails and wherever the     *)
(* process dies (PROCESSING.md, "Overwrite restore"): the ledger with its  *)
(* attachments, as the user sees it, changes in ONE step from what it was  *)
(* to what the archive holds, at most once per restore, and a restore that *)
(* reports success has made that step.                                     *)
(***************************************************************************)
CONSTANTS
    Views,          \* every ledger-with-attachments the user could see
    Bundles         \* the views the archives hold

VARIABLES
    view,           \* the ledger with its attachments
    running,        \* a restore is in progress
    goal,           \* the bundle being restored
    replaced,       \* this restore has replaced the ledger
    result          \* what the last restore reported: none, success, failure

vars == <<view, running, goal, replaced, result>>

Init ==
    /\ view \in Views
    /\ running = FALSE
    /\ goal \in Bundles
    /\ replaced = FALSE
    /\ result = "none"

Start ==
    /\ ~running
    /\ running' = TRUE
    /\ goal' \in Bundles
    /\ replaced' = FALSE
    /\ result' = "none"
    /\ UNCHANGED view

(* An archive that fails validation, or is too new, changes nothing. *)
Reject ==
    /\ ~running
    /\ result' = "failure"
    /\ replaced' = FALSE
    /\ UNCHANGED <<view, running, goal>>

Replace ==
    /\ running
    /\ ~replaced
    /\ view' = goal
    /\ replaced' = TRUE
    /\ UNCHANGED <<running, goal, result>>

Succeed ==
    /\ running
    /\ replaced
    /\ running' = FALSE
    /\ result' = "success"
    /\ UNCHANGED <<view, goal, replaced>>

Fail ==
    /\ running
    /\ running' = FALSE
    /\ result' = "failure"
    /\ UNCHANGED <<view, goal, replaced>>

(* The process dies: no report is made. *)
Crash ==
    /\ running
    /\ running' = FALSE
    /\ UNCHANGED <<view, goal, replaced, result>>

Next == Start \/ Reject \/ Replace \/ Succeed \/ Fail \/ Crash

Spec == Init /\ [][Next]_vars
=============================================================================
