---------------------------- MODULE CleanupSession ----------------------------
(***************************************************************************)
(* CleanupNotifier over CleanupService, with the two clean-up screens that *)
(* drive it.  Every await is a task that ends in a later step: loads of    *)
(* the list, calculations of the cascade, deselections, the confirmation,  *)
(* the deletion, the refresh after it.  Tasks that await end in any order. *)
(*                                                                         *)
(* _loadRequest and _cascadeRequest are represented by the flag current of *)
(* a task: the task's request number equals the counter.  The death of the *)
(* process, which ends all tasks, is a step of CleanupService only.        *)
(***************************************************************************)
EXTENDS CleanupService

CONSTANTS
    MaxLoads, MaxCalculations, MaxDeselections, \* bounds on tasks under way
    MaxDeletions                                \* bound on confirmed deletions

VARIABLES
    mode, range,            \* range: all, or recent when a date range is set
    available,              \* availableOrders, availableInvoices: their ids
    isLoading, loads,       \* loads under way
    listed,                 \* history: the last load that counted succeeded
    selectedIds, cascadeIds,
    deleteRelatedItems,
    calculations,           \* _recalculateCascade under way
    deselections,           \* _unselectCascadeChain under way
    isDeleting,
    error, warning,         \* errorMessage, refreshWarningMessage: whether there is one
    confirming,             \* _confirmDelete: none, counting, dialog
    disclosed,              \* history: the rows the dialog of this deletion counted
    deletions,              \* counter for the bound
    refreshing              \* _refreshAfterSuccessfulCleanup, by caller: none, list, main, warned

listVars == <<mode, range, available, isLoading, loads, listed>>
choiceVars == <<selectedIds, cascadeIds, deleteRelatedItems, calculations, deselections>>
flowVars == <<isDeleting, warning, confirming, disclosed, deletions, refreshing>>
vars == <<serviceVars, listVars, choiceVars, flowVars, error>>

visibleIds == available[mode]
visibleSelectedIds == selectedIds \intersect visibleIds
allSelectedIds == selectedIds \union cascadeIds

Matching(kind, r) ==
    LET table == IF kind = "orders" THEN orders ELSE invoices
    IN  {i \in DOMAIN table : r = "all" \/ table[i].data = r}

SessionInit ==
    /\ mode = "orders"
    /\ range = "all"
    /\ available = [k \in Kinds |-> {}]
    /\ isLoading = FALSE
    /\ loads = {}
    /\ listed = FALSE
    /\ selectedIds = {}
    /\ cascadeIds = {}
    /\ deleteRelatedItems = FALSE
    /\ calculations = {}
    /\ deselections = {}
    /\ isDeleting = FALSE
    /\ error = FALSE
    /\ warning = FALSE
    /\ confirming = "none"
    /\ disclosed = {}
    /\ deletions = 0
    /\ refreshing = [cleanup |-> "none", retry |-> "none"]

Init == ServiceInit /\ SessionInit

(***************************************************************************)
(* The counter moves on.  Of a load that no longer counts only its end     *)
(* matters, and of a load of the screen not even that.                     *)
(***************************************************************************)
(* A bug: the counter of the loads is not incremented. *)
LoadsNotOutdated == loads

OutdatedLoads ==
    {[load EXCEPT !.current = FALSE, !.seen = {}] : load \in {l \in loads : l.by # "screen"}}

OutdatedCalculations ==
    {[calc EXCEPT !.current = FALSE] : calc \in calculations}

Busy == isLoading \/ isDeleting
OnScreen == confirming # "dialog"

-------------------------------------------------------------------------------
(* The list.                                                               *)

(* The part of _loadAvailableItems before its first await. *)
StartLoad(kind, r, by) ==
    /\ loads' = OutdatedLoads \union
          {[kind |-> kind, range |-> r, seen |-> Matching(kind, r), by |-> by, current |-> TRUE]}
    /\ isLoading' = TRUE
    /\ selectedIds' = {}
    /\ cascadeIds' = {}
    /\ calculations' = OutdatedCalculations

(* A screen opens: setMode, then loadAvailableItems. *)
Enter(kind) ==
    /\ OnScreen /\ ~isDeleting
    /\ Cardinality(loads) < MaxLoads
    /\ mode' = kind
    /\ range' = "all"
    /\ deleteRelatedItems' = FALSE
    /\ error' = FALSE
    /\ warning' = FALSE
    /\ confirming' = "none"         \* the old screen is no longer mounted
    /\ StartLoad(kind, "all", "screen")
    /\ UNCHANGED <<serviceVars, available, listed, deselections, isDeleting, disclosed, deletions, refreshing>>

(* setDateRange, clearDateRange; the date picker may return during a deletion. *)
SetDateRange(r) ==
    /\ OnScreen
    /\ Cardinality(loads) < MaxLoads
    /\ range' = r
    /\ error' = FALSE
    /\ warning' = FALSE
    /\ StartLoad(mode, r, "screen")
    /\ UNCHANGED <<serviceVars, mode, available, listed, deleteRelatedItems, deselections,
                   isDeleting, confirming, disclosed, deletions, refreshing>>

Reload ==
    /\ OnScreen /\ ~Busy /\ error
    /\ Cardinality(loads) < MaxLoads
    /\ error' = FALSE
    /\ warning' = FALSE
    /\ StartLoad(mode, range, "screen")
    /\ UNCHANGED <<serviceVars, mode, range, available, listed, deleteRelatedItems,
                   deselections, isDeleting, confirming, disclosed, deletions, refreshing>>

Counts(load) == load.current /\ load.kind = mode

(* The rest of a refresh sees the error there is when its load has ended. *)
AfterLoad(load, failed) ==
    /\ loads' = loads \ {load}
    /\ IF load.by = "screen"
       THEN error' = failed /\ UNCHANGED refreshing
       ELSE /\ refreshing' = [refreshing EXCEPT ![load.by] = IF failed THEN "warned" ELSE "main"]
            /\ error' = FALSE

LoadSucceeds(load) ==
    /\ IF Counts(load)
       THEN /\ \E ids \in {load.seen, Matching(load.kind, load.range)} :
                  available' = [available EXCEPT ![mode] = ids]
            /\ isLoading' = FALSE
            /\ listed' = TRUE
            /\ selectedIds' = {}
            /\ cascadeIds' = {}
       ELSE UNCHANGED <<available, isLoading, listed, selectedIds, cascadeIds>>
    /\ AfterLoad(load, error)
    /\ UNCHANGED <<serviceVars, mode, range, deleteRelatedItems, calculations, deselections,
                   isDeleting, warning, confirming, disclosed, deletions>>

(* A bug: a load that fails returns without ending the loading state. *)
LoadFailsQuietly(load) ==
    /\ AfterLoad(load, TRUE)
    /\ UNCHANGED <<serviceVars, mode, range, available, isLoading, listed, choiceVars,
                   isDeleting, warning, confirming, disclosed, deletions>>

LoadFails(load) ==
    /\ IF Counts(load) THEN isLoading' = FALSE /\ listed' = FALSE
                       ELSE UNCHANGED <<isLoading, listed>>
    /\ AfterLoad(load, error \/ Counts(load))
    /\ UNCHANGED <<serviceVars, mode, range, available, choiceVars,
                   isDeleting, warning, confirming, disclosed, deletions>>
-------------------------------------------------------------------------------
(* The choice.                                                             *)

(***************************************************************************)
(* _recalculateCascade with deleteRelatedItems set and selection chosen.   *)
(* For an empty selection it does not await.                               *)
(***************************************************************************)
Recalculate(chosen, cascade, by) ==
    LET snapshot == chosen \intersect visibleIds
    IN  IF snapshot = {}
        THEN /\ calculations' = OutdatedCalculations
             /\ selectedIds' = {}
             /\ cascadeIds' = {}
        ELSE /\ calculations' = OutdatedCalculations \union
                   {[kind |-> mode, chosen |-> snapshot, by |-> by, current |-> TRUE]}
             /\ selectedIds' = chosen
             /\ cascadeIds' = cascade

(* chosen becomes the direct selection, what was brought along is cascade. *)
Choose(chosen, cascade) ==
    IF deleteRelatedItems
    THEN Recalculate(chosen, cascade, "choice")
    ELSE /\ selectedIds' = chosen
         /\ cascadeIds' = cascade
         /\ UNCHANGED calculations

MayChoose == OnScreen /\ ~Busy /\ Cardinality(calculations) < MaxCalculations

ToggleDeleteRelatedItems ==
    /\ MayChoose
    /\ deleteRelatedItems' = ~deleteRelatedItems
    /\ error' = FALSE
    /\ IF deleteRelatedItems'
       THEN Recalculate(selectedIds, cascadeIds, "switch")
       ELSE /\ calculations' = OutdatedCalculations
            /\ cascadeIds' = {}
            /\ UNCHANGED selectedIds
    /\ UNCHANGED <<serviceVars, listVars, deselections, flowVars>>

Select(id) ==
    /\ MayChoose
    /\ id \in visibleIds \ allSelectedIds
    /\ error' = FALSE
    /\ Choose(selectedIds \union {id}, cascadeIds)
    /\ UNCHANGED <<serviceVars, listVars, deleteRelatedItems, deselections, flowVars>>

Deselect(id) ==
    /\ OnScreen /\ ~Busy
    /\ Cardinality(deselections) < MaxDeselections
    /\ id \in visibleIds \intersect allSelectedIds
    /\ error' = FALSE
    /\ IF deleteRelatedItems
       THEN /\ deselections' = deselections \union {[kind |-> mode, id |-> id]}
            /\ UNCHANGED <<selectedIds, cascadeIds>>
       ELSE /\ selectedIds' = selectedIds \ {id}
            /\ cascadeIds' = cascadeIds \ {id}
            /\ UNCHANGED deselections
    /\ UNCHANGED <<serviceVars, listVars, deleteRelatedItems, calculations, flowVars>>

SelectAll ==
    /\ MayChoose
    /\ error' = FALSE
    /\ Choose(visibleIds, {})
    /\ UNCHANGED <<serviceVars, listVars, deleteRelatedItems, deselections, flowVars>>

InvertSelection ==
    /\ MayChoose
    /\ error' = FALSE
    /\ Choose(visibleIds \ allSelectedIds, {})
    /\ UNCHANGED <<serviceVars, listVars, deleteRelatedItems, deselections, flowVars>>

(* A bug: the calculation lands whatever has been chosen since. *)
CalculationLands(calc) ==
    /\ calculations' = calculations \ {calc}
    /\ selectedIds' = calc.chosen
    /\ cascadeIds' = Siblings(calc.kind, calc.chosen)
    /\ UNCHANGED <<serviceVars, listVars, deleteRelatedItems, deselections, flowVars, error>>

CalculationSucceeds(calc) ==
    /\ calculations' = calculations \ {calc}
    /\ IF /\ calc.current
          /\ mode = calc.kind
          /\ deleteRelatedItems
          /\ visibleSelectedIds = calc.chosen
       THEN /\ selectedIds' = calc.chosen
            /\ cascadeIds' = Siblings(calc.kind, calc.chosen)
       ELSE UNCHANGED <<selectedIds, cascadeIds>>
    /\ UNCHANGED <<serviceVars, listVars, deleteRelatedItems, deselections, flowVars, error>>

(* The caller's catch block, which does not look at the request number. *)
CalculationFails(calc) ==
    /\ calculations' = calculations \ {calc}
    /\ error' = TRUE
    /\ cascadeIds' = IF calc.by = "switch" THEN {} ELSE cascadeIds
    /\ UNCHANGED <<serviceVars, listVars, selectedIds, deleteRelatedItems, deselections, flowVars>>

(* _unselectCascadeChain after its awaits. *)
DeselectionSucceeds(d) ==
    /\ deselections' = deselections \ {d}
    /\ LET chain == {d.id} \union Siblings(d.kind, {d.id}) IN
        /\ selectedIds' = selectedIds \ chain
        /\ cascadeIds' = cascadeIds \ chain
    /\ UNCHANGED <<serviceVars, listVars, deleteRelatedItems, calculations, flowVars, error>>

DeselectionFails(d) ==
    /\ deselections' = deselections \ {d}
    /\ error' = TRUE
    /\ UNCHANGED <<serviceVars, listVars, selectedIds, cascadeIds, deleteRelatedItems,
                   calculations, flowVars>>
-------------------------------------------------------------------------------
(* The deletion.                                                           *)

MayDelete == ~Busy /\ ~error /\ visibleSelectedIds # {}

(* _confirmDelete up to its first await. *)
PressDelete ==
    /\ confirming = "none"
    /\ MayDelete
    /\ deletions < MaxDeletions
    /\ confirming' = "counting"
    /\ UNCHANGED <<serviceVars, listVars, choiceVars, error, isDeleting, warning, disclosed, deletions, refreshing>>

(* The related records have been counted, or counting them threw. *)
Counted ==
    /\ confirming = "counting"
    /\ \/ MayDelete /\ confirming' = "dialog" /\ disclosed' = allSelectedIds
       \/ confirming' = "none" /\ UNCHANGED disclosed
    /\ UNCHANGED <<serviceVars, listVars, choiceVars, error, isDeleting, warning, deletions, refreshing>>

Cancel ==
    /\ confirming = "dialog"
    /\ confirming' = "none"
    /\ disclosed' = {}
    /\ UNCHANGED <<serviceVars, listVars, choiceVars, error, isDeleting, warning, deletions, refreshing>>

(* A bug: everything that is selected, cascades included, is passed as roots. *)
ConfirmAll ==
    /\ confirming = "dialog"
    /\ confirming' = "none"
    /\ MayDelete
    /\ Begin(mode, allSelectedIds, deleteRelatedItems)
    /\ isDeleting' = TRUE
    /\ warning' = FALSE
    /\ error' = FALSE
    /\ deletions' = deletions + 1
    /\ UNCHANGED <<listVars, choiceVars, disclosed, refreshing>>

(* executeCleanup *)
Confirm ==
    /\ confirming = "dialog"
    /\ confirming' = "none"
    /\ IF MayDelete
       THEN /\ Begin(mode, visibleSelectedIds, deleteRelatedItems)
            /\ isDeleting' = TRUE
            /\ warning' = FALSE
            /\ error' = FALSE
            /\ deletions' = deletions + 1
            /\ UNCHANGED disclosed
       ELSE disclosed' = {} /\ UNCHANGED <<serviceVars, isDeleting, warning, error, deletions>>
    /\ UNCHANGED <<listVars, choiceVars, refreshing>>

Deleting ==
    /\ Commit \/ \E p \in AllPaths : DeleteAttachment(p) \/ DeleteAttachmentFails(p)
    /\ UNCHANGED <<listVars, choiceVars, flowVars, error>>

DeletionFails ==
    /\ Rollback
    /\ isDeleting' = FALSE
    /\ error' = TRUE
    /\ disclosed' = {}
    /\ UNCHANGED <<listVars, choiceVars, warning, confirming, deletions, refreshing>>

Deleted ==
    /\ Finish
    /\ error' = FALSE
    /\ warning' = FALSE
    /\ refreshing' = [refreshing EXCEPT !.cleanup = "list"]
    /\ disclosed' = {}
    /\ StartLoad(mode, range, "cleanup")
    /\ UNCHANGED <<mode, range, available, listed, deleteRelatedItems, deselections,
                   isDeleting, confirming, deletions>>

(* retryRefreshAfterCleanup; at most one at a time is modelled. *)
RetryRefresh ==
    /\ OnScreen /\ ~Busy /\ warning
    /\ refreshing.retry = "none"
    /\ Cardinality(loads) < MaxLoads
    /\ refreshing' = [refreshing EXCEPT !.retry = "list"]
    /\ error' = FALSE
    /\ warning' = FALSE
    /\ StartLoad(mode, range, "retry")
    /\ UNCHANGED <<serviceVars, mode, range, available, listed, deleteRelatedItems,
                   deselections, isDeleting, confirming, disclosed, deletions>>

(* A bug: a refresh that fails makes the deletion a failure. *)
RefreshedOrFailed(by) ==
    /\ refreshing[by] \in {"main", "warned"}
    /\ refreshing' = [refreshing EXCEPT ![by] = "none"]
    /\ \E failed \in BOOLEAN : error' = (failed \/ refreshing[by] = "warned")
    /\ isDeleting' = IF by = "cleanup" THEN FALSE ELSE isDeleting
    /\ UNCHANGED <<serviceVars, listVars, choiceVars, warning, confirming, disclosed, deletions>>

(* A bug: an error of the list ends the refresh before the deleting state is reset. *)
RefreshedUnlessWarned(by) ==
    /\ refreshing[by] = "main"
    /\ refreshing' = [refreshing EXCEPT ![by] = "none"]
    /\ warning' \in BOOLEAN
    /\ error' = FALSE
    /\ isDeleting' = IF by = "cleanup" THEN FALSE ELSE isDeleting
    /\ UNCHANGED <<serviceVars, listVars, choiceVars, confirming, disclosed, deletions>>

(* _refreshMainDataProviders ends, or throws. *)
Refreshed(by) ==
    /\ refreshing[by] \in {"main", "warned"}
    /\ refreshing' = [refreshing EXCEPT ![by] = "none"]
    /\ \E failed \in BOOLEAN : warning' = (failed \/ refreshing[by] = "warned")
    /\ error' = FALSE
    /\ isDeleting' = IF by = "cleanup" THEN FALSE ELSE isDeleting
    /\ UNCHANGED <<serviceVars, listVars, choiceVars, confirming, disclosed, deletions>>

Callers == {"cleanup", "retry"}
LoadEnds(by) == \E load \in loads : load.by = by /\ (LoadSucceeds(load) \/ LoadFails(load))
CalculationEnds == \E c \in calculations : CalculationSucceeds(c) \/ CalculationFails(c)
DeselectionEnds == \E d \in deselections : DeselectionSucceeds(d) \/ DeselectionFails(d)
DeletionStep == Deleting \/ DeletionFails \/ Deleted

User ==
    \/ \E kind \in Kinds : Enter(kind)
    \/ \E r \in {"all", "recent"} : SetDateRange(r)
    \/ Reload \/ ToggleDeleteRelatedItems \/ SelectAll \/ InvertSelection
    \/ \E id \in visibleIds : Select(id) \/ Deselect(id)
    \/ PressDelete \/ Cancel \/ Confirm \/ RetryRefresh

Next ==
    \/ User
    \/ \E by \in Callers \union {"screen"} : LoadEnds(by)
    \/ CalculationEnds \/ DeselectionEnds
    \/ Counted \/ DeletionStep
    \/ \E by \in Callers : Refreshed(by)

Spec == Init /\ [][Next]_vars

(***************************************************************************)
(* What has been started ends: the database answers and files are deleted  *)
(* or fail to be.  Nothing is assumed of the user.                         *)
(***************************************************************************)
FairSpec ==
    /\ Spec
    /\ WF_vars(DeletionStep)
    /\ \A by \in Callers : WF_vars(LoadEnds(by)) /\ WF_vars(Refreshed(by))
-------------------------------------------------------------------------------
TypeOK ==
    /\ ServiceTypeOK
    /\ mode \in Kinds /\ range \in {"all", "recent"}
    /\ available \in [Kinds -> SUBSET AllIds]
    /\ isLoading \in BOOLEAN /\ listed \in BOOLEAN /\ isDeleting \in BOOLEAN
    /\ error \in BOOLEAN /\ warning \in BOOLEAN /\ deleteRelatedItems \in BOOLEAN
    /\ selectedIds \subseteq AllIds /\ cascadeIds \subseteq AllIds \ selectedIds
    /\ confirming \in {"none", "counting", "dialog"}
    /\ disclosed \subseteq AllIds
    /\ deletions \in 0..MaxDeletions
    /\ refreshing \in [Callers -> {"none", "list", "main", "warned"}]

(***************************************************************************)
(* The loading state is that of the newest load: it is neither ended by a  *)
(* load that no longer counts nor kept when no load is under way.          *)
(***************************************************************************)
LoadingMeansLoad == isLoading <=> \E load \in loads : Counts(load)

(***************************************************************************)
(* A list that was loaded shows the rows in the database that match the    *)
(* mode and the date range of now, whatever loads and deletions overtook   *)
(* each other.                                                             *)
(***************************************************************************)
ListMatchesFilter ==
    listed /\ ~Busy => available[mode] = Matching(mode, range)

(* Only rows in the list are selected directly (PROCESSING.md:373). *)
SelectionVisible == selectedIds \subseteq visibleIds

(***************************************************************************)
(* The rows a deletion starts from are among those its dialog counted: no  *)
(* task that ends while the dialog is open adds one.                       *)
(***************************************************************************)
RootsDisclosed == job.pc = "transaction" => job.roots \subseteq disclosed

(***************************************************************************)
(* A deletion that ends is shown as a failure when it was rolled back and  *)
(* never when it was committed, however the refresh went.                  *)
(***************************************************************************)
ResultIsTrue ==
    [][isDeleting /\ ~isDeleting' => (error' <=> outcome' = "failure")]_vars

(* Every deletion ends, also when the date range changes while it runs. *)
DeletionEnds == isDeleting ~> ~isDeleting

(***************************************************************************)
(* PROCESSING.md:374 says that rows brought along from outside the filter  *)
(* are disclosed before the deletion and count in its full size.  For a    *)
(* user who waits: with nothing under way and no error, the selection      *)
(* shows every row the deletion will bring along.                          *)
(***************************************************************************)
SettledSelectionComplete ==
    /\ deleteRelatedItems /\ ~Busy /\ ~error
    /\ calculations = {} /\ deselections = {}
    => Siblings(mode, visibleSelectedIds) \subseteq cascadeIds
===============================================================================
