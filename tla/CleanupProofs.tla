----------------------------- MODULE CleanupProofs -----------------------------
(***************************************************************************)
(* Proofs about CleanupService for all databases and attachment stores,    *)
(* and about CleanupSession for any number of tasks that overtake each     *)
(* other.                                                                  *)
(***************************************************************************)
EXTENDS CleanupSession, TLAPS

-------------------------------------------------------------------------------
(* What Without does to a table. *)
LEMMA WithoutFacts ==
    ASSUME NEW t, NEW S
    PROVE  /\ DOMAIN Without(t, S) = DOMAIN t \ S
           /\ \A i \in DOMAIN t \ S : Without(t, S)[i] = t[i]
           /\ Without(t, S) = Without(t, DOMAIN t \ DOMAIN Without(t, S))
<1>1. DOMAIN Without(t, S) = DOMAIN t \ S
  BY DEF Without
<1>2. DOMAIN t \ (DOMAIN t \ DOMAIN Without(t, S)) = DOMAIN t \ S
  BY <1>1
<1> QED
  BY <1>1, <1>2 DEF Without

(* An attachment is referred to by a row of one of the tables. *)
LEMMA Referenced ==
    ASSUME NEW t, NEW u, NEW p
    PROVE  p \in ReferencedPaths(t, u) <=>
             /\ p # None
             /\ (\E i \in DOMAIN t : t[i].path = p) \/ (\E i \in DOMAIN u : u[i].path = p)
BY DEF ReferencedPaths

(* The same of tables that have lost rows. *)
LEMMA ReferencedWithout ==
    ASSUME NEW t, NEW u, NEW S, NEW T, NEW p
    PROVE  p \in ReferencedPaths(Without(t, S), Without(u, T)) <=>
             /\ p # None
             /\ \/ \E i \in DOMAIN t \ S : t[i].path = p
                \/ \E i \in DOMAIN u \ T : u[i].path = p
<1> DEFINE a == Without(t, S)
           b == Without(u, T)
<1>1. DOMAIN a = DOMAIN t \ S /\ \A i \in DOMAIN t \ S : a[i] = t[i]
  BY WithoutFacts
<1>2. DOMAIN b = DOMAIN u \ T /\ \A i \in DOMAIN u \ T : b[i] = u[i]
  BY WithoutFacts
<1>3. p \in ReferencedPaths(a, b) <=>
        p # None /\ ((\E i \in DOMAIN a : a[i].path = p) \/ (\E i \in DOMAIN b : b[i].path = p))
  BY Referenced
<1> HIDE DEF a, b
<1>4. p \in ReferencedPaths(a, b) <=>
        /\ p # None
        /\ (\E i \in DOMAIN t \ S : t[i].path = p) \/ (\E i \in DOMAIN u \ T : u[i].path = p)
  BY <1>1, <1>2, <1>3
<1> QED
  BY <1>4 DEF a, b

(* Fewer rows refer to fewer attachments. *)
LEMMA FewerReferences ==
    ASSUME NEW t, NEW u, NEW S, NEW T
    PROVE  ReferencedPaths(Without(t, S), Without(u, T)) \subseteq ReferencedPaths(t, u)
BY Referenced, ReferencedWithout

(* Without no row a table is itself. *)
LEMMA WithoutNothing ==
    ASSUME NEW t, t = [i \in DOMAIN t |-> t[i]]
    PROVE  t = Without(t, DOMAIN t \ DOMAIN t)
<1>1. DOMAIN t \ (DOMAIN t \ DOMAIN t) = DOMAIN t
  OBVIOUS
<1> QED
  BY <1>1 DEF Without

(***************************************************************************)
(* The doomed attachments are those that lose their last row: no row that  *)
(* stays refers to one, and every other reference is still there.          *)
(***************************************************************************)
LEMMA DoomedFacts ==
    ASSUME NEW scope
    PROVE  LET kept == ReferencedPaths(Without(orders, scope.orders),
                                       Without(invoices, scope.invoices))
           IN  /\ Doomed(scope) \intersect kept = {}
               /\ Doomed(scope) \subseteq ReferencedPaths(orders, invoices)
               /\ ReferencedPaths(orders, invoices) \subseteq kept \union Doomed(scope)
<1> DEFINE kept == ReferencedPaths(Without(orders, scope.orders),
                                   Without(invoices, scope.invoices))
<1>1. Doomed(scope) \intersect kept = {}
  BY DEF Doomed
<1>2. Doomed(scope) \subseteq ReferencedPaths(orders, invoices)
  BY DEF Doomed, AttachmentsOf, ReferencedPaths
<1>3. ASSUME NEW p \in ReferencedPaths(orders, invoices), p \notin kept
      PROVE  p \in Doomed(scope)
  <2>1. CASE \E i \in DOMAIN orders : orders[i].path = p
    <3>1. PICK i \in DOMAIN orders : orders[i].path = p
      BY <2>1
    <3>2. i \in scope.orders
      BY <3>1, <1>3, Referenced, ReferencedWithout
    <3>3. p \in AttachmentsOf(orders, scope.orders)
      BY <3>1, <3>2, <1>3 DEF AttachmentsOf, ReferencedPaths
    <3> QED
      BY <3>3, <1>3 DEF Doomed
  <2>2. CASE \E i \in DOMAIN invoices : invoices[i].path = p
    <3>1. PICK i \in DOMAIN invoices : invoices[i].path = p
      BY <2>2
    <3>2. i \in scope.invoices
      BY <3>1, <1>3, Referenced, ReferencedWithout
    <3>3. p \in AttachmentsOf(invoices, scope.invoices)
      BY <3>1, <3>2, <1>3 DEF AttachmentsOf, ReferencedPaths
    <3> QED
      BY <3>3, <1>3 DEF Doomed
  <2> QED
    BY <1>3, <2>1, <2>2 DEF ReferencedPaths
<1> QED
  BY <1>1, <1>2, <1>3

-------------------------------------------------------------------------------
(* The rows are rows of one of the initial databases. *)
FromTables ==
    /\ DOMAIN orders \union DOMAIN invoices \subseteq AllIds
    /\ ReferencedPaths(orders, invoices) \subseteq AllPaths

(* What each phase of a call may rely on. *)
PhaseInv ==
    /\ job.pc # "idle" => outcome = "none"
    /\ job.pc # "files" => job.doomed = {}
    /\ job.pc = "transaction" => Snapshot = before /\ undeleted = {}
    /\ job.doomed \intersect ReferencedPaths(orders, invoices) = {}

(* Until the last attachment has been tried, one that lost its rows is     *)
(* still to be tried or is reported.                                       *)
OrphansPending ==
    job.pc = "files" =>
        \A p \in ReferencedPaths(before.orders, before.invoices) \intersect files :
            p \in ReferencedPaths(orders, invoices) \union undeleted \union job.doomed

IInv ==
    /\ ServiceTypeOK
    /\ FromTables
    /\ PhaseInv
    /\ OrphansPending
    /\ AttachmentsStay
    /\ FailureTouchesNothing
    /\ OrphansReported
    /\ RelationsResolve
    /\ OneInvoicePerOrder(rel)

(* The conjuncts hold at the start, before any call. *)
LEMMA InitEstablishes == ServiceInit => IInv
<1> SUFFICES ASSUME ServiceInit PROVE IInv
  OBVIOUS
<1>1. before \in InitialTables
  BY DEF ServiceInit
<1>2. orders = Without(before.orders, DOMAIN before.orders \ DOMAIN orders)
  BY <1>1, TablesAssumption, WithoutNothing DEF ServiceInit
<1>3. invoices = Without(before.invoices, DOMAIN before.invoices \ DOMAIN invoices)
  BY <1>1, TablesAssumption, WithoutNothing DEF ServiceInit
<1>4. ServiceTypeOK
  BY <1>2, <1>3 DEF ServiceInit, ServiceTypeOK, NoJob, Kinds
<1>5. FromTables
  BY <1>1 DEF ServiceInit, FromTables, AllIds, AllPaths
<1>6. RelationsResolve /\ OneInvoicePerOrder(rel)
  BY <1>1, TablesAssumption DEF ServiceInit, RelationsResolve
<1>7. PhaseInv /\ OrphansPending /\ AttachmentsStay /\ FailureTouchesNothing /\ OrphansReported
  BY DEF ServiceInit, NoJob, PhaseInv, OrphansPending, AttachmentsStay,
         FailureTouchesNothing, OrphansReported
<1> QED
  BY <1>4, <1>5, <1>6, <1>7 DEF IInv

-------------------------------------------------------------------------------
(* A call begins: the tables, seen from it, have lost nothing. *)
LEMMA BeginPreserves ==
    ASSUME IInv, NEW kind \in Kinds, NEW roots \in SUBSET AllIds, NEW related \in BOOLEAN,
           Begin(kind, roots, related)
    PROVE  IInv'
<1>1. /\ orders = Without(before.orders, DOMAIN before.orders \ DOMAIN orders)
      /\ invoices = Without(before.invoices, DOMAIN before.invoices \ DOMAIN invoices)
  BY DEF IInv, ServiceTypeOK
<1>2. orders = [i \in DOMAIN orders |-> orders[i]] /\ invoices = [i \in DOMAIN invoices |-> invoices[i]]
  BY <1>1 DEF Without
<1>3. /\ orders = Without(orders, DOMAIN orders \ DOMAIN orders)
      /\ invoices = Without(invoices, DOMAIN invoices \ DOMAIN invoices)
  BY <1>2, WithoutNothing
<1>5. ServiceTypeOK'
  BY <1>3 DEF Begin, ServiceTypeOK, Snapshot, ledger
<1>6. FromTables' /\ RelationsResolve' /\ OneInvoicePerOrder(rel)'
  BY DEF IInv, Begin, FromTables, RelationsResolve, ledger
<1>7. PhaseInv' /\ OrphansPending' /\ FailureTouchesNothing' /\ OrphansReported'
  BY DEF Begin, PhaseInv, OrphansPending, FailureTouchesNothing, OrphansReported, Snapshot, ledger
<1>8. AttachmentsStay'
  BY DEF Begin, AttachmentsStay, Snapshot, ledger
<1> QED
  BY <1>5, <1>6, <1>7, <1>8 DEF IInv

(* The transaction commits: what it leaves is closed under references. *)
LEMMA CommitPreserves ==
    ASSUME IInv, Commit
    PROVE  IInv'
<1>0. job \in [pc : {"idle", "transaction", "files"}, kind : Kinds, roots : SUBSET AllIds,
                related : BOOLEAN, doomed : SUBSET (AllPaths \ undeleted)]
  BY DEF IInv, ServiceTypeOK
<1> DEFINE scope == Scope(job.kind, job.roots, job.related)
<1>1. /\ job.pc = "transaction"
      /\ orders' = Without(orders, scope.orders)
      /\ invoices' = Without(invoices, scope.invoices)
      /\ rel' = {r \in rel : r[2] \notin scope.orders /\ r[1] \notin scope.invoices}
      /\ job' = [job EXCEPT !.pc = "files", !.doomed = Doomed(scope)]
      /\ UNCHANGED <<files, undeleted, outcome, before>>
  BY DEF Commit
<1> HIDE DEF scope
<1>2. /\ before.orders = orders /\ before.invoices = invoices
      /\ before.rel = rel /\ before.files = files
      /\ undeleted = {} /\ outcome = "none"
  BY <1>1 DEF IInv, PhaseInv, Snapshot
<1>3. DOMAIN orders' = DOMAIN orders \ scope.orders /\ DOMAIN invoices' = DOMAIN invoices \ scope.invoices
  BY <1>1, WithoutFacts
<1>4. /\ Doomed(scope) \intersect ReferencedPaths(orders', invoices') = {}
      /\ Doomed(scope) \subseteq ReferencedPaths(orders, invoices)
      /\ ReferencedPaths(orders, invoices) \subseteq ReferencedPaths(orders', invoices') \union Doomed(scope)
  BY <1>1, DoomedFacts
<1>5. ReferencedPaths(orders', invoices') \subseteq ReferencedPaths(orders, invoices)
  BY <1>1, FewerReferences
<1>6. job'.pc = "files" /\ job'.doomed = Doomed(scope) /\ job'.kind = job.kind
      /\ job'.related = job.related /\ job'.roots = job.roots
  BY <1>1, <1>0
<1>7. ServiceTypeOK'
  <2>1. orders' = Without(orders, DOMAIN orders \ DOMAIN orders')
        /\ invoices' = Without(invoices, DOMAIN invoices \ DOMAIN invoices')
    BY <1>1, WithoutFacts
  <2> QED
    BY <1>1, <1>2, <1>4, <1>6, <2>1 DEF IInv, ServiceTypeOK, FromTables
<1>8. FromTables'
  BY <1>3, <1>5 DEF IInv, FromTables
<1>9. PhaseInv'
  BY <1>1, <1>2, <1>4, <1>6 DEF PhaseInv
<1>10. OrphansPending'
  BY <1>1, <1>2, <1>4, <1>6 DEF OrphansPending
<1>11. AttachmentsStay' /\ FailureTouchesNothing' /\ OrphansReported'
  BY <1>1, <1>2, <1>5 DEF IInv, AttachmentsStay, FailureTouchesNothing, OrphansReported
<1>12. RelationsResolve'
  BY <1>1, <1>3 DEF IInv, RelationsResolve, KeysResolve, WithoutOrphans
<1>13. OneInvoicePerOrder(rel)'
  BY <1>1 DEF IInv, OneInvoicePerOrder
<1> QED
  BY <1>7, <1>8, <1>9, <1>10, <1>11, <1>12, <1>13 DEF IInv

(* The steps that end a call, and the death of the process. *)
LEMMA EndPreserves ==
    ASSUME IInv, Rollback \/ Finish \/ ServiceDies
    PROVE  IInv'
<1>1. UNCHANGED <<orders, invoices, rel, files, before>> /\ job' = NoJob
  BY DEF Rollback, Finish, ServiceDies, ledger
<1>2. undeleted' \in {undeleted, {}}
  BY DEF Rollback, Finish, ServiceDies
<1>3. ServiceTypeOK'
  <2>1. outcome' \in {"none", "success", "failure"}
    BY DEF Rollback, Finish, ServiceDies
  <2> QED
    BY <1>1, <1>2, <2>1 DEF IInv, ServiceTypeOK, NoJob, Kinds
<1>4. FromTables' /\ AttachmentsStay' /\ RelationsResolve' /\ OneInvoicePerOrder(rel)'
  BY <1>1 DEF IInv, FromTables, AttachmentsStay, RelationsResolve
<1>5. PhaseInv' /\ OrphansPending'
  BY <1>1 DEF PhaseInv, OrphansPending, NoJob
<1>6. FailureTouchesNothing'
  <2>1. CASE Rollback
    BY <1>1, <2>1 DEF IInv, PhaseInv, Rollback, FailureTouchesNothing, Snapshot
  <2>2. CASE Finish \/ ServiceDies
    BY <2>2 DEF Finish, ServiceDies, FailureTouchesNothing
  <2> QED
    BY <2>1, <2>2
<1>7. OrphansReported'
  <2>1. CASE Finish
    BY <1>1, <2>1 DEF IInv, Finish, OrphansPending, OrphansReported
  <2>2. CASE Rollback \/ ServiceDies
    BY <2>2 DEF Rollback, ServiceDies, OrphansReported
  <2> QED
    BY <2>1, <2>2
<1> QED
  BY <1>3, <1>4, <1>5, <1>6, <1>7 DEF IInv

(* An attachment is deleted or reported; neither concerns a row that stays. *)
LEMMA AttachmentPreserves ==
    ASSUME IInv, NEW p \in AllPaths, DeleteAttachment(p) \/ DeleteAttachmentFails(p)
    PROVE  IInv'
<1>0. job \in [pc : {"idle", "transaction", "files"}, kind : Kinds, roots : SUBSET AllIds,
                related : BOOLEAN, doomed : SUBSET (AllPaths \ undeleted)]
  BY DEF IInv, ServiceTypeOK
<1>1. /\ job.pc = "files" /\ p \in job.doomed
      /\ job' = [job EXCEPT !.doomed = @ \ {p}]
      /\ UNCHANGED <<orders, invoices, rel, outcome, before>>
      /\ \/ files' = files \ {p} /\ undeleted' = undeleted
         \/ files' = files /\ undeleted' = undeleted \union {p}
  BY DEF DeleteAttachment, DeleteAttachmentFails, ledger
<1>2. /\ job'.pc = "files" /\ job'.doomed = job.doomed \ {p} /\ job'.kind = job.kind
      /\ job'.related = job.related /\ job'.roots = job.roots
  BY <1>1, <1>0
<1>3. p \notin ReferencedPaths(orders, invoices)
  BY <1>1 DEF IInv, PhaseInv
<1>4. outcome = "none"
  BY <1>1 DEF IInv, PhaseInv
<1>5. ServiceTypeOK'
  BY <1>1, <1>2 DEF IInv, ServiceTypeOK
<1>6. FromTables' /\ RelationsResolve' /\ OneInvoicePerOrder(rel)'
  BY <1>1 DEF IInv, FromTables, RelationsResolve
<1>7. PhaseInv'
  BY <1>1, <1>2, <1>4 DEF IInv, PhaseInv
<1>8. OrphansPending'
  BY <1>1, <1>2 DEF IInv, OrphansPending
<1>9. AttachmentsStay'
  BY <1>1, <1>3 DEF IInv, AttachmentsStay
<1>10. FailureTouchesNothing' /\ OrphansReported'
  BY <1>1, <1>4 DEF FailureTouchesNothing, OrphansReported
<1> QED
  BY <1>5, <1>6, <1>7, <1>8, <1>9, <1>10 DEF IInv

(* Every step preserves the inductive invariant. *)
LEMMA StepPreserves == IInv /\ [ServiceNext]_serviceVars => IInv'
<1> SUFFICES ASSUME IInv, [ServiceNext]_serviceVars PROVE IInv'
  OBVIOUS
<1>1. CASE \E kind \in Kinds : \E roots \in (SUBSET AllIds) \ {{}} :
              \E related \in BOOLEAN : Begin(kind, roots, related)
  BY <1>1, BeginPreserves
<1>2. CASE Commit
  BY <1>2, CommitPreserves
<1>3. CASE Rollback \/ Finish \/ ServiceDies
  BY <1>3, EndPreserves
<1>4. CASE \E p \in AllPaths : DeleteAttachment(p) \/ DeleteAttachmentFails(p)
  BY <1>4, AttachmentPreserves
<1>5. CASE UNCHANGED serviceVars
  BY <1>5 DEF serviceVars, ledger, IInv, ServiceTypeOK, FromTables, PhaseInv, OrphansPending,
              AttachmentsStay, FailureTouchesNothing, OrphansReported, RelationsResolve, Snapshot
<1> QED
  BY <1>1, <1>2, <1>3, <1>4, <1>5 DEF ServiceNext, ServiceStep

-------------------------------------------------------------------------------
(***************************************************************************)
(* With related records, what a call deletes is closed: the relation table *)
(* has one invoice per order, so one hop from the roots reaches every      *)
(* partner and sibling.                                                    *)
(***************************************************************************)
LEMMA ScopeClosed ==
    ASSUME OneInvoicePerOrder(rel), NEW kind \in Kinds, NEW roots, NEW r \in rel
    PROVE  r[1] \in Scope(kind, roots, TRUE).invoices <=> r[2] \in Scope(kind, roots, TRUE).orders
<1> DEFINE all == roots \union Siblings(kind, roots)
<1>1. CASE kind = "orders"
  <2>1. Siblings(kind, roots) = OrdersFor(InvoicesFor(roots)) \ roots
    BY <1>1 DEF Siblings
  <2>2. /\ Scope(kind, roots, TRUE).orders = all
        /\ Scope(kind, roots, TRUE).invoices = InvoicesFor(all)
    BY <1>1 DEF Scope
  <2>3. r[2] \in all => r[1] \in InvoicesFor(all)
    BY DEF InvoicesFor
  <2>4. ASSUME r[1] \in InvoicesFor(all) PROVE r[2] \in all
    <3>1. PICK q \in rel : q[2] \in all /\ q[1] = r[1]
      BY <2>4 DEF InvoicesFor
    <3>2. q[1] \in InvoicesFor(roots)
      <4>1. CASE q[2] \in roots
        BY <4>1 DEF InvoicesFor
      <4>2. CASE q[2] \in OrdersFor(InvoicesFor(roots))
        <5>1. PICK s \in rel : s[1] \in InvoicesFor(roots) /\ s[2] = q[2]
          BY <4>2 DEF OrdersFor
        <5>2. s = q
          BY <5>1 DEF OneInvoicePerOrder
        <5> QED
          BY <5>1, <5>2
      <4> QED
        BY <2>1, <3>1, <4>1, <4>2
    <3>3. r[2] \in OrdersFor(InvoicesFor(roots))
      BY <3>1, <3>2 DEF OrdersFor
    <3> QED
      BY <2>1, <3>3
  <2> QED
    BY <2>2, <2>3, <2>4
<1>2. CASE kind = "invoices"
  <2>1. /\ Scope(kind, roots, TRUE).orders = OrdersFor(all)
        /\ Scope(kind, roots, TRUE).invoices = all
    BY <1>2 DEF Scope
  <2>2. r[1] \in all => r[2] \in OrdersFor(all)
    BY DEF OrdersFor
  <2>3. ASSUME r[2] \in OrdersFor(all) PROVE r[1] \in all
    <3>1. PICK q \in rel : q[1] \in all /\ q[2] = r[2]
      BY <2>3 DEF OrdersFor
    <3>2. q = r
      BY <3>1 DEF OneInvoicePerOrder
    <3> QED
      BY <3>1, <3>2
  <2> QED
    BY <2>1, <2>2, <2>3
<1> QED
  BY <1>1, <1>2 DEF Kinds

(* The commit keeps every relation of a row that it keeps. *)
LEMMA CommitLeavesNoneAlone ==
    ASSUME IInv, Commit, job.related,
           NEW r \in rel, r[1] \in DOMAIN invoices' \/ r[2] \in DOMAIN orders'
    PROVE  r \in rel'
<1> DEFINE scope == Scope(job.kind, job.roots, TRUE)
<1>1. job.related = TRUE /\ job.kind \in Kinds
  BY DEF IInv, ServiceTypeOK
<1>2. r[1] \in scope.invoices <=> r[2] \in scope.orders
  BY <1>1, ScopeClosed DEF IInv
<1>3. /\ orders' = Without(orders, scope.orders)
      /\ invoices' = Without(invoices, scope.invoices)
      /\ rel' = {q \in rel : q[2] \notin scope.orders /\ q[1] \notin scope.invoices}
  BY <1>1 DEF Commit
<1> HIDE DEF scope
<1>4. DOMAIN orders' = DOMAIN orders \ scope.orders /\ DOMAIN invoices' = DOMAIN invoices \ scope.invoices
  BY <1>3, WithoutFacts
<1>5. r[1] \notin scope.invoices \/ r[2] \notin scope.orders
  BY <1>4
<1> QED
  BY <1>2, <1>3, <1>5

-------------------------------------------------------------------------------
(* The inductive invariant holds of every behaviour. *)
THEOREM InductiveInvariant == ServiceSpec => []IInv
<1> QED
  BY InitEstablishes, StepPreserves, PTL DEF ServiceSpec

(* The tables only lose rows, the store only attachments. *)
THEOREM ServiceTypeCorrect == ServiceSpec => []ServiceTypeOK
<1>1. IInv => ServiceTypeOK
  BY DEF IInv
<1> QED
  BY <1>1, InductiveInvariant, PTL

(***************************************************************************)
(* deleteOrders and deleteInvoices never take an attachment from a row     *)
(* that stays, for whatever database, rollback, death or failure.          *)
(***************************************************************************)
THEOREM AttachmentsSafe == ServiceSpec => []AttachmentsStay
<1>1. IInv => AttachmentsStay
  BY DEF IInv
<1> QED
  BY <1>1, InductiveInvariant, PTL

(* A clean-up that failed has changed neither the tables nor the store. *)
THEOREM FailureSafe == ServiceSpec => []FailureTouchesNothing
<1>1. IInv => FailureTouchesNothing
  BY DEF IInv
<1> QED
  BY <1>1, InductiveInvariant, PTL

(* After a clean-up every attachment without a row is gone or reported. *)
THEOREM OrphansKnown == ServiceSpec => []OrphansReported
<1>1. IInv => OrphansReported
  BY DEF IInv
<1> QED
  BY <1>1, InductiveInvariant, PTL

(* No clean-up leaves a relation whose order or invoice is deleted. *)
THEOREM RelationsSafe == ServiceSpec => []RelationsResolve
<1>1. IInv => RelationsResolve
  BY DEF IInv
<1> QED
  BY <1>1, InductiveInvariant, PTL

(* With related records deleted too, no row that stays loses its partner. *)
THEOREM PartnersStay == ServiceSpec => NoneLeftAlone
<1> DEFINE Complete == Commit /\ job.related =>
              \A r \in rel : (r[1] \in DOMAIN invoices' \/ r[2] \in DOMAIN orders') => r \in rel'
<1>1. IInv /\ [ServiceNext]_serviceVars => [Complete]_serviceVars
  BY CommitLeavesNoneAlone
<1> QED
  BY <1>1, InductiveInvariant, PTL DEF ServiceSpec, NoneLeftAlone

-------------------------------------------------------------------------------
(* The session: CleanupNotifier, its screens and the service together.     *)

(* The fields of a call, of a load and of the refreshes are there. *)
Shaped ==
    /\ mode \in Kinds /\ DOMAIN available = Kinds
    /\ {"pc", "kind", "roots", "related", "doomed"} \subseteq DOMAIN job
    /\ \A l \in loads : {"kind", "range", "seen", "by", "current"} \subseteq DOMAIN l
    /\ DOMAIN refreshing = Callers

(***************************************************************************)
(* At most one load counts, it is for the mode and the range of now, and   *)
(* the loading state is its.  A deletion awaits at most one load.          *)
(***************************************************************************)
LoadsInv ==
    /\ \A l, m \in loads : l.current = TRUE /\ m.current = TRUE => l = m
    /\ \A l \in loads : l.current = TRUE => l.kind = mode /\ l.range = range /\ isLoading
    /\ isLoading => \E l \in loads : l.current = TRUE
    /\ isLoading \in BOOLEAN
    /\ \A l, m \in loads : l.by = "cleanup" /\ m.by = "cleanup" => l = m
    /\ \A l \in loads : l.by = "cleanup" => refreshing.cleanup = "list"

(***************************************************************************)
(* Except between the commit of a deletion and the load it starts, what a  *)
(* load that counts has read, and the list, are what the tables hold.      *)
(***************************************************************************)
ListInv ==
    job.pc # "files" =>
        /\ listed /\ ~isLoading => available[mode] = Matching(mode, range)
        /\ \A l \in loads : l.current = TRUE => l.seen = Matching(l.kind, l.range)

(* A deletion runs, then refreshes; no dialog is open meanwhile. *)
FlowInv ==
    /\ job.pc # "idle" => isDeleting /\ refreshing.cleanup = "none"
    /\ refreshing.cleanup # "none" => isDeleting
    /\ isDeleting => confirming # "dialog"

(* What the dialog counted includes what is selected, then what is deleted. *)
DisclosedInv ==
    /\ confirming = "dialog" => selectedIds \subseteq disclosed
    /\ RootsDisclosed

SessionInv ==
    /\ Shaped
    /\ LoadsInv
    /\ ListInv
    /\ FlowInv
    /\ SelectionVisible
    /\ DisclosedInv

tables == <<orders, invoices>>

LEMMA SessionInitEstablishes == Init => SessionInv
<1> SUFFICES ASSUME Init PROVE SessionInv
  OBVIOUS
<1>1. /\ mode \in Kinds /\ DOMAIN available = Kinds
      /\ loads = {} /\ isLoading = FALSE /\ listed = FALSE /\ selectedIds = {}
      /\ isDeleting = FALSE /\ confirming = "none"
  BY DEF Init, SessionInit, Kinds
<1>2. job.pc = "idle" /\ {"pc", "kind", "roots", "related", "doomed"} \subseteq DOMAIN job
  BY DEF Init, ServiceInit, NoJob
<1>3. refreshing.cleanup = "none" /\ DOMAIN refreshing = Callers
  BY DEF Init, SessionInit, Callers
<1>4. Shaped /\ LoadsInv /\ ListInv /\ FlowInv
  BY <1>1, <1>2, <1>3 DEF Shaped, LoadsInv, ListInv, FlowInv
<1>5. SelectionVisible /\ DisclosedInv
  BY <1>1, <1>2 DEF SelectionVisible, DisclosedInv, RootsDisclosed
<1> QED
  BY <1>4, <1>5 DEF SessionInv

(* What remains of the loads when a new one starts. *)
LEMMA OutdatedFacts ==
    ASSUME Shaped, LoadsInv, NEW l \in OutdatedLoads
    PROVE  /\ l.current = FALSE
           /\ {"kind", "range", "seen", "by", "current"} \subseteq DOMAIN l
           /\ \E m \in loads : l = [m EXCEPT !.current = FALSE, !.seen = {}] /\ l.by = m.by
<1>1. PICK m \in loads : l = [m EXCEPT !.current = FALSE, !.seen = {}]
  BY DEF OutdatedLoads
<1> QED
  BY <1>1 DEF Shaped

(***************************************************************************)
(* A load that starts is the one that counts.  It awaits the tables as     *)
(* they are; the selection is empty.                                       *)
(***************************************************************************)
LEMMA StartLoadPreserves ==
    ASSUME Shaped, LoadsInv,
           NEW kind \in Kinds, NEW r, NEW by \in Callers \union {"screen"},
           StartLoad(kind, r, by), mode' = kind, range' = r,
           UNCHANGED <<tables, available>>, DOMAIN refreshing' = Callers,
           {"pc", "kind", "roots", "related", "doomed"} \subseteq DOMAIN job',
           IF by = "cleanup" THEN refreshing.cleanup = "none" /\ refreshing'.cleanup = "list"
                             ELSE UNCHANGED refreshing.cleanup
    PROVE  Shaped' /\ LoadsInv' /\ ListInv' /\ SelectionVisible'
<1> DEFINE new == [kind |-> kind, range |-> r, seen |-> Matching(kind, r), by |-> by, current |-> TRUE]
<1>1. loads' = OutdatedLoads \union {new} /\ isLoading' = TRUE /\ selectedIds' = {}
  BY DEF StartLoad
<1>2. /\ new.kind = kind /\ new.range = r /\ new.by = by /\ new.current = TRUE
      /\ new.seen = Matching(kind, r)
      /\ {"kind", "range", "seen", "by", "current"} \subseteq DOMAIN new
  OBVIOUS
<1> HIDE DEF new
<1>3. Shaped'
  BY <1>1, <1>2, OutdatedFacts DEF Shaped
<1>4. \A l \in OutdatedLoads : l.current = FALSE /\ \E m \in loads : l.by = m.by
  BY OutdatedFacts
<1>5. \A l \in OutdatedLoads : l.by = "cleanup" => refreshing.cleanup = "list"
  BY <1>4 DEF LoadsInv
<1>6. ASSUME NEW l \in OutdatedLoads, NEW m \in OutdatedLoads, l.by = "cleanup", m.by = "cleanup"
      PROVE  l = m
  <2>1. PICK x \in loads : l = [x EXCEPT !.current = FALSE, !.seen = {}] /\ l.by = x.by
    BY OutdatedFacts
  <2>2. PICK y \in loads : m = [y EXCEPT !.current = FALSE, !.seen = {}] /\ m.by = y.by
    BY OutdatedFacts
  <2>3. x = y
    BY <1>6, <2>1, <2>2 DEF LoadsInv
  <2> QED
    BY <2>1, <2>2, <2>3
<1>7. /\ \A l, m \in loads' : l.by = "cleanup" /\ m.by = "cleanup" => l = m
      /\ \A l \in loads' : l.by = "cleanup" => refreshing'.cleanup = "list"
  <2>1. CASE by = "cleanup"
    <3>1. \A l \in OutdatedLoads : l.by # "cleanup"
      BY <1>5, <2>1
    <3> QED
      BY <1>1, <2>1, <3>1
  <2>2. CASE by # "cleanup"
    BY <1>1, <1>2, <1>5, <1>6, <2>2
  <2> QED
    BY <2>1, <2>2
<1>8. LoadsInv'
  <2>1. \A l \in loads' : l.current = TRUE => l = new
    BY <1>1, <1>4
  <2> QED
    BY <1>1, <1>2, <1>7, <2>1 DEF LoadsInv
<1>9. ListInv'
  <2>1. Matching(kind, r)' = Matching(kind, r)
    BY DEF Matching, tables
  <2>2. \A l \in loads' : l.current = TRUE => l.seen = Matching(kind, r) /\ l.kind = kind /\ l.range = r
    BY <1>1, <1>2, <1>4
  <2>3. \A l \in loads' : l.current = TRUE => l.seen = Matching(l.kind, l.range)'
    BY <2>1, <2>2
  <2> QED
    BY <1>1, <2>3 DEF ListInv
<1> QED
  BY <1>1, <1>3, <1>8, <1>9 DEF SelectionVisible

(* The end of a load: only the one that counts touches list and state. *)
LEMMA LoadEndPreserves ==
    ASSUME SessionInv, NEW load \in loads, LoadSucceeds(load) \/ LoadFails(load)
    PROVE  SessionInv'
<1> USE DEF SessionInv
<1>1. /\ loads' = loads \ {load}
      /\ \/ load.by = "screen" /\ UNCHANGED refreshing
         \/ /\ load.by # "screen"
            /\ \E v \in {"warned", "main"} : refreshing' = [refreshing EXCEPT ![load.by] = v]
      /\ UNCHANGED <<orders, invoices, job, mode, range, isDeleting, confirming, disclosed>>
  BY DEF LoadSucceeds, LoadFails, AfterLoad, serviceVars, ledger, choiceVars
<1>2. DOMAIN refreshing' = Callers /\ (load.by # "cleanup" => refreshing'.cleanup = refreshing.cleanup)
  BY <1>1 DEF Shaped, Callers
<1>3. Matching(mode, range)' = Matching(mode, range)
      /\ \A l \in loads : Matching(l.kind, l.range)' = Matching(l.kind, l.range)
  BY <1>1 DEF Matching
<1>4. load.by = "cleanup" => refreshing.cleanup = "list"
  BY DEF LoadsInv
<1>5. FlowInv'
  BY <1>1, <1>2, <1>4 DEF FlowInv
<1>6. \A l \in loads' : l.by = "cleanup" => refreshing'.cleanup = "list"
  BY <1>1, <1>2 DEF LoadsInv
<1>7. CASE ~Counts(load)
  <2>1. load.current # TRUE
    BY <1>7 DEF Counts, LoadsInv
  <2>2. UNCHANGED <<available, isLoading, selectedIds, listed>>
    BY <1>7 DEF LoadSucceeds, LoadFails, choiceVars
  <2>3. Shaped' /\ LoadsInv'
    BY <1>1, <1>2, <1>6, <2>1, <2>2 DEF Shaped, LoadsInv
  <2>4. ListInv'
    BY <1>1, <1>3, <2>2 DEF ListInv
  <2>5. SelectionVisible' /\ DisclosedInv'
    BY <1>1, <2>2 DEF SelectionVisible, visibleIds, DisclosedInv, RootsDisclosed
  <2> QED
    BY <1>5, <2>3, <2>4, <2>5
<1>8. CASE Counts(load)
  <2>1. load.current = TRUE /\ load.kind = mode /\ load.range = range
    BY <1>8 DEF Counts, LoadsInv
  <2>2. isLoading' = FALSE /\ \A l \in loads' : l.current # TRUE
    BY <1>1, <1>8, <2>1 DEF LoadSucceeds, LoadFails, LoadsInv
  <2>3. /\ DOMAIN available' = Kinds
        /\ selectedIds' \subseteq selectedIds /\ selectedIds' \subseteq available'[mode]
    BY <1>8 DEF LoadSucceeds, LoadFails, choiceVars, Shaped, SelectionVisible, visibleIds
  <2>4. Shaped' /\ LoadsInv'
    BY <1>1, <1>2, <1>6, <2>2, <2>3 DEF Shaped, LoadsInv
  <2>5. listed' /\ job.pc # "files" => available'[mode] = Matching(mode, range)
    <3>1. CASE LoadSucceeds(load)
      BY <1>8, <2>1, <3>1 DEF LoadSucceeds, ListInv, Shaped
    <3>2. CASE LoadFails(load)
      BY <1>8, <3>2 DEF LoadFails
    <3> QED
      BY <3>1, <3>2
  <2>6. ListInv'
    BY <1>1, <1>3, <2>2, <2>5 DEF ListInv
  <2>7. SelectionVisible' /\ DisclosedInv'
    BY <1>1, <2>3 DEF SelectionVisible, visibleIds, DisclosedInv, RootsDisclosed
  <2> QED
    BY <1>5, <2>4, <2>6, <2>7
<1> QED
  BY <1>7, <1>8

(* Choosing, and what has been calculated, only select rows of the list. *)
LEMMA RecalculateVisible ==
    ASSUME NEW chosen, chosen \subseteq visibleIds, NEW cascade, NEW by, Recalculate(chosen, cascade, by)
    PROVE  selectedIds' \subseteq visibleIds /\ selectedIds' \subseteq chosen
BY DEF Recalculate

LEMMA ChooseVisible ==
    ASSUME NEW chosen, chosen \subseteq visibleIds, NEW cascade, Choose(chosen, cascade)
    PROVE  selectedIds' \subseteq visibleIds
BY RecalculateVisible DEF Choose

LEMMA ChoicePreserves ==
    ASSUME SessionInv,
           \/ ToggleDeleteRelatedItems \/ SelectAll \/ InvertSelection
           \/ \E id \in visibleIds : Select(id) \/ Deselect(id)
           \/ CalculationEnds \/ DeselectionEnds
    PROVE  SessionInv'
<1> USE DEF SessionInv
<1>1. UNCHANGED <<orders, invoices, job, mode, range, available, isLoading, loads, listed,
                  isDeleting, confirming, disclosed, refreshing>>
  BY DEF ToggleDeleteRelatedItems, SelectAll, InvertSelection, Select, Deselect, CalculationEnds,
         CalculationSucceeds, CalculationFails, DeselectionEnds, DeselectionSucceeds,
         DeselectionFails, serviceVars, ledger, listVars, flowVars
<1>2. Shaped' /\ LoadsInv' /\ FlowInv'
  BY <1>1 DEF Shaped, LoadsInv, FlowInv
<1>3. ListInv'
  BY <1>1 DEF ListInv, Matching
<1>4. /\ selectedIds' \subseteq visibleIds
      /\ confirming = "dialog" => selectedIds' \subseteq selectedIds
  <2>1. CASE ToggleDeleteRelatedItems
    BY <2>1, RecalculateVisible DEF ToggleDeleteRelatedItems, SelectionVisible, MayChoose, OnScreen
  <2>2. CASE SelectAll
    BY <2>2, ChooseVisible DEF SelectAll, MayChoose, OnScreen
  <2>3. CASE InvertSelection
    BY <2>3, ChooseVisible DEF InvertSelection, MayChoose, OnScreen
  <2>4. ASSUME NEW id \in visibleIds, Select(id)
        PROVE  selectedIds' \subseteq visibleIds /\ confirming # "dialog"
    BY <2>4, ChooseVisible DEF Select, MayChoose, OnScreen, SelectionVisible
  <2>5. ASSUME NEW id \in visibleIds, Deselect(id)
        PROVE  selectedIds' \subseteq selectedIds
    BY <2>5 DEF Deselect
  <2>6. ASSUME NEW c \in calculations, CalculationSucceeds(c) \/ CalculationFails(c)
        PROVE  selectedIds' \subseteq selectedIds
    BY <2>6 DEF CalculationSucceeds, CalculationFails, visibleSelectedIds
  <2>7. ASSUME NEW d \in deselections, DeselectionSucceeds(d) \/ DeselectionFails(d)
        PROVE  selectedIds' \subseteq selectedIds
    BY <2>7 DEF DeselectionSucceeds, DeselectionFails
  <2> QED
    BY <2>1, <2>2, <2>3, <2>4, <2>5, <2>6, <2>7 DEF CalculationEnds, DeselectionEnds, SelectionVisible
<1>5. SelectionVisible' /\ DisclosedInv'
  BY <1>1, <1>4 DEF SelectionVisible, visibleIds, DisclosedInv, RootsDisclosed
<1> QED
  BY <1>2, <1>3, <1>5

(* The screen loads: on entering, with another range, or again. *)
LEMMA ScreenLoadPreserves ==
    ASSUME SessionInv,
           \/ \E kind \in Kinds : Enter(kind)
           \/ \E r \in {"all", "recent"} : SetDateRange(r)
           \/ Reload \/ RetryRefresh
    PROVE  SessionInv'
<1> USE DEF SessionInv
<1>1. /\ UNCHANGED <<orders, invoices, job, available, isDeleting, disclosed>>
      /\ confirming' \in {confirming, "none"} /\ confirming # "dialog"
      /\ DOMAIN refreshing' = Callers /\ refreshing'.cleanup = refreshing.cleanup
  BY DEF Enter, SetDateRange, Reload, RetryRefresh, OnScreen, serviceVars, ledger, Shaped, Callers
<1>2. \E kind \in Kinds : \E r : \E by \in {"screen", "retry"} :
         StartLoad(kind, r, by) /\ mode' = kind /\ range' = r
  BY DEF Enter, SetDateRange, Reload, RetryRefresh, Shaped
<1>3. Shaped' /\ LoadsInv' /\ ListInv' /\ SelectionVisible'
  BY <1>1, <1>2, StartLoadPreserves DEF Shaped, Callers, tables
<1>4. FlowInv' /\ DisclosedInv'
  BY <1>1 DEF FlowInv, DisclosedInv, RootsDisclosed
<1> QED
  BY <1>3, <1>4

(* The confirmation: what is deleted was selected when it was counted. *)
LEMMA ConfirmationPreserves ==
    ASSUME SessionInv, PressDelete \/ Counted \/ Cancel \/ Confirm
    PROVE  SessionInv'
<1> USE DEF SessionInv
<1>1. UNCHANGED <<orders, invoices, mode, range, available, isLoading, loads, listed,
                  selectedIds, refreshing>>
  BY DEF PressDelete, Counted, Cancel, Confirm, Begin, serviceVars, ledger, listVars, choiceVars
<1>2. SelectionVisible' /\ LoadsInv'
  BY <1>1 DEF SelectionVisible, visibleIds, LoadsInv
<1>3. CASE PressDelete \/ Counted \/ Cancel
  <2>1. UNCHANGED <<job, isDeleting>>
    BY <1>3 DEF PressDelete, Counted, Cancel, serviceVars
  <2>2. Shaped' /\ ListInv'
    BY <1>1, <2>1 DEF Shaped, ListInv, Matching
  <2>3. FlowInv'
    BY <1>1, <1>3, <2>1 DEF PressDelete, Counted, Cancel, FlowInv, MayDelete, Busy
  <2>4. DisclosedInv'
    <3>1. CASE PressDelete
      BY <1>1, <2>1, <3>1 DEF PressDelete, DisclosedInv, RootsDisclosed
    <3>2. CASE Counted
      BY <1>1, <2>1, <3>2 DEF Counted, DisclosedInv, RootsDisclosed, allSelectedIds, FlowInv, MayDelete, Busy
    <3>3. CASE Cancel
      BY <1>1, <2>1, <3>3 DEF Cancel, DisclosedInv, RootsDisclosed, FlowInv
    <3> QED
      BY <1>3, <3>1, <3>2, <3>3
  <2> QED
    BY <1>2, <2>2, <2>3, <2>4
<1>4. CASE Confirm /\ MayDelete
  <2>1. /\ job' = [pc |-> "transaction", kind |-> mode, roots |-> visibleSelectedIds,
                   related |-> deleteRelatedItems, doomed |-> {}]
        /\ job.pc = "idle" /\ confirming = "dialog" /\ confirming' = "none"
        /\ isDeleting' = TRUE /\ ~isDeleting /\ disclosed' = disclosed
    BY <1>4 DEF Confirm, Begin, MayDelete, Busy
  <2>2. job'.pc = "transaction" /\ job'.roots = visibleSelectedIds
    BY <2>1
  <2>3. Shaped'
    BY <1>1, <2>1 DEF Shaped
  <2>4. ListInv'
    BY <1>1, <2>1 DEF ListInv, Matching
  <2>5. FlowInv'
    BY <1>1, <2>1 DEF FlowInv
  <2>6. DisclosedInv'
    BY <2>1, <2>2 DEF DisclosedInv, RootsDisclosed, visibleSelectedIds
  <2> QED
    BY <1>2, <2>3, <2>4, <2>5, <2>6
<1>5. CASE Confirm /\ ~MayDelete
  <2>1. UNCHANGED <<job, isDeleting>> /\ confirming = "dialog" /\ confirming' = "none"
    BY <1>5 DEF Confirm, serviceVars
  <2>2. job.pc = "idle"
    BY <2>1 DEF FlowInv
  <2>3. Shaped' /\ ListInv' /\ FlowInv'
    BY <1>1, <2>1 DEF Shaped, ListInv, Matching, FlowInv
  <2>4. DisclosedInv'
    BY <2>1, <2>2 DEF DisclosedInv, RootsDisclosed
  <2> QED
    BY <1>2, <2>3, <2>4
<1> QED
  BY <1>3, <1>4, <1>5

(* The deletion: from its commit until its load starts the list may lag. *)
LEMMA DeletionPreserves ==
    ASSUME SessionInv, DeletionStep
    PROVE  SessionInv'
<1> USE DEF SessionInv
<1>1. CASE Deleting
  <2>1. /\ UNCHANGED <<mode, range, available, isLoading, loads, listed, selectedIds,
                       isDeleting, confirming, disclosed, refreshing>>
        /\ job.pc \in {"transaction", "files"}
        /\ \/ job' = [job EXCEPT !.pc = "files",
                                 !.doomed = Doomed(Scope(job.kind, job.roots, job.related))]
           \/ job.pc = "files" /\ \E p \in AllPaths : job' = [job EXCEPT !.doomed = @ \ {p}]
    BY <1>1 DEF Deleting, Commit, DeleteAttachment, DeleteAttachmentFails, listVars, choiceVars, flowVars
  <2>2. job'.pc = "files" /\ {"pc", "kind", "roots", "related", "doomed"} \subseteq DOMAIN job'
    BY <2>1 DEF Shaped
  <2>3. Shaped' /\ LoadsInv' /\ ListInv' /\ FlowInv'
    BY <2>1, <2>2 DEF Shaped, LoadsInv, ListInv, FlowInv
  <2>4. SelectionVisible' /\ DisclosedInv'
    BY <2>1, <2>2 DEF SelectionVisible, visibleIds, DisclosedInv, RootsDisclosed
  <2> QED
    BY <2>3, <2>4
<1>2. CASE DeletionFails
  <2>1. /\ UNCHANGED <<orders, invoices, mode, range, available, isLoading, loads, listed,
                       selectedIds, confirming, refreshing>>
        /\ job' = NoJob /\ job.pc = "transaction" /\ isDeleting' = FALSE
    BY <1>2 DEF DeletionFails, Rollback, ledger, listVars, choiceVars
  <2>2. job'.pc = "idle" /\ {"pc", "kind", "roots", "related", "doomed"} \subseteq DOMAIN job'
    BY <2>1 DEF NoJob
  <2>3. Shaped' /\ LoadsInv' /\ ListInv'
    BY <2>1, <2>2 DEF Shaped, LoadsInv, ListInv, Matching
  <2>4. FlowInv' /\ SelectionVisible' /\ DisclosedInv'
    BY <2>1, <2>2 DEF FlowInv, SelectionVisible, visibleIds, DisclosedInv, RootsDisclosed
  <2> QED
    BY <2>3, <2>4
<1>3. CASE Deleted
  <2>1. /\ UNCHANGED <<orders, invoices, mode, range, available, isDeleting, confirming>>
        /\ job' = NoJob /\ job.pc = "files"
        /\ refreshing' = [refreshing EXCEPT !.cleanup = "list"]
        /\ StartLoad(mode, range, "cleanup")
    BY <1>3 DEF Deleted, Finish, ledger
  <2>2. job'.pc = "idle" /\ {"pc", "kind", "roots", "related", "doomed"} \subseteq DOMAIN job'
    BY <2>1 DEF NoJob
  <2>3. /\ DOMAIN refreshing' = Callers /\ refreshing'.cleanup = "list"
        /\ refreshing.cleanup = "none" /\ isDeleting /\ confirming # "dialog"
    BY <2>1 DEF Shaped, Callers, FlowInv
  <2>4. Shaped' /\ LoadsInv' /\ ListInv' /\ SelectionVisible'
    BY <2>1, <2>2, <2>3, StartLoadPreserves DEF Shaped, Callers, tables
  <2>5. FlowInv' /\ DisclosedInv'
    BY <2>1, <2>2, <2>3 DEF FlowInv, DisclosedInv, RootsDisclosed
  <2> QED
    BY <2>4, <2>5
<1> QED
  BY <1>1, <1>2, <1>3 DEF DeletionStep

(* The end of a refresh; that of a deletion ends the deleting state. *)
LEMMA RefreshPreserves ==
    ASSUME SessionInv, NEW by \in Callers, Refreshed(by)
    PROVE  SessionInv'
<1> USE DEF SessionInv
<1>1. /\ UNCHANGED <<orders, invoices, job, mode, range, available, isLoading, loads, listed,
                     selectedIds, confirming, disclosed>>
      /\ refreshing[by] \in {"main", "warned"}
      /\ refreshing' = [refreshing EXCEPT ![by] = "none"]
      /\ isDeleting' = IF by = "cleanup" THEN FALSE ELSE isDeleting
  BY DEF Refreshed, serviceVars, ledger, listVars, choiceVars
<1>2. /\ DOMAIN refreshing' = Callers
      /\ by = "cleanup" => refreshing'.cleanup = "none" /\ refreshing.cleanup \in {"main", "warned"}
      /\ by # "cleanup" => refreshing'.cleanup = refreshing.cleanup
  BY <1>1 DEF Shaped, Callers
<1>3. Shaped' /\ ListInv' /\ SelectionVisible' /\ DisclosedInv'
  BY <1>1, <1>2 DEF Shaped, ListInv, Matching, SelectionVisible, visibleIds, DisclosedInv, RootsDisclosed
<1>4. LoadsInv' /\ FlowInv'
  BY <1>1, <1>2 DEF LoadsInv, FlowInv
<1> QED
  BY <1>3, <1>4

LEMMA SessionStepPreserves == SessionInv /\ [Next]_vars => SessionInv'
<1> SUFFICES ASSUME SessionInv, [Next]_vars PROVE SessionInv'
  OBVIOUS
<1>1. CASE UNCHANGED vars
  BY <1>1 DEF vars, serviceVars, ledger, listVars, choiceVars, flowVars, SessionInv, Shaped, LoadsInv,
              ListInv, Matching, FlowInv, SelectionVisible, visibleIds, DisclosedInv, RootsDisclosed
<1>2. CASE User
  BY <1>2, ScreenLoadPreserves, ChoicePreserves, ConfirmationPreserves DEF User
<1>3. CASE \E by \in Callers \union {"screen"} : LoadEnds(by)
  BY <1>3, LoadEndPreserves DEF LoadEnds
<1>4. CASE CalculationEnds \/ DeselectionEnds
  BY <1>4, ChoicePreserves
<1>5. CASE Counted
  BY <1>5, ConfirmationPreserves
<1>6. CASE DeletionStep
  BY <1>6, DeletionPreserves
<1>7. CASE \E by \in Callers : Refreshed(by)
  BY <1>7, RefreshPreserves
<1> QED
  BY <1>1, <1>2, <1>3, <1>4, <1>5, <1>6, <1>7 DEF Next

(* The invariant of the session holds of every behaviour. *)
THEOREM SessionInvariant == Spec => []SessionInv
<1> QED
  BY SessionInitEstablishes, SessionStepPreserves, PTL DEF Spec

(***************************************************************************)
(* The loading state is ended by the load that counts and by no other, for *)
(* any number of loads that overtake each other.                           *)
(***************************************************************************)
THEOREM LoadingIsALoad == Spec => []LoadingMeansLoad
<1>1. SessionInv => LoadingMeansLoad
  BY DEF SessionInv, LoadsInv, LoadingMeansLoad, Counts
<1> QED
  BY <1>1, SessionInvariant, PTL

(* Whatever loads and deletions overtook each other, the list is that of   *)
(* the mode and the range of now.                                          *)
THEOREM ListIsTheFilters == Spec => []ListMatchesFilter
<1>1. SessionInv => ListMatchesFilter
  BY DEF SessionInv, ListInv, FlowInv, ListMatchesFilter, Busy
<1> QED
  BY <1>1, SessionInvariant, PTL

(* No calculation, deselection or load that ends late selects a row that   *)
(* is not in the list.                                                     *)
THEOREM SelectionIsVisible == Spec => []SelectionVisible
<1>1. SessionInv => SelectionVisible
  BY DEF SessionInv
<1> QED
  BY <1>1, SessionInvariant, PTL

(* What ends while the dialog is open never adds a row to the deletion. *)
THEOREM DeletionWasDisclosed == Spec => []RootsDisclosed
<1>1. SessionInv => RootsDisclosed
  BY DEF SessionInv, DisclosedInv
<1> QED
  BY <1>1, SessionInvariant, PTL

(* While what follows a committed deletion runs, its outcome is no failure. *)
OutcomeInv == refreshing.cleanup # "none" => outcome # "failure"

LEMMA OutcomePreserves == SessionInv /\ OutcomeInv /\ [Next]_vars => OutcomeInv'
<1> SUFFICES ASSUME SessionInv, OutcomeInv, [Next]_vars PROVE OutcomeInv'
  OBVIOUS
<1>1. DOMAIN refreshing = Callers
  BY DEF SessionInv, Shaped
<1>2. CASE UNCHANGED <<refreshing, outcome>>
  BY <1>2 DEF OutcomeInv
<1>3. ASSUME NEW by \in Callers \union {"screen"}, LoadEnds(by)
      PROVE  OutcomeInv'
  <2>1. PICK load \in loads : load.by = by /\ (LoadSucceeds(load) \/ LoadFails(load))
    BY <1>3 DEF LoadEnds
  <2>2. outcome' = outcome
    BY <2>1 DEF LoadSucceeds, LoadFails, serviceVars
  <2>3. \/ refreshing' = refreshing
        \/ \E x \in {"warned", "main"} : refreshing' = [refreshing EXCEPT ![load.by] = x]
    BY <2>1 DEF LoadSucceeds, LoadFails, AfterLoad
  <2>4. refreshing'.cleanup # "none" => refreshing.cleanup # "none"
    BY <1>1, <2>3 DEF SessionInv, LoadsInv, Callers
  <2> QED
    BY <2>2, <2>4 DEF OutcomeInv
<1>4. CASE RetryRefresh
  <2>1. outcome' = outcome /\ refreshing' = [refreshing EXCEPT !.retry = "list"]
    BY <1>4 DEF RetryRefresh, serviceVars
  <2> QED
    BY <1>1, <2>1 DEF OutcomeInv, Callers
<1>5. CASE Confirm
  <2>1. CASE MayDelete
    BY <1>5, <2>1 DEF Confirm, Begin, OutcomeInv
  <2>2. CASE ~MayDelete
    BY <1>2, <1>5, <2>2 DEF Confirm, serviceVars
  <2> QED
    BY <2>1, <2>2
<1>6. CASE Deleting
  BY <1>2, <1>6 DEF Deleting, Commit, DeleteAttachment, DeleteAttachmentFails, flowVars
<1>7. CASE DeletionFails
  <2>1. job.pc = "transaction" /\ refreshing' = refreshing
    BY <1>7 DEF DeletionFails, Rollback
  <2> QED
    BY <2>1 DEF SessionInv, FlowInv, OutcomeInv
<1>8. CASE Deleted
  BY <1>8 DEF Deleted, Finish, OutcomeInv
<1>9. ASSUME NEW by \in Callers, Refreshed(by)
      PROVE  OutcomeInv'
  <2>1. outcome' = outcome /\ refreshing' = [refreshing EXCEPT ![by] = "none"]
    BY <1>9 DEF Refreshed, serviceVars
  <2> QED
    BY <1>1, <2>1 DEF OutcomeInv, Callers
<1>10. CASE User /\ ~RetryRefresh /\ ~Confirm
  BY <1>2, <1>10 DEF User, Enter, SetDateRange, Reload, ToggleDeleteRelatedItems, SelectAll, InvertSelection,
                     Select, Deselect, PressDelete, Cancel, serviceVars, flowVars
<1>11. CASE CalculationEnds \/ DeselectionEnds \/ Counted
  BY <1>2, <1>11 DEF CalculationEnds, DeselectionEnds, CalculationSucceeds, CalculationFails,
                     DeselectionSucceeds, DeselectionFails, Counted, serviceVars, flowVars
<1>12. CASE UNCHANGED vars
  BY <1>2, <1>12 DEF vars, serviceVars, flowVars
<1> QED
  BY <1>3, <1>4, <1>5, <1>6, <1>7, <1>8, <1>9, <1>10, <1>11, <1>12 DEF Next, DeletionStep

(* The deleting state ends in two steps only, the failure and the refresh. *)
LEMMA DeletionEndsTwice ==
    ASSUME SessionInv, [Next]_vars, isDeleting, ~isDeleting'
    PROVE  DeletionFails \/ Refreshed("cleanup")
<1>1. CASE UNCHANGED isDeleting
  BY <1>1
<1>2. CASE User
  <2>1. ~Confirm
    BY DEF Confirm, MayDelete, Busy
  <2> QED
    BY <1>1, <1>2, <2>1 DEF User, Enter, SetDateRange, Reload, ToggleDeleteRelatedItems, SelectAll,
            InvertSelection, Select, Deselect, PressDelete, Cancel, RetryRefresh, flowVars
<1>3. CASE \E by \in Callers \union {"screen"} : LoadEnds(by)
  BY <1>1, <1>3 DEF LoadEnds, LoadSucceeds, LoadFails
<1>4. CASE CalculationEnds \/ DeselectionEnds \/ Counted
  BY <1>1, <1>4 DEF CalculationEnds, DeselectionEnds, CalculationSucceeds, CalculationFails,
                    DeselectionSucceeds, DeselectionFails, Counted, flowVars
<1>5. CASE Deleting \/ Deleted
  BY <1>1, <1>5 DEF Deleting, Deleted, flowVars
<1>6. ASSUME NEW by \in Callers, Refreshed(by), by # "cleanup"
      PROVE  UNCHANGED isDeleting
  BY <1>6 DEF Refreshed
<1>7. CASE UNCHANGED vars
  BY <1>1, <1>7 DEF vars, flowVars
<1> QED
  BY <1>1, <1>2, <1>3, <1>4, <1>5, <1>6, <1>7 DEF Next, DeletionStep, Callers

(***************************************************************************)
(* When the deleting state ends, the screen shows an error exactly when    *)
(* the service rolled the deletion back: neither a refresh that failed nor *)
(* a load that overtook it turns one answer into the other.                *)
(***************************************************************************)
THEOREM ResultIsShown == Spec => ResultIsTrue
<1>1. Init => OutcomeInv
  BY DEF Init, SessionInit, OutcomeInv
<1>2. SessionInv /\ OutcomeInv /\ [Next]_vars =>
          [isDeleting /\ ~isDeleting' => (error' <=> outcome' = "failure")]_vars
  <2> SUFFICES ASSUME SessionInv, OutcomeInv, [Next]_vars, isDeleting, ~isDeleting'
               PROVE  error' <=> outcome' = "failure"
    OBVIOUS
  <2>1. CASE DeletionFails
    BY <2>1 DEF DeletionFails, Rollback
  <2>2. CASE Refreshed("cleanup")
    BY <2>2 DEF Refreshed, OutcomeInv, serviceVars
  <2> QED
    BY <2>1, <2>2, DeletionEndsTwice
<1> QED
  BY <1>1, <1>2, OutcomePreserves, SessionInvariant, PTL DEF Spec, ResultIsTrue

-------------------------------------------------------------------------------
(* The session drives the service as its specification says. *)

(* The rows that lists and loads have read are rows there once were. *)
IdsInv ==
    /\ \A k \in Kinds : available[k] \subseteq AllIds
    /\ \A l \in loads : l.seen \subseteq AllIds
    /\ deleteRelatedItems \in BOOLEAN

LEMMA MatchingIds ==
    ASSUME FromTables, NEW kind, NEW r
    PROVE  Matching(kind, r) \subseteq AllIds
BY DEF FromTables, Matching

LEMMA ServiceSteps ==
    ASSUME SessionInv, IdsInv, [Next]_vars
    PROVE  [ServiceNext]_serviceVars
<1>1. CASE UNCHANGED serviceVars
  BY <1>1
<1>2. CASE Confirm
  <2>1. CASE MayDelete
    <3>1. Begin(mode, visibleSelectedIds, deleteRelatedItems) /\ visibleSelectedIds # {}
      BY <1>2, <2>1 DEF Confirm, MayDelete
    <3>2. mode \in Kinds /\ deleteRelatedItems \in BOOLEAN
      BY DEF SessionInv, Shaped, IdsInv
    <3>3. visibleSelectedIds \in (SUBSET AllIds) \ {{}}
      <4>1. available[mode] \subseteq AllIds
        BY <3>2 DEF IdsInv
      <4>2. visibleSelectedIds \subseteq AllIds
        BY <4>1 DEF visibleSelectedIds, visibleIds
      <4> QED
        BY <3>1, <4>2
    <3> QED
      BY <3>1, <3>2, <3>3 DEF ServiceNext
  <2>2. CASE ~MayDelete
    BY <1>1, <1>2, <2>2 DEF Confirm
  <2> QED
    BY <2>1, <2>2
<1>3. CASE Deleting
  BY <1>3 DEF Deleting, ServiceNext, ServiceStep
<1>4. CASE DeletionFails
  BY <1>4 DEF DeletionFails, ServiceNext, ServiceStep
<1>5. CASE Deleted
  BY <1>5 DEF Deleted, ServiceNext, ServiceStep
<1>6. CASE User /\ ~Confirm
  BY <1>1, <1>6 DEF User, Enter, SetDateRange, Reload, ToggleDeleteRelatedItems, SelectAll, InvertSelection,
                    Select, Deselect, PressDelete, Cancel, RetryRefresh
<1>7. CASE \E by \in Callers \union {"screen"} : LoadEnds(by)
  BY <1>1, <1>7 DEF LoadEnds, LoadSucceeds, LoadFails
<1>8. CASE CalculationEnds \/ DeselectionEnds \/ Counted \/ \E by \in Callers : Refreshed(by)
  BY <1>1, <1>8 DEF CalculationEnds, DeselectionEnds, CalculationSucceeds, CalculationFails,
                    DeselectionSucceeds, DeselectionFails, Counted, Refreshed
<1>9. CASE UNCHANGED vars
  BY <1>1, <1>9 DEF vars
<1> QED
  BY <1>2, <1>3, <1>4, <1>5, <1>6, <1>7, <1>8, <1>9 DEF Next, DeletionStep

LEMMA StartLoadIds ==
    ASSUME Shaped, FromTables, NEW kind, NEW r, NEW by, StartLoad(kind, r, by)
    PROVE  \A l \in loads' : l.seen \subseteq AllIds
<1> DEFINE new == [kind |-> kind, range |-> r, seen |-> Matching(kind, r), by |-> by, current |-> TRUE]
<1>1. ASSUME NEW l \in OutdatedLoads
      PROVE  l.seen = {}
  <2>1. PICK m \in loads : l = [m EXCEPT !.current = FALSE, !.seen = {}]
    BY DEF OutdatedLoads
  <2> QED
    BY <2>1 DEF Shaped
<1>2. new.seen \subseteq AllIds
  BY MatchingIds
<1>3. loads' = OutdatedLoads \union {new}
  BY DEF StartLoad
<1> QED
  BY <1>1, <1>2, <1>3

LEMMA IdsPreserved == SessionInv /\ FromTables /\ IdsInv /\ [Next]_vars => IdsInv'
<1> SUFFICES ASSUME SessionInv, FromTables, IdsInv, [Next]_vars PROVE IdsInv'
  OBVIOUS
<1>1. CASE UNCHANGED <<available, loads, deleteRelatedItems>>
  BY <1>1 DEF IdsInv
<1>2. ASSUME NEW kind, NEW r, NEW by, StartLoad(kind, r, by), UNCHANGED available,
             deleteRelatedItems' \in BOOLEAN
      PROVE  IdsInv'
  BY <1>2, StartLoadIds DEF IdsInv, SessionInv
<1>3. ASSUME NEW by \in Callers \union {"screen"}, LoadEnds(by)
      PROVE  IdsInv'
  <2>1. PICK load \in loads : LoadSucceeds(load) \/ LoadFails(load)
    BY <1>3 DEF LoadEnds
  <2>2. loads' \subseteq loads /\ UNCHANGED deleteRelatedItems
    BY <2>1 DEF LoadSucceeds, LoadFails, AfterLoad, choiceVars
  <2>3. \/ UNCHANGED available
        \/ \E ids \in {load.seen, Matching(load.kind, load.range)} :
              available' = [available EXCEPT ![mode] = ids]
    BY <2>1 DEF LoadSucceeds, LoadFails
  <2>4. load.seen \subseteq AllIds /\ Matching(load.kind, load.range) \subseteq AllIds
    BY MatchingIds DEF IdsInv
  <2>5. \A k \in Kinds : available'[k] \subseteq AllIds
    BY <2>3, <2>4 DEF IdsInv, SessionInv, Shaped
  <2> QED
    BY <2>2, <2>5 DEF IdsInv
<1>4. CASE \E kind \in Kinds : Enter(kind)
  <2>1. PICK kind \in Kinds : Enter(kind)
    BY <1>4
  <2> QED
    BY <1>2, <2>1 DEF Enter
<1>5. CASE (\E r \in {"all", "recent"} : SetDateRange(r)) \/ Reload \/ RetryRefresh \/ Deleted
  BY <1>2, <1>5 DEF SetDateRange, Reload, RetryRefresh, Deleted, IdsInv
<1>6. CASE ToggleDeleteRelatedItems
  BY <1>6 DEF ToggleDeleteRelatedItems, listVars, IdsInv
<1>7. CASE SelectAll \/ InvertSelection \/ (\E id \in visibleIds : Select(id) \/ Deselect(id))
           \/ PressDelete \/ Cancel \/ Confirm
  BY <1>1, <1>7 DEF SelectAll, InvertSelection, Select, Deselect, PressDelete, Cancel, Confirm,
                    listVars, choiceVars
<1>8. CASE CalculationEnds \/ DeselectionEnds \/ Counted \/ Deleting \/ DeletionFails
           \/ \E by \in Callers : Refreshed(by)
  BY <1>1, <1>8 DEF CalculationEnds, DeselectionEnds, CalculationSucceeds, CalculationFails,
                    DeselectionSucceeds, DeselectionFails, Counted, Deleting, DeletionFails, Refreshed,
                    listVars, choiceVars
<1>9. CASE UNCHANGED vars
  BY <1>1, <1>9 DEF vars, listVars, choiceVars
<1> QED
  BY <1>3, <1>4, <1>5, <1>6, <1>7, <1>8, <1>9 DEF Next, User, DeletionStep

(***************************************************************************)
(* Whatever the screens do, and however old the list is that the rows were *)
(* chosen from, the service runs as in CleanupService: what is proved of   *)
(* that specification holds of the session.                                *)
(***************************************************************************)
THEOREM SessionRunsService == Spec => ServiceSpec
<1>1. Init => ServiceInit /\ IdsInv
  BY DEF Init, SessionInit, IdsInv, Kinds
<1>2. SessionInv /\ IdsInv /\ [Next]_vars => [ServiceNext]_serviceVars
  BY ServiceSteps
<1>3. IInv => FromTables
  BY DEF IInv
<1> QED
  BY <1>1, <1>2, <1>3, InitEstablishes, StepPreserves, IdsPreserved, SessionInvariant, PTL
     DEF Spec, ServiceSpec
================================================================================
