----------------------- MODULE IncrementalRestoreProofs -----------------------
(***************************************************************************)
(* Proofs about IncrementalRestore for all archives, ledgers, paths and    *)
(* numbers of restores: rows, files and foreign keys stay well formed, and *)
(* whatever happens, a restore takes nothing away.                         *)
(***************************************************************************)
EXTENDS IncrementalRestore, FiniteSetTheorems, TLAPS

(***************************************************************************)
(* The rank of a number in a finite set counts its elements up to it: it   *)
(* grows with the number, so the elements have the ranks 1..Cardinality.   *)
(***************************************************************************)
UpTo(S, x) == {y \in S : y <= x}

LEMMA RankInRange ==
    ASSUME NEW S \in SUBSET Nat, IsFiniteSet(S), NEW x \in S
    PROVE  /\ Rank(S, x) \in 1..Cardinality(S)
           /\ IsFiniteSet(UpTo(S, x)) /\ Rank(S, x) = Cardinality(UpTo(S, x))
<1>1. UpTo(S, x) \in SUBSET S /\ x \in UpTo(S, x)
  <2>1. x \in Nat
    OBVIOUS
  <2> QED
    BY <2>1 DEF UpTo
<1>2. IsFiniteSet(UpTo(S, x)) /\ Cardinality(UpTo(S, x)) <= Cardinality(S)
  BY <1>1, FS_Subset
<1>3. Cardinality(UpTo(S, x)) \in Nat /\ Cardinality(S) \in Nat
  BY <1>2, FS_CardinalityType
<1>4. Cardinality(UpTo(S, x)) # 0
  BY <1>1, <1>2, FS_EmptySet
<1>5. Rank(S, x) = Cardinality(UpTo(S, x))
  BY DEF Rank, UpTo
<1> QED
  BY <1>2, <1>3, <1>4, <1>5

LEMMA RankGrows ==
    ASSUME NEW S \in SUBSET Nat, IsFiniteSet(S), NEW x \in S, NEW y \in S, x < y
    PROVE  Rank(S, x) < Rank(S, y)
<1>1. UpTo(S, x) \in SUBSET UpTo(S, y) /\ UpTo(S, x) # UpTo(S, y)
  <2>1. x \in Nat /\ y \in Nat /\ S \subseteq Nat
    OBVIOUS
  <2>2. \A z \in S : z <= x => z <= y
    BY <2>1
  <2>3. y \in UpTo(S, y) /\ y \notin UpTo(S, x)
    BY <2>1 DEF UpTo
  <2> QED
    BY <2>2, <2>3 DEF UpTo
<1>2. IsFiniteSet(UpTo(S, y)) /\ Rank(S, x) = Cardinality(UpTo(S, x))
      /\ Rank(S, y) = Cardinality(UpTo(S, y))
  BY RankInRange
<1>3. Cardinality(UpTo(S, x)) <= Cardinality(UpTo(S, y))
      /\ Cardinality(UpTo(S, x)) # Cardinality(UpTo(S, y))
  BY <1>1, <1>2, FS_Subset
<1>4. Rank(S, x) \in Nat /\ Rank(S, y) \in Nat
  BY RankInRange, FS_CardinalityType
<1> QED
  BY <1>2, <1>3, <1>4

LEMMA RankDecides ==
    ASSUME NEW S \in SUBSET Nat, IsFiniteSet(S), NEW x \in S, NEW y \in S,
           Rank(S, x) = Rank(S, y)
    PROVE  x = y
<1>1. Rank(S, x) \in Nat /\ Rank(S, y) \in Nat
  BY RankInRange, FS_CardinalityType
<1>2. x \in Nat /\ y \in Nat
  OBVIOUS
<1>3. ~(x < y)
  BY <1>1, RankGrows
<1>4. ~(y < x)
  BY <1>1, RankGrows
<1> QED
  BY <1>2, <1>3, <1>4

LEMMA EveryRankTaken ==
    ASSUME NEW S \in SUBSET Nat, IsFiniteSet(S), NEW k \in 1..Cardinality(S)
    PROVE  \E x \in S : Rank(S, x) = k
<1> DEFINE f == [x \in S |-> Rank(S, x)]
           T == 1..Cardinality(S)
<1>1. f \in Injection(S, T)
  <2>1. f \in [S -> T]
    BY RankInRange
  <2>2. \A x, y \in S : f[x] = f[y] => x = y
    BY RankDecides
  <2> QED
    BY <2>1, <2>2 DEF Injection, IsInjective
<1>2. IsFiniteSet(T) /\ Cardinality(T) = Cardinality(S)
  <2>1. Cardinality(S) \in Nat
    BY FS_CardinalityType
  <2> QED
    BY <2>1, FS_Interval
<1> HIDE DEF f, T
<1>3. f \in Surjection(S, T)
  BY <1>1, <1>2, FS_Injection
<1>4. \E x \in S : f[x] = k
  BY <1>3 DEF Surjection, T
<1> QED
  BY <1>4 DEF f

(* A finite set of numbers has a greatest one. *)
LEMMA MaxIsGreatest ==
    ASSUME NEW S \in SUBSET Nat, IsFiniteSet(S), S # {}
    PROVE  Max(S) \in S /\ \A y \in S : y <= Max(S)
<1>1. Cardinality(S) \in Nat /\ Cardinality(S) # 0
  BY FS_CardinalityType, FS_EmptySet
<1>2. PICK x \in S : Rank(S, x) = Cardinality(S)
  BY <1>1, EveryRankTaken
<1>3. UpTo(S, x) \in SUBSET S /\ Cardinality(UpTo(S, x)) = Cardinality(S)
  BY <1>2, RankInRange DEF UpTo
<1>4. UpTo(S, x) = S
  BY <1>3, FS_Subset
<1>5. \A y \in S : x >= y
  BY <1>4 DEF UpTo
<1>6. \A y \in S : Max(S) >= y
  BY <1>5 DEF Max
<1>7. Max(S) \in S
  BY <1>5 DEF Max
<1> QED
  BY <1>6, <1>7

USE ContentsAssumption, AlternativesAssumption, IncrementalAssumption

(* A destination is a path that is free or holds the content to be written. *)
LEMMA DestinationFreeOrSame ==
    ASSUME NEW m, NEW p \in Paths, NEW c \in Contents,
           NEW d \in Destinations(m, p, c)
    PROVE  d \in Paths /\ m[d] \in {Absent, c}
<1>1. Alternatives[<<p, c>>] \in Seq(Paths)
  OBVIOUS
<1>2. PICK k \in DOMAIN Alternatives[<<p, c>>] :
        d = Alternatives[<<p, c>>][k] /\ Usable(m, Alternatives[<<p, c>>][k], c)
  BY DEF Destinations
<1>3. Alternatives[<<p, c>>][k] \in Paths
  BY <1>1
<1> QED
  BY <1>2, <1>3 DEF Usable

(* The merge keeps every row, under its id. *)
LEMMA MergeKeepsRows ==
    ASSUME NEW source, NEW table, NEW i \in DOMAIN table
    PROVE  /\ i \in DOMAIN MergedTable(source, table)
           /\ MergedTable(source, table)[i] = table[i]
BY DEF MergedTable

(* The id of a source row is the id of a row of the merged table. *)
LEMMA IdInMerged ==
    ASSUME NEW source, NEW table, NEW s \in DOMAIN source
    PROVE  IdOf(source, table, s) \in DOMAIN MergedTable(source, table)
<1>1. CASE Equals(source, table, s) # {}
  <2>1. IdOf(source, table, s) \in Equals(source, table, s)
    BY <1>1 DEF IdOf
  <2> QED
    BY <2>1 DEF Equals, Like, MergedTable
<1>2. CASE Equals(source, table, s) = {}
  <2>1. s \in Inserted(source, table)
    BY <1>2 DEF Inserted
  <2> QED
    BY <2>1 DEF MergedTable
<1> QED
  BY <1>1, <1>2

(* A row under the name its attachment got is a row. *)
LEMMA ResolvedIsRow ==
    ASSUME NEW row \in Rows,
           row.path # None => row.path \in DOMAIN dest /\ dest[row.path] \in Paths
    PROVE  Resolved(row) \in Rows
BY DEF Resolved, Rows

(* Equal rows of a table are finitely many. *)
LEMMA LikeFinite ==
    ASSUME NEW table, IsTable(table), NEW row
    PROVE  Like(table, row) \in SUBSET Nat /\ IsFiniteSet(Like(table, row))
<1>1. Like(table, row) \in SUBSET (DOMAIN table)
  BY DEF Like
<1>2. IsFiniteSet(DOMAIN table) /\ DOMAIN table \subseteq Nat
  BY DEF IsTable
<1> QED
  BY <1>1, <1>2, FS_Subset

Twins(source, s) == {i \in DOMAIN source : Resolved(source[i]) = Resolved(source[s])}

LEMMA TwinsFinite ==
    ASSUME NEW source, IsTable(source), NEW s \in DOMAIN source
    PROVE  Twins(source, s) \in SUBSET Nat /\ IsFiniteSet(Twins(source, s)) /\ s \in Twins(source, s)
<1>1. Twins(source, s) \in SUBSET (DOMAIN source) /\ s \in Twins(source, s)
  BY DEF Twins
<1>2. IsFiniteSet(DOMAIN source) /\ DOMAIN source \subseteq Nat
  BY DEF IsTable
<1> QED
  BY <1>1, <1>2, FS_Subset

LEMMA InsertedFinite ==
    ASSUME NEW source, NEW table, IsTable(source)
    PROVE  /\ Inserted(source, table) \in SUBSET Nat /\ IsFiniteSet(Inserted(source, table))
           /\ Inserted(source, table) \subseteq DOMAIN source
<1>1. Inserted(source, table) \in SUBSET (DOMAIN source)
  BY DEF Inserted
<1>2. IsFiniteSet(DOMAIN source) /\ DOMAIN source \subseteq Nat
  BY DEF IsTable
<1> QED
  BY <1>1, <1>2, FS_Subset

(* A source row that has an equal takes the row of its own rank. *)
LEMMA MatchedId ==
    ASSUME NEW source, NEW table, NEW s, Equals(source, table, s) # {}
    PROVE  /\ IdOf(source, table, s) \in Like(table, Resolved(source[s]))
           /\ Rank(Like(table, Resolved(source[s])), IdOf(source, table, s))
                = Rank(Twins(source, s), s)
           /\ IdOf(source, table, s) \in DOMAIN table
           /\ table[IdOf(source, table, s)] = Resolved(source[s])
<1>1. IdOf(source, table, s) \in Equals(source, table, s)
  BY DEF IdOf
<1>2. Equals(source, table, s) =
        {i \in Like(table, Resolved(source[s])) :
            Rank(Like(table, Resolved(source[s])), i) = Rank(Twins(source, s), s)}
  BY DEF Equals, Twins
<1>3. IdOf(source, table, s) \in Like(table, Resolved(source[s]))
  BY <1>1, <1>2
<1> QED
  BY <1>1, <1>2, <1>3 DEF Like

(* A new id is greater than every id there is. *)
LEMMA NewId ==
    ASSUME NEW source, NEW table, IsTable(source), IsTable(table),
           NEW s \in Inserted(source, table)
    PROVE  /\ Max(DOMAIN table \union {0}) \in Nat
           /\ \A i \in DOMAIN table : i <= Max(DOMAIN table \union {0})
           /\ Rank(Inserted(source, table), s) \in Nat
           /\ Rank(Inserted(source, table), s) >= 1
           /\ IdOf(source, table, s)
                = Max(DOMAIN table \union {0}) + Rank(Inserted(source, table), s)
<1> DEFINE ids == DOMAIN table \union {0}
<1>1. IsFiniteSet(DOMAIN table) /\ DOMAIN table \subseteq Nat
  BY DEF IsTable
<1>2. ids \in SUBSET Nat /\ IsFiniteSet(ids) /\ ids # {}
  BY <1>1, FS_AddElement
<1> HIDE DEF ids
<1>3. Max(ids) \in ids /\ \A i \in ids : i <= Max(ids)
  BY <1>2, MaxIsGreatest
<1>4. Max(ids) \in Nat
  BY <1>2, <1>3
<1>5. Rank(Inserted(source, table), s) \in 1..Cardinality(Inserted(source, table))
  BY InsertedFinite, RankInRange
<1>6. Cardinality(Inserted(source, table)) \in Nat
  BY InsertedFinite, FS_CardinalityType
<1>7. IdOf(source, table, s) = Max(ids) + Rank(Inserted(source, table), s)
  BY DEF IdOf, Inserted, ids
<1>8. Rank(Inserted(source, table), s) \in Nat /\ Rank(Inserted(source, table), s) >= 1
  BY <1>5, <1>6
<1>9. \A i \in DOMAIN table : i \in ids
  BY DEF ids
<1>10. \A i \in DOMAIN table : i <= Max(ids)
  BY <1>3, <1>9
<1> QED
  BY <1>4, <1>7, <1>8, <1>10 DEF ids

LEMMA NewIdIsNew ==
    ASSUME NEW source, NEW table, IsTable(source), IsTable(table),
           NEW s \in Inserted(source, table)
    PROVE  IdOf(source, table, s) \in Nat /\ IdOf(source, table, s) \notin DOMAIN table
<1>1. DOMAIN table \subseteq Nat
  BY DEF IsTable
<1> DEFINE top == Max(DOMAIN table \union {0})
           rank == Rank(Inserted(source, table), s)
           id == IdOf(source, table, s)
<1>2. /\ top \in Nat /\ rank \in Nat /\ rank >= 1 /\ id = top + rank
      /\ \A i \in DOMAIN table : i <= top
  BY NewId
<1> HIDE DEF top, rank, id
<1>3. id \in Nat /\ id > top
  BY <1>2
<1>4. id \notin DOMAIN table
  BY <1>1, <1>2, <1>3
<1> QED
  BY <1>3, <1>4 DEF id

(***************************************************************************)
(* No two source rows share a row of the database: matched rows are told   *)
(* apart by their rank among equals, inserted ones by their rank among the *)
(* inserted, and a new id is not an old one.                               *)
(***************************************************************************)
LEMMA IdsDiffer ==
    ASSUME NEW source, NEW table, IsTable(source), IsTable(table),
           NEW s \in DOMAIN source, NEW t \in DOMAIN source,
           IdOf(source, table, s) = IdOf(source, table, t)
    PROVE  s = t
<1>1. CASE Equals(source, table, s) # {} /\ Equals(source, table, t) # {}
  <2>1. Resolved(source[s]) = Resolved(source[t])
    BY <1>1, MatchedId
  <2>2. Twins(source, s) = Twins(source, t)
    BY <2>1 DEF Twins
  <2>3. Rank(Twins(source, s), s) = Rank(Twins(source, s), t)
    BY <1>1, <2>1, <2>2, MatchedId
  <2>4. Twins(source, s) \in SUBSET Nat /\ IsFiniteSet(Twins(source, s))
        /\ s \in Twins(source, s) /\ t \in Twins(source, s)
    BY <2>2, TwinsFinite
  <2> QED
    BY <2>3, <2>4, RankDecides
<1>2. CASE Equals(source, table, s) = {} /\ Equals(source, table, t) = {}
  <2>1. s \in Inserted(source, table) /\ t \in Inserted(source, table)
    BY <1>2 DEF Inserted
  <2> DEFINE top == Max(DOMAIN table \union {0})
             rs == Rank(Inserted(source, table), s)
             rt == Rank(Inserted(source, table), t)
  <2>2. top \in Nat /\ rs \in Nat /\ rt \in Nat /\ top + rs = top + rt
    BY <2>1, NewId
  <2> HIDE DEF top, rs, rt
  <2>3. rs = rt
    BY <2>2
  <2> QED
    BY <2>1, <2>3, InsertedFinite, RankDecides DEF rs, rt
<1>3. CASE Equals(source, table, s) # {} /\ Equals(source, table, t) = {}
  BY <1>3, MatchedId, NewIdIsNew DEF Inserted
<1>4. CASE Equals(source, table, s) = {} /\ Equals(source, table, t) # {}
  BY <1>4, MatchedId, NewIdIsNew DEF Inserted
<1> QED
  BY <1>1, <1>2, <1>3, <1>4

(* The row a source row becomes is the source row, under the new file name. *)
LEMMA RowArrives ==
    ASSUME NEW source, NEW table, IsTable(source), IsTable(table),
           NEW s \in DOMAIN source
    PROVE  MergedTable(source, table)[IdOf(source, table, s)] = Resolved(source[s])
<1>1. CASE Equals(source, table, s) # {}
  BY <1>1, MatchedId, MergeKeepsRows
<1>2. CASE Equals(source, table, s) = {}
  <2> DEFINE id == IdOf(source, table, s)
             t == CHOOSE r \in Inserted(source, table) : IdOf(source, table, r) = id
  <2>1. s \in Inserted(source, table)
    BY <1>2 DEF Inserted
  <2>2. t \in Inserted(source, table) /\ IdOf(source, table, t) = id
    BY <2>1
  <2>3. id \notin DOMAIN table
    BY <2>1, NewIdIsNew
  <2>4. id \in DOMAIN MergedTable(source, table)
    BY IdInMerged
  <2>5. MergedTable(source, table)[id] = Resolved(source[t])
    BY <2>3, <2>4 DEF MergedTable
  <2> HIDE DEF t
  <2>6. t \in DOMAIN source
    BY <2>2, InsertedFinite
  <2>7. t = s
    BY <2>2, <2>6, IdsDiffer
  <2> QED
    BY <2>5, <2>7
<1> QED
  BY <1>1, <1>2

(* The merged table holds rows under finitely many ids, as both tables do. *)
LEMMA MergedIsTable ==
    ASSUME NEW source, NEW table, IsTable(source), IsTable(table),
           \A s \in DOMAIN source : source[s].path # None =>
                source[s].path \in DOMAIN dest /\ dest[source[s].path] \in Paths
    PROVE  IsTable(MergedTable(source, table))
<1> DEFINE ins == Inserted(source, table)
           new == {IdOf(source, table, s) : s \in ins}
           give == [s \in ins |-> IdOf(source, table, s)]
<1>1. DOMAIN MergedTable(source, table) = DOMAIN table \union new
  BY DEF MergedTable
<1>2. IsFiniteSet(new) /\ new \subseteq Nat
  <2>1. give \in Surjection(ins, new)
    BY DEF Surjection
  <2>2. IsFiniteSet(ins)
    BY InsertedFinite
  <2> HIDE DEF give
  <2>3. IsFiniteSet(new)
    BY <2>1, <2>2, FS_Surjection
  <2>4. \A s \in ins : IdOf(source, table, s) \in Nat
    BY NewIdIsNew
  <2> QED
    BY <2>3, <2>4
<1>3. IsFiniteSet(DOMAIN table) /\ DOMAIN table \subseteq Nat
  BY DEF IsTable
<1>4. IsFiniteSet(DOMAIN table \union new) /\ DOMAIN table \union new \subseteq Nat
  BY <1>2, <1>3, FS_Union
<1>5. ASSUME NEW i \in DOMAIN table \union new
      PROVE  MergedTable(source, table)[i] \in Rows
  <2>1. CASE i \in DOMAIN table
    BY <2>1, MergeKeepsRows DEF IsTable
  <2>2. CASE i \in new
    <3>1. PICK s \in ins : i = IdOf(source, table, s)
      BY <2>2
    <3>2. s \in DOMAIN source /\ source[s] \in Rows
      BY InsertedFinite DEF IsTable
    <3>3. MergedTable(source, table)[i] = Resolved(source[s])
      BY <3>1, <3>2, RowArrives
    <3>4. Resolved(source[s]) \in Rows
      BY <3>2, ResolvedIsRow
    <3> QED
      BY <3>3, <3>4
  <2> QED
    BY <1>5, <2>1, <2>2
<1>6. MergedTable(source, table) \in [DOMAIN table \union new -> Rows]
  <2>1. \A i \in DOMAIN table \union new : MergedTable(source, table)[i] \in Rows
    BY <1>5
  <2>2. MergedTable(source, table) =
            [i \in DOMAIN table \union new |-> MergedTable(source, table)[i]]
    BY DEF MergedTable
  <2> HIDE DEF new
  <2> QED
    BY <2>1, <2>2
<1> HIDE DEF new
<1> QED
  BY <1>1, <1>4, <1>6 DEF IsTable

(***************************************************************************)
(* Opening a copy of the archive's database deletes relations and nothing  *)
(* else; those that stay resolve.                                          *)
(***************************************************************************)
LEMMA PreparedFacts ==
    ASSUME NEW a \in Archives
    PROVE  /\ Prepared(a).files = a.files
           /\ Prepared(a).orders = a.orders
           /\ Prepared(a).invoices = a.invoices
           /\ Prepared(a).rel \subseteq (DOMAIN a.invoices) \X (DOMAIN a.orders)
<1>1. Prepared(a).rel = WithoutDuplicates(WithoutOrphans(a.rel, a.invoices, a.orders), a.invoices)
  BY DEF Prepared
<1>2. Prepared(a).rel \subseteq WithoutOrphans(a.rel, a.invoices, a.orders)
  BY <1>1 DEF WithoutDuplicates
<1>3. WithoutOrphans(a.rel, a.invoices, a.orders) \subseteq (DOMAIN a.invoices) \X (DOMAIN a.orders)
  BY DEF WithoutOrphans
<1> QED
  BY <1>2, <1>3 DEF Prepared

-------------------------------------------------------------------------------
(* The directories map paths to contents; the archive in use has complete  *)
(* files.                                                                  *)
FilesTyped ==
    /\ media \in Files /\ base.media \in Files
    /\ created \subseteq Paths
    /\ DOMAIN archive.files \subseteq Paths
    /\ \A n \in DOMAIN archive.files : archive.files[n] \in Contents

(***************************************************************************)
(* The rows of the archive refer to its files, its relations resolve; when *)
(* the merge begins each of its files has a path.                          *)
(***************************************************************************)
RefersToFiles(table) ==
    \A i \in DOMAIN table : table[i].path # None => table[i].path \in DOMAIN archive.files

ArchiveReady ==
    /\ IsTable(archive.orders) /\ IsTable(archive.invoices)
    /\ RefersToFiles(archive.orders) /\ RefersToFiles(archive.invoices)
    /\ pc # "idle" =>
          archive.rel \subseteq (DOMAIN archive.invoices) \X (DOMAIN archive.orders)
    /\ pc = "merge" => DOMAIN dest = DOMAIN archive.files

(* What the restore found: rows, relations and attachments. *)
TablesKept ==
    /\ \A i \in DOMAIN base.orders : i \in DOMAIN orders /\ orders[i] = base.orders[i]
    /\ \A i \in DOMAIN base.invoices : i \in DOMAIN invoices /\ invoices[i] = base.invoices[i]
    /\ base.rel \subseteq rel

FilesKept == \A p \in Paths : Exists(base.media, p) => media[p] = base.media[p]

(* What a failed restore will delete was not there when it started. *)
CreatedWasAbsent == pc # "idle" => \A p \in created : ~Exists(base.media, p)

IInv ==
    /\ TypeOK
    /\ ArchiveReady
    /\ FilesTyped
    /\ TablesKept /\ FilesKept
    /\ CreatedWasAbsent

LEMMA InvariantSuffices == IInv => TypeOK /\ NothingTakenAway
BY DEF IInv, TablesKept, FilesKept, NothingTakenAway

(* A prepared archive, and one that could be prepared, is ready. *)
LEMMA RestorableRefers ==
    ASSUME NEW a \in Archives, Restorable(a)
    PROVE  /\ \A i \in DOMAIN a.orders : a.orders[i].path # None => a.orders[i].path \in DOMAIN a.files
           /\ \A i \in DOMAIN a.invoices : a.invoices[i].path # None => a.invoices[i].path \in DOMAIN a.files
BY DEF Restorable, ReferencedPaths

LEMMA InitEstablishes == Init => IInv
<1> SUFFICES ASSUME Init PROVE IInv
  OBVIOUS
<1>1. FilesTyped
  BY DEF Init, FilesTyped
<1>2. TablesKept /\ FilesKept /\ CreatedWasAbsent
  BY DEF Init, TablesKept, FilesKept, CreatedWasAbsent
<1>3. TypeOK
  BY DEF Init, TypeOK
<1>4. ArchiveReady
  BY RestorableRefers DEF Init, ArchiveReady, RefersToFiles
<1> QED
  BY <1>1, <1>2, <1>3, <1>4 DEF IInv

(***************************************************************************)
(* Writing a file of the archive, completely or not, keeps every           *)
(* attachment that was there: the destination was free or held its bytes.  *)
(***************************************************************************)
LEMMA WriteKeepsFiles ==
    ASSUME FilesTyped, FilesKept,
           NEW n \in DOMAIN archive.files,
           NEW d \in Destinations(media, n, archive.files[n]),
           NEW content \in Contents \union {Torn},
           content = archive.files[n] \/ ~Exists(media, d),
           media' = [media EXCEPT ![d] = content],
           UNCHANGED base
    PROVE  /\ d \in Paths /\ media' \in Files
           /\ FilesKept'
           /\ ~Exists(media, d) => ~Exists(base.media, d)
<1>1. n \in Paths /\ archive.files[n] \in Contents
  BY DEF FilesTyped
<1>2. d \in Paths /\ media[d] \in {Absent, archive.files[n]}
  BY <1>1, DestinationFreeOrSame
<1>3. media' \in Files
  BY <1>2 DEF FilesTyped, Files
<1>4. ~Exists(media, d) => ~Exists(base.media, d)
  BY <1>2 DEF FilesKept, Exists
<1>5. ASSUME NEW p \in Paths, Exists(base.media, p)
      PROVE  media'[p] = base.media[p]
  <2>1. media[p] = base.media[p]
    BY <1>5 DEF FilesKept
  <2>2. CASE p = d
    <3>1. Exists(media, d)
      BY <1>4, <1>5, <2>2
    <3>2. media[d] = archive.files[n] /\ content = archive.files[n]
      BY <1>2, <3>1 DEF Exists
    <3> QED
      BY <1>2, <2>1, <2>2, <3>2 DEF FilesTyped, Files
  <2>3. CASE p # d
    BY <2>1, <2>3 DEF FilesTyped, Files
  <2> QED
    BY <2>2, <2>3
<1> QED
  BY <1>2, <1>3, <1>4, <1>5 DEF FilesKept

(* What the restore must not lose is kept by every step. *)
Kept == FilesTyped /\ TablesKept /\ FilesKept /\ CreatedWasAbsent

LEMMA KeptStep == IInv /\ [Next]_vars => Kept'
<1> SUFFICES ASSUME IInv, [Next]_vars PROVE Kept'
  OBVIOUS
<1> USE DEF IInv, Kept, ledger
<1>1. ASSUME NEW a \in Archives, Start(a)
      PROVE  Kept'
  <2>1. FilesTyped'
    BY <1>1, PreparedFacts DEF Start, Snapshot, FilesTyped
  <2>2. TablesKept' /\ FilesKept'
    BY <1>1 DEF Start, Snapshot, TablesKept, FilesKept
  <2>3. CreatedWasAbsent'
    BY <1>1 DEF Start, CreatedWasAbsent
  <2> QED
    BY <2>1, <2>2, <2>3
<1>2. ASSUME NEW a \in Archives, Reject(a)
      PROVE  Kept'
  <2>1. FilesTyped'
    BY <1>2 DEF Reject, Snapshot, FilesTyped
  <2>2. TablesKept' /\ FilesKept'
    BY <1>2 DEF Reject, Snapshot, TablesKept, FilesKept
  <2>3. CreatedWasAbsent'
    BY <1>2 DEF Reject, CreatedWasAbsent
  <2> QED
    BY <2>1, <2>2, <2>3
<1>3. ASSUME NEW n \in Paths, RestoreFile(n)
      PROVE  Kept'
  <2>1. PICK d \in Destinations(media, n, archive.files[n]) :
          /\ media' = [media EXCEPT ![d] = archive.files[n]]
          /\ created' = IF Exists(media, d) THEN created ELSE created \union {d}
    BY <1>3 DEF RestoreFile
  <2>2. n \in DOMAIN archive.files /\ archive.files[n] \in Contents
    BY <1>3 DEF RestoreFile, FilesTyped
  <2>3. FilesKept /\ TablesKept /\ UNCHANGED <<orders, invoices, rel, archive, base, pc, result>>
    BY <1>3 DEF RestoreFile
  <2>4. d \in Paths /\ media' \in Files /\ FilesKept' /\ (~Exists(media, d) => ~Exists(base.media, d))
    BY <2>1, <2>2, <2>3, WriteKeepsFiles
  <2>5. FilesTyped'
    BY <2>1, <2>3, <2>4 DEF FilesTyped
  <2>6. TablesKept'
    BY <2>3 DEF TablesKept
  <2>7. CreatedWasAbsent'
    BY <2>1, <2>3, <2>4, <1>3 DEF CreatedWasAbsent, RestoreFile
  <2> QED
    BY <2>4, <2>5, <2>6, <2>7
<1>4. ASSUME NEW n \in Paths, RestoreFileFails(n)
      PROVE  Kept'
  <2>1. PICK d \in Destinations(media, n, archive.files[n]) :
          ~Exists(media, d) /\ media' = [media EXCEPT ![d] = Torn]
    BY <1>4 DEF RestoreFileFails
  <2>2. n \in DOMAIN archive.files
    BY <1>4 DEF RestoreFileFails
  <2>3. FilesKept /\ TablesKept /\ UNCHANGED <<orders, invoices, rel, archive, base, created>>
    BY <1>4 DEF RestoreFileFails
  <2>4. media' \in Files /\ FilesKept'
    BY <2>1, <2>2, <2>3, WriteKeepsFiles
  <2>5. FilesTyped' /\ TablesKept'
    BY <2>3, <2>4 DEF FilesTyped, TablesKept
  <2>6. CreatedWasAbsent'
    BY <1>4, <2>3 DEF CreatedWasAbsent, RestoreFileFails
  <2> QED
    BY <2>4, <2>5, <2>6
<1>5. CASE MediaRestored
  BY <1>5 DEF MediaRestored, FilesTyped, TablesKept, FilesKept, CreatedWasAbsent
<1>6. CASE Merge
  <2>1. TablesKept /\ FilesKept
    BY <1>6 DEF Merge
  <2>2. TablesKept'
    BY <1>6, <2>1, MergeKeepsRows DEF Merge, TablesKept
  <2>3. FilesTyped' /\ FilesKept' /\ CreatedWasAbsent'
    BY <1>6, <2>1 DEF Merge, FilesTyped, FilesKept, CreatedWasAbsent
  <2> QED
    BY <2>2, <2>3
<1>7. CASE Throw
  BY <1>7 DEF Throw, FilesTyped, TablesKept, FilesKept, CreatedWasAbsent
<1>8. ASSUME NEW p \in Paths, DeleteCreated(p)
      PROVE  Kept'
  <2>1. PICK content \in {media[p], Absent} : media' = [media EXCEPT ![p] = content]
    BY <1>8 DEF DeleteCreated
  <2>2. /\ TablesKept /\ FilesKept /\ ~Exists(base.media, p)
        /\ UNCHANGED <<orders, invoices, rel, archive, base, pc>>
        /\ created' \subseteq created
    BY <1>8 DEF DeleteCreated, CreatedWasAbsent
  <2>3. media' \in Files /\ \A q \in Paths \ {p} : media'[q] = media[q]
    BY <2>1 DEF FilesTyped, Files
  <2>4. FilesKept'
    BY <2>2, <2>3 DEF FilesKept
  <2>5. FilesTyped' /\ TablesKept' /\ CreatedWasAbsent'
    BY <2>2, <2>3 DEF FilesTyped, TablesKept, CreatedWasAbsent
  <2> QED
    BY <2>4, <2>5
<1>9. CASE ReportFailure
  BY <1>9 DEF ReportFailure, FilesTyped, TablesKept, FilesKept, CreatedWasAbsent
<1>10. CASE Crash
  <2>1. /\ TablesKept /\ FilesKept
        /\ UNCHANGED <<orders, invoices, rel, archive, base, created>>
        /\ pc' = "idle"
    BY <1>10 DEF Crash
  <2>2. media' \in Files /\ FilesKept'
    <3>1. CASE UNCHANGED media
      BY <2>1, <3>1 DEF FilesTyped, FilesKept
    <3>2. CASE \E n \in DOMAIN archive.files : \E d \in Destinations(media, n, archive.files[n]) :
                  ~Exists(media, d) /\ media' = [media EXCEPT ![d] = Torn]
      BY <2>1, <3>2, WriteKeepsFiles
    <3> QED
      BY <1>10, <3>1, <3>2 DEF Crash
  <2>3. FilesTyped' /\ TablesKept' /\ CreatedWasAbsent'
    BY <2>1, <2>2 DEF FilesTyped, TablesKept, CreatedWasAbsent
  <2> QED
    BY <2>2, <2>3
<1>11. ASSUME NEW o \in DOMAIN orders, Forget(o)
       PROVE  Kept'
  <2>1. pc' = "idle" /\ base' = Snapshot' /\ UNCHANGED <<archive, created>>
    BY <1>11 DEF Forget
  <2>2. /\ base'.orders = orders' /\ base'.invoices = invoices'
        /\ base'.rel = rel' /\ base'.media = media'
    BY <2>1 DEF Snapshot
  <2>3. media' \in Files
    BY <1>11 DEF Forget, FilesTyped, Files
  <2>4. FilesTyped' /\ CreatedWasAbsent'
    BY <2>1, <2>2, <2>3 DEF FilesTyped, CreatedWasAbsent
  <2>5. TablesKept' /\ FilesKept'
    BY <2>2 DEF TablesKept, FilesKept
  <2> QED
    BY <2>4, <2>5
<1>12. CASE UNCHANGED vars
  BY <1>12 DEF vars, FilesTyped, TablesKept, FilesKept, CreatedWasAbsent
<1> QED
  BY <1>1, <1>2, <1>3, <1>4, <1>5, <1>6, <1>7, <1>8, <1>9, <1>10, <1>11, <1>12 DEF Next, Step

(* Types, foreign keys and the archive in use are kept by every step. *)
LEMMA TypeStep == IInv /\ [Next]_vars => TypeOK' /\ ArchiveReady'
<1> SUFFICES ASSUME IInv, [Next]_vars PROVE TypeOK' /\ ArchiveReady'
  OBVIOUS
<1>0. Kept'
  BY KeptStep
<1> USE DEF IInv, ledger
<1>1. ASSUME NEW a \in Archives, Start(a)
      PROVE  TypeOK' /\ ArchiveReady'
  <2>1. TypeOK'
    BY <1>1 DEF Start, TypeOK
  <2>2. archive' = Prepared(a) /\ pc' = "media" /\ Restorable(a)
    BY <1>1 DEF Start
  <2>3. ArchiveReady'
    BY <2>2, PreparedFacts, RestorableRefers DEF ArchiveReady, RefersToFiles
  <2> QED
    BY <2>1, <2>3
<1>2. ASSUME NEW a \in Archives, Reject(a)
      PROVE  TypeOK' /\ ArchiveReady'
  BY <1>2 DEF Reject, TypeOK, ArchiveReady, RefersToFiles
<1>3. ASSUME NEW n \in Paths, RestoreFile(n)
      PROVE  TypeOK' /\ ArchiveReady'
  <2>1. PICK d \in Destinations(media, n, archive.files[n]) : dest' = Extend(dest, n, d)
    BY <1>3 DEF RestoreFile
  <2>2. archive.files[n] \in Contents
    BY <1>3 DEF RestoreFile, FilesTyped
  <2>3. d \in Paths
    BY <2>1, <2>2, DestinationFreeOrSame
  <2>4. DOMAIN dest' \subseteq Paths /\ dest' \in [DOMAIN dest' -> Paths]
    BY <2>1, <2>3 DEF Extend, TypeOK
  <2>5. media' \in Files /\ created' \subseteq Paths
    BY <1>0 DEF Kept, FilesTyped
  <2>6. pc = "media" /\ UNCHANGED <<orders, invoices, rel, pc, archive, result>>
    BY <1>3 DEF RestoreFile
  <2> QED
    BY <2>4, <2>5, <2>6 DEF TypeOK, ArchiveReady, RefersToFiles
<1>4. ASSUME NEW n \in Paths, RestoreFileFails(n)
      PROVE  TypeOK' /\ ArchiveReady'
  BY <1>0, <1>4 DEF RestoreFileFails, Kept, FilesTyped, TypeOK, ArchiveReady, RefersToFiles
<1>5. CASE MediaRestored
  BY <1>5 DEF MediaRestored, TypeOK, ArchiveReady, RefersToFiles
<1>6. CASE Merge
  <2>1. /\ orders' = MergedTable(archive.orders, orders)
        /\ invoices' = MergedTable(archive.invoices, invoices)
        /\ rel' = rel \union NewRelations
        /\ pc = "merge" /\ pc' = "idle" /\ result' = "success"
        /\ UNCHANGED <<media, archive, dest, created>>
    BY <1>6 DEF Merge
  <2>2. \A n \in DOMAIN archive.files : n \in DOMAIN dest /\ dest[n] \in Paths
    BY <2>1 DEF TypeOK, ArchiveReady
  <2>3. IsTable(orders') /\ IsTable(invoices')
    BY <2>1, <2>2, MergedIsTable DEF TypeOK, ArchiveReady, RefersToFiles
  <2>4. DOMAIN orders \subseteq DOMAIN orders' /\ DOMAIN invoices \subseteq DOMAIN invoices'
    BY <2>1, MergeKeepsRows
  <2>5. MappedRelations \subseteq (DOMAIN invoices') \X (DOMAIN orders')
    BY <2>1, IdInMerged DEF MappedRelations, ArchiveReady
  <2>6. rel' \subseteq (DOMAIN invoices') \X (DOMAIN orders')
    BY <2>1, <2>4, <2>5 DEF NewRelations, TypeOK
  <2>7. TypeOK'
    BY <2>1, <2>3, <2>6 DEF TypeOK
  <2>8. ArchiveReady'
    BY <2>1 DEF ArchiveReady, RefersToFiles
  <2> QED
    BY <2>7, <2>8
<1>7. CASE Throw
  BY <1>7 DEF Throw, TypeOK, ArchiveReady, RefersToFiles
<1>8. ASSUME NEW p \in Paths, DeleteCreated(p)
      PROVE  TypeOK' /\ ArchiveReady'
  BY <1>0, <1>8 DEF DeleteCreated, Kept, FilesTyped, TypeOK, ArchiveReady, RefersToFiles
<1>9. CASE ReportFailure
  BY <1>9 DEF ReportFailure, TypeOK, ArchiveReady, RefersToFiles
<1>10. CASE Crash
  BY <1>0, <1>10 DEF Crash, Kept, FilesTyped, TypeOK, ArchiveReady, RefersToFiles
<1>11. ASSUME NEW o \in DOMAIN orders, Forget(o)
       PROVE  TypeOK' /\ ArchiveReady'
  <2>1. /\ orders' = [i \in DOMAIN orders \ {o} |-> orders[i]]
        /\ rel' = {r \in rel : r[2] # o}
        /\ pc = "idle" /\ result' = "none"
        /\ UNCHANGED <<invoices, pc, archive, dest, created>>
    BY <1>11 DEF Forget
  <2>2. media' \in Files
    BY <1>0 DEF Kept, FilesTyped
  <2>3. DOMAIN orders' = DOMAIN orders \ {o} /\ IsTable(orders')
    <3>1. IsFiniteSet(DOMAIN orders) /\ DOMAIN orders \ {o} \in SUBSET (DOMAIN orders)
      BY DEF TypeOK, IsTable
    <3>2. IsFiniteSet(DOMAIN orders \ {o})
      BY <3>1, FS_Subset
    <3> QED
      BY <2>1, <3>2 DEF TypeOK, IsTable
  <2>4. rel' \subseteq (DOMAIN invoices) \X (DOMAIN orders')
    BY <2>1, <2>3 DEF TypeOK
  <2> QED
    BY <2>1, <2>2, <2>3, <2>4 DEF TypeOK, ArchiveReady, RefersToFiles
<1>12. CASE UNCHANGED vars
  BY <1>12 DEF vars, TypeOK, ArchiveReady, RefersToFiles
<1> QED
  BY <1>1, <1>2, <1>3, <1>4, <1>5, <1>6, <1>7, <1>8, <1>9, <1>10, <1>11, <1>12 DEF Next, Step

LEMMA StepPreserves == IInv /\ [Next]_vars => IInv'
BY KeptStep, TypeStep DEF IInv, Kept

-------------------------------------------------------------------------------
(* Rows stay rows, files stay files, and every foreign key resolves. *)
THEOREM TypeCorrect == Spec => []TypeOK
<1> QED
  BY InitEstablishes, StepPreserves, InvariantSuffices, PTL DEF Spec

(***************************************************************************)
(* An incremental restore that succeeds, fails, is undone or dies takes    *)
(* away no row, no relation and no attachment, nor changes its bytes.      *)
(***************************************************************************)
THEOREM NothingLost == Spec => []NothingTakenAway
<1> QED
  BY InitEstablishes, StepPreserves, InvariantSuffices, PTL DEF Spec

-------------------------------------------------------------------------------
(***************************************************************************)
(* While a restore runs the tables are the ones it found, the archive has  *)
(* one invoice per order, and every attachment written so far can be read  *)
(* under its destination.  A success is the last thing that happened.      *)
(***************************************************************************)
TablesUntouched == pc # "idle" => orders = base.orders /\ invoices = base.invoices /\ rel = base.rel

UniqueInvoices ==
    /\ OneInvoicePerOrder(rel)
    /\ pc # "idle" => OneInvoicePerOrder(archive.rel)

Placed ==
    \A n \in DOMAIN dest : n \in DOMAIN archive.files /\ media[dest[n]] = archive.files[n]

PlacedInv == pc \in {"media", "merge"} => Placed

SuccessIsLast == result = "success" => pc = "idle"

CInv ==
    /\ IInv
    /\ TablesUntouched
    /\ UniqueInvoices
    /\ PlacedInv
    /\ SuccessIsLast
    /\ EverythingRestored
    /\ RelationsRestored

(* Preparing an archive leaves one invoice for each order. *)
LEMMA PreparedUnique ==
    ASSUME NEW a \in Archives
    PROVE  OneInvoicePerOrder(Prepared(a).rel)
<1> DEFINE kept == WithoutOrphans(a.rel, a.invoices, a.orders)
<1>1. Prepared(a).rel = WithoutDuplicates(kept, a.invoices)
  BY DEF Prepared
<1>2. WithoutDuplicates(kept, a.invoices) \subseteq Nat \X Nat
  BY DEF WithoutDuplicates, WithoutOrphans
<1>3. \A r, s \in WithoutDuplicates(kept, a.invoices) : r[2] = s[2] => r[1] = s[1]
  BY DEF WithoutDuplicates
<1> QED
  BY <1>1, <1>2, <1>3 DEF OneInvoicePerOrder

(* A row and what the merge makes of it show the same. *)
LEMMA SameShown ==
    ASSUME NEW row \in Rows, NEW files,
           row.path # None => row.path \in DOMAIN dest /\ dest[row.path] \in Paths
                                /\ media[dest[row.path]] = files[row.path]
    PROVE  Shown(Resolved(row), media) = Shown(row, files)
<1>1. CASE row.path = None
  BY <1>1 DEF Shown, Resolved
<1>2. CASE row.path # None
  <2>1. Resolved(row) = [row EXCEPT !.path = dest[row.path]]
    BY <1>2 DEF Resolved
  <2>2. /\ Resolved(row).data = row.data /\ Resolved(row).updated = row.updated
        /\ Resolved(row).path = dest[row.path]
    BY <2>1 DEF Rows
  <2>3. Resolved(row).path # None
    BY <1>2, <2>2
  <2> QED
    BY <1>2, <2>2, <2>3 DEF Shown
<1> QED
  BY <1>1, <1>2

(* The id map of the merge finds the rows of the source in the merged table. *)
IdMap(source, table) == [s \in DOMAIN source |-> IdOf(source, table, s)]

LEMMA MergeFinds ==
    ASSUME NEW source, NEW table, NEW files, IsTable(source), IsTable(table),
           \A s \in DOMAIN source : source[s].path # None =>
                /\ source[s].path \in DOMAIN dest /\ dest[source[s].path] \in Paths
                /\ media[dest[source[s].path]] = files[source[s].path]
    PROVE  IdMap(source, table) \in Findings(source, files, MergedTable(source, table), media)
<1> DEFINE T == MergedTable(source, table)
           f == IdMap(source, table)
<1>1. ASSUME NEW s \in DOMAIN source
      PROVE  f[s] \in DOMAIN T /\ Shown(T[f[s]], media) = Shown(source[s], files)
  <2>1. source[s] \in Rows /\ f[s] = IdOf(source, table, s)
    BY DEF IsTable, IdMap
  <2>2. Shown(Resolved(source[s]), media) = Shown(source[s], files)
    BY <2>1, SameShown
  <2>3. f[s] \in DOMAIN T /\ T[f[s]] = Resolved(source[s])
    BY <2>1, IdInMerged, RowArrives
  <2> QED
    BY <2>2, <2>3
<1>2. \A s, t \in DOMAIN source : f[s] = f[t] => s = t
  <2>1. \A s \in DOMAIN source : f[s] = IdOf(source, table, s)
    BY DEF IdMap
  <2> QED
    BY <2>1, IdsDiffer
<1>3. f \in [DOMAIN source -> DOMAIN T]
  <2>1. f = [s \in DOMAIN source |-> f[s]]
    BY DEF IdMap
  <2> QED
    BY <1>1, <2>1
<1> HIDE DEF T, f
<1>4. f \in Injection(DOMAIN source, DOMAIN T)
  BY <1>2, <1>3 DEF Injection, IsInjective
<1>5. f \in Findings(source, files, T, media)
  BY <1>1, <1>4 DEF Findings
<1> QED
  BY <1>5 DEF T, f

(* What the archive shows, the merged table shows at least as often. *)
LEMMA MergeShowsAll ==
    ASSUME NEW source, NEW table, NEW files, IsTable(source), IsTable(table),
           \A s \in DOMAIN source : source[s].path # None =>
                /\ source[s].path \in DOMAIN dest /\ dest[source[s].path] \in Paths
                /\ media[dest[source[s].path]] = files[source[s].path],
           NEW x
    PROVE  Cardinality(Showing(MergedTable(source, table), media, x))
             >= Cardinality(Showing(source, files, x))
<1> DEFINE S == Showing(source, files, x)
           T == Showing(MergedTable(source, table), media, x)
           f == [s \in S |-> IdOf(source, table, s)]
<1>1. S \subseteq DOMAIN source
  BY DEF Showing
<1>2. ASSUME NEW s \in S
      PROVE  f[s] \in T
  <2>1. s \in DOMAIN source /\ source[s] \in Rows /\ Shown(source[s], files) = x
    BY DEF IsTable, Showing
  <2>2. Shown(Resolved(source[s]), media) = x
    BY <2>1, SameShown
  <2>3. /\ IdOf(source, table, s) \in DOMAIN MergedTable(source, table)
        /\ MergedTable(source, table)[IdOf(source, table, s)] = Resolved(source[s])
    BY <2>1, IdInMerged, RowArrives
  <2> QED
    BY <2>2, <2>3 DEF Showing
<1>3. f \in Injection(S, T)
  <2>1. f \in [S -> T]
    BY <1>2
  <2>2. \A s, t \in S : f[s] = f[t] => s = t
    BY <1>1, IdsDiffer
  <2> QED
    BY <2>1, <2>2 DEF Injection, IsInjective
<1>4. IsFiniteSet(T) /\ T \subseteq Nat
  <2>1. IsTable(MergedTable(source, table))
    BY MergedIsTable
  <2>2. T \in SUBSET (DOMAIN MergedTable(source, table))
    BY DEF Showing
  <2>3. IsFiniteSet(DOMAIN MergedTable(source, table)) /\ DOMAIN MergedTable(source, table) \subseteq Nat
    BY <2>1 DEF IsTable
  <2> QED
    BY <2>2, <2>3, FS_Subset
<1> HIDE DEF S, T, f
<1>5. IsFiniteSet(S) /\ Cardinality(S) <= Cardinality(T)
  BY <1>3, <1>4, FS_Injection
<1>6. Cardinality(S) \in Nat /\ Cardinality(T) \in Nat
  BY <1>4, <1>5, FS_CardinalityType
<1>7. Cardinality(T) >= Cardinality(S)
  BY <1>5, <1>6
<1> QED
  BY <1>7 DEF S, T

(* The relation of the database that a relation of the archive becomes. *)
Mapped(r) == <<IdOf(archive.invoices, invoices, r[1]), IdOf(archive.orders, orders, r[2])>>

(* The merge begins with tables, and with a file for each row that has one. *)
LEMMA MergeReady ==
    ASSUME CInv, pc = "merge"
    PROVE  /\ IsTable(archive.orders) /\ IsTable(archive.invoices)
           /\ IsTable(orders) /\ IsTable(invoices)
           /\ \A s \in DOMAIN archive.orders : archive.orders[s].path # None =>
                /\ archive.orders[s].path \in DOMAIN dest
                /\ dest[archive.orders[s].path] \in Paths
                /\ media[dest[archive.orders[s].path]] = archive.files[archive.orders[s].path]
           /\ \A s \in DOMAIN archive.invoices : archive.invoices[s].path # None =>
                /\ archive.invoices[s].path \in DOMAIN dest
                /\ dest[archive.invoices[s].path] \in Paths
                /\ media[dest[archive.invoices[s].path]] = archive.files[archive.invoices[s].path]
           /\ archive.rel \subseteq (DOMAIN archive.invoices) \X (DOMAIN archive.orders)
           /\ OneInvoicePerOrder(archive.rel)
           /\ rel \subseteq (DOMAIN invoices) \X (DOMAIN orders)
<1>1. \A n \in DOMAIN archive.files :
        n \in DOMAIN dest /\ dest[n] \in Paths /\ media[dest[n]] = archive.files[n]
  BY DEF CInv, IInv, TypeOK, ArchiveReady, PlacedInv, Placed
<1>2. /\ IsTable(archive.orders) /\ IsTable(archive.invoices)
      /\ IsTable(orders) /\ IsTable(invoices)
      /\ archive.rel \subseteq (DOMAIN archive.invoices) \X (DOMAIN archive.orders)
      /\ OneInvoicePerOrder(archive.rel)
      /\ rel \subseteq (DOMAIN invoices) \X (DOMAIN orders)
  BY DEF CInv, IInv, TypeOK, ArchiveReady, UniqueInvoices
<1>3. RefersToFiles(archive.orders) /\ RefersToFiles(archive.invoices)
  BY DEF CInv, IInv, ArchiveReady
<1> QED
  BY <1>1, <1>2, <1>3 DEF RefersToFiles

LEMMA MappedDiffer ==
    ASSUME CInv, pc = "merge", NEW r \in archive.rel, NEW s \in archive.rel
    PROVE  /\ Mapped(r)[1] = Mapped(s)[1] => r[1] = s[1]
           /\ Mapped(r)[2] = Mapped(s)[2] => r[2] = s[2]
           /\ Mapped(r) = Mapped(s) => r = s
<1>1. /\ r[1] \in DOMAIN archive.invoices /\ s[1] \in DOMAIN archive.invoices
      /\ r[2] \in DOMAIN archive.orders /\ s[2] \in DOMAIN archive.orders
      /\ r = <<r[1], r[2]>> /\ s = <<s[1], s[2]>>
  BY MergeReady
<1>2. Mapped(r)[1] = Mapped(s)[1] => r[1] = s[1]
  BY <1>1, MergeReady, IdsDiffer DEF Mapped
<1>3. Mapped(r)[2] = Mapped(s)[2] => r[2] = s[2]
  BY <1>1, MergeReady, IdsDiffer DEF Mapped
<1> QED
  BY <1>1, <1>2, <1>3

(* After the merge every order still has one invoice at most. *)
LEMMA MergeKeepsUnique ==
    ASSUME CInv, pc = "merge"
    PROVE  OneInvoicePerOrder(rel \union NewRelations)
<1> SUFFICES ASSUME NEW r \in rel \union NewRelations, NEW s \in rel \union NewRelations,
                    r[2] = s[2]
             PROVE  r = s
  BY DEF OneInvoicePerOrder
<1>1. OneInvoicePerOrder(rel)
  BY DEF CInv, UniqueInvoices
<1>2. CASE r \in rel /\ s \in rel
  BY <1>1, <1>2 DEF OneInvoicePerOrder
<1>3. ASSUME NEW p \in rel, NEW q \in NewRelations PROVE p[2] # q[2]
  <2>1. p[1] \in InvoicesOf(rel, p[2]) /\ InvoicesOf(rel, q[2]) = {}
    BY DEF InvoicesOf, NewRelations
  <2> QED
    BY <2>1
<1>4. CASE r \in NewRelations /\ s \in NewRelations
  <2>1. PICK a \in archive.rel : r = Mapped(a)
    BY <1>4 DEF NewRelations, MappedRelations, Mapped
  <2>2. PICK b \in archive.rel : s = Mapped(b)
    BY <1>4 DEF NewRelations, MappedRelations, Mapped
  <2>3. a[2] = b[2]
    BY <2>1, <2>2, MappedDiffer
  <2>4. a = b
    BY <2>3, MergeReady DEF OneInvoicePerOrder
  <2> QED
    BY <2>1, <2>2, <2>4
<1> QED
  BY <1>2, <1>3, <1>4

(***************************************************************************)
(* The relations of the archive that the merged table does not have are as *)
(* many as the conflicts, and each is of an order that had an invoice.     *)
(***************************************************************************)
LEMMA ConflictsCounted ==
    ASSUME CInv, pc = "merge",
           NEW kept, kept = {r \in archive.rel : Mapped(r) \notin rel \union NewRelations}
    PROVE  /\ Conflicts = Cardinality(kept)
           /\ \A r \in kept : InvoicesOf(rel, Mapped(r)[2]) # {}
<1> DEFINE C == {m \in MappedRelations : InvoicesOf(rel, m[2]) # {} /\ m \notin rel}
           f == [r \in kept |-> Mapped(r)]
<1>1. \A r \in archive.rel : r \in kept <=> Mapped(r) \notin rel \union NewRelations
  OBVIOUS
<1>2. ASSUME NEW r \in archive.rel
      PROVE  r \in kept <=> Mapped(r) \in C
  <2>1. Mapped(r) \in MappedRelations
    BY DEF Mapped, MappedRelations
  <2>2. Mapped(r) \in NewRelations <=> InvoicesOf(rel, Mapped(r)[2]) = {}
    BY <2>1 DEF NewRelations
  <2> QED
    BY <1>1, <2>1, <2>2
<1>3. \A m \in C : \E r \in archive.rel : m = Mapped(r)
  BY DEF MappedRelations, Mapped
<1>4. kept \in SUBSET archive.rel
  OBVIOUS
<1>5. f \in Bijection(kept, C)
  <2>1. f \in [kept -> C]
    BY <1>2, <1>4
  <2>2. \A r, s \in kept : f[r] = f[s] => r = s
    BY <1>4, MappedDiffer
  <2>3. \A m \in C : \E r \in kept : f[r] = m
    BY <1>2, <1>3
  <2> QED
    BY <2>1, <2>2, <2>3 DEF Bijection, Injection, Surjection, IsInjective
<1>6. IsFiniteSet(kept)
  <2>1. IsFiniteSet(DOMAIN archive.invoices) /\ IsFiniteSet(DOMAIN archive.orders)
    BY MergeReady DEF IsTable
  <2>2. IsFiniteSet((DOMAIN archive.invoices) \X (DOMAIN archive.orders))
    BY <2>1, FS_Product
  <2>3. kept \in SUBSET ((DOMAIN archive.invoices) \X (DOMAIN archive.orders))
    BY <1>4, MergeReady
  <2> QED
    BY <2>2, <2>3, FS_Subset
<1>7. Conflicts = Cardinality(C)
  BY DEF Conflicts
<1>8. \A r \in kept : InvoicesOf(rel, Mapped(r)[2]) # {}
  BY <1>2, <1>4
<1> HIDE DEF C, f
<1>9. ExistsBijection(kept, C)
  BY <1>5 DEF ExistsBijection
<1>10. Cardinality(C) = Cardinality(kept)
  BY <1>6, <1>9, FS_Bijection
<1> QED
  BY <1>7, <1>8, <1>10

(* A success is reported by the merge, or was reported before. *)
LEMMA OnlyMergeSucceeds ==
    CInv /\ [Next]_vars => \/ Merge
                           \/ UNCHANGED vars
                           \/ result' # "success"
<1> SUFFICES ASSUME CInv, [Next]_vars, ~Merge, ~UNCHANGED vars PROVE result' # "success"
  OBVIOUS
<1>1. pc # "idle" => result # "success"
  BY DEF CInv, SuccessIsLast
<1>2. ASSUME NEW n \in Paths, RestoreFile(n) \/ RestoreFileFails(n) PROVE result' # "success"
  BY <1>1, <1>2 DEF RestoreFile, RestoreFileFails
<1>3. CASE MediaRestored \/ Throw \/ Crash
  BY <1>1, <1>3 DEF MediaRestored, Throw, Crash
<1>4. ASSUME NEW p \in Paths, DeleteCreated(p) PROVE result' # "success"
  BY <1>1, <1>4 DEF DeleteCreated
<1>5. CASE ReportFailure
  BY <1>5 DEF ReportFailure
<1>6. ASSUME NEW a \in Archives, Start(a) \/ Reject(a) PROVE result' # "success"
  BY <1>6 DEF Start, Reject
<1>7. ASSUME NEW o \in DOMAIN orders, Forget(o) PROVE result' # "success"
  BY <1>7 DEF Forget
<1> QED
  BY <1>2, <1>3, <1>4, <1>5, <1>6, <1>7 DEF Next, Step

(* Untouched tables, one invoice per order and success as the last event. *)
LEMMA BooksStep ==
    CInv /\ [Next]_vars => TablesUntouched' /\ UniqueInvoices' /\ SuccessIsLast'
<1> SUFFICES ASSUME CInv, [Next]_vars
             PROVE  TablesUntouched' /\ UniqueInvoices' /\ SuccessIsLast'
  OBVIOUS
<1>1. TablesUntouched /\ UniqueInvoices /\ SuccessIsLast
  BY DEF CInv
<1> USE <1>1 DEF ledger, TablesUntouched, UniqueInvoices, SuccessIsLast
<1>2. ASSUME NEW n \in Paths, RestoreFile(n) \/ RestoreFileFails(n)
      PROVE  TablesUntouched' /\ UniqueInvoices' /\ SuccessIsLast'
  BY <1>2 DEF RestoreFile, RestoreFileFails
<1>3. CASE MediaRestored
  BY <1>3 DEF MediaRestored
<1>4. CASE Throw
  BY <1>4 DEF Throw
<1>5. CASE Crash
  BY <1>5 DEF Crash
<1>6. ASSUME NEW p \in Paths, DeleteCreated(p)
      PROVE  TablesUntouched' /\ UniqueInvoices' /\ SuccessIsLast'
  BY <1>6 DEF DeleteCreated
<1>7. CASE ReportFailure
  BY <1>7 DEF ReportFailure
<1>8. ASSUME NEW a \in Archives, Start(a)
      PROVE  TablesUntouched' /\ UniqueInvoices' /\ SuccessIsLast'
  BY <1>8, PreparedUnique DEF Start, Snapshot
<1>9. ASSUME NEW a \in Archives, Reject(a)
      PROVE  TablesUntouched' /\ UniqueInvoices' /\ SuccessIsLast'
  BY <1>9 DEF Reject
<1>10. ASSUME NEW o \in DOMAIN orders, Forget(o)
       PROVE  TablesUntouched' /\ UniqueInvoices' /\ SuccessIsLast'
  <2>1. pc' = "idle" /\ rel' \subseteq rel
    BY <1>10 DEF Forget
  <2> QED
    BY <2>1 DEF OneInvoicePerOrder
<1>11. CASE Merge
  <2>1. OneInvoicePerOrder(rel')
    BY <1>11, MergeKeepsUnique DEF Merge
  <2> QED
    BY <1>11, <2>1 DEF Merge
<1>12. CASE UNCHANGED vars
  BY <1>12 DEF vars
<1> QED
  BY <1>2, <1>3, <1>4, <1>5, <1>6, <1>7, <1>8, <1>9, <1>10, <1>11, <1>12 DEF Next, Step

(* What has been written stays readable while the rest is written. *)
LEMMA PlacedStep == CInv /\ [Next]_vars => PlacedInv'
<1> SUFFICES ASSUME CInv, [Next]_vars, pc' \in {"media", "merge"}
             PROVE  Placed'
  BY DEF PlacedInv
<1>0. pc \in {"media", "merge"} => Placed
  BY DEF CInv, PlacedInv
<1>1. ASSUME NEW a \in Archives, Start(a) \/ Reject(a)
      PROVE  Placed'
  <2>1. CASE Start(a)
    BY <2>1 DEF Start, Placed
  <2>2. CASE Reject(a)
    BY <1>0, <2>2 DEF Reject, Placed
  <2> QED
    BY <1>1, <2>1, <2>2
<1>2. ASSUME NEW n \in Paths, RestoreFile(n)
      PROVE  Placed'
  <2>1. PICK d \in Destinations(media, n, archive.files[n]) :
          /\ media' = [media EXCEPT ![d] = archive.files[n]]
          /\ dest' = Extend(dest, n, d)
    BY <1>2 DEF RestoreFile
  <2>2. n \in DOMAIN archive.files /\ archive' = archive /\ pc = "media"
    BY <1>2 DEF RestoreFile
  <2>3. archive.files[n] \in Contents /\ media \in Files
        /\ \A m \in DOMAIN archive.files : archive.files[m] \in Contents
    BY <2>2 DEF CInv, IInv, FilesTyped
  <2>4. d \in Paths /\ media[d] \in {Absent, archive.files[n]}
    BY <2>1, <2>3, DestinationFreeOrSame
  <2>5. media'[d] = archive.files[n] /\ \A p \in Paths \ {d} : media'[p] = media[p]
    BY <2>1, <2>3, <2>4 DEF Files
  <2>6. dest'[n] = d /\ DOMAIN dest' = DOMAIN dest \union {n}
        /\ \A m \in DOMAIN dest \ {n} : dest'[m] = dest[m]
    BY <2>1 DEF Extend
  <2>7. ASSUME NEW m \in DOMAIN dest', m # n
        PROVE  m \in DOMAIN archive.files /\ media'[dest'[m]] = archive.files[m]
    <3>1. /\ m \in DOMAIN dest /\ dest'[m] = dest[m] /\ m \in DOMAIN archive.files
          /\ media[dest[m]] = archive.files[m]
      BY <1>0, <2>2, <2>6, <2>7 DEF Placed
    <3>2. dest[m] \in Paths
      BY <3>1 DEF CInv, IInv, TypeOK
    <3>3. dest[m] = d => archive.files[m] = archive.files[n]
      BY <2>3, <2>4, <3>1
    <3> QED
      BY <2>5, <3>1, <3>2, <3>3
  <2> QED
    BY <2>2, <2>5, <2>6, <2>7 DEF Placed
<1>3. ASSUME NEW n \in Paths, RestoreFileFails(n) PROVE Placed'
  BY <1>3 DEF RestoreFileFails
<1>4. CASE MediaRestored
  BY <1>0, <1>4 DEF MediaRestored, Placed
<1>5. ASSUME NEW p \in Paths, DeleteCreated(p) PROVE Placed'
  BY <1>5 DEF DeleteCreated
<1>6. CASE Merge \/ Throw \/ ReportFailure \/ Crash
  BY <1>6 DEF Merge, Throw, ReportFailure, Crash
<1>7. ASSUME NEW o \in DOMAIN orders, Forget(o) PROVE Placed'
  BY <1>7 DEF Forget
<1>8. CASE UNCHANGED vars
  BY <1>0, <1>8 DEF vars, Placed
<1> QED
  BY <1>1, <1>2, <1>3, <1>4, <1>5, <1>6, <1>7, <1>8 DEF Next, Step

(* What RelationsRestored says of a success. *)
Accounted(source, orderTable, invoiceTable, relations, files, old, count) ==
    \E orderAt \in Findings(source.orders, source.files, orderTable, files),
       invoiceAt \in Findings(source.invoices, source.files, invoiceTable, files) :
        LET kept == {r \in source.rel : <<invoiceAt[r[1]], orderAt[r[2]]>> \notin relations}
        IN  /\ count = Cardinality(kept)
            /\ \A r \in kept : InvoicesOf(old, orderAt[r[2]]) # {}

(* The merge restores all rows and accounts for all relations. *)
LEMMA MergeRestores == CInv /\ Merge => EverythingRestored' /\ RelationsRestored'
<1> SUFFICES ASSUME CInv, Merge PROVE EverythingRestored' /\ RelationsRestored'
  OBVIOUS
<1>1. /\ pc = "merge"
      /\ orders' = MergedTable(archive.orders, orders)
      /\ invoices' = MergedTable(archive.invoices, invoices)
      /\ rel' = rel \union NewRelations
      /\ conflicts' = Conflicts
      /\ UNCHANGED <<media, archive, dest, base>>
  BY DEF Merge
<1>2. base.orders = orders /\ base.invoices = invoices /\ base.rel = rel
  BY <1>1 DEF CInv, TablesUntouched
<1>3. EverythingRestored'
  <2>1. \A x : Cardinality(Showing(orders', media, x))
                 >= Cardinality(Showing(archive.orders, archive.files, x))
    BY <1>1, MergeReady, MergeShowsAll
  <2>2. \A x : Cardinality(Showing(invoices', media, x))
                 >= Cardinality(Showing(archive.invoices, archive.files, x))
    BY <1>1, MergeReady, MergeShowsAll
  <2> QED
    BY <1>1, <2>1, <2>2 DEF EverythingRestored
<1>4. RelationsRestored'
  <2> DEFINE orderAt == IdMap(archive.orders, orders)
             invoiceAt == IdMap(archive.invoices, invoices)
             kept == {r \in archive.rel : Mapped(r) \notin rel \union NewRelations}
             keptAt == {r \in archive.rel : <<invoiceAt[r[1]], orderAt[r[2]]>> \notin rel'}
  <2>1. OneInvoicePerOrder(rel')
    BY <1>1, MergeKeepsUnique
  <2>2. orderAt \in Findings(archive.orders, archive.files, MergedTable(archive.orders, orders), media)
    BY <1>1, MergeReady, MergeFinds
  <2>3. invoiceAt \in Findings(archive.invoices, archive.files, MergedTable(archive.invoices, invoices), media)
    BY <1>1, MergeReady, MergeFinds
  <2>4. ASSUME NEW r \in archive.rel
        PROVE  <<invoiceAt[r[1]], orderAt[r[2]]>> = Mapped(r) /\ orderAt[r[2]] = Mapped(r)[2]
    <3>1. r[1] \in DOMAIN archive.invoices /\ r[2] \in DOMAIN archive.orders
      BY <1>1, MergeReady
    <3> QED
      BY <3>1 DEF Mapped, IdMap
  <2>5. keptAt = kept
    BY <1>1, <2>4
  <2>6. Conflicts = Cardinality(kept) /\ \A r \in kept : InvoicesOf(rel, Mapped(r)[2]) # {}
    BY <1>1, ConflictsCounted
  <2> HIDE DEF orderAt, invoiceAt, kept
  <2>7. /\ orderAt \in Findings(archive'.orders, archive'.files, orders', media')
        /\ invoiceAt \in Findings(archive'.invoices, archive'.files, invoices', media')
    BY <1>1, <2>2, <2>3
  <2>8. conflicts' = Cardinality(keptAt)
    BY <1>1, <2>5, <2>6
  <2>9. \A r \in keptAt : InvoicesOf(base'.rel, orderAt[r[2]]) # {}
    BY <1>1, <1>2, <2>4, <2>5, <2>6
  <2> HIDE DEF keptAt
  <2>10. \E o \in Findings(archive'.orders, archive'.files, orders', media'),
            i \in Findings(archive'.invoices, archive'.files, invoices', media') :
            LET left == {r \in archive'.rel : <<i[r[1]], o[r[2]]>> \notin rel'}
            IN  /\ conflicts' = Cardinality(left)
                /\ \A r \in left : InvoicesOf(base'.rel, o[r[2]]) # {}
    BY <1>1, <2>7, <2>8, <2>9 DEF keptAt
  <2> QED
    BY <1>1, <2>1, <2>10 DEF RelationsRestored
<1> QED
  BY <1>3, <1>4

LEMMA CInit == Init => CInv
<1> SUFFICES ASSUME Init PROVE CInv
  OBVIOUS
<1>1. IInv
  BY InitEstablishes
<1>2. OneInvoicePerOrder(rel)
  BY DEF Init
<1>3. TablesUntouched /\ UniqueInvoices /\ PlacedInv /\ SuccessIsLast
  BY <1>2 DEF Init, TablesUntouched, UniqueInvoices, PlacedInv, SuccessIsLast
<1>4. EverythingRestored /\ RelationsRestored
  BY <1>2 DEF Init, EverythingRestored, RelationsRestored
<1> QED
  BY <1>1, <1>3, <1>4 DEF CInv

LEMMA CStep == CInv /\ [Next]_vars => CInv'
<1> SUFFICES ASSUME CInv, [Next]_vars PROVE CInv'
  OBVIOUS
<1>1. IInv'
  BY StepPreserves DEF CInv
<1>2. TablesUntouched' /\ UniqueInvoices' /\ SuccessIsLast' /\ PlacedInv'
  BY BooksStep, PlacedStep
<1>3. CASE Merge
  BY <1>1, <1>2, <1>3, MergeRestores DEF CInv
<1>4. CASE UNCHANGED vars
  <2>1. EverythingRestored'
    BY <1>4 DEF CInv, vars, ledger, EverythingRestored
  <2>2. RelationsRestored'
    <3>1. UNCHANGED <<orders, invoices, rel, media, archive, base, conflicts, result>>
      BY <1>4 DEF vars, ledger
    <3>2. /\ OneInvoicePerOrder(rel)
          /\ result = "success" =>
                 Accounted(archive, orders, invoices, rel, media, base.rel, conflicts)
      BY DEF CInv, RelationsRestored, Accounted
    <3>3. /\ OneInvoicePerOrder(rel')
          /\ result' = "success" =>
                 Accounted(archive', orders', invoices', rel', media', base'.rel, conflicts')
      BY <3>1, <3>2
    <3> QED
      BY <3>3 DEF RelationsRestored, Accounted
  <2> QED
    BY <1>1, <1>2, <2>1, <2>2 DEF CInv
<1>5. CASE result' # "success"
  BY <1>1, <1>2, <1>5 DEF CInv, UniqueInvoices, EverythingRestored, RelationsRestored
<1> QED
  BY <1>3, <1>4, <1>5, OnlyMergeSucceeds

LEMMA CSuffices == CInv => EverythingRestored /\ RelationsRestored
BY DEF CInv

(***************************************************************************)
(* After a success every order and invoice of the archive can be seen with *)
(* the archive's bytes, as many times as the archive has it.               *)
(***************************************************************************)
THEOREM AllArrives == Spec => []EverythingRestored
<1> QED
  BY CInit, CStep, CSuffices, PTL DEF Spec

(***************************************************************************)
(* The archive's rows are found, one for one, among rows that show the     *)
(* same, so that every relation joins the rows found for its own or is one *)
(* of the counted conflicts of an order that had an invoice; no order ever *)
(* has two invoices.                                                       *)
(***************************************************************************)
THEOREM RelationsAccounted == Spec => []RelationsRestored
<1> QED
  BY CInit, CStep, CSuffices, PTL DEF Spec

-------------------------------------------------------------------------------
(***************************************************************************)
(* A merged archive is settled, as long as the user deletes nothing: its   *)
(* files are pinned, so that a repeat finds them under the names D they    *)
(* have; under these names every row of the archive is in its table, in    *)
(* the rank it has among its equals; every order that the archive relates  *)
(* to an invoice has one.                                                  *)
(***************************************************************************)
Under(D, row) == IF row.path = None THEN row ELSE [row EXCEPT !.path = D[@]]
Alike(D, source, s) == {i \in DOMAIN source : Under(D, source[i]) = Under(D, source[s])}

IsAt(D, source, table, s, i) ==
    LET like == Like(table, Under(D, source[s]))
    IN  i \in like /\ Rank(like, i) = Rank(Alike(D, source, s), s)

Arrived(D, source, table) ==
    \A s \in DOMAIN source : \E i \in DOMAIN table : IsAt(D, source, table, s, i)

Pinned(D, files, m) ==
    \A n \in DOMAIN files : Destinations(m, n, files[n]) = {D[n]} /\ m[D[n]] = files[n]

Invoiced(D, a, t, R) ==
    \A r \in a.rel : \E i \in DOMAIN t : IsAt(D, a.orders, t, r[2], i) /\ InvoicesOf(R, i) # {}

(* What a repeat would start from: a running restore may yet be undone. *)
Store == IF pc = "idle" THEN media ELSE base.media

MergedSettled ==
    forgets = 0 =>
        \A a \in merged : \E D \in [DOMAIN a.files -> Paths] :
            /\ Pinned(D, a.files, Store)
            /\ Arrived(D, a.orders, orders) /\ Arrived(D, a.invoices, invoices)
            /\ Invoiced(D, a, orders, rel)

DestinationsFixed ==
    pc \in {"media", "merge"} =>
        \A n \in DOMAIN dest : Destinations(media, n, archive.files[n]) = {dest[n]}

MergedKnown ==
    /\ forgets \in Nat
    /\ \A a \in merged :
          /\ IsTable(a.orders) /\ IsTable(a.invoices)
          /\ a.rel \subseteq (DOMAIN a.invoices) \X (DOMAIN a.orders)
          /\ DOMAIN a.files \subseteq Paths
          /\ \A n \in DOMAIN a.files : a.files[n] \in Contents

(***************************************************************************)
(* The destination of a content stays its destination when it holds the    *)
(* content and every file there was is still there: the names tried before *)
(* it were taken, and are.                                                 *)
(***************************************************************************)
LEMMA DestinationSettles ==
    ASSUME NEW m, NEW m2, \A p \in Paths : Exists(m, p) => m2[p] = m[p],
           NEW n \in Paths, NEW c \in Contents,
           NEW d \in Destinations(m, n, c), m2[d] = c
    PROVE  Destinations(m2, n, c) = {d}
<1> DEFINE alt == Alternatives[<<n, c>>]
           First(f, k) == Usable(f, alt[k], c) /\ \A j \in 1..(k - 1) : ~Usable(f, alt[j], c)
<1>0. alt \in [1..Len(alt) -> Paths] /\ Len(alt) \in Nat
  <2>1. alt \in Seq(Paths)
    OBVIOUS
  <2> HIDE DEF alt
  <2> QED
    BY <2>1
<1> HIDE DEF alt
<1>1. /\ \A k \in DOMAIN alt : k \in Nat /\ k >= 1
      /\ \A k \in DOMAIN alt : \A j \in 1..(k - 1) : j \in DOMAIN alt /\ alt[j] \in Paths
  <2>1. DOMAIN alt = 1..Len(alt)
    BY <1>0
  <2>2. ASSUME NEW k \in DOMAIN alt, NEW j \in 1..(k - 1) PROVE j \in DOMAIN alt
    BY <1>0, <2>1
  <2>3. \A j \in DOMAIN alt : alt[j] \in Paths
    BY <1>0, <2>1
  <2>4. \A k \in DOMAIN alt : k \in Nat /\ k >= 1
    BY <1>0, <2>1
  <2> QED
    BY <2>2, <2>3, <2>4
<1>2. \A f : Destinations(f, n, c) = {alt[k] : k \in {i \in DOMAIN alt : First(f, i)}}
  BY DEF Destinations, alt
<1>3. PICK k \in DOMAIN alt : d = alt[k] /\ First(m, k)
  BY <1>2
<1>4. Usable(m2, alt[k], c)
  BY <1>3 DEF Usable
<1>5. \A j \in 1..(k - 1) : ~Usable(m2, alt[j], c)
  <2>1. \A j \in 1..(k - 1) : m[alt[j]] # Absent /\ m[alt[j]] # c /\ alt[j] \in Paths
    BY <1>1, <1>3 DEF Usable
  <2> QED
    BY <2>1 DEF Usable, Exists
<1>6. ASSUME NEW i \in DOMAIN alt, First(m2, i) PROVE i = k
  <2>1. i \in Nat /\ k \in Nat /\ i >= 1 /\ k >= 1
    BY <1>1
  <2>2. i < k => i \in 1..(k - 1)
    BY <2>1
  <2>3. ~(i < k)
    BY <1>5, <1>6, <2>2
  <2>4. k < i => k \in 1..(i - 1)
    BY <2>1
  <2>5. ~(k < i)
    BY <1>4, <1>6, <2>4
  <2> QED
    BY <2>1, <2>3, <2>5
<1>7. First(m2, k)
  BY <1>4, <1>5
<1> HIDE DEF First
<1>8. {i \in DOMAIN alt : First(m2, i)} = {k}
  BY <1>3, <1>6, <1>7
<1> QED
  BY <1>2, <1>3, <1>8

LEMMA PinnedKept ==
    ASSUME NEW m, NEW m2, \A p \in Paths : Exists(m, p) => m2[p] = m[p],
           NEW files, DOMAIN files \subseteq Paths,
           \A n \in DOMAIN files : files[n] \in Contents,
           NEW D \in [DOMAIN files -> Paths], Pinned(D, files, m)
    PROVE  Pinned(D, files, m2)
<1> SUFFICES ASSUME NEW n \in DOMAIN files
             PROVE  Destinations(m2, n, files[n]) = {D[n]} /\ m2[D[n]] = files[n]
  BY DEF Pinned
<1>1. Destinations(m, n, files[n]) = {D[n]} /\ m[D[n]] = files[n] /\ D[n] \in Paths
  BY DEF Pinned
<1>2. n \in Paths /\ files[n] \in Contents
  OBVIOUS
<1>3. m2[D[n]] = files[n]
  BY <1>1, <1>2 DEF Exists
<1> QED
  BY <1>1, <1>2, <1>3, DestinationSettles

(* Greater newcomers leave the ranks as they are. *)
LEMMA RankStable ==
    ASSUME NEW S \in SUBSET Nat, NEW T \in SUBSET Nat, S \subseteq T, NEW x \in S,
           \A y \in T \ S : x < y
    PROVE  Rank(T, x) = Rank(S, x)
<1>1. \A y \in T : y <= x => y \in S
  BY x \in Nat
<1>2. {y \in T : y <= x} = {y \in S : y <= x}
  BY <1>1
<1> QED
  BY <1>2 DEF Rank

(* Equal source rows: those that match come first, and ids are in order. *)
LEMMA TwinsInOrder ==
    ASSUME NEW source, NEW table, IsTable(source), IsTable(table),
           NEW s \in DOMAIN source
    PROVE  /\ \A t \in Twins(source, s) :
                /\ Resolved(source[t]) = Resolved(source[s])
                /\ Twins(source, t) = Twins(source, s)
                /\ t \in Inserted(source, table) <=>
                     Rank(Twins(source, s), t) > Cardinality(Like(table, Resolved(source[s])))
           /\ \A t, u \in Twins(source, s) :
                t < u => IdOf(source, table, t) < IdOf(source, table, u)
<1> DEFINE tw == Twins(source, s)
           like == Like(table, Resolved(source[s]))
           ins == Inserted(source, table)
           id(t) == IdOf(source, table, t)
           top == Max(DOMAIN table \union {0})
<1>1. tw \in SUBSET Nat /\ IsFiniteSet(tw) /\ tw \subseteq DOMAIN source
  BY TwinsFinite DEF Twins
<1>2. like \in SUBSET Nat /\ IsFiniteSet(like) /\ Cardinality(like) \in Nat
  BY LikeFinite, FS_CardinalityType
<1>3. \A t \in tw : Resolved(source[t]) = Resolved(source[s]) /\ Twins(source, t) = tw
  BY DEF Twins
<1>4. \A t \in tw : Equals(source, table, t) = {i \in like : Rank(like, i) = Rank(tw, t)}
  BY <1>3 DEF Equals, Twins
<1>5. \A t \in tw : t \in ins <=> Equals(source, table, t) = {}
  BY <1>1 DEF Inserted
<1>6. \A t \in tw \ ins :
        id(t) \in like /\ Rank(like, id(t)) = Rank(tw, t) /\ id(t) \in DOMAIN table
  BY <1>3, <1>5, MatchedId
<1>7. \A t \in ins : /\ \A i \in DOMAIN table : i < id(t)
                     /\ id(t) = top + Rank(ins, t) /\ top \in Nat /\ Rank(ins, t) \in Nat
  <2> TAKE t \in ins
  <2>1. /\ top \in Nat /\ Rank(ins, t) \in Nat /\ Rank(ins, t) >= 1
        /\ id(t) = top + Rank(ins, t) /\ \A i \in DOMAIN table : i <= top
    BY NewId
  <2>2. DOMAIN table \subseteq Nat
    BY DEF IsTable
  <2> HIDE DEF top, id, ins
  <2> QED
    BY <2>1, <2>2
<1>8. ins \in SUBSET Nat /\ IsFiniteSet(ins)
  BY InsertedFinite
<1>9. \A t \in tw : Rank(tw, t) \in Nat /\ Rank(tw, t) >= 1 /\ Rank(tw, t) <= Cardinality(tw)
  BY <1>1, RankInRange, FS_CardinalityType
<1>10. \A i \in like : Rank(like, i) \in Nat /\ Rank(like, i) <= Cardinality(like)
  BY <1>2, RankInRange
<1> HIDE DEF tw, like, ins, id, top
<1>11. \A t \in tw : t \in ins <=> Rank(tw, t) > Cardinality(like)
  <2> TAKE t \in tw
  <2>1. ASSUME t \notin ins PROVE ~(Rank(tw, t) > Cardinality(like))
    <3>1. id(t) \in like /\ Rank(like, id(t)) = Rank(tw, t)
      BY <1>6, <2>1
    <3>2. Rank(tw, t) \in Nat /\ Rank(tw, t) <= Cardinality(like)
      BY <1>10, <3>1
    <3> QED
      BY <1>2, <3>2
  <2>2. ASSUME ~(Rank(tw, t) > Cardinality(like)) PROVE t \notin ins
    <3>1. Rank(tw, t) \in 1..Cardinality(like)
      BY <1>2, <1>9, <2>2
    <3>2. \E i \in like : Rank(like, i) = Rank(tw, t)
      BY <1>2, <3>1, EveryRankTaken
    <3> QED
      BY <1>4, <1>5, <3>2
  <2> QED
    BY <2>1, <2>2
<1>12. ASSUME NEW t \in tw, NEW u \in tw, t < u PROVE id(t) < id(u)
  <2>1. Rank(tw, t) < Rank(tw, u)
    BY <1>1, <1>12, RankGrows
  <2>2. CASE t \notin ins /\ u \notin ins
    <3>1. id(t) \in like /\ id(u) \in like /\ Rank(like, id(t)) < Rank(like, id(u))
      BY <1>6, <2>1, <2>2
    <3>2. id(t) \in Nat /\ id(u) \in Nat
      BY <1>2, <3>1
    <3>3. ~(id(u) < id(t)) /\ id(t) # id(u)
      <4>1. id(u) < id(t) => Rank(like, id(u)) < Rank(like, id(t))
        BY <1>2, <3>1, RankGrows
      <4> QED
        BY <1>10, <3>1, <4>1
    <3> QED
      BY <3>2, <3>3
  <2>3. CASE t \notin ins /\ u \in ins
    BY <1>6, <1>7, <2>3
  <2>4. CASE t \in ins /\ u \in ins
    <3>1. Rank(ins, t) < Rank(ins, u)
      BY <1>8, <1>12, <2>4, RankGrows
    <3> QED
      BY <1>7, <2>4, <3>1
  <2>5. ~(t \in ins /\ u \notin ins)
    BY <1>2, <1>9, <1>11, <2>1
  <2> QED
    BY <2>2, <2>3, <2>4, <2>5
<1>13. \A t, u \in tw : t < u => id(t) < id(u)
  BY <1>12
<1> QED
  BY <1>3, <1>11, <1>13 DEF tw, like, ins, id

(* The rows of the merged table that are like a source row, up to its own. *)
LEMMA EarlierAreTwins ==
    ASSUME NEW source, NEW table, IsTable(source), IsTable(table),
           NEW s \in DOMAIN source,
           NEW j \in Like(MergedTable(source, table), Resolved(source[s])),
           j <= IdOf(source, table, s)
    PROVE  \E t \in Twins(source, s) : j = IdOf(source, table, t)
<1> DEFINE tw == Twins(source, s)
           row == Resolved(source[s])
           like == Like(table, row)
           ins == Inserted(source, table)
           id(t) == IdOf(source, table, t)
<1>0. tw \in SUBSET Nat /\ IsFiniteSet(tw) /\ s \in tw /\ tw \subseteq DOMAIN source
  BY TwinsFinite DEF Twins
<1>1. tw \in SUBSET Nat /\ IsFiniteSet(tw) /\ s \in tw /\ tw \subseteq DOMAIN source
      /\ Cardinality(tw) \in Nat
  <2> HIDE DEF tw
  <2> QED
    BY <1>0, FS_CardinalityType
<1>2. like \in SUBSET Nat /\ IsFiniteSet(like) /\ Cardinality(like) \in Nat
  BY LikeFinite, FS_CardinalityType
<1>3. \A t \in tw : /\ Resolved(source[t]) = row /\ Twins(source, t) = tw
                    /\ t \in ins <=> Rank(tw, t) > Cardinality(like)
  BY TwinsInOrder
<1>4. \A t \in tw \ ins :
        id(t) \in like /\ Rank(like, id(t)) = Rank(tw, t)
  <2> TAKE t \in tw \ ins
  <2>1. Equals(source, table, t) # {}
    BY <1>1 DEF Inserted
  <2> QED
    BY <1>3, <2>1, MatchedId
<1>5. \A t \in tw : Equals(source, table, t) = {i \in like : Rank(like, i) = Rank(tw, t)}
  BY <1>3 DEF Equals, Twins
<1>6. j \in DOMAIN table => j \in like
  BY MergeKeepsRows DEF Like
<1>7. j \notin DOMAIN table => \E t \in ins : j = id(t)
  BY DEF Like, MergedTable
<1>8. \A t \in ins : t \in DOMAIN source /\ MergedTable(source, table)[id(t)] = Resolved(source[t])
  BY InsertedFinite, RowArrives
<1>9. MergedTable(source, table)[j] = row
  BY DEF Like
<1>10. CASE j \notin DOMAIN table
  <2>1. PICK t \in ins : j = id(t)
    BY <1>7, <1>10
  <2>2. t \in tw
    BY <1>8, <1>9, <2>1 DEF Twins
  <2> QED
    BY <2>1, <2>2
<1>11. CASE j \in DOMAIN table
  <2> DEFINE k == Rank(like, j)
  <2>1. j \in like /\ k \in Nat /\ k >= 1 /\ k <= Cardinality(like)
    BY <1>2, <1>6, <1>11, RankInRange
  <2>2. Rank(tw, s) \in Nat /\ Rank(tw, s) <= Cardinality(tw)
    BY <1>1, RankInRange
  <2> HIDE DEF tw, row, like, ins, id
  <2>3. k <= Rank(tw, s)
    <3>1. CASE s \in ins
      <4>1. Rank(tw, s) > Cardinality(like)
        BY <1>1, <1>3, <3>1
      <4> HIDE DEF k
      <4> QED
        BY <1>2, <2>1, <2>2, <4>1
    <3>2. CASE s \notin ins
      <4>1. id(s) \in like /\ Rank(like, id(s)) = Rank(tw, s) /\ j \in Nat /\ id(s) \in Nat
        BY <1>1, <1>2, <1>4, <2>1, <3>2
      <4>2. j = id(s) \/ j < id(s)
        BY <4>1 DEF id
      <4>3. j < id(s) => Rank(like, j) < Rank(like, id(s))
        BY <1>2, <2>1, <4>1, RankGrows
      <4> QED
        BY <2>1, <2>2, <4>1, <4>2, <4>3
    <3> QED
      BY <3>1, <3>2
  <2>4. k \in 1..Cardinality(tw)
    BY <1>1, <2>1, <2>2, <2>3
  <2>5. PICK t \in tw : Rank(tw, t) = k
    BY <1>1, <2>4, EveryRankTaken
  <2>6. t \notin ins
    <3> HIDE DEF k
    <3>1. ~(Rank(tw, t) > Cardinality(like))
      BY <1>2, <2>1, <2>5
    <3> QED
      BY <1>3, <3>1
  <2>7. id(t) \in like /\ Rank(like, id(t)) = Rank(like, j)
    BY <1>4, <2>5, <2>6
  <2>8. id(t) = j
    BY <1>2, <2>1, <2>7, RankDecides
  <2> QED
    BY <2>5, <2>8 DEF tw, id
<1> QED
  BY <1>10, <1>11

(***************************************************************************)
(* After the merge each source row is in the table, in the rank among its  *)
(* equals that it has in the source.                                       *)
(***************************************************************************)
LEMMA RankArrives ==
    ASSUME NEW source, NEW table, IsTable(source), IsTable(table),
           NEW s \in DOMAIN source
    PROVE  /\ IdOf(source, table, s) \in Like(MergedTable(source, table), Resolved(source[s]))
           /\ Rank(Like(MergedTable(source, table), Resolved(source[s])), IdOf(source, table, s))
                = Rank(Twins(source, s), s)
<1> DEFINE tw == Twins(source, s)
           like == Like(MergedTable(source, table), Resolved(source[s]))
           id(t) == IdOf(source, table, t)
           f == [t \in UpTo(tw, s) |-> id(t)]
<1>1. tw \in SUBSET Nat /\ IsFiniteSet(tw) /\ s \in tw /\ tw \subseteq DOMAIN source
  BY TwinsFinite DEF Twins
<1>2. ASSUME NEW t \in tw PROVE id(t) \in like
  <2>1. t \in DOMAIN source /\ Resolved(source[t]) = Resolved(source[s])
    BY <1>1, TwinsInOrder
  <2> QED
    BY <2>1, RowArrives, IdInMerged DEF Like
<1>3. \A t, u \in tw : t < u => id(t) < id(u)
  BY TwinsInOrder
<1>4. \A t \in tw : id(t) \in Nat
  <2> TAKE t \in tw
  <2>1. CASE Equals(source, table, t) # {}
    BY <2>1, MatchedId DEF IsTable
  <2>2. CASE Equals(source, table, t) = {}
    BY <1>1, <2>2, NewIdIsNew DEF Inserted
  <2> QED
    BY <2>1, <2>2
<1>5. \A t, u \in tw : id(t) = id(u) => t = u
  BY <1>1, IdsDiffer
<1>6. \A j \in like : j <= id(s) => \E t \in tw : j = id(t)
  BY EarlierAreTwins
<1>7. like = {i \in DOMAIN MergedTable(source, table) :
                MergedTable(source, table)[i] = Resolved(source[s])}
  BY DEF Like
<1> HIDE DEF tw, like, id
<1>8. f \in Bijection(UpTo(tw, s), UpTo(like, id(s)))
  <2>1. ASSUME NEW t \in UpTo(tw, s) PROVE f[t] \in UpTo(like, id(s))
    <3>1. t \in tw /\ t <= s /\ t \in Nat /\ s \in Nat
      BY <1>1 DEF UpTo
    <3>2. id(t) <= id(s)
      <4>1. CASE t = s
        BY <1>4, <3>1, <4>1
      <4>2. CASE t < s
        BY <1>1, <1>3, <1>4, <3>1, <4>2
      <4> QED
        BY <3>1, <4>1, <4>2
    <3> QED
      BY <1>2, <3>1, <3>2 DEF UpTo
  <2>2. \A t, u \in UpTo(tw, s) : f[t] = f[u] => t = u
    BY <1>5 DEF UpTo
  <2>3. ASSUME NEW j \in UpTo(like, id(s)) PROVE \E t \in UpTo(tw, s) : f[t] = j
    <3>1. PICK t \in tw : j = id(t)
      BY <1>6 DEF UpTo
    <3>2. id(t) <= id(s)
      BY <3>1 DEF UpTo
    <3>3. t <= s
      <4>1. t \in Nat /\ s \in Nat /\ id(t) \in Nat /\ id(s) \in Nat
        BY <1>1, <1>4
      <4>2. ~(s < t)
        BY <1>1, <1>3, <3>2, <4>1
      <4> QED
        BY <4>1, <4>2
    <3> QED
      BY <3>1, <3>3 DEF UpTo
  <2>4. f \in [UpTo(tw, s) -> UpTo(like, id(s))]
    BY <2>1
  <2> QED
    BY <2>2, <2>3, <2>4 DEF Bijection, Injection, Surjection, IsInjective
<1>9. IsFiniteSet(UpTo(tw, s)) /\ Rank(tw, s) = Cardinality(UpTo(tw, s))
  BY <1>1, RankInRange
<1> HIDE DEF f
<1>10. ExistsBijection(UpTo(tw, s), UpTo(like, id(s)))
  BY <1>8 DEF ExistsBijection
<1>11. Cardinality(UpTo(like, id(s))) = Cardinality(UpTo(tw, s))
  BY <1>9, <1>10, FS_Bijection
<1>12. Rank(like, id(s)) = Cardinality(UpTo(like, id(s)))
  BY DEF Rank, UpTo
<1> QED
  BY <1>1, <1>2, <1>9, <1>11, <1>12 DEF tw, like, id

(* The names the running restore gave are the ones the merge resolves by. *)
LEMMA UnderDest ==
    /\ \A row : Under(dest, row) = Resolved(row)
    /\ \A source, s : Alike(dest, source, s) = Twins(source, s)
    /\ \A source, table, s, i :
          IsAt(dest, source, table, s, i) <=> i \in Equals(source, table, s)
BY DEF Under, Resolved, Alike, Twins, IsAt, Equals

LEMMA MergeArrives ==
    ASSUME NEW source, NEW table, IsTable(source), IsTable(table)
    PROVE  /\ \A s \in DOMAIN source :
                IsAt(dest, source, MergedTable(source, table), s, IdOf(source, table, s))
           /\ Arrived(dest, source, MergedTable(source, table))
<1>1. ASSUME NEW s \in DOMAIN source
      PROVE  IsAt(dest, source, MergedTable(source, table), s, IdOf(source, table, s))
  <2>1. Under(dest, source[s]) = Resolved(source[s]) /\ Alike(dest, source, s) = Twins(source, s)
    BY UnderDest
  <2> QED
    BY <2>1, RankArrives DEF IsAt
<1> QED
  BY <1>1, IdInMerged DEF Arrived

(* A merge of any archive leaves the rows where they are. *)
LEMMA IsAtKept ==
    ASSUME NEW D, NEW source, NEW s, NEW i,
           NEW source2, NEW table, IsTable(source2), IsTable(table),
           IsAt(D, source, table, s, i)
    PROVE  IsAt(D, source, MergedTable(source2, table), s, i)
<1> DEFINE row == Under(D, source[s])
           old == Like(table, row)
           new == Like(MergedTable(source2, table), row)
<1>1. old \subseteq new
  BY MergeKeepsRows DEF Like
<1>2. old \in SUBSET Nat
  BY LikeFinite
<1>3. \A j \in new \ old : \E t \in Inserted(source2, table) : j = IdOf(source2, table, t)
  <2> TAKE j \in new \ old
  <2>1. j \in DOMAIN MergedTable(source2, table) /\ j \notin DOMAIN table
    BY MergeKeepsRows DEF Like
  <2> QED
    BY <2>1 DEF MergedTable
<1>4. \A t \in Inserted(source2, table) :
        IdOf(source2, table, t) \in Nat /\ \A k \in DOMAIN table : k < IdOf(source2, table, t)
  <2> TAKE t \in Inserted(source2, table)
  <2> DEFINE top == Max(DOMAIN table \union {0})
             rank == Rank(Inserted(source2, table), t)
             id == IdOf(source2, table, t)
  <2>1. /\ top \in Nat /\ rank \in Nat /\ rank >= 1 /\ id = top + rank
        /\ \A k \in DOMAIN table : k <= top
    BY NewId
  <2>2. DOMAIN table \subseteq Nat
    BY DEF IsTable
  <2> HIDE DEF top, rank, id
  <2>3. id \in Nat /\ \A k \in DOMAIN table : k < id
    BY <2>1, <2>2
  <2> QED
    BY <2>3 DEF id
<1>5. i \in old /\ i \in DOMAIN table /\ Rank(old, i) = Rank(Alike(D, source, s), s)
  BY DEF IsAt, Like
<1>6. \A j \in new \ old : j \in Nat /\ i < j
  BY <1>3, <1>4, <1>5
<1>7. new \in SUBSET Nat
  BY <1>2, <1>6
<1> HIDE DEF old, new
<1>8. Rank(new, i) = Rank(old, i)
  <2>1. i \in old /\ \A j \in new \ old : i < j
    BY <1>5, <1>6
  <2> QED
    BY <1>1, <1>2, <1>7, <2>1, RankStable
<1> QED
  BY <1>1, <1>5, <1>8 DEF IsAt, old, new

(* A table in which all source rows have arrived is not changed by them. *)
LEMMA NothingToInsert ==
    ASSUME NEW source, NEW table, IsTable(source), IsTable(table),
           Arrived(dest, source, table)
    PROVE  /\ MergedTable(source, table) = table
           /\ \A s \in DOMAIN source : \A i :
                IsAt(dest, source, table, s, i) => IdOf(source, table, s) = i
<1>1. \A s \in DOMAIN source : Equals(source, table, s) # {}
  BY UnderDest DEF Arrived
<1>2. Inserted(source, table) = {}
  BY <1>1 DEF Inserted
<1>3. MergedTable(source, table) = [i \in DOMAIN table |-> table[i]]
  <2>1. DOMAIN MergedTable(source, table) = DOMAIN table
    BY <1>2 DEF MergedTable
  <2>2. MergedTable(source, table) =
            [i \in DOMAIN MergedTable(source, table) |-> MergedTable(source, table)[i]]
    BY DEF MergedTable
  <2> QED
    BY <2>1, <2>2, MergeKeepsRows
<1>4. table = [i \in DOMAIN table |-> table[i]]
  BY DEF IsTable
<1>5. ASSUME NEW s \in DOMAIN source, NEW i, IsAt(dest, source, table, s, i)
      PROVE  IdOf(source, table, s) = i
  <2> DEFINE like == Like(table, Resolved(source[s]))
  <2>1. i \in like /\ Rank(like, i) = Rank(Twins(source, s), s)
    BY <1>5, UnderDest DEF IsAt
  <2>2. IdOf(source, table, s) \in like
        /\ Rank(like, IdOf(source, table, s)) = Rank(Twins(source, s), s)
    BY <1>1, MatchedId
  <2>3. like \in SUBSET Nat /\ IsFiniteSet(like)
    BY LikeFinite
  <2> QED
    BY <2>1, <2>2, <2>3, RankDecides
<1> QED
  BY <1>3, <1>4, <1>5

RInv == CInv /\ MergedKnown /\ DestinationsFixed /\ MergedSettled

LEMMA KnownStep == RInv /\ [Next]_vars => MergedKnown'
<1> SUFFICES ASSUME RInv, [Next]_vars PROVE MergedKnown'
  OBVIOUS
<1>0. MergedKnown
  BY DEF RInv
<1>1. CASE Merge
  <2>1. merged' = merged \union {archive} /\ forgets' = forgets /\ pc = "merge"
    BY <1>1 DEF Merge
  <2>2. /\ IsTable(archive.orders) /\ IsTable(archive.invoices)
        /\ archive.rel \subseteq (DOMAIN archive.invoices) \X (DOMAIN archive.orders)
    BY <2>1, MergeReady DEF RInv
  <2>3. /\ DOMAIN archive.files \subseteq Paths
        /\ \A n \in DOMAIN archive.files : archive.files[n] \in Contents
    BY DEF RInv, CInv, IInv, FilesTyped
  <2> QED
    BY <1>0, <2>1, <2>2, <2>3 DEF MergedKnown
<1>2. ASSUME NEW o \in DOMAIN orders, Forget(o) PROVE MergedKnown'
  BY <1>0, <1>2 DEF Forget, MergedKnown
<1>3. CASE UNCHANGED <<merged, forgets>>
  BY <1>0, <1>3 DEF MergedKnown
<1>4. (\E o \in DOMAIN orders : Forget(o)) \/ Merge \/ UNCHANGED <<merged, forgets>>
  BY DEF Next, Step, vars, ledger, Start, Reject, RestoreFile, RestoreFileFails,
         MediaRestored, Throw, DeleteCreated, ReportFailure, Crash
<1> QED
  BY <1>1, <1>2, <1>3, <1>4

LEMMA FixedStep == RInv /\ [Next]_vars => DestinationsFixed'
<1> SUFFICES ASSUME RInv, [Next]_vars, pc' \in {"media", "merge"},
                    NEW m \in DOMAIN dest'
             PROVE  Destinations(media', m, archive'.files[m]) = {dest'[m]}
  BY DEF DestinationsFixed
<1>0. pc \in {"media", "merge"} =>
        \A n \in DOMAIN dest : Destinations(media, n, archive.files[n]) = {dest[n]}
  BY DEF RInv, DestinationsFixed
<1>1. ASSUME NEW n \in Paths, RestoreFile(n)
      PROVE  Destinations(media', m, archive'.files[m]) = {dest'[m]}
  <2>1. PICK d \in Destinations(media, n, archive.files[n]) :
          /\ media' = [media EXCEPT ![d] = archive.files[n]]
          /\ dest' = Extend(dest, n, d)
    BY <1>1 DEF RestoreFile
  <2>2. n \in DOMAIN archive.files /\ archive' = archive /\ pc = "media"
    BY <1>1 DEF RestoreFile
  <2>3. media \in Files /\ DOMAIN archive.files \subseteq Paths
        /\ \A k \in DOMAIN archive.files : archive.files[k] \in Contents
    BY DEF RInv, CInv, IInv, FilesTyped
  <2>4. d \in Paths /\ media[d] \in {Absent, archive.files[n]}
    BY <2>1, <2>2, <2>3, DestinationFreeOrSame
  <2>5. media'[d] = archive.files[n] /\ \A p \in Paths \ {d} : media'[p] = media[p]
    BY <2>1, <2>3, <2>4 DEF Files
  <2>6. \A p \in Paths : Exists(media, p) => media'[p] = media[p]
    BY <2>4, <2>5 DEF Exists
  <2>7. CASE m = n
    <3> DEFINE c == archive.files[n]
    <3>0. n \in Paths /\ c \in Contents /\ d \in Destinations(media, n, c) /\ media'[d] = c
      BY <2>1, <2>2, <2>3, <2>5
    <3> HIDE DEF c
    <3>1. Destinations(media', n, c) = {d}
      <4> HIDE AlternativesAssumption, IncrementalAssumption
      <4> QED
        BY <2>6, <3>0, DestinationSettles
    <3> QED
      BY <2>1, <2>2, <2>7, <3>1 DEF Extend, c
  <2>8. CASE m # n
    <3>1. m \in DOMAIN dest /\ dest'[m] = dest[m]
      BY <2>1, <2>8 DEF Extend
    <3>2. m \in DOMAIN archive.files /\ media[dest[m]] = archive.files[m]
      BY <2>2, <3>1 DEF RInv, CInv, PlacedInv, Placed
    <3>3. Destinations(media, m, archive.files[m]) = {dest[m]}
      BY <1>0, <2>2, <3>1
    <3>4. m \in Paths /\ archive.files[m] \in Contents /\ dest[m] \in Paths
      BY <2>3, <3>1, <3>2 DEF RInv, CInv, IInv, TypeOK
    <3>5. media'[dest[m]] = archive.files[m]
      BY <2>6, <3>2, <3>4 DEF Exists
    <3> DEFINE c == archive.files[m]
               e == dest[m]
    <3>6. m \in Paths /\ c \in Contents /\ e \in Destinations(media, m, c) /\ media'[e] = c
      BY <3>3, <3>4, <3>5
    <3> HIDE DEF c, e
    <3>7. Destinations(media', m, c) = {e}
      <4> HIDE AlternativesAssumption, IncrementalAssumption
      <4> QED
        BY <2>6, <3>6, DestinationSettles
    <3> QED
      BY <2>2, <3>1, <3>7 DEF c, e
  <2> QED
    BY <2>7, <2>8
<1>2. ASSUME NEW a \in Archives, Start(a)
      PROVE  Destinations(media', m, archive'.files[m]) = {dest'[m]}
  BY <1>2 DEF Start
<1>3. CASE MediaRestored \/ UNCHANGED vars \/ \E a \in Archives : Reject(a)
  BY <1>0, <1>3 DEF MediaRestored, vars, Reject
<1>4. (\E n \in Paths : RestoreFile(n)) \/ (\E a \in Archives : Start(a))
        \/ MediaRestored \/ UNCHANGED vars \/ \E a \in Archives : Reject(a)
  BY DEF Next, Step, RestoreFileFails, Merge, Throw, DeleteCreated, ReportFailure, Crash, Forget
<1> QED
  BY <1>1, <1>2, <1>3, <1>4

(* Whatever keeps the files a repeat would find, and the tables, settles. *)
LEMMA SettledKept ==
    ASSUME MergedSettled, MergedKnown,
           UNCHANGED <<orders, invoices, rel, merged, forgets>>,
           \A p \in Paths : Exists(Store, p) => Store'[p] = Store[p]
    PROVE  MergedSettled'
<1> SUFFICES ASSUME forgets = 0, NEW a \in merged
             PROVE  \E D \in [DOMAIN a.files -> Paths] :
                        /\ Pinned(D, a.files, Store')
                        /\ Arrived(D, a.orders, orders) /\ Arrived(D, a.invoices, invoices)
                        /\ Invoiced(D, a, orders, rel)
  BY DEF MergedSettled
<1>1. PICK D \in [DOMAIN a.files -> Paths] :
        /\ Pinned(D, a.files, Store)
        /\ Arrived(D, a.orders, orders) /\ Arrived(D, a.invoices, invoices)
        /\ Invoiced(D, a, orders, rel)
  BY DEF MergedSettled
<1>2. DOMAIN a.files \subseteq Paths /\ \A n \in DOMAIN a.files : a.files[n] \in Contents
  BY DEF MergedKnown
<1>3. Pinned(D, a.files, Store')
  BY <1>1, <1>2, PinnedKept
<1> QED
  BY <1>1, <1>3

(* The merge settles its archive and leaves the others settled. *)
LEMMA MergeSettles == RInv /\ Merge => MergedSettled'
<1> SUFFICES ASSUME RInv, Merge PROVE MergedSettled'
  OBVIOUS
<1>0. Store' = media /\ forgets' = forgets /\ merged' = merged \union {archive}
  BY DEF Merge, Store
<1> SUFFICES ASSUME forgets = 0, NEW a \in merged \union {archive}
             PROVE  \E D \in [DOMAIN a.files -> Paths] :
                        /\ Pinned(D, a.files, media)
                        /\ Arrived(D, a.orders, orders') /\ Arrived(D, a.invoices, invoices')
                        /\ Invoiced(D, a, orders', rel')
  BY <1>0 DEF MergedSettled
<1>1. /\ pc = "merge"
      /\ orders' = MergedTable(archive.orders, orders)
      /\ invoices' = MergedTable(archive.invoices, invoices)
      /\ rel' = rel \union NewRelations
  BY DEF Merge
<1>2. /\ IsTable(archive.orders) /\ IsTable(archive.invoices)
      /\ IsTable(orders) /\ IsTable(invoices)
      /\ archive.rel \subseteq (DOMAIN archive.invoices) \X (DOMAIN archive.orders)
  BY <1>1, MergeReady DEF RInv
<1>3. CASE a = archive
  <2>1. DOMAIN dest = DOMAIN archive.files /\ dest \in [DOMAIN archive.files -> Paths]
    BY <1>1 DEF RInv, CInv, IInv, ArchiveReady, TypeOK
  <2>2. Pinned(dest, archive.files, media)
    BY <1>1, <2>1 DEF RInv, CInv, PlacedInv, Placed, DestinationsFixed, Pinned
  <2>3. Arrived(dest, archive.orders, orders') /\ Arrived(dest, archive.invoices, invoices')
    BY <1>1, <1>2, MergeArrives
  <2>4. ASSUME NEW r \in archive.rel
        PROVE  \E i \in DOMAIN orders' :
                    IsAt(dest, archive.orders, orders', r[2], i) /\ InvoicesOf(rel', i) # {}
    <3> DEFINE i == IdOf(archive.orders, orders, r[2])
    <3>1. r[2] \in DOMAIN archive.orders
      BY <1>2
    <3>2. i \in DOMAIN orders' /\ IsAt(dest, archive.orders, orders', r[2], i)
      BY <1>1, <1>2, <3>1, MergeArrives, IdInMerged
    <3>3. Mapped(r) \in MappedRelations /\ Mapped(r)[2] = i
      BY DEF Mapped, MappedRelations
    <3>4. CASE InvoicesOf(rel, i) = {}
      <4>1. Mapped(r) \in rel'
        BY <1>1, <3>3, <3>4 DEF NewRelations
      <4>2. Mapped(r)[1] \in InvoicesOf(rel', i)
        BY <3>3, <4>1 DEF InvoicesOf
      <4> QED
        BY <3>2, <4>2
    <3>5. CASE InvoicesOf(rel, i) # {}
      <4>1. PICK q \in rel : q[2] = i
        BY <3>5 DEF InvoicesOf
      <4>2. q[1] \in InvoicesOf(rel', i)
        BY <1>1, <4>1 DEF InvoicesOf
      <4> QED
        BY <3>2, <4>2
    <3> QED
      BY <3>4, <3>5
  <2>5. Invoiced(dest, archive, orders', rel')
    BY <2>4 DEF Invoiced
  <2> QED
    BY <1>3, <2>1, <2>2, <2>3, <2>5
<1>4. CASE a \in merged
  <2>1. PICK D \in [DOMAIN a.files -> Paths] :
          /\ Pinned(D, a.files, Store)
          /\ Arrived(D, a.orders, orders) /\ Arrived(D, a.invoices, invoices)
          /\ Invoiced(D, a, orders, rel)
    BY <1>4 DEF RInv, MergedSettled
  <2>2. DOMAIN a.files \subseteq Paths /\ \A n \in DOMAIN a.files : a.files[n] \in Contents
    BY <1>4 DEF RInv, MergedKnown
  <2>3. \A p \in Paths : Exists(Store, p) => media[p] = Store[p]
    BY <1>1 DEF RInv, CInv, IInv, FilesKept, Store
  <2>4. Pinned(D, a.files, media)
    BY <2>1, <2>2, <2>3, PinnedKept
  <2>5. \A s, i : IsAt(D, a.orders, orders, s, i) => IsAt(D, a.orders, orders', s, i)
    BY <1>1, <1>2, IsAtKept
  <2>6. \A s, i : IsAt(D, a.invoices, invoices, s, i) => IsAt(D, a.invoices, invoices', s, i)
    BY <1>1, <1>2, IsAtKept
  <2>7. DOMAIN orders \subseteq DOMAIN orders' /\ DOMAIN invoices \subseteq DOMAIN invoices'
    BY <1>1, MergeKeepsRows
  <2>8. Arrived(D, a.orders, orders') /\ Arrived(D, a.invoices, invoices')
    BY <2>1, <2>5, <2>6, <2>7 DEF Arrived
  <2>9. \A i : InvoicesOf(rel, i) # {} => InvoicesOf(rel', i) # {}
    BY <1>1 DEF InvoicesOf
  <2>10. Invoiced(D, a, orders', rel')
    BY <2>1, <2>5, <2>7, <2>9 DEF Invoiced
  <2> QED
    BY <2>4, <2>8, <2>10
<1> QED
  BY <1>3, <1>4

LEMMA SettledStep == RInv /\ [Next]_vars => MergedSettled'
<1> SUFFICES ASSUME RInv, [Next]_vars PROVE MergedSettled'
  OBVIOUS
<1>0. MergedSettled /\ MergedKnown
  BY DEF RInv
<1>1. CASE Merge
  BY <1>1, MergeSettles
<1>2. ASSUME NEW o \in DOMAIN orders, Forget(o) PROVE MergedSettled'
  <2>1. forgets' # 0
    BY <1>0, <1>2 DEF Forget, MergedKnown
  <2> QED
    BY <2>1 DEF MergedSettled
<1>3. ASSUME UNCHANGED <<orders, invoices, rel, merged, forgets>>,
             \/ UNCHANGED <<Store, media>>
             \/ pc # "idle" /\ pc' = "idle" /\ base' = base
      PROVE  MergedSettled'
  <2>1. FilesKept'
    BY StepPreserves DEF RInv, CInv, IInv
  <2>2. \A p \in Paths : Exists(Store, p) => Store'[p] = Store[p]
    BY <1>3, <2>1 DEF FilesKept, Store
  <2> QED
    BY <1>0, <1>3, <2>2, SettledKept
<1>4. ASSUME NEW a \in Archives, Start(a) \/ Reject(a) PROVE MergedSettled'
  <2>1. UNCHANGED <<orders, invoices, rel, merged, forgets, media>> /\ pc = "idle"
        /\ base'.media = media
    BY <1>4 DEF Start, Reject, ledger, Snapshot
  <2>2. UNCHANGED Store
    BY <2>1 DEF Store
  <2> QED
    BY <1>3, <2>1, <2>2
<1>5. ASSUME UNCHANGED <<orders, invoices, rel, merged, forgets, base>>,
             pc # "idle", pc' # "idle"
      PROVE  MergedSettled'
  <2>1. UNCHANGED Store
    BY <1>5 DEF Store
  <2>2. \A p \in Paths : Exists(Store, p) => Store'[p] = Store[p]
    BY <2>1
  <2> QED
    BY <1>0, <1>5, <2>2, SettledKept
<1>6. ASSUME NEW n \in Paths, RestoreFile(n) \/ RestoreFileFails(n) \/ DeleteCreated(n)
      PROVE  MergedSettled'
  BY <1>5, <1>6 DEF RestoreFile, RestoreFileFails, DeleteCreated, ledger
<1>7. CASE MediaRestored \/ Throw
  BY <1>5, <1>7 DEF MediaRestored, Throw, ledger
<1>8. CASE ReportFailure \/ Crash
  BY <1>3, <1>8 DEF ReportFailure, Crash, ledger
<1>9. CASE UNCHANGED vars
  <2>1. UNCHANGED <<orders, invoices, rel, merged, forgets, Store, media>>
    BY <1>9 DEF vars, ledger, Store
  <2> QED
    BY <1>3, <2>1
<1> QED
  BY <1>1, <1>2, <1>4, <1>6, <1>7, <1>8, <1>9 DEF Next, Step

LEMMA RInit == Init => RInv
<1> SUFFICES ASSUME Init PROVE RInv
  OBVIOUS
<1>1. merged = {} /\ forgets = 0 /\ pc = "idle"
  BY DEF Init
<1>2. MergedKnown /\ DestinationsFixed /\ MergedSettled
  BY <1>1 DEF MergedKnown, DestinationsFixed, MergedSettled
<1> QED
  BY <1>2, CInit DEF RInv

LEMMA RStep == RInv /\ [Next]_vars => RInv'
BY CStep, KnownStep, FixedStep, SettledStep DEF RInv

(* With a settled archive there is nothing for the merge to insert. *)
LEMMA RepeatIsIdle == RInv => (Merge /\ archive \in merged /\ forgets = 0 => UNCHANGED ledger)
<1> SUFFICES ASSUME RInv, Merge, archive \in merged, forgets = 0 PROVE UNCHANGED ledger
  OBVIOUS
<1>1. /\ pc = "merge"
      /\ orders' = MergedTable(archive.orders, orders)
      /\ invoices' = MergedTable(archive.invoices, invoices)
      /\ rel' = rel \union NewRelations
  BY DEF Merge
<1>2. /\ IsTable(archive.orders) /\ IsTable(archive.invoices)
      /\ IsTable(orders) /\ IsTable(invoices)
      /\ archive.rel \subseteq (DOMAIN archive.invoices) \X (DOMAIN archive.orders)
  BY <1>1, MergeReady DEF RInv
<1>3. PICK D \in [DOMAIN archive.files -> Paths] :
        /\ Pinned(D, archive.files, Store)
        /\ Arrived(D, archive.orders, orders) /\ Arrived(D, archive.invoices, invoices)
        /\ Invoiced(D, archive, orders, rel)
  BY DEF RInv, MergedSettled
<1>4. DOMAIN archive.files \subseteq Paths
      /\ \A n \in DOMAIN archive.files : archive.files[n] \in Contents
  BY DEF RInv, MergedKnown
<1>5. \A p \in Paths : Exists(Store, p) => media[p] = Store[p]
  BY <1>1 DEF RInv, CInv, IInv, FilesKept, Store
<1>6. Pinned(D, archive.files, media)
  BY <1>3, <1>4, <1>5, PinnedKept
<1>7. DOMAIN dest = DOMAIN archive.files /\ dest \in [DOMAIN archive.files -> Paths]
  BY <1>1 DEF RInv, CInv, IInv, ArchiveReady, TypeOK
<1>8. \A n \in DOMAIN archive.files : dest[n] = D[n]
  BY <1>1, <1>6, <1>7 DEF RInv, DestinationsFixed, Pinned
<1>9. dest = D
  BY <1>3, <1>7, <1>8
<1>10. orders' = orders /\ invoices' = invoices
  BY <1>1, <1>2, <1>3, <1>9, NothingToInsert
<1>11. ASSUME NEW m \in NewRelations PROVE FALSE
  <2>1. PICK r \in archive.rel : m = Mapped(r)
    BY DEF NewRelations, MappedRelations, Mapped
  <2>2. PICK i : IsAt(dest, archive.orders, orders, r[2], i) /\ InvoicesOf(rel, i) # {}
    BY <1>3, <1>9 DEF Invoiced
  <2>3. r[2] \in DOMAIN archive.orders
    BY <1>2
  <2>4. IdOf(archive.orders, orders, r[2]) = i
    BY <1>2, <1>3, <1>9, <2>2, <2>3, NothingToInsert
  <2> QED
    BY <2>1, <2>2, <2>4 DEF NewRelations, Mapped
<1> QED
  BY <1>1, <1>10, <1>11 DEF ledger

(***************************************************************************)
(* Restoring a backup once more changes nothing in the database: whatever  *)
(* other backups were restored, failed or died in between, its attachments *)
(* are found under the names they got, and its rows in their tables.       *)
(***************************************************************************)
THEOREM RepeatIsNoChange == Spec => RepeatChangesNothing
<1>1. RInv /\ [Next]_vars => [Merge /\ archive \in merged /\ forgets = 0 => UNCHANGED ledger]_vars
  BY RepeatIsIdle
<1> QED
  BY <1>1, RInit, RStep, PTL DEF Spec, RepeatChangesNothing
================================================================================
