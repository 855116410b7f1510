----------------------------- MODULE MediaStore -----------------------------
(***************************************************************************)
(* The attachment directories images/ and pdfs/ under the application's    *)
(* documents directory, and the rule by which BackupService writes the     *)
(* files of an archive into them without ever overwriting a file           *)
(* (_restoreMediaIncrementally, _selectIncrementalMediaDestination).       *)
(*                                                                         *)
(* A path is a model value; it stands for one file name in one of the two  *)
(* directories.  A file's bytes are a model value of Contents.  A file     *)
(* whose writing was cut short (disk full, process killed) holds Torn,     *)
(* which equals no content an archive carries.                             *)
(***************************************************************************)
EXTENDS Naturals, Sequences

CONSTANTS
    Paths,          \* file names under images/ and pdfs/
    Contents,       \* what a completely written file may hold
    Empty,          \* the zero-length content
    Absent,         \* the path names no file
    Torn,           \* the file was created but not completely written
    Alternatives    \* the names tried, in order, for a file of an archive

ASSUME ContentsAssumption ==
    /\ Empty \in Contents
    /\ Absent \notin Contents
    /\ Torn \notin Contents
    /\ Absent # Torn

(***************************************************************************)
(* Alternatives[<<p, c>>] lists p itself, then p with the content token of  *)
(* c, then that name with the suffixes _1, _2, ...                         *)
(***************************************************************************)
ASSUME AlternativesAssumption == Alternatives \in [Paths \X Contents -> Seq(Paths)]

Files == [Paths -> Contents \union {Absent, Torn}]

Exists(media, p) == media[p] # Absent

(* exists() and length() > 0; a torn file may be long enough to pass. *)
NonEmpty(media, p) == media[p] \notin {Absent, Empty}

(* A name can be used for c when nothing is there or exactly c is there. *)
Usable(media, p, c) == media[p] \in {Absent, c}

(***************************************************************************)
(* The first usable name.  A set of at most one element: it is empty only  *)
(* when a finite instance runs out of suffixes, where the code loops on.   *)
(***************************************************************************)
Destinations(media, p, c) ==
    LET alt == Alternatives[<<p, c>>]
    IN  {alt[i] : i \in {k \in DOMAIN alt :
            /\ Usable(media, alt[k], c)
            /\ \A j \in 1..(k - 1) : ~Usable(media, alt[j], c)}}

(* f with x mapped to y, x being in its domain or not. *)
Extend(f, x, y) == [z \in DOMAIN f \union {x} |-> IF z = x THEN y ELSE f[z]]

(* What the attachments of a ledger show to the user: row -> bytes. *)
View(ledger, media) == [r \in DOMAIN ledger |-> media[ledger[r]]]
=============================================================================
