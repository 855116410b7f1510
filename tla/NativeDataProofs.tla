---------------------------- MODULE NativeDataProofs ----------------------------
(***************************************************************************)
(* For every line: it is repaired.  For every answer: the parsers find its *)
(* object, and what is escaped reads as it was.                            *)
(***************************************************************************)
EXTENDS NativeData, FiniteSetTheorems, WellFoundedInduction, SequenceTheorems, TLAPS

-------------------------------------------------------------------------------
(* The text of a line: its characters do not meet, so that a scan which    *)
(* goes on by a byte after a bad one finds the complete ones, all of them. *)

Text == Bytes \union {"space"}

LastOf(c) == c[1] + c[2] - 1

LEMMA CharLengths ==
    /\ \A b : CharLength(b) \in 0 .. 4
    /\ CharLength("continuation") = 0 /\ CharLength("space") = 1
BY DEF CharLength

LEMMA CharacterFacts ==
    ASSUME NEW s, Len(s) \in Nat, NEW c \in CharactersOf(s)
    PROVE  /\ c[1] \in 1 .. Len(s) /\ c[2] \in 1 .. 4 /\ c = <<c[1], c[2]>>
           /\ CharLength(s[c[1]]) = c[2]
           /\ LastOf(c) \in c[1] .. Len(s)
           /\ \A j \in c[1] + 1 .. LastOf(c) : s[j] = "continuation"
BY DEF CharactersOf, LastOf

LEMMA CharacterAt ==
    ASSUME NEW s, Len(s) \in Nat, NEW i \in 1 .. Len(s), CompleteAt(s, i)
    PROVE  <<i, CharLength(s[i])>> \in CharactersOf(s) /\ CharLength(s[i]) \in 1 .. 4
<1>1. CharLength(s[i]) \in 1 .. 4
  BY CharLengths DEF CompleteAt
<1> QED
  BY <1>1 DEF CompleteAt, CharactersOf

LEMMA CompleteThere ==
    ASSUME NEW s, Len(s) \in Nat, NEW c \in CharactersOf(s)
    PROVE  CompleteAt(s, c[1])
BY CharacterFacts DEF CompleteAt, LastOf

(* A character starts at no byte of another. *)
LEMMA CharactersApart ==
    ASSUME NEW s, Len(s) \in Nat, NEW c \in CharactersOf(s), NEW d \in CharactersOf(s),
           NEW k, k \in c[1] .. LastOf(c), k \in d[1] .. LastOf(d)
    PROVE  c = d
<1>1. /\ c[1] \in 1 .. Len(s) /\ c[2] \in 1 .. 4 /\ c = <<c[1], c[2]>> /\ CharLength(s[c[1]]) = c[2]
      /\ \A j \in c[1] + 1 .. LastOf(c) : s[j] = "continuation"
      /\ LastOf(c) \in Nat
  BY CharacterFacts
<1>2. /\ d[1] \in 1 .. Len(s) /\ d[2] \in 1 .. 4 /\ d = <<d[1], d[2]>> /\ CharLength(s[d[1]]) = d[2]
      /\ \A j \in d[1] + 1 .. LastOf(d) : s[j] = "continuation"
      /\ LastOf(d) \in Nat
  BY CharacterFacts
<1>3. c[1] = d[1]
  <2>1. ~(c[1] < d[1])
    <3>1. c[1] < d[1] => s[d[1]] = "continuation"
      BY <1>1, <1>2
    <3> QED
      BY <1>2, <3>1, CharLengths
  <2>2. ~(d[1] < c[1])
    <3>1. d[1] < c[1] => s[c[1]] = "continuation"
      BY <1>1, <1>2
    <3> QED
      BY <1>1, <3>1, CharLengths
  <2> QED
    BY <1>1, <1>2, <2>1, <2>2
<1> QED
  BY <1>1, <1>2, <1>3

(* What is at i and after it, repaired by the characters that start there. *)
LiesFrom(s, i, k) == \E c \in CharactersOf(s) : i <= c[1] /\ k \in c[1] .. LastOf(c)

RepairedFrom(s, i) ==
    [k \in 1 .. Len(s) - i + 1 |-> IF LiesFrom(s, i, i + k - 1) THEN s[i + k - 1] ELSE "space"]

LEMMA RepairedTyped ==
    ASSUME NEW s \in Seq(Text), NEW i \in 1 .. Len(s) + 1
    PROVE  /\ RepairedFrom(s, i) \in Seq(Text)
           /\ Len(RepairedFrom(s, i)) = Len(s) - i + 1
<1>1. Len(s) \in Nat /\ Len(s) - i + 1 \in Nat
  BY LenProperties
<1>2. \A k \in 1 .. Len(s) - i + 1 : s[i + k - 1] \in Text
  <2>1. \A k \in 1 .. Len(s) - i + 1 : i + k - 1 \in 1 .. Len(s)
    BY <1>1
  <2> QED
    BY <2>1, ElementOfSeq
<1>3. RepairedFrom(s, i) \in [1 .. Len(s) - i + 1 -> Text]
  BY <1>2 DEF RepairedFrom, Text
<1>4. RepairedFrom(s, i) \in Seq(Text)
  BY <1>1, <1>3, SeqDef
<1>5. DOMAIN RepairedFrom(s, i) = 1 .. Len(s) - i + 1
  BY DEF RepairedFrom
<1>6. Len(RepairedFrom(s, i)) = Len(s) - i + 1
  BY <1>1, <1>4, <1>5, LenProperties
<1> QED
  BY <1>4, <1>6

LEMMA RepairedEnds ==
    ASSUME NEW s \in Seq(Text)
    PROVE  RepairedFrom(s, Len(s) + 1) = <<>>
<1>1. Len(s) \in Nat
  BY LenProperties
<1>2. Len(s) + 1 \in 1 .. Len(s) + 1 /\ Len(s) - (Len(s) + 1) + 1 = 0
  BY <1>1
<1>3. RepairedFrom(s, Len(s) + 1) \in Seq(Text) /\ Len(RepairedFrom(s, Len(s) + 1)) = 0
  BY <1>2, RepairedTyped
<1> QED
  BY <1>3, EmptySeq

(* A character is kept whole, and the repair goes on behind it. *)
LEMMA RepairedKeeps ==
    ASSUME NEW s \in Seq(Text), NEW i \in 1 .. Len(s), CompleteAt(s, i), NEW n, n = CharLength(s[i])
    PROVE  /\ i + n \in 1 .. Len(s) + 1
           /\ RepairedFrom(s, i) = SubSeq(s, i, i + n - 1) \o RepairedFrom(s, i + n)
<1>1. Len(s) \in Nat
  BY LenProperties
<1> DEFINE here == <<i, n>>
<1>2. here \in CharactersOf(s) /\ n \in 1 .. 4
  BY <1>1, CharacterAt
<1>3. here[1] = i /\ LastOf(here) = i + n - 1
  BY DEF LastOf
<1>4. i + n - 1 \in i .. Len(s)
  BY <1>1, <1>2, <1>3, CharacterFacts
<1>5. i + n \in 1 .. Len(s) + 1
  BY <1>1, <1>2, <1>4
<1> DEFINE a == SubSeq(s, i, i + n - 1)
           b == RepairedFrom(s, i + n)
           all == RepairedFrom(s, i)
<1>6. a \in Seq(Text) /\ Len(a) = n /\ \A k \in 1 .. n : a[k] = s[i + k - 1]
  <2>1. \A j \in i .. i + n - 1 : s[j] \in Text
    BY <1>1, <1>4, ElementOfSeq
  <2>2. i \in Int /\ i + n - 1 \in Int /\ i <= i + n - 1 /\ (i + n - 1) - i + 1 = n
    <3>1. n \in 1 .. 4
      BY <1>2
    <3>2. i \in Int
      BY <1>1
    <3> QED
      BY <3>1, <3>2
  <2>3. /\ a \in Seq(Text)
        /\ Len(a) = (IF i <= i + n - 1 THEN (i + n - 1) - i + 1 ELSE 0)
        /\ \A k \in 1 .. (i + n - 1) - i + 1 : a[k] = s[i + k - 1]
    BY <2>1, <2>2, SubSeqProperties
  <2> QED
    BY <2>2, <2>3
<1>7. b \in Seq(Text) /\ Len(b) = Len(s) - (i + n) + 1
  BY <1>5, RepairedTyped
<1>8. all \in Seq(Text) /\ Len(all) = Len(s) - i + 1
  BY <1>1, RepairedTyped
<1>9. /\ a \o b \in Seq(Text)
      /\ Len(a \o b) = Len(a) + Len(b)
      /\ \A k \in 1 .. Len(a) + Len(b) : (a \o b)[k] = IF k <= Len(a) THEN a[k] ELSE b[k - Len(a)]
  BY <1>6, <1>7, ConcatProperties
<1>10. Len(a \o b) = Len(all) /\ Len(a) + Len(b) = Len(all)
  BY <1>1, <1>2, <1>6, <1>7, <1>8, <1>9
<1>11. ASSUME NEW k \in 1 .. Len(all)
       PROVE  all[k] = (a \o b)[k]
  <2>1. k \in 1 .. Len(s) - i + 1 /\ i + k - 1 \in 1 .. Len(s)
    BY <1>1, <1>8
  <2>2. all[k] = IF LiesFrom(s, i, i + k - 1) THEN s[i + k - 1] ELSE "space"
    BY <2>1 DEF RepairedFrom
  <2>3. CASE k <= n
    <3>1. i + k - 1 \in i .. LastOf(here)
      BY <1>1, <1>2, <1>3, <2>1, <2>3
    <3>2. LiesFrom(s, i, i + k - 1)
      BY <1>1, <1>2, <1>3, <3>1 DEF LiesFrom
    <3>3. k \in 1 .. n
      BY <1>2, <2>1, <2>3
    <3>4. (a \o b)[k] = a[k]
      BY <1>6, <1>9, <1>10, <2>3
    <3> QED
      BY <1>6, <2>2, <3>2, <3>3, <3>4
  <2>4. CASE ~(k <= n)
    <3>1. k - n \in 1 .. Len(s) - (i + n) + 1 /\ (i + n) + (k - n) - 1 = i + k - 1
      BY <1>1, <1>2, <2>1, <2>4
    <3>2. b[k - n] = IF LiesFrom(s, i + n, i + k - 1) THEN s[i + k - 1] ELSE "space"
      BY <3>1 DEF RepairedFrom
    <3>3. (a \o b)[k] = b[k - n]
      BY <1>6, <1>9, <1>10, <2>4
    <3>4. LiesFrom(s, i, i + k - 1) => LiesFrom(s, i + n, i + k - 1)
      <4>1. SUFFICES ASSUME NEW c \in CharactersOf(s), i <= c[1], i + k - 1 \in c[1] .. LastOf(c)
                     PROVE  i + n <= c[1]
        BY DEF LiesFrom
      <4>2. c[1] \in 1 .. Len(s) /\ LastOf(c) \in c[1] .. Len(s)
        BY <1>1, CharacterFacts
      <4>3. ASSUME c[1] <= i + n - 1
            PROVE  FALSE
        <5>1. c[1] \in here[1] .. LastOf(here) /\ c[1] \in c[1] .. LastOf(c)
          BY <1>1, <1>2, <1>3, <4>1, <4>2, <4>3
        <5>2. c = here
          BY <1>1, <1>2, <5>1, CharactersApart
        <5> QED
          BY <1>1, <1>2, <1>3, <2>1, <2>4, <4>1, <5>2
      <4> QED
        BY <1>1, <1>2, <4>2, <4>3
    <3>5. LiesFrom(s, i + n, i + k - 1) => LiesFrom(s, i, i + k - 1)
      <4>1. \A c \in CharactersOf(s) : i + n <= c[1] => i <= c[1]
        BY <1>1, <1>2, CharacterFacts
      <4> QED
        BY <4>1 DEF LiesFrom
    <3> QED
      BY <2>2, <3>2, <3>3, <3>4, <3>5
  <2> QED
    BY <2>3, <2>4
<1>12. all = a \o b
  <2> HIDE DEF a, b, all
  <2> QED
    BY <1>8, <1>9, <1>10, <1>11, SeqEqual
<1> QED
  BY <1>5, <1>12

(* A byte that starts no complete character is blanked, it alone. *)
LEMMA RepairedBlanks ==
    ASSUME NEW s \in Seq(Text), NEW i \in 1 .. Len(s), ~CompleteAt(s, i)
    PROVE  RepairedFrom(s, i) = <<"space">> \o RepairedFrom(s, i + 1)
<1>1. Len(s) \in Nat /\ i + 1 \in 1 .. Len(s) + 1
  BY LenProperties
<1>2. \A c \in CharactersOf(s) : i <= c[1] => i + 1 <= c[1]
  <2>1. \A c \in CharactersOf(s) : c[1] # i /\ c[1] \in 1 .. Len(s)
    BY <1>1, CompleteThere, CharacterFacts
  <2> QED
    BY <1>1, <2>1
<1> DEFINE a == <<"space">>
           b == RepairedFrom(s, i + 1)
           all == RepairedFrom(s, i)
<1>3. a \in Seq(Text) /\ Len(a) = 1 /\ a[1] = "space"
  BY DEF Text
<1>4. b \in Seq(Text) /\ Len(b) = Len(s) - (i + 1) + 1
  BY <1>1, RepairedTyped
<1>5. all \in Seq(Text) /\ Len(all) = Len(s) - i + 1
  BY <1>1, RepairedTyped
<1>6. /\ a \o b \in Seq(Text)
      /\ Len(a \o b) = Len(a) + Len(b)
      /\ \A k \in 1 .. Len(a) + Len(b) : (a \o b)[k] = IF k <= Len(a) THEN a[k] ELSE b[k - Len(a)]
  <2> HIDE DEF a, b
  <2> QED
    BY <1>3, <1>4, ConcatProperties
<1>7. Len(a \o b) = Len(all) /\ Len(a) + Len(b) = Len(all)
  <2> HIDE DEF a, b, all
  <2> QED
    BY <1>1, <1>3, <1>4, <1>5, <1>6
<1>8. ASSUME NEW k \in 1 .. Len(all)
      PROVE  all[k] = (a \o b)[k]
  <2>1. k \in 1 .. Len(s) - i + 1 /\ i + k - 1 \in 1 .. Len(s)
    BY <1>1, <1>5
  <2>2. all[k] = IF LiesFrom(s, i, i + k - 1) THEN s[i + k - 1] ELSE "space"
    BY <2>1 DEF RepairedFrom
  <2>3. CASE k = 1
    <3>1. ~LiesFrom(s, i, i + k - 1)
      <4>1. \A c \in CharactersOf(s) : i <= c[1] => ~(i + k - 1 \in c[1] .. LastOf(c))
        BY <1>1, <1>2, <2>3, CharacterFacts
      <4> QED
        BY <4>1 DEF LiesFrom
    <3>2. (a \o b)[k] = "space"
      <4> HIDE DEF a, b, all
      <4> QED
        BY <1>3, <1>6, <1>7, <2>3
    <3> QED
      BY <2>2, <3>1, <3>2
  <2>4. CASE k # 1
    <3>1. k - 1 \in 1 .. Len(s) - (i + 1) + 1 /\ (i + 1) + (k - 1) - 1 = i + k - 1
      BY <1>1, <2>1, <2>4
    <3>2. b[k - 1] = IF LiesFrom(s, i + 1, i + k - 1) THEN s[i + k - 1] ELSE "space"
      BY <3>1 DEF RepairedFrom
    <3>3. (a \o b)[k] = b[k - 1]
      <4> HIDE DEF a, b, all
      <4> QED
        BY <1>3, <1>6, <1>7, <2>4
    <3>4. LiesFrom(s, i, i + k - 1) <=> LiesFrom(s, i + 1, i + k - 1)
      <4>1. \A c \in CharactersOf(s) : i <= c[1] <=> i + 1 <= c[1]
        BY <1>1, <1>2, CharacterFacts
      <4> QED
        BY <4>1 DEF LiesFrom
    <3> QED
      BY <2>2, <3>2, <3>3, <3>4
  <2> QED
    BY <2>3, <2>4
<1>9. all = a \o b
  <2> HIDE DEF a, b, all
  <2> QED
    BY <1>5, <1>6, <1>7, <1>8, SeqEqual
<1> QED
  BY <1>9

-------------------------------------------------------------------------------
(* Induction on positions, as a fact about sets. *)

LEMMA UpTo ==
    ASSUME NEW n \in Nat, NEW S, 0 \in S, \A i \in 0 .. n - 1 : i \in S => i + 1 \in S
    PROVE  0 .. n \subseteq S
<1> DEFINE Missing == (0 .. n) \ S
           Below == {0 .. i : i \in Missing}
           R == StrictSubsetOrdering(0 .. n)
<1> SUFFICES ASSUME Missing # {} PROVE FALSE
  OBVIOUS
<1>1. IsFiniteSet(0 .. n)
  <2>1. 0 \in Int /\ n \in Int
    OBVIOUS
  <2> QED
    BY <2>1, FS_Interval
<1>2. IsWellFoundedOn(R, SUBSET (0 .. n))
  BY <1>1, FS_StrictSubsetOrderingWellFounded, FS_FiniteSubsetsOfFinite
<1>3. Below \subseteq SUBSET (0 .. n) /\ Below # {}
  OBVIOUS
<1>4. PICK X \in Below : \A Y \in Below : ~(<<Y, X>> \in R)
  <2> HIDE DEF Below, R
  <2> QED
    BY <1>2, <1>3, WFMin
<1>5. PICK i \in Missing : X = 0 .. i
  OBVIOUS
<1>6. i # 0 /\ i - 1 \in 0 .. n - 1 /\ (i - 1) + 1 = i
  OBVIOUS
<1>7. i - 1 \in Missing
  BY <1>6
<1>8. <<0 .. i - 1, X>> \in R
  <2>1. 0 .. i - 1 \subseteq 0 .. i /\ i \in 0 .. i /\ i \notin 0 .. i - 1
    BY <1>6
  <2>2. 0 .. i - 1 \in SUBSET (0 .. n) /\ 0 .. i \in SUBSET (0 .. n)
    BY <1>6
  <2> QED
    BY <1>5, <2>1, <2>2 DEF StrictSubsetOrdering
<1> QED
  BY <1>4, <1>7, <1>8

-------------------------------------------------------------------------------
(* The scan of sanitizeUtf8 and the repair by characters are the same.     *)

LEMMA ScanIsRepair ==
    ASSUME NEW s \in Seq(Text)
    PROVE  SanitizeUtf8(s) = RepairedFrom(s, 1)
<1> DEFINE n == Len(s)
           Rest(f, i) ==
              IF i > Len(s) THEN <<>>
              ELSE IF CompleteAt(s, i)
              THEN LET m == CharLength(s[i]) IN SubSeq(s, i, i + m - 1) \o f[i + m]
              ELSE <<"space">> \o f[i + 1]
           scan == Sanitized(s)
           g == [i \in Nat \ {0} |-> IF i > Len(s) THEN <<>> ELSE RepairedFrom(s, i)]
<1>1. SanitizeUtf8(s) = scan[1]
  BY DEF SanitizeUtf8
<1>2. n \in Nat
  BY LenProperties
<1>3. \A i \in 1 .. n + 1 : g[i] = RepairedFrom(s, i)
  BY <1>2, RepairedEnds
<1>4. ASSUME NEW i \in 1 .. n, CompleteAt(s, i)
      PROVE  /\ i + CharLength(s[i]) \in i + 1 .. n + 1
             /\ g[i] = SubSeq(s, i, i + CharLength(s[i]) - 1) \o g[i + CharLength(s[i])]
  <2>1. CharLength(s[i]) \in 1 .. 4
    BY <1>2, <1>4, CharacterAt
  <2>2. /\ i + CharLength(s[i]) \in 1 .. n + 1
        /\ RepairedFrom(s, i) = SubSeq(s, i, i + CharLength(s[i]) - 1) \o RepairedFrom(s, i + CharLength(s[i]))
    BY <1>4, RepairedKeeps
  <2>3. i + CharLength(s[i]) \in i + 1 .. n + 1 /\ i \in 1 .. n + 1
    BY <1>2, <2>1, <2>2
  <2> HIDE DEF g
  <2> QED
    BY <1>3, <2>2, <2>3
<1>5. ASSUME NEW i \in 1 .. n, ~CompleteAt(s, i)
      PROVE  g[i] = <<"space">> \o g[i + 1]
  <2>1. i \in 1 .. n + 1 /\ i + 1 \in 1 .. n + 1
    BY <1>2
  <2> HIDE DEF g
  <2> QED
    BY <1>3, <1>5, <2>1, RepairedBlanks
<1>6. \A i \in Nat \ {0} : g[i] = Rest(g, i)
  <2>1. ASSUME NEW i \in Nat \ {0}, i > n
        PROVE  g[i] = Rest(g, i)
    BY <2>1
  <2>2. ASSUME NEW i \in Nat \ {0}, ~(i > n)
        PROVE  g[i] = Rest(g, i)
    <3>1. i \in 1 .. n
      BY <1>2, <2>2
    <3> HIDE DEF g
    <3> QED
      BY <1>4, <1>5, <2>2, <3>1
  <2> HIDE DEF g, Rest
  <2> QED
    BY <2>1, <2>2
<1>7. g = [i \in Nat \ {0} |-> Rest(g, i)]
  <2>1. g = [i \in Nat \ {0} |-> g[i]]
    OBVIOUS
  <2> HIDE DEF g, Rest
  <2> QED
    BY <1>6, <2>1
<1>8. scan = [i \in Nat \ {0} |-> Rest(scan, i)]
  <2> SUFFICES \E f : f = [i \in Nat \ {0} |-> Rest(f, i)]
    BY Zenon DEF Sanitized
  <2> QED
    BY <1>7
<1>9. \A i \in Nat \ {0} : scan[i] = Rest(scan, i)
  <2> HIDE DEF scan, Rest
  <2> QED
    BY <1>8
<1> DEFINE Same == {j \in 0 .. n : \A k \in 0 .. j : scan[n + 1 - k] = g[n + 1 - k]}
<1>10. 0 \in Same
  <2>1. n + 1 \in Nat \ {0} /\ n + 1 > n
    BY <1>2
  <2>2. Rest(scan, n + 1) = <<>> /\ Rest(g, n + 1) = <<>>
    BY <2>1
  <2>3. scan[n + 1] = g[n + 1]
    <3> HIDE DEF scan, g, Rest
    <3> QED
      BY <1>6, <1>9, <2>1, <2>2
  <2> HIDE DEF scan, g
  <2> QED
    BY <1>2, <2>3
<1>11. ASSUME NEW j \in 0 .. n - 1, j \in Same
       PROVE  j + 1 \in Same
  <2> DEFINE i == n + 1 - (j + 1)
  <2>1. i \in 1 .. n /\ i \in Nat \ {0} /\ ~(i > n)
    BY <1>2
  <2>2. \A k \in i + 1 .. n + 1 : scan[k] = g[k]
    <3>1. \A k \in i + 1 .. n + 1 : n + 1 - k \in 0 .. j /\ n + 1 - (n + 1 - k) = k
      BY <1>2
    <3>2. \A k \in 0 .. j : scan[n + 1 - k] = g[n + 1 - k]
      <4> HIDE DEF scan, g
      <4> QED
        BY <1>11
    <3> HIDE DEF scan, g, i
    <3> QED
      BY <3>1, <3>2
  <2>3. Rest(scan, i) = Rest(g, i)
    <3>1. CASE CompleteAt(s, i)
      <4>1. i + CharLength(s[i]) \in i + 1 .. n + 1
        BY <1>4, <2>1, <3>1
      <4> HIDE DEF scan, g, i
      <4> QED
        BY <2>1, <2>2, <3>1, <4>1
    <3>2. CASE ~CompleteAt(s, i)
      <4>1. i + 1 \in i + 1 .. n + 1
        BY <1>2, <2>1
      <4> HIDE DEF scan, g, i
      <4> QED
        BY <2>1, <2>2, <3>2, <4>1
    <3> QED
      BY <3>1, <3>2
  <2>4. scan[i] = g[i]
    <3> HIDE DEF scan, g, i, Rest
    <3> QED
      BY <1>6, <1>9, <2>1, <2>3
  <2>5. \A k \in 0 .. j + 1 : k \in 0 .. j \/ k = j + 1
    OBVIOUS
  <2>6. j + 1 \in 0 .. n
    BY <1>2
  <2> HIDE DEF scan, g
  <2> QED
    BY <1>11, <2>4, <2>5, <2>6
<1>12. n \in Same
  <2>1. 0 .. n \subseteq Same
    <3> HIDE DEF Same, n
    <3> QED
      BY <1>2, <1>10, <1>11, UpTo
  <2> QED
    BY <1>2, <2>1
<1>13. scan[1] = g[1]
  <2>1. n \in 0 .. n /\ n + 1 - n = 1
    BY <1>2
  <2> HIDE DEF scan, g, n
  <2> QED
    BY <1>12, <2>1
<1>14. 1 \in 1 .. n + 1
  BY <1>2
<1>15. g[1] = RepairedFrom(s, 1)
  <2> HIDE DEF g, n
  <2> QED
    BY <1>3, <1>14
<1> HIDE DEF scan, g
<1> QED
  BY <1>1, <1>13, <1>15

LEMMA RepairedIsRepair ==
    ASSUME NEW s \in Seq(Text)
    PROVE  SanitizeUtf8(s) = Repaired(s)
<1>1. Len(s) \in Nat
  BY LenProperties
<1>2. \A k \in 1 .. Len(s) : LiesFrom(s, 1, 1 + k - 1) <=> InCharacter(s, k)
  <2>1. \A c \in CharactersOf(s) : 1 <= c[1]
    BY <1>1, CharacterFacts
  <2>2. \A k \in 1 .. Len(s) : 1 + k - 1 = k
    BY <1>1
  <2> QED
    BY <2>1, <2>2 DEF LiesFrom, InCharacter, LastOf
<1>3. Len(s) - 1 + 1 = Len(s) /\ \A k \in 1 .. Len(s) : 1 + k - 1 = k
  BY <1>1
<1>4. RepairedFrom(s, 1) = Repaired(s)
  BY <1>2, <1>3 DEF RepairedFrom, Repaired
<1> QED
  BY <1>4, ScanIsRepair

(* The blanks of a repair are characters, and what it keeps still is one. *)
LEMMA RepairIsWellFormed ==
    ASSUME NEW s \in Seq(Text)
    PROVE  WellFormed(Repaired(s))
<1> DEFINE r == Repaired(s)
<1>1. Len(s) \in Nat /\ r = RepairedFrom(s, 1) /\ 1 \in 1 .. Len(s) + 1
  BY LenProperties, RepairedIsRepair, ScanIsRepair
<1>2. Len(r) = Len(s)
  BY <1>1, RepairedTyped
<1>3. \A k \in 1 .. Len(s) : r[k] = IF InCharacter(s, k) THEN s[k] ELSE "space"
  BY DEF Repaired
<1> HIDE DEF r
<1> SUFFICES ASSUME NEW k \in 1 .. Len(s) PROVE InCharacter(r, k)
  BY <1>2 DEF WellFormed, r
<1>4. CASE InCharacter(s, k)
  <2>1. PICK c \in CharactersOf(s) : k \in c[1] .. LastOf(c)
    BY <1>4 DEF InCharacter, LastOf
  <2>2. /\ c[1] \in 1 .. Len(s) /\ c[2] \in 1 .. 4 /\ c = <<c[1], c[2]>>
        /\ CharLength(s[c[1]]) = c[2]
        /\ LastOf(c) \in c[1] .. Len(s)
        /\ \A j \in c[1] + 1 .. LastOf(c) : s[j] = "continuation"
    BY <1>1, CharacterFacts
  <2>3. \A j \in c[1] .. LastOf(c) : j \in 1 .. Len(s) /\ InCharacter(s, j)
    BY <1>1, <2>2 DEF InCharacter, LastOf
  <2>4. \A j \in c[1] .. LastOf(c) : r[j] = s[j]
    BY <1>3, <2>3
  <2>5. c[1] \in c[1] .. LastOf(c) /\ c[1] + 1 .. LastOf(c) \subseteq c[1] .. LastOf(c)
    BY <1>1, <2>2
  <2>6. CharLength(r[c[1]]) = c[2]
    BY <2>2, <2>4, <2>5
  <2>7. \A j \in c[1] + 1 .. LastOf(c) : r[j] = "continuation"
    BY <2>2, <2>4, <2>5
  <2>8. LastOf(c) <= Len(s)
    BY <1>1, <2>2
  <2>9. c \in CharactersOf(r)
    <3>1. c \in (1 .. Len(r)) \X (1 .. 4)
      BY <1>2, <2>2
    <3> QED
      BY <1>2, <2>6, <2>7, <2>8, <3>1 DEF CharactersOf, LastOf
  <2> QED
    BY <2>1, <2>9 DEF InCharacter, LastOf
<1>5. CASE ~InCharacter(s, k)
  <2>1. r[k] = "space"
    BY <1>3, <1>5
  <2>2. <<k, 1>> \in CharactersOf(r)
    BY <1>1, <1>2, <2>1, CharLengths DEF CharactersOf
  <2>3. k \in <<k, 1>>[1] .. <<k, 1>>[1] + <<k, 1>>[2] - 1
    BY <1>1
  <2> QED
    BY <2>2, <2>3 DEF InCharacter
<1> QED
  BY <1>4, <1>5

-------------------------------------------------------------------------------
(* What a buffer cuts off costs the one character that it splits.          *)

LEMMA CutTyped ==
    ASSUME NEW s \in Seq(Text), NEW n \in 0 .. Len(s)
    PROVE  /\ Cut(s, n) \in Seq(Text) /\ Len(Cut(s, n)) = n
           /\ \A k \in 1 .. n : Cut(s, n)[k] = s[k]
<1>1. Len(s) \in Nat
  BY LenProperties
<1>2. CASE n < Len(s)
  <2>1. \A i \in 1 .. n : s[i] \in Text
    BY <1>1, ElementOfSeq
  <2>2. 1 \in Int /\ n \in Int
    BY <1>1
  <2>3. /\ SubSeq(s, 1, n) \in Seq(Text)
        /\ Len(SubSeq(s, 1, n)) = (IF 1 <= n THEN n - 1 + 1 ELSE 0)
        /\ \A i \in 1 .. n - 1 + 1 : SubSeq(s, 1, n)[i] = s[1 + i - 1]
    BY <2>1, <2>2, SubSeqProperties
  <2>4. n - 1 + 1 = n /\ (~(1 <= n) => n = 0) /\ \A i \in 1 .. n : 1 + i - 1 = i
    BY <1>1
  <2>5. Cut(s, n) = SubSeq(s, 1, n)
    BY <1>2 DEF Cut
  <2> QED
    BY <2>3, <2>4, <2>5
<1>3. CASE ~(n < Len(s))
  <2>1. n = Len(s) /\ Cut(s, n) = s
    BY <1>1, <1>3 DEF Cut
  <2> QED
    BY <2>1
<1> QED
  BY <1>2, <1>3

LEMMA CutCharacters ==
    ASSUME NEW s \in Seq(Text), NEW n \in 0 .. Len(s)
    PROVE  CharactersOf(Cut(s, n)) = {c \in CharactersOf(s) : LastOf(c) <= n}
<1> DEFINE t == Cut(s, n)
<1>1. Len(s) \in Nat
  BY LenProperties
<1>2. Len(t) = n /\ \A k \in 1 .. n : t[k] = s[k]
  BY CutTyped
<1> HIDE DEF t
<1>3. ASSUME NEW c \in CharactersOf(t)
      PROVE  c \in CharactersOf(s) /\ LastOf(c) <= n
  <2>1. /\ c[1] \in 1 .. n /\ c[2] \in 1 .. 4 /\ c = <<c[1], c[2]>>
        /\ CharLength(t[c[1]]) = c[2]
        /\ LastOf(c) \in c[1] .. n
        /\ \A j \in c[1] + 1 .. LastOf(c) : t[j] = "continuation"
    BY <1>1, <1>2, CharacterFacts
  <2>2. c[1] \in 1 .. Len(s) /\ LastOf(c) <= Len(s) /\ c[1] + 1 .. LastOf(c) \subseteq 1 .. n
    BY <1>1, <2>1
  <2>3. CharLength(s[c[1]]) = c[2] /\ \A j \in c[1] + 1 .. LastOf(c) : s[j] = "continuation"
    BY <1>2, <2>1, <2>2
  <2>4. c \in (1 .. Len(s)) \X (1 .. 4)
    BY <2>1, <2>2
  <2> QED
    BY <1>1, <2>1, <2>2, <2>3, <2>4 DEF CharactersOf, LastOf
<1>4. ASSUME NEW c \in CharactersOf(s), LastOf(c) <= n
      PROVE  c \in CharactersOf(t)
  <2>1. /\ c[1] \in 1 .. Len(s) /\ c[2] \in 1 .. 4 /\ c = <<c[1], c[2]>>
        /\ CharLength(s[c[1]]) = c[2]
        /\ LastOf(c) \in c[1] .. Len(s)
        /\ \A j \in c[1] + 1 .. LastOf(c) : s[j] = "continuation"
    BY <1>1, CharacterFacts
  <2>2. c[1] \in 1 .. n /\ c[1] + 1 .. LastOf(c) \subseteq 1 .. n
    BY <1>1, <1>4, <2>1
  <2>3. CharLength(t[c[1]]) = c[2] /\ \A j \in c[1] + 1 .. LastOf(c) : t[j] = "continuation"
    BY <1>2, <2>1, <2>2
  <2>4. c \in (1 .. Len(t)) \X (1 .. 4)
    BY <1>2, <2>1, <2>2
  <2> QED
    BY <1>2, <1>4, <2>3, <2>4 DEF CharactersOf, LastOf
<1> QED
  BY <1>3, <1>4 DEF t

(* The bytes of the characters that end before the cut. *)
Whole(s, n) == {i \in 1 .. n : \E c \in CharactersOf(s) : i \in c[1] .. LastOf(c) /\ LastOf(c) <= n}

LEMMA CutRepaired ==
    ASSUME NEW s \in Seq(Text), WellFormed(s), NEW n \in 0 .. Len(s)
    PROVE  /\ Cardinality((1 .. n) \ Whole(s, n)) <= 3
           /\ SanitizeUtf8(Cut(s, n)) = [i \in 1 .. n |-> IF i \in Whole(s, n) THEN s[i] ELSE "space"]
<1> DEFINE whole == Whole(s, n)
<1>0. whole = {i \in 1 .. n : \E c \in CharactersOf(s) : i \in c[1] .. LastOf(c) /\ LastOf(c) <= n}
  BY DEF Whole
<1> HIDE DEF whole
<1>1. Len(s) \in Nat /\ n \in Nat
  BY LenProperties
<1> DEFINE t == Cut(s, n)
           split == (1 .. n) \ whole
<1>2. t \in Seq(Text) /\ Len(t) = n /\ \A k \in 1 .. n : t[k] = s[k]
  BY CutTyped
<1>3. \A k \in 1 .. n : InCharacter(t, k) <=> k \in whole
  BY <1>0, CutCharacters DEF InCharacter, LastOf
<1>4. SanitizeUtf8(t) = [i \in 1 .. n |-> IF i \in whole THEN s[i] ELSE "space"]
  <2>1. SanitizeUtf8(t) = Repaired(t)
    BY <1>2, RepairedIsRepair
  <2> HIDE DEF t
  <2> QED
    BY <1>2, <1>3, <2>1 DEF Repaired
<1>5. ASSUME NEW k \in split
      PROVE  \E c \in CharactersOf(s) : k \in c[1] .. LastOf(c) /\ n < LastOf(c)
  <2>1. k \in 1 .. Len(s)
    BY <1>1
  <2>2. PICK c \in CharactersOf(s) : k \in c[1] .. LastOf(c)
    BY <2>1 DEF WellFormed, InCharacter, LastOf
  <2>3. ~(LastOf(c) <= n)
    BY <1>0, <2>2
  <2>4. LastOf(c) \in Int
    BY <1>1, CharacterFacts
  <2> QED
    BY <1>1, <2>2, <2>3, <2>4
<1>6. Cardinality(split) <= 3
  <2>1. CASE split = {}
    <3>1. Cardinality(split) = 0
      BY <2>1, FS_EmptySet, Zenon
    <3> HIDE DEF split
    <3> QED
      BY <3>1
  <2>2. CASE split # {}
    <3>1. PICK i \in split : TRUE
      BY <2>2
    <3>2. PICK c \in CharactersOf(s) : i \in c[1] .. LastOf(c) /\ n < LastOf(c)
      BY <1>5
    <3>3. c[1] \in 1 .. Len(s) /\ c[2] \in 1 .. 4 /\ LastOf(c) \in Int
      BY <1>1, CharacterFacts
    <3>4. n \in c[1] .. LastOf(c)
      BY <1>1, <3>2, <3>3
    <3>5. split \subseteq c[1] .. n
      <4>1. SUFFICES ASSUME NEW k \in split PROVE c[1] <= k
        BY <1>1, <3>3
      <4>2. PICK d \in CharactersOf(s) : k \in d[1] .. LastOf(d) /\ n < LastOf(d)
        BY <1>5
      <4>3. d[1] \in 1 .. Len(s) /\ LastOf(d) \in Int
        BY <1>1, CharacterFacts
      <4>4. n \in d[1] .. LastOf(d)
        BY <1>1, <4>2, <4>3
      <4>5. c = d
        BY <1>1, <3>4, <4>4, CharactersApart
      <4> QED
        BY <1>1, <3>3, <4>2, <4>3, <4>5
    <3>6. c[1] \in Int /\ n \in Int
      BY <1>1, <3>3
    <3>7. IsFiniteSet(c[1] .. n) /\ Cardinality(c[1] .. n) = IF c[1] > n THEN 0 ELSE n - c[1] + 1
      BY <3>6, FS_Interval
    <3>8. Cardinality(c[1] .. n) <= 3
      <4>1. LastOf(c) = c[1] + c[2] - 1
        BY DEF LastOf
      <4> QED
        BY <1>1, <3>2, <3>3, <3>4, <3>7, <4>1
    <3>9. Cardinality(split) <= Cardinality(c[1] .. n) /\ IsFiniteSet(split)
      <4> HIDE DEF split
      <4> QED
        BY <3>5, <3>7, FS_Subset
    <3>10. Cardinality(split) \in Nat /\ Cardinality(c[1] .. n) \in Nat
      BY <3>7, <3>9, FS_CardinalityType
    <3> HIDE DEF split
    <3> QED
      BY <3>8, <3>9, <3>10
  <2> QED
    BY <2>1, <2>2
<1> QED
  BY <1>4, <1>6 DEF whole

LineTyped == line \in Seq(Bytes)

LEMMA LineRepaired ==
    ASSUME LineTyped
    PROVE  SanitizedIsRepaired
<1>1. line \in Seq(Text)
  BY SeqMonotonic DEF Text, LineTyped
<1>2. SanitizeUtf8(line) = Repaired(line) /\ WellFormed(SanitizeUtf8(line))
  BY <1>1, RepairedIsRepair, RepairIsWellFormed
<1>3. ASSUME WellFormed(line), NEW n \in 0 .. Len(line)
      PROVE  LET whole == {i \in 1 .. n : \E c \in CharactersOf(line) :
                              i \in c[1] .. c[1] + c[2] - 1 /\ c[1] + c[2] - 1 <= n}
             IN  /\ Cardinality(1 .. n \ whole) <= 3
                 /\ SanitizeUtf8(Cut(line, n))
                       = [i \in 1 .. n |-> IF i \in whole THEN line[i] ELSE "space"]
  <2>1. Whole(line, n) = {i \in 1 .. n : \E c \in CharactersOf(line) :
                            i \in c[1] .. c[1] + c[2] - 1 /\ c[1] + c[2] - 1 <= n}
    BY DEF Whole, LastOf
  <2>2. /\ Cardinality((1 .. n) \ Whole(line, n)) <= 3
        /\ SanitizeUtf8(Cut(line, n)) = [i \in 1 .. n |-> IF i \in Whole(line, n) THEN line[i] ELSE "space"]
    BY <1>1, <1>3, CutRepaired
  <2> QED
    BY <2>1, <2>2
<1> QED
  BY <1>2, <1>3 DEF SanitizedIsRepaired, CutIsRepaired

(***************************************************************************)
(* For lines of any length and any bytes: sanitizeUtf8 (mnn-jni.cpp) keeps *)
(* the complete characters and blanks the other bytes; its result is well  *)
(* formed, and a cut costs the one character that it splits.               *)
(***************************************************************************)
THEOREM LinesAreRepaired == Spec => []SanitizedIsRepaired
<1>1. Init => LineTyped
  BY EmptySeq DEF Init, LineTyped
<1>2. LineTyped /\ [Next]_vars => LineTyped'
  <2> SUFFICES ASSUME line \in Seq(Bytes), [Next]_vars PROVE line' \in Seq(Bytes)
    BY DEF LineTyped
  <2>1. CASE WriteByte
    BY <2>1, AppendProperties DEF WriteByte
  <2>2. CASE WriteToken \/ CreateTensor \/ SetDimension \/ UNCHANGED vars
    BY <2>2 DEF WriteToken, CreateTensor, SetDimension, vars
  <2> QED
    BY <2>1, <2>2 DEF Next
<1>3. LineTyped => SanitizedIsRepaired
  BY LineRepaired
<1> QED
  BY <1>1, <1>2, <1>3, PTL DEF Spec

-------------------------------------------------------------------------------
(* The parsers of answers. *)

(* The first of some positions, and the last. *)
LEMMA LeftmostIs ==
    ASSUME NEW S \in SUBSET Nat, NEW x \in S, \A y \in S : x <= y
    PROVE  Leftmost(S) = x
<1>1. \A i \in S : (\A j \in S : i <= j) => i = x
  BY SMT
<1> QED
  BY <1>1, Zenon DEF Leftmost

LEMMA RightmostIs ==
    ASSUME NEW S \in SUBSET Nat, NEW x \in S, \A y \in S : y <= x
    PROVE  Rightmost(S) = x
<1>1. \A i \in S : (\A j \in S : j <= i) => i = x
  BY SMT
<1> QED
  BY <1>1, Zenon DEF Rightmost

LEMMA LeftmostExists ==
    ASSUME NEW n \in Nat, NEW S \in SUBSET (1 .. n), S # {}
    PROVE  Leftmost(S) \in S /\ \A y \in S : Leftmost(S) <= y
<1> DEFINE Free == {i \in 0 .. n : \A y \in S : i < y}
<1>1. SUFFICES \E x \in S : \A y \in S : x <= y
  BY Zenon DEF Leftmost
<1>2. SUFFICES ASSUME \A x \in S : \E y \in S : y < x PROVE FALSE
  BY SMT
<1>3. 0 \in Free
  OBVIOUS
<1>4. \A i \in 0 .. n - 1 : i \in Free => i + 1 \in Free
  <2> SUFFICES ASSUME NEW i \in 0 .. n - 1, i \in Free, NEW y \in S, ~(i + 1 < y) PROVE FALSE
    OBVIOUS
  <2>1. y = i + 1 /\ \A z \in S : i < z
    OBVIOUS
  <2> HIDE DEF Free
  <2> QED
    BY <1>2, <2>1
<1>5. 0 .. n \subseteq Free
  <2> HIDE DEF Free
  <2> QED
    BY <1>3, <1>4, UpTo
<1>6. PICK x \in S : TRUE
  OBVIOUS
<1> QED
  BY <1>5, <1>6

(***************************************************************************)
(* A scan of n steps, each of which makes a value of V from the one before *)
(* it: there is a function that does it.                                   *)
(***************************************************************************)
IsStep(step, n, V) == step \in [(1 .. n) \X V -> V]
IsScan(f, n, V, first, step) ==
    f \in [0 .. n -> V] /\ f[0] = first /\ \A i \in 1 .. n : f[i] = step[<<i, f[i - 1]>>]

LEMMA ScanExists ==
    ASSUME NEW n \in Nat, NEW V, NEW first \in V, NEW step, IsStep(step, n, V)
    PROVE  \E f : IsScan(f, n, V, first, step)
<1> USE DEF IsStep
<1> DEFINE Scans(m, f) == f[0] = first /\ \A i \in 1 .. m : f[i] = step[<<i, f[i - 1]>>]
           S == {m \in 0 .. n : \E f \in [0 .. m -> V] : Scans(m, f)}
<1>1. 0 \in S
  <2>1. [i \in 0 .. 0 |-> first] \in [0 .. 0 -> V] /\ Scans(0, [i \in 0 .. 0 |-> first])
    OBVIOUS
  <2>2. \E f \in [0 .. 0 -> V] : Scans(0, f)
    <3> HIDE DEF Scans
    <3> QED
      BY <2>1, Zenon
  <2> HIDE DEF Scans
  <2> QED
    BY <2>2
<1>2. ASSUME NEW m \in 0 .. n - 1, m \in S PROVE m + 1 \in S
  <2>1. PICK f \in [0 .. m -> V] : Scans(m, f)
    BY <1>2
  <2> DEFINE g == [i \in 0 .. m + 1 |-> IF i <= m THEN f[i] ELSE step[<<m + 1, f[m]>>]]
  <2>2. f[m] \in V /\ m + 1 \in 1 .. n
    OBVIOUS
  <2>3. step[<<m + 1, f[m]>>] \in V
    BY <2>2
  <2>4. g \in [0 .. m + 1 -> V]
    BY <2>3
  <2>5. Scans(m + 1, g)
    <3>1. g[0] = first
      BY <2>1
    <3>2. \A i \in 1 .. m + 1 : g[i] = step[<<i, g[i - 1]>>]
      BY <2>1
    <3> QED
      BY <3>1, <3>2
  <2>6. \E h \in [0 .. m + 1 -> V] : Scans(m + 1, h)
    <3> HIDE DEF Scans, g
    <3> QED
      BY <2>4, <2>5, Zenon
  <2>7. m + 1 \in 0 .. n
    OBVIOUS
  <2> HIDE DEF Scans
  <2> QED
    BY <2>6, <2>7
<1>3. 0 .. n \subseteq S
  <2> HIDE DEF S
  <2> QED
    BY <1>1, <1>2, UpTo
<1>4. n \in S
  <2> HIDE DEF S
  <2> QED
    BY <1>3
<1> QED
  BY <1>4 DEF IsScan

-------------------------------------------------------------------------------
(* The grammar reads a text by one token after the other. *)
ModeSet == {"text", "string", "taken"}

ModeAfter(mode, token) ==
    CASE mode = "taken" -> "string"
      [] mode = "string" /\ token = "escape" -> "taken"
      [] mode = "string" /\ token \notin {"escape", "quote"} -> "string"
      [] mode = "string" /\ token = "quote" -> "text"
      [] mode = "text" /\ token = "quote" -> "string"
      [] OTHER -> "text"

LEMMA ModeAfterIs ==
    ASSUME NEW mode \in ModeSet, NEW token
    PROVE  /\ ModeAfter(mode, token) \in ModeSet
           /\ mode = "taken" => ModeAfter(mode, token) = "string"
           /\ mode = "string" /\ token = "escape" => ModeAfter(mode, token) = "taken"
           /\ mode = "string" /\ token = "quote" => ModeAfter(mode, token) = "text"
           /\ mode = "string" /\ token # "escape" /\ token # "quote" => ModeAfter(mode, token) = "string"
           /\ mode = "text" /\ token = "quote" => ModeAfter(mode, token) = "string"
           /\ mode = "text" /\ token # "quote" => ModeAfter(mode, token) = "text"
<1>1. CASE mode = "text"
  BY <1>1 DEF ModeAfter, ModeSet
<1>2. CASE mode = "taken"
  BY <1>2 DEF ModeAfter, ModeSet
<1>3. CASE mode = "string"
  <2>1. CASE token = "escape"
    BY <1>3, <2>1 DEF ModeAfter, ModeSet
  <2>2. CASE token = "quote"
    BY <1>3, <2>2 DEF ModeAfter, ModeSet
  <2>3. CASE token # "escape" /\ token # "quote"
    BY <1>3, <2>3 DEF ModeAfter, ModeSet
  <2> QED
    BY <2>1, <2>2, <2>3
<1> QED
  BY <1>1, <1>2, <1>3 DEF ModeSet

LEMMA EscapeTakes ==
    ASSUME NEW mode \in ModeSet, NEW token, ModeAfter(mode, token) = "taken"
    PROVE  token = "escape"
<1>1. mode \in {"text", "string", "taken"}
  BY DEF ModeSet
<1>2. mode = "string"
  <2>1. mode # "taken"
    BY ModeAfterIs
  <2>2. mode # "text"
    <3>1. token = "quote" \/ token # "quote"
      OBVIOUS
    <3> QED
      BY <3>1, ModeAfterIs
  <2> QED
    BY <1>1, <2>1, <2>2
<1> QED
  BY <1>2, ModeAfterIs

LEMMA ModesScan ==
    ASSUME NEW T, NEW t \in Seq(T)
    PROVE  /\ Modes(t) \in [0 .. Len(t) -> ModeSet]
           /\ Modes(t)[0] = "text"
           /\ \A i \in 1 .. Len(t) : Modes(t)[i] = ModeAfter(Modes(t)[i - 1], t[i])
<1> DEFINE n == Len(t)
           step == [p \in (1 .. n) \X ModeSet |-> ModeAfter(p[2], t[p[1]])]
           Read(f) == [i \in 0 .. Len(t) |-> IF i = 0 THEN "text" ELSE ModeAfter(f[i - 1], t[i])]
<1>1. n \in Nat
  BY LenProperties
<1>2. step \in [(1 .. n) \X ModeSet -> ModeSet]
  BY ModeAfterIs
<1>3. PICK f : IsScan(f, n, ModeSet, "text", step)
  <2>1. "text" \in ModeSet /\ IsStep(step, n, ModeSet)
    BY <1>2 DEF ModeSet, IsStep
  <2> HIDE DEF step, n
  <2> QED
    BY <1>1, <2>1, ScanExists, Zenon
<1>4. \A i \in 1 .. n : f[i - 1] \in ModeSet /\ f[i] = ModeAfter(f[i - 1], t[i])
  BY <1>1, <1>3 DEF IsScan
<1>5. f = Read(f)
  BY <1>1, <1>3, <1>4 DEF IsScan
<1>6. Modes(t) = Read(Modes(t))
  <2> SUFFICES \E h : h = Read(h)
    BY Zenon DEF Modes, ModeAfter
  <2> QED
    BY <1>5
<1>7. /\ DOMAIN Modes(t) = 0 .. n /\ Modes(t) = [i \in 0 .. n |-> Modes(t)[i]]
      /\ Modes(t)[0] = "text"
      /\ \A i \in 1 .. n : Modes(t)[i] = ModeAfter(Modes(t)[i - 1], t[i])
  <2> DEFINE M == Modes(t)
  <2>1. M = Read(M)
    BY <1>6
  <2> HIDE DEF M
  <2>2. /\ DOMAIN M = 0 .. n /\ M = [i \in 0 .. n |-> M[i]]
        /\ M[0] = "text"
        /\ \A i \in 1 .. n : M[i] = ModeAfter(M[i - 1], t[i])
    BY <1>1, <2>1
  <2> QED
    BY <2>2 DEF M
<1>8. 0 .. n \subseteq {i \in 0 .. n : Modes(t)[i] \in ModeSet}
  <2> DEFINE S == {i \in 0 .. n : Modes(t)[i] \in ModeSet}
  <2>1. 0 \in S
    BY <1>1, <1>7 DEF ModeSet
  <2>2. ASSUME NEW i \in 0 .. n - 1, i \in S PROVE i + 1 \in S
    <3>1. i + 1 \in 1 .. n /\ (i + 1) - 1 = i /\ i + 1 \in 0 .. n
      BY <1>1
    <3>2. Modes(t)[i + 1] = ModeAfter(Modes(t)[i], t[i + 1])
      BY <1>7, <3>1
    <3>3. Modes(t)[i] \in ModeSet
      BY <2>2
    <3>4. Modes(t)[i + 1] \in ModeSet
      BY <3>2, <3>3, ModeAfterIs
    <3> QED
      BY <3>1, <3>4
  <2> HIDE DEF S
  <2>3. 0 .. n \subseteq S
    BY <1>1, <2>1, <2>2, UpTo
  <2> QED
    BY <2>3 DEF S
<1> QED
  BY <1>7, <1>8

-------------------------------------------------------------------------------
(* What is kept of a text, when the places are known in their order. *)
Enumerates(e, n, S) ==
    /\ \A k \in 1 .. n : e[k] \in S
    /\ \A i \in S : \E k \in 1 .. n : i = e[k]
    /\ \A j, k \in 1 .. n : j < k => e[j] < e[k]

TokensAt(t, e, n) == [k \in 1 .. n |-> t[e[k]]]

LEMMA KeptAre ==
    ASSUME NEW t, NEW n \in Nat, NEW e, NEW S \in SUBSET Nat, Enumerates(e, n, S)
    PROVE  Kept(t, S) = TokensAt(t, e, n)
<1> USE DEF Enumerates
<1> DEFINE Low(k) == {e[j] : j \in 1 .. k}
           Sized == {k \in 0 .. n : IsFiniteSet(Low(k)) /\ Cardinality(Low(k)) = k}
<1>1. 0 \in Sized
  <2>1. Low(0) = {}
    OBVIOUS
  <2> HIDE DEF Low
  <2> QED
    BY <2>1, FS_EmptySet
<1>2. ASSUME NEW k \in 0 .. n - 1, k \in Sized PROVE k + 1 \in Sized
  <2>1. Low(k + 1) = Low(k) \union {e[k + 1]}
    OBVIOUS
  <2>2. e[k + 1] \notin Low(k)
    <3> SUFFICES ASSUME NEW j \in 1 .. k, e[k + 1] = e[j] PROVE FALSE
      OBVIOUS
    <3>1. j \in 1 .. n /\ k + 1 \in 1 .. n /\ j < k + 1
      OBVIOUS
    <3>2. e[j] < e[k + 1] /\ e[j] \in Nat
      BY <3>1
    <3> QED
      BY <3>2
  <2> HIDE DEF Low
  <2>3. IsFiniteSet(Low(k + 1)) /\ Cardinality(Low(k + 1)) = k + 1
    BY <1>2, <2>1, <2>2, FS_AddElement
  <2> QED
    BY <2>3
<1>3. 0 .. n \subseteq Sized
  <2> HIDE DEF Sized
  <2> QED
    BY <1>1, <1>2, UpTo
<1>4. Low(n) = S
  OBVIOUS
<1>5. ASSUME NEW k \in 1 .. n PROVE {j \in S : j <= e[k]} = Low(k)
  <2>1. ASSUME NEW m \in 1 .. n PROVE e[m] <= e[k] <=> m <= k
    <3>1. e[m] \in Nat /\ e[k] \in Nat
      OBVIOUS
    <3>2. m < k \/ m = k \/ k < m
      OBVIOUS
    <3>3. m < k => e[m] < e[k]
      OBVIOUS
    <3>4. k < m => e[k] < e[m]
      OBVIOUS
    <3> QED
      BY <3>1, <3>2, <3>3, <3>4
  <2>2. \A i \in S : i <= e[k] => i \in Low(k)
    <3> SUFFICES ASSUME NEW m \in 1 .. n, e[m] <= e[k] PROVE e[m] \in Low(k)
      OBVIOUS
    <3>1. m \in 1 .. k
      BY <2>1
    <3> QED
      BY <3>1
  <2>3. \A j \in 1 .. k : e[j] \in S /\ e[j] <= e[k]
    <3> SUFFICES ASSUME NEW j \in 1 .. k PROVE e[j] \in S /\ e[j] <= e[k]
      OBVIOUS
    <3>1. j \in 1 .. n /\ j <= k
      OBVIOUS
    <3> QED
      BY <2>1, <3>1
  <2> QED
    BY <2>2, <2>3
<1>6. \A k \in 0 .. n : Cardinality(Low(k)) = k
  BY <1>3
<1>7. ASSUME NEW k \in 1 .. n PROVE Nth(S, k) = e[k]
  <2>1. Cardinality({j \in S : j <= e[k]}) = k
    BY <1>5, <1>6
  <2>2. ASSUME NEW i \in S, Cardinality({j \in S : j <= i}) = k PROVE i = e[k]
    <3>1. PICK m \in 1 .. n : i = e[m]
      OBVIOUS
    <3>2. Cardinality({j \in S : j <= e[m]}) = m
      BY <1>5, <1>6
    <3>3. m = k
      BY <2>2, <3>1, <3>2
    <3> QED
      BY <3>1, <3>3
  <2>3. e[k] \in S
    OBVIOUS
  <2> QED
    BY <2>1, <2>2, <2>3, Zenon DEF Nth
<1>8. Cardinality(S) = n
  BY <1>4, <1>6
<1> HIDE DEF Low
<1> QED
  BY <1>7, <1>8 DEF Kept, TokensAt

LEMMA KeptInterval ==
    ASSUME NEW T, NEW t \in Seq(T), NEW lo \in 1 .. Len(t), NEW hi \in lo .. Len(t)
    PROVE  Kept(t, lo .. hi) = SubSeq(t, lo, hi)
<1> DEFINE n == hi - lo + 1
           e == [k \in 1 .. n |-> lo + k - 1]
           u == [k \in 1 .. n |-> t[e[k]]]
<1>1. n \in Nat /\ Len(t) \in Nat /\ lo \in Int /\ hi \in Int /\ lo <= hi
  BY LenProperties
<1>2. Kept(t, lo .. hi) = u
  <2>1. /\ \A k \in 1 .. n : e[k] \in lo .. hi
        /\ \A j, k \in 1 .. n : j < k => e[j] < e[k]
    BY <1>1
  <2>2. ASSUME NEW i \in lo .. hi PROVE \E k \in 1 .. n : i = e[k]
    <3>1. i - lo + 1 \in 1 .. n /\ e[i - lo + 1] = i
      BY <1>1
    <3> QED
      BY <3>1
  <2>3. lo .. hi \in SUBSET Nat
    BY <1>1
  <2>4. Enumerates(e, n, lo .. hi)
    <3> HIDE DEF e, n
    <3> QED
      BY <2>1, <2>2 DEF Enumerates
  <2> DEFINE S == lo .. hi
  <2>5. S \in SUBSET Nat /\ Enumerates(e, n, S) /\ n \in Nat
    BY <1>1, <2>3, <2>4
  <2> HIDE DEF e, n, S
  <2>6. Kept(t, S) = TokensAt(t, e, n)
    BY <2>5, KeptAre
  <2> QED
    BY <2>6 DEF S, TokensAt
<1>3. \A i \in lo .. hi : t[i] \in T
  BY <1>1, ElementOfSeq
<1>4. /\ SubSeq(t, lo, hi) \in Seq(T) /\ Len(SubSeq(t, lo, hi)) = n
      /\ \A i \in 1 .. n : SubSeq(t, lo, hi)[i] = t[lo + i - 1]
  BY <1>1, <1>3, SubSeqProperties
<1>5. u \in Seq(T) /\ Len(u) = n
  <2>1. u \in [1 .. n -> T]
    BY <1>1, <1>3
  <2> HIDE DEF u, n
  <2> QED
    BY <1>1, <2>1
<1>6. \A i \in 1 .. n : u[i] = t[lo + i - 1]
  BY <1>1
<1> HIDE DEF u, n
<1> QED
  BY <1>2, <1>4, <1>5, <1>6, SeqEqual

-------------------------------------------------------------------------------
(* A scan that starts at an object. *)
ObjectAt(t, a, b) == IsObject(SubSeq(t, a, b)) /\ ~EndsInBackslash(SubSeq(t, a, b))

LEMMA SubSeqIs ==
    ASSUME NEW T, NEW t \in Seq(T), NEW a \in 1 .. Len(t), NEW b \in a .. Len(t)
    PROVE  /\ Len(t) \in Nat /\ a \in Nat /\ b \in Nat /\ a <= b
           /\ SubSeq(t, a, b) \in Seq(T) /\ Len(SubSeq(t, a, b)) = b - a + 1
           /\ \A i \in 1 .. b - a + 1 : SubSeq(t, a, b)[i] = t[a + i - 1]
<1>1. Len(t) \in Nat /\ a \in Int /\ b \in Int /\ a <= b
  BY LenProperties
<1>2. \A i \in a .. b : t[i] \in T
  BY <1>1, ElementOfSeq
<1> QED
  BY <1>1, <1>2, SubSeqProperties

(* An escape is nowhere but in a string, and takes the token after it. *)
LEMMA EscapesInStrings ==
    ASSUME NEW T, NEW s \in Seq(T), IsObject(s), NEW i \in 1 .. Len(s), s[i] = "escape"
    PROVE  \/ Modes(s)[i] = "taken"
           \/ Modes(s)[i] = "string" /\ i > 1 /\ Modes(s)[i - 1] = "taken"
<1>1. Len(s) \in Nat /\ i - 1 \in 0 .. Len(s)
  BY LenProperties
<1>2. /\ Modes(s)[i] = ModeAfter(Modes(s)[i - 1], s[i])
      /\ Modes(s)[i - 1] \in ModeSet /\ Modes(s)[0] = "text"
  BY <1>1, ModesScan
<1>3. Modes(s)[i - 1] # "text"
  <2> SUFFICES ASSUME Modes(s)[i - 1] = "text" PROVE FALSE
    OBVIOUS
  <2>1. Modes(s)[i] = "text"
    BY <1>2, ModeAfterIs
  <2> QED
    BY <2>1 DEF IsObject, Structure
<1>4. i > 1
  BY <1>1, <1>2, <1>3
<1> QED
  BY <1>2, <1>3, <1>4, ModeAfterIs DEF ModeSet

LEMMA TogglesAreQuotes ==
    ASSUME NEW T, NEW s \in Seq(T), IsObject(s), ~EndsInBackslash(s), NEW i \in 2 .. Len(s)
    PROVE  (s[i] = "quote" /\ s[i - 1] # "escape")
               <=> (Modes(s)[i] = "text") # (Modes(s)[i - 1] = "text")
<1> DEFINE M == Modes(s)
<1>1. Len(s) \in Nat /\ i \in 1 .. Len(s) /\ i - 1 \in 1 .. Len(s) /\ i - 1 \in 0 .. Len(s)
  BY LenProperties
<1>2. M[i] = ModeAfter(M[i - 1], s[i]) /\ M[i - 1] \in ModeSet
  BY <1>1, ModesScan
<1>3. M[i - 1] = "taken" => s[i - 1] = "escape"
  <2>1. (i - 1) - 1 \in 0 .. Len(s)
    BY <1>1
  <2>2. M[i - 1] = ModeAfter(M[(i - 1) - 1], s[i - 1]) /\ M[(i - 1) - 1] \in ModeSet
    BY <1>1, <2>1, ModesScan
  <2> QED
    BY <2>2, EscapeTakes
<1>4. s[i - 1] = "escape" /\ s[i] = "quote" => M[i - 1] = "taken"
  <2> SUFFICES ASSUME s[i - 1] = "escape", s[i] = "quote", M[i - 1] # "taken" PROVE FALSE
    OBVIOUS
  <2>1. M[i - 1] = "string" /\ i - 1 > 1 /\ M[(i - 1) - 1] = "taken"
    BY <1>1, EscapesInStrings
  <2>2. /\ i - 2 \in 1 .. Len(s) /\ (i - 1) - 1 = i - 2 /\ (i - 2) - 1 \in 0 .. Len(s)
        /\ i \in 3 .. Len(s)
    BY <1>1, <2>1
  <2>3. M[i - 2] = ModeAfter(M[(i - 2) - 1], s[i - 2]) /\ M[(i - 2) - 1] \in ModeSet
    BY <2>2, ModesScan
  <2>4. s[i - 2] = "escape"
    BY <2>1, <2>2, <2>3, EscapeTakes
  <2> QED
    BY <2>2, <2>4 DEF EndsInBackslash
<1> HIDE DEF M
<1>5. CASE M[i - 1] = "text"
  <2>1. s[i - 1] # "escape"
    <3> SUFFICES ASSUME s[i - 1] = "escape" PROVE FALSE
      OBVIOUS
    <3>1. Modes(s)[i - 1] \in {"taken", "string"}
      BY <1>1, EscapesInStrings
    <3> QED
      BY <1>5, <3>1 DEF M
  <2>2. s[i] = "quote" => M[i] = "string"
    BY <1>2, <1>5, ModeAfterIs
  <2>3. s[i] # "quote" => M[i] = "text"
    BY <1>2, <1>5, ModeAfterIs
  <2> QED
    BY <1>5, <2>1, <2>2, <2>3 DEF M
<1>6. CASE M[i - 1] = "string"
  BY <1>2, <1>4, <1>6, ModeAfterIs DEF M
<1>7. CASE M[i - 1] = "taken"
  BY <1>2, <1>3, <1>7, ModeAfterIs DEF M
<1> QED
  BY <1>2, <1>5, <1>6, <1>7 DEF ModeSet

LEMMA ObjectStarts ==
    ASSUME NEW T, NEW s \in Seq(T), IsObject(s)
    PROVE  /\ Len(s) \in Nat /\ 1 \in 1 .. Len(s)
           /\ s[1] = "open" /\ Modes(s)[0] = "text" /\ Modes(s)[1] = "text"
<1>1. Len(s) \in Nat /\ 1 \in 1 .. Len(s)
  BY EmptySeq, LenProperties DEF IsObject
<1>2. s[1] = "open"
  BY DEF IsObject
<1>3. Modes(s)[0] = "text" /\ Modes(s)[1] = ModeAfter(Modes(s)[1 - 1], s[1])
  BY <1>1, ModesScan
<1>4. "text" \in ModeSet /\ 1 - 1 = 0 /\ "open" # "quote"
  BY DEF ModeSet
<1>5. Modes(s)[1] = "text"
  BY <1>2, <1>3, <1>4, ModeAfterIs
<1> QED
  BY <1>1, <1>2, <1>3, <1>5

(* The scan is in a string exactly where the grammar is. *)
LEMMA StringsKnown ==
    ASSUME NEW T, NEW t \in Seq(T), NEW a \in 1 .. Len(t), NEW b \in a .. Len(t), ObjectAt(t, a, b)
    PROVE  \A i \in a .. b : InString(t, a, i) <=> Modes(SubSeq(t, a, b))[i - a + 1] # "text"
<1> DEFINE s == SubSeq(t, a, b)
           M == Modes(s)
           n == b - a
           Seen(k) == {j \in a .. a + k : Toggles(t, j)}
           Right(k) == Cardinality(Seen(k)) % 2 = 1 <=> M[k + 1] # "text"
           S == {k \in 0 .. n : Right(k)}
<1>1. /\ Len(t) \in Nat /\ a \in Nat /\ b \in Nat /\ a <= b /\ n \in Nat
      /\ s \in Seq(T) /\ Len(s) = n + 1 /\ \A i \in 1 .. n + 1 : s[i] = t[a + i - 1]
      /\ IsObject(s) /\ ~EndsInBackslash(s)
  <2> HIDE DEF n
  <2>1. n = b - a
    BY DEF n
  <2> QED
    BY <2>1, SubSeqIs DEF ObjectAt
<1> HIDE DEF s
<1>2. M[1] = "text" /\ t[a] = "open"
  <2>1. s[1] = "open" /\ M[1] = "text"
    BY <1>1, ObjectStarts
  <2>2. s[1] = t[a]
    BY <1>1
  <2> QED
    BY <2>1, <2>2
<1>3. \A k \in 0 .. n : IsFiniteSet(Seen(k)) /\ Cardinality(Seen(k)) \in Nat
  <2> SUFFICES ASSUME NEW k \in 0 .. n PROVE IsFiniteSet(Seen(k)) /\ Cardinality(Seen(k)) \in Nat
    OBVIOUS
  <2>1. a \in Int /\ a + k \in Int
    BY <1>1
  <2>2. IsFiniteSet(a .. a + k) /\ Seen(k) \subseteq a .. a + k
    BY <2>1, FS_Interval
  <2> HIDE DEF Seen
  <2> QED
    BY <2>2, FS_Subset, FS_CardinalityType
<1>4. 0 \in S
  <2>1. Seen(0) = {}
    BY <1>1, <1>2 DEF Toggles
  <2>2. Cardinality(Seen(0)) = 0
    BY <2>1, FS_EmptySet
  <2>3. Right(0)
    <3> HIDE DEF Seen, M
    <3> QED
      BY <1>2, <2>2
  <2> HIDE DEF Right
  <2> QED
    BY <1>1, <2>3
<1>5. ASSUME NEW k \in 0 .. n - 1, k \in S PROVE k + 1 \in S
  <2>0. /\ k \in Nat /\ k + 2 \in 2 .. Len(s) /\ (k + 2) - 1 = k + 1 /\ k + 1 \in 0 .. n /\ k \in 0 .. n
        /\ k + 2 \in 1 .. n + 1 /\ k + 1 \in 1 .. n + 1
        /\ a + (k + 2) - 1 = a + k + 1 /\ a + (k + 1) - 1 = a + k /\ a + k + 1 # 1
        /\ (a + k + 1) - 1 = a + k
    BY <1>1
  <2>1. s[k + 2] = t[a + k + 1] /\ s[k + 1] = t[a + k]
    BY <1>1, <2>0
  <2>2. Toggles(t, a + k + 1) <=> (M[k + 2] = "text") # (M[k + 1] = "text")
    <3>1. (s[k + 2] = "quote" /\ s[k + 1] # "escape") <=> (M[k + 2] = "text") # (M[k + 1] = "text")
      BY <1>1, <2>0, TogglesAreQuotes
    <3> HIDE DEF M
    <3> QED
      BY <2>0, <2>1, <3>1 DEF Toggles
  <2>3. Seen(k + 1) = IF Toggles(t, a + k + 1) THEN Seen(k) \union {a + k + 1} ELSE Seen(k)
    <3>1. a .. a + (k + 1) = (a .. a + k) \union {a + k + 1}
      BY <1>1, <2>0
    <3> QED
      BY <3>1
  <2>4. a + k + 1 \notin Seen(k)
    BY <1>1, <2>0
  <2> HIDE DEF Seen
  <2>5. Cardinality(Seen(k + 1)) = IF Toggles(t, a + k + 1) THEN Cardinality(Seen(k)) + 1
                                   ELSE Cardinality(Seen(k))
    <3>1. IsFiniteSet(Seen(k))
      BY <1>3, <2>0
    <3> QED
      BY <2>3, <2>4, <3>1, FS_AddElement
  <2> DEFINE c == Cardinality(Seen(k))
  <2>6. c \in Nat /\ (c % 2 = 1 <=> M[k + 1] # "text")
    BY <1>3, <1>5, <2>0
  <2>7. Cardinality(Seen(k + 1)) = IF Toggles(t, a + k + 1) THEN c + 1 ELSE c
    BY <2>5
  <2> HIDE DEF c, M
  <2>8. (c + 1) % 2 = 1 <=> ~(c % 2 = 1)
    BY <2>6
  <2>9. Cardinality(Seen(k + 1)) % 2 = 1 <=> M[k + 2] # "text"
    BY <2>2, <2>6, <2>7, <2>8
  <2>10. (k + 1) + 1 = k + 2
    BY <2>0
  <2> QED
    BY <2>0, <2>9, <2>10
<1>6. 0 .. n \subseteq S
  <2> HIDE DEF S, n
  <2> QED
    BY <1>1, <1>4, <1>5, UpTo
<1> SUFFICES ASSUME NEW i \in a .. b PROVE InString(t, a, i) <=> M[i - a + 1] # "text"
  BY DEF s
<1>7. i - a \in 0 .. n /\ a + (i - a) = i
  BY <1>1
<1>8. Right(i - a)
  <2> HIDE DEF Right, n
  <2> QED
    BY <1>6, <1>7
<1>9. Seen(i - a) = {j \in a .. i : Toggles(t, j)}
  BY <1>7
<1> HIDE DEF Seen, M
<1> QED
  BY <1>8, <1>9 DEF InString

(* Numbers that are all moved as far are as many. *)
LEMMA AsMany ==
    ASSUME NEW A \in SUBSET Int, IsFiniteSet(A), NEW B \in SUBSET Int, NEW d \in Int,
           \A x \in A : x - d \in B, \A y \in B : y + d \in A
    PROVE  Cardinality(A) = Cardinality(B)
<1> DEFINE f == [x \in A |-> x - d]
<1>1. f \in [A -> B]
  OBVIOUS
<1>2. \A x, y \in A : f[x] = f[y] => x = y
  OBVIOUS
<1>3. \A y \in B : \E x \in A : f[x] = y
  <2> SUFFICES ASSUME NEW y \in B PROVE \E x \in A : f[x] = y
    OBVIOUS
  <2>1. y + d \in A /\ f[y + d] = y
    OBVIOUS
  <2> QED
    BY <2>1
<1> HIDE DEF f
<1>4. f \in Injection(A, B)
  <2>1. DOMAIN f = A
    BY <1>1
  <2> QED
    BY <1>1, <1>2, <2>1 DEF Injection, IsInjective
<1>5. f \in Surjection(A, B)
  BY <1>1, <1>3 DEF Surjection
<1>6. ExistsBijection(A, B)
  BY <1>4, <1>5 DEF ExistsBijection, Bijection
<1> QED
  BY <1>6, FS_Bijection

(* A brace is counted exactly where the grammar has it outside of strings. *)
LEMMA StructureKnown ==
    ASSUME NEW T, NEW t \in Seq(T), NEW a \in 1 .. Len(t), NEW b \in a .. Len(t), ObjectAt(t, a, b),
           NEW i \in a .. b, t[i] \in {"open", "close"}
    PROVE  ~InString(t, a, i) <=> i - a + 1 \in Structure(SubSeq(t, a, b))
<1> DEFINE s == SubSeq(t, a, b)
           k == i - a + 1
<1>1. /\ s \in Seq(T) /\ Len(s) = b - a + 1 /\ a \in Nat /\ b \in Nat /\ i \in Nat
      /\ \A j \in 1 .. b - a + 1 : s[j] = t[a + j - 1]
  BY SubSeqIs
<1>2. k \in 1 .. Len(s) /\ k - 1 \in 0 .. Len(s) /\ a + k - 1 = i
  BY <1>1
<1>3. s[k] \in {"open", "close"}
  BY <1>1, <1>2
<1>4. ~InString(t, a, i) <=> Modes(s)[k] = "text"
  BY StringsKnown
<1>5. Modes(s)[k] = ModeAfter(Modes(s)[k - 1], s[k]) /\ Modes(s)[k - 1] \in ModeSet
  BY <1>1, <1>2, ModesScan
<1>6. Modes(s)[k] = "text" => Modes(s)[k - 1] = "text"
  <2>1. s[k] # "quote" /\ s[k] # "escape"
    BY <1>3
  <2> HIDE DEF s, k
  <2>2. Modes(s)[k - 1] = "string" => Modes(s)[k] = "string"
    BY <1>5, <2>1, ModeAfterIs
  <2>3. Modes(s)[k - 1] = "taken" => Modes(s)[k] = "string"
    BY <1>5, ModeAfterIs
  <2> QED
    BY <1>5, <2>2, <2>3 DEF ModeSet
<1> HIDE DEF s, k
<1>7. k \in Structure(s) <=> Modes(s)[k] = "text" /\ Modes(s)[k - 1] = "text"
  BY <1>2 DEF Structure
<1> QED
  BY <1>4, <1>6, <1>7 DEF s, k

NestedBraces(s, i, brace) == {j \in Structure(s) : j <= i /\ s[j] = brace}

LEMMA BracesKnown ==
    ASSUME NEW T, NEW t \in Seq(T), NEW a \in 1 .. Len(t), NEW b \in a .. Len(t), ObjectAt(t, a, b),
           NEW i \in a .. b, NEW brace \in {"open", "close"}
    PROVE  Cardinality(Braces(t, a, i, brace))
               = Cardinality(NestedBraces(SubSeq(t, a, b), i - a + 1, brace))
<1> DEFINE s == SubSeq(t, a, b)
           A == Braces(t, a, i, brace)
           B == NestedBraces(s, i - a + 1, brace)
           d == a - 1
<1>1. /\ s \in Seq(T) /\ Len(s) = b - a + 1 /\ a \in Nat /\ b \in Nat /\ i \in Nat
      /\ \A j \in 1 .. b - a + 1 : s[j] = t[a + j - 1]
  BY SubSeqIs
<1>2. A \subseteq a .. i /\ B \subseteq 1 .. b - a + 1
  BY <1>1 DEF Braces, NestedBraces, Structure
<1>3. IsFiniteSet(A)
  <2>1. IsFiniteSet(a .. i)
    BY <1>1, FS_Interval
  <2> QED
    BY <1>2, <2>1, FS_Subset
<1>4. \A x \in a .. b : t[x] = brace => (~InString(t, a, x) <=> x - a + 1 \in Structure(s))
  BY StructureKnown
<1> HIDE DEF s
<1>5. ASSUME NEW x \in A PROVE x - d \in B
  <2>1. x \in a .. i /\ x \in a .. b /\ t[x] = brace /\ ~InString(t, a, x) /\ x - d = x - a + 1
    BY <1>1 DEF Braces
  <2>2. x - a + 1 \in Structure(s)
    BY <1>4, <2>1
  <2>3. x - a + 1 \in 1 .. b - a + 1 /\ x - a + 1 <= i - a + 1 /\ a + (x - a + 1) - 1 = x
    BY <1>1, <2>1
  <2>4. s[x - a + 1] = brace
    BY <1>1, <2>1, <2>3
  <2> QED
    BY <2>1, <2>2, <2>3, <2>4 DEF NestedBraces
<1>6. ASSUME NEW y \in B PROVE y + d \in A
  <2>1. y \in Structure(s) /\ y <= i - a + 1 /\ s[y] = brace /\ y \in 1 .. b - a + 1
    BY <1>2 DEF NestedBraces
  <2>2. /\ y + d \in a .. i /\ y + d \in a .. b /\ a + y - 1 = y + d /\ (y + d) - a + 1 = y
    BY <1>1, <2>1
  <2>3. t[y + d] = brace
    BY <1>1, <2>1, <2>2
  <2>4. ~InString(t, a, y + d)
    BY <1>4, <2>1, <2>2, <2>3
  <2> HIDE DEF d
  <2> QED
    BY <2>2, <2>3, <2>4 DEF Braces
<1>7. A \in SUBSET Int /\ B \in SUBSET Int /\ d \in Int
  BY <1>1, <1>2
<1> HIDE DEF A, B, d
<1>8. Cardinality(A) = Cardinality(B)
  BY <1>3, <1>5, <1>6, <1>7, AsMany
<1> QED
  BY <1>8 DEF A, B, s

LEMMA DepthIsNesting ==
    ASSUME NEW T, NEW t \in Seq(T), NEW a \in 1 .. Len(t), NEW b \in a .. Len(t), ObjectAt(t, a, b),
           NEW i \in a .. b
    PROVE  Depth(t, a, i) = Nesting(SubSeq(t, a, b), i - a + 1)
<1>1. \A brace \in {"open", "close"} :
          Cardinality(Braces(t, a, i, brace))
              = Cardinality(NestedBraces(SubSeq(t, a, b), i - a + 1, brace))
  BY BracesKnown
<1>2. /\ Cardinality(Braces(t, a, i, "open"))
            = Cardinality(NestedBraces(SubSeq(t, a, b), i - a + 1, "open"))
      /\ Cardinality(Braces(t, a, i, "close"))
            = Cardinality(NestedBraces(SubSeq(t, a, b), i - a + 1, "close"))
  BY <1>1
<1> QED
  BY <1>2 DEF Depth, Nesting, NestedBraces

(* The scan stops at the end of the object. *)
LEMMA ObjectEndsThere ==
    ASSUME NEW T, NEW t \in Seq(T), NEW a \in 1 .. Len(t), NEW b \in a .. Len(t), ObjectAt(t, a, b)
    PROVE  b \in ObjectEnds(t, a) /\ Leftmost(ObjectEnds(t, a)) = b
<1> DEFINE s == SubSeq(t, a, b)
<1>1. /\ s \in Seq(T) /\ Len(s) = b - a + 1 /\ a \in Nat /\ b \in Nat /\ Len(t) \in Nat
      /\ \A j \in 1 .. b - a + 1 : s[j] = t[a + j - 1]
      /\ IsObject(s) /\ a <= b /\ b <= Len(t)
  BY SubSeqIs DEF ObjectAt
<1>2. s[Len(s)] = "close" /\ Modes(s)[Len(s)] = "text" /\ Nesting(s, Len(s)) = 0
      /\ \A k \in 1 .. Len(s) - 1 : Nesting(s, k) > 0
  BY <1>1 DEF IsObject
<1>3. \A i \in a .. b : Depth(t, a, i) = Nesting(s, i - a + 1)
  BY DepthIsNesting
<1>4. ~InString(t, a, b)
  <2>1. InString(t, a, b) <=> Modes(s)[b - a + 1] # "text"
    BY <1>1, StringsKnown
  <2> QED
    BY <1>1, <1>2, <2>1
<1> HIDE DEF s
<1>5. b \in a .. b /\ b \in a .. Len(t) /\ b - a + 1 \in 1 .. b - a + 1 /\ a + (b - a + 1) - 1 = b
  BY <1>1
<1>6. t[b] = "close" /\ Depth(t, a, b) = 0
  BY <1>1, <1>2, <1>3, <1>5
<1>7. b \in ObjectEnds(t, a)
  BY <1>4, <1>5, <1>6 DEF ObjectEnds
<1>8. ObjectEnds(t, a) \subseteq a .. Len(t)
  BY DEF ObjectEnds
<1>9. \A i \in ObjectEnds(t, a) : b <= i
  <2> SUFFICES ASSUME NEW i \in ObjectEnds(t, a), i < b PROVE FALSE
    BY <1>1, <1>8
  <2>1. i \in a .. b /\ i - a + 1 \in 1 .. Len(s) - 1
    BY <1>1, <1>8
  <2>2. Depth(t, a, i) = 0
    BY DEF ObjectEnds
  <2>3. Depth(t, a, i) > 0
    BY <1>2, <1>3, <2>1
  <2> QED
    BY <2>2, <2>3
<1>10. ObjectEnds(t, a) \in SUBSET Nat
  BY <1>1, <1>8
<1> QED
  BY <1>7, <1>9, <1>10, LeftmostIs

-------------------------------------------------------------------------------
(* What is read of an answer. *)
LEMMA KeptIsSeq ==
    ASSUME NEW t, NEW S, IsFiniteSet(S)
    PROVE  \E T : Kept(t, S) \in Seq(T)
<1> DEFINE m == Cardinality(S)
           u == [n \in 1 .. m |-> t[Nth(S, n)]]
           T == {u[n] : n \in 1 .. m}
<1>1. m \in Nat
  BY FS_CardinalityType
<1>2. u \in [1 .. m -> T]
  OBVIOUS
<1>3. Kept(t, S) = u
  BY DEF Kept
<1> HIDE DEF m, u, T
<1>4. u \in Seq(T)
  BY <1>1, <1>2
<1> QED
  BY <1>3, <1>4

AnswerTyped == response \in Seq(Tokens)

LEMMA WithoutFenceIsSeq ==
    ASSUME AnswerTyped
    PROVE  \E T : WithoutFence(response) \in Seq(T)
<1> DEFINE S == {i \in 1 .. Len(response) : response[i] # "fence"}
<1>1. Len(response) \in Nat /\ 1 \in Int
  BY LenProperties DEF AnswerTyped
<1>2. IsFiniteSet(S)
  <2>1. IsFiniteSet(1 .. Len(response)) /\ S \subseteq 1 .. Len(response)
    BY <1>1, FS_Interval
  <2> QED
    BY <2>1, FS_Subset
<1> QED
  BY <1>2, KeptIsSeq DEF WithoutFence

(* What the parser returns is a part of the text from its first brace on. *)
LEMMA ExtractedIs ==
    ASSUME NEW T, WithoutFence(response) \in Seq(T)
    PROVE  LET t == WithoutFence(response)
               a == Leftmost(Positions(t, "open"))
           IN  \/ ExtractJson(response) = NotFound
               \/ /\ Positions(t, "open") # {} /\ a \in Positions(t, "open") /\ a \in 1 .. Len(t)
                  /\ \E b \in a .. Len(t) :
                        /\ ObjectEnds(t, a) # {} /\ b \in ObjectEnds(t, a)
                        /\ b = Leftmost(ObjectEnds(t, a)) /\ \A i \in ObjectEnds(t, a) : b <= i
                        /\ ExtractJson(response) = SubSeq(t, a, b)
<1> DEFINE t == WithoutFence(response)
           S == Positions(t, "open")
           a == Leftmost(S)
           E == ObjectEnds(t, a)
           b == Leftmost(E)
<1>1. ExtractJson(response) = IF S = {} \/ E = {} THEN NotFound ELSE SubSeq(t, a, b)
  BY DEF ExtractJson
<1>2. Len(t) \in Nat /\ S \subseteq 1 .. Len(t) /\ E \subseteq a .. Len(t)
  BY LenProperties DEF Positions, ObjectEnds
<1> HIDE DEF t, S, a, E, b
<1> SUFFICES ASSUME S # {}, E # {}
             PROVE  /\ a \in S /\ a \in 1 .. Len(t)
                    /\ b \in a .. Len(t) /\ b \in E /\ \A i \in E : b <= i
  BY <1>1 DEF t, S, a, E, b
<1>3. a \in S /\ a \in 1 .. Len(t)
  BY <1>2, LeftmostExists DEF a
<1>4. E \subseteq 1 .. Len(t)
  BY <1>2, <1>3
<1>5. b \in E /\ \A i \in E : b <= i
  BY <1>2, <1>4, LeftmostExists DEF b
<1> QED
  BY <1>2, <1>3, <1>5

LEMMA ObjectsFound ==
    ASSUME AnswerTyped
    PROVE  ObjectIsFound
<1> DEFINE t == WithoutFence(response)
<1>1. PICK T : t \in Seq(T)
  BY WithoutFenceIsSeq
<1> HIDE DEF t
<1> SUFFICES ASSUME NEW a \in 1 .. Len(t), NEW b \in 1 .. Len(t),
                    a \in Positions(t, "open"), a = Leftmost(Positions(t, "open")),
                    a <= b, IsObject(SubSeq(t, a, b)), ~EndsInBackslash(SubSeq(t, a, b))
             PROVE  ExtractJson(response) = SubSeq(t, a, b)
  BY DEF ObjectIsFound, t
<1>2. b \in a .. Len(t) /\ ObjectAt(t, a, b)
  BY DEF ObjectAt
<1>3. b \in ObjectEnds(t, a) /\ Leftmost(ObjectEnds(t, a)) = b
  BY <1>1, <1>2, ObjectEndsThere
<1> QED
  BY <1>3 DEF ExtractJson, t

LEMMA StartOfSubSeq ==
    ASSUME NEW T, NEW t \in Seq(T), NEW a \in 1 .. Len(t), NEW c \in a .. Len(t), NEW b \in a .. c
    PROVE  SubSeq(SubSeq(t, a, c), 1, b - a + 1) = SubSeq(t, a, b)
<1> DEFINE u == SubSeq(t, a, c)
           n == b - a + 1
<1>1. Len(t) \in Nat /\ a \in Nat /\ b \in Nat /\ c \in Nat /\ a <= b /\ b <= c /\ c <= Len(t)
  BY LenProperties
<1>2. u \in Seq(T) /\ Len(u) = c - a + 1 /\ \A i \in 1 .. c - a + 1 : u[i] = t[a + i - 1]
  BY SubSeqIs
<1>3. /\ SubSeq(t, a, b) \in Seq(T) /\ Len(SubSeq(t, a, b)) = n
      /\ \A i \in 1 .. n : SubSeq(t, a, b)[i] = t[a + i - 1]
  BY <1>1, SubSeqIs
<1> HIDE DEF u
<1>4. n \in 1 .. Len(u) /\ 1 \in 1 .. Len(u) /\ n \in Nat
  BY <1>1, <1>2
<1>5. \A i \in 1 .. n : u[i] = t[a + i - 1]
  BY <1>1, <1>2
<1> HIDE DEF n
<1>6. n - 1 + 1 = n /\ \A i \in 1 .. n : 1 + i - 1 = i
  BY <1>4
<1>7. /\ SubSeq(u, 1, n) \in Seq(T) /\ Len(SubSeq(u, 1, n)) = n - 1 + 1
      /\ \A i \in 1 .. n - 1 + 1 : SubSeq(u, 1, n)[i] = u[1 + i - 1]
  BY <1>2, <1>4, SubSeqIs
<1>8. SubSeq(u, 1, n) = SubSeq(t, a, b)
  BY <1>3, <1>5, <1>6, <1>7, SeqEqual
<1> QED
  BY <1>8 DEF u, n

LEMMA NoPartTaken ==
    ASSUME AnswerTyped
    PROVE  NoPartIsTaken
<1> DEFINE t == WithoutFence(response)
           a == Leftmost(Positions(t, "open"))
           rest == SubSeq(t, a, Len(t))
<1>1. PICK T : t \in Seq(T)
  BY WithoutFenceIsSeq
<1> SUFFICES ASSUME Positions(t, "open") # {}, \A n \in 1 .. Len(rest) : ~IsObject(SubSeq(rest, 1, n)),
                    IsObject(ExtractJson(response))
             PROVE  FALSE
  BY DEF NoPartIsTaken
<1>2. ExtractJson(response) # NotFound
  BY DEF IsObject, NotFound
<1>3. PICK b \in a .. Len(t) : a \in 1 .. Len(t) /\ ExtractJson(response) = SubSeq(t, a, b)
  BY <1>1, <1>2, ExtractedIs
<1> HIDE DEF t, a
<1>4. Len(t) \in Nat /\ Len(t) \in a .. Len(t) /\ b \in a .. Len(t)
  BY <1>1, <1>3, LenProperties
<1>5. Len(rest) = Len(t) - a + 1
  BY <1>1, <1>3, <1>4, SubSeqIs
<1>6. b - a + 1 \in 1 .. Len(rest)
  BY <1>3, <1>4, <1>5
<1>7. SubSeq(rest, 1, b - a + 1) = SubSeq(t, a, b)
  BY <1>1, <1>3, <1>4, StartOfSubSeq
<1> QED
  BY <1>3, <1>6, <1>7

(* Fences that are only around a text go the same way in both parsers. *)
LEMMA MarkersGone ==
    ASSUME AnswerTyped, {i \in 1 .. Len(response) : response[i] = "fence"} \subseteq {1, Len(response)},
           WithoutFence(response) # <<>>
    PROVE  WithoutMarkers(response) = WithoutFence(response)
<1> DEFINE n == Len(response)
           kept == {i \in 1 .. n : response[i] # "fence"}
           lo == IF response[1] = "fence" THEN 2 ELSE 1
           hi == IF response[n] = "fence" THEN n - 1 ELSE n
           body == SubSeq(response, lo, n)
           fences == Positions(body, "fence")
<1>1. n \in Nat /\ response \in Seq(Tokens)
  BY LenProperties DEF AnswerTyped
<1>2. kept # {}
  <2> SUFFICES ASSUME kept = {} PROVE FALSE
    OBVIOUS
  <2>1. WithoutFence(response) = [k \in 1 .. 0 |-> response[Nth({}, k)]]
    BY FS_EmptySet DEF WithoutFence, Kept
  <2> QED
    BY <2>1
<1>3. \A i \in 2 .. n - 1 : i \in kept
  <2> SUFFICES ASSUME NEW i \in 2 .. n - 1, i \notin kept PROVE FALSE
    OBVIOUS
  <2>1. i \in {j \in 1 .. n : response[j] = "fence"}
    BY <1>1
  <2>2. i = 1 \/ i = n
    BY <2>1
  <2> QED
    BY <1>1, <2>2
<1>4. kept = lo .. hi
  <2>1. kept \subseteq lo .. hi
    BY <1>1
  <2>2. \A i \in lo .. hi : i \in kept
    <3> SUFFICES ASSUME NEW i \in lo .. hi PROVE i \in kept
      OBVIOUS
    <3>1. i \in 2 .. n - 1 \/ (i = 1 /\ response[1] # "fence") \/ (i = n /\ response[n] # "fence")
      BY <1>1
    <3>2. i \in 1 .. n
      BY <1>1
    <3> HIDE DEF lo, hi
    <3> QED
      BY <1>3, <3>1, <3>2
  <2> HIDE DEF kept
  <2> QED
    BY <2>1, <2>2
<1>5. lo \in 1 .. n /\ hi \in lo .. n /\ (hi = n \/ hi = n - 1)
  <2>1. PICK i \in kept : i \in lo .. hi
    BY <1>2, <1>4
  <2>2. lo <= i /\ i <= hi /\ i \in 1 .. n
    BY <2>1
  <2> QED
    BY <1>1, <2>2
<1>6. hi = n => response[n] # "fence"
  BY <1>1
<1>7. hi = n - 1 => response[n] = "fence"
  BY <1>1
<1>8. WithoutMarkers(response) = IF fences = {} THEN body ELSE SubSeq(body, 1, Rightmost(fences) - 1)
  <2>1. Leftmost(kept) = lo
    <3>1. kept \in SUBSET Nat /\ lo \in kept /\ \A y \in kept : lo <= y
      BY <1>1, <1>4, <1>5
    <3> HIDE DEF kept, lo
    <3> QED
      BY <3>1, LeftmostIs
  <2> HIDE DEF lo
  <2> QED
    BY <1>2, <2>1 DEF WithoutMarkers
<1>9. WithoutFence(response) = SubSeq(response, lo, hi)
  <2>1. WithoutFence(response) = Kept(response, lo .. hi)
    BY <1>4 DEF WithoutFence
  <2> HIDE DEF lo, hi, n
  <2> QED
    BY <1>1, <1>5, <2>1, KeptInterval DEF n
<1> HIDE DEF lo, hi
<1>10. /\ body \in Seq(Tokens) /\ Len(body) = n - lo + 1 /\ lo \in Nat
       /\ \A i \in 1 .. n - lo + 1 : body[i] = response[lo + i - 1]
  <2>1. n \in lo .. n
    BY <1>1, <1>5
  <2> QED
    BY <1>1, <1>5, <2>1, SubSeqIs
<1>11. \A i \in 1 .. n - lo + 1 : body[i] = "fence" <=> lo + i - 1 > hi
  <2> SUFFICES ASSUME NEW i \in 1 .. n - lo + 1 PROVE body[i] = "fence" <=> lo + i - 1 > hi
    OBVIOUS
  <2>1. lo + i - 1 \in lo .. n /\ lo + i - 1 \in 1 .. n
    BY <1>1, <1>5, <1>10
  <2>2. body[i] = "fence" <=> lo + i - 1 \notin kept
    BY <1>10, <2>1
  <2>3. lo + i - 1 \notin kept <=> lo + i - 1 > hi
    BY <1>1, <1>4, <1>5, <2>1
  <2> HIDE DEF kept, body
  <2> QED
    BY <2>2, <2>3
<1> HIDE DEF kept, body
<1>12. CASE hi = n
  <2>1. \A i \in 1 .. n - lo + 1 : ~(lo + i - 1 > hi)
    BY <1>1, <1>5, <1>12
  <2>2. fences = {}
    BY <1>10, <1>11, <2>1 DEF Positions
  <2> QED
    BY <1>8, <1>9, <1>12, <2>2 DEF body
<1>13. CASE hi = n - 1
  <2>1. ASSUME NEW i \in 1 .. n - lo + 1 PROVE lo + i - 1 > hi <=> i = n - lo + 1
    <3>1. n \in Int /\ lo \in Int /\ i \in Int /\ i <= n - lo + 1
      BY <1>1, <1>10
    <3> HIDE DEF n, fences
    <3> QED
      BY <1>13, <3>1
  <2>2. n - lo + 1 \in 1 .. n - lo + 1 /\ n - lo + 1 \in Nat
    BY <1>1, <1>5
  <2>3. fences = {n - lo + 1}
    BY <1>10, <1>11, <2>1, <2>2 DEF Positions
  <2>4. Rightmost(fences) = n - lo + 1
    <3> DEFINE m == n - lo + 1
    <3>1. fences \in SUBSET Nat /\ m \in fences /\ \A y \in fences : y <= m
      BY <2>2, <2>3
    <3> HIDE DEF m, fences
    <3>2. Rightmost(fences) = m
      BY <3>1, RightmostIs
    <3> QED
      BY <3>2 DEF m
  <2>5. (n - lo + 1) - 1 = hi - lo + 1
    BY <1>1, <1>5, <1>10, <1>13
  <2>6. SubSeq(SubSeq(response, lo, n), 1, hi - lo + 1) = SubSeq(response, lo, hi)
    <3>1. n \in lo .. Len(response) /\ hi \in lo .. n
      BY <1>1, <1>5
    <3> QED
      BY <1>1, <1>5, <3>1, StartOfSubSeq
  <2> HIDE DEF fences, n
  <2> QED
    BY <1>8, <1>9, <2>3, <2>4, <2>5, <2>6 DEF body
<1> QED
  BY <1>5, <1>12, <1>13

(* Without braces in strings, to count braces is to count those outside. *)
LEMMA BalancesThere ==
    ASSUME NEW T, NEW t \in Seq(T), NEW a \in 1 .. Len(t), NEW b \in a .. Len(t), ObjectAt(t, a, b),
           ~BraceInString(SubSeq(t, a, b)), NEW i \in a .. b
    PROVE  BracesBalance(t, a, i) <=> i \in ObjectEnds(t, a)
<1> DEFINE s == SubSeq(t, a, b)
<1>1. /\ s \in Seq(T) /\ Len(s) = b - a + 1 /\ a \in Nat /\ b \in Nat /\ i \in Nat /\ Len(t) \in Nat
      /\ \A j \in 1 .. b - a + 1 : s[j] = t[a + j - 1]
  BY SubSeqIs
<1>2. ASSUME NEW j \in a .. b, t[j] \in {"open", "close"} PROVE ~InString(t, a, j)
  <2>1. j - a + 1 \in 1 .. Len(s) /\ a + (j - a + 1) - 1 = j
    BY <1>1
  <2>2. s[j - a + 1] \in {"open", "close"}
    BY <1>1, <1>2, <2>1
  <2>3. j - a + 1 \in Structure(s)
    BY <2>1, <2>2 DEF BraceInString
  <2> QED
    BY <1>2, <2>3, StructureKnown
<1>3. ASSUME NEW brace \in {"open", "close"}
      PROVE  /\ {j \in a .. i : t[j] = brace} = Braces(t, a, i, brace)
             /\ Cardinality(Braces(t, a, i, brace)) \in Nat
  <2>1. \A j \in a .. i : j \in a .. b
    BY <1>1
  <2>2. {j \in a .. i : t[j] = brace} = Braces(t, a, i, brace)
    BY <1>2, <2>1 DEF Braces
  <2>3. IsFiniteSet(a .. i) /\ Braces(t, a, i, brace) \subseteq a .. i
    <3>1. a \in Int /\ i \in Int
      BY <1>1
    <3>2. IsFiniteSet(a .. i)
      BY <3>1, FS_Interval
    <3> QED
      BY <3>2 DEF Braces
  <2>4. Cardinality(Braces(t, a, i, brace)) \in Nat
    BY <2>3, FS_Subset, FS_CardinalityType
  <2> QED
    BY <2>2, <2>4
<1> DEFINE opens == Cardinality(Braces(t, a, i, "open"))
           closes == Cardinality(Braces(t, a, i, "close"))
<1>4. /\ opens \in Nat /\ closes \in Nat
      /\ Cardinality({j \in a .. i : t[j] = "open"}) = opens
      /\ Cardinality({j \in a .. i : t[j] = "close"}) = closes
  BY <1>3
<1>5. Depth(t, a, i) = opens - closes
  BY DEF Depth
<1> HIDE DEF opens, closes, s
<1>6. opens = closes <=> Depth(t, a, i) = 0
  BY <1>4, <1>5
<1>7. BracesBalance(t, a, i) <=> t[i] = "close" /\ Depth(t, a, i) = 0
  BY <1>4, <1>6 DEF BracesBalance
<1>8. i \in a .. Len(t)
  BY <1>1
<1>9. t[i] = "close" => ~InString(t, a, i)
  BY <1>2
<1> QED
  BY <1>7, <1>8, <1>9 DEF ObjectEnds

(* The native check accepts an object without escapes. *)
LEMMA ObjectIsValid ==
    ASSUME NEW T, NEW s \in Seq(T), ObjectAt(s, 1, Len(s))
    PROVE  IsValidJson(s)
<1> DEFINE n == Len(s)
           text == {i \in 1 .. n : s[i] # "newline"}
<1>1. SubSeq(s, 1, n) = s
  BY SubSeqFull
<1>2. IsObject(s)
  BY <1>1 DEF ObjectAt
<1>3. n \in Nat /\ 1 \in 1 .. n /\ n \in 1 .. n /\ s[1] = "open" /\ s[n] = "close" /\ s # <<>>
  BY <1>2, ObjectStarts DEF IsObject
<1>4. text \in SUBSET Nat /\ 1 \in text /\ n \in text /\ \A y \in text : 1 <= y /\ y <= n
  BY <1>3
<1> HIDE DEF text, n
<1>5. Leftmost(text) = 1 /\ Rightmost(text) = n
  BY <1>4, LeftmostIs, RightmostIs
<1>6. Trim(s) = s
  BY <1>1, <1>4, <1>5 DEF Trim, text, n
<1>7. Depth(s, 1, n) = Nesting(s, n)
  <2>1. Depth(s, 1, n) = Nesting(SubSeq(s, 1, n), n - 1 + 1)
    BY <1>3, DepthIsNesting DEF n
  <2>2. n - 1 + 1 = n
    BY <1>3
  <2> QED
    BY <1>1, <2>1, <2>2
<1>8. Nesting(s, n) = 0
  BY <1>2 DEF IsObject, n
<1> QED
  BY <1>3, <1>6, <1>7, <1>8 DEF IsValidJson, n

LEMMA ParsersDoAgree ==
    ASSUME AnswerTyped
    PROVE  ParsersAgree
<1> DEFINE t == WithoutFence(response)
           a == Leftmost(Positions(t, "open"))
           found == ExtractJson(response)
           ends == {i \in a .. Len(t) : BracesBalance(t, a, i)}
<1> SUFFICES ASSUME IsObject(found), ~BraceInString(found), Positions(found, "escape") = {},
                    {i \in 1 .. Len(response) : response[i] = "fence"} \subseteq {1, Len(response)}
             PROVE  ExtractJsonFromResponse(response) = found
  BY DEF ParsersAgree
<1>1. PICK T : t \in Seq(T)
  BY WithoutFenceIsSeq
<1>2. found # NotFound
  BY DEF IsObject, NotFound
<1>3. /\ Positions(t, "open") # {} /\ a \in 1 .. Len(t)
      /\ \E b \in a .. Len(t) :
            b \in ObjectEnds(t, a) /\ (\A i \in ObjectEnds(t, a) : b <= i) /\ found = SubSeq(t, a, b)
  BY <1>1, <1>2, ExtractedIs
<1>4. PICK b \in a .. Len(t) :
          b \in ObjectEnds(t, a) /\ (\A i \in ObjectEnds(t, a) : b <= i) /\ found = SubSeq(t, a, b)
  BY <1>3
<1>5. t # <<>>
  <2> SUFFICES ASSUME t = <<>> PROVE FALSE
    OBVIOUS
  <2>1. Len(t) = 0
    BY EmptySeq
  <2> HIDE DEF t, a
  <2> QED
    BY <1>3, <2>1
<1>6. WithoutMarkers(response) = t
  BY <1>5, MarkersGone
<1> HIDE DEF t, found
<1>7. found \in Seq(T) /\ Len(found) \in Nat /\ a \in Nat /\ b \in Nat /\ Len(t) \in Nat
  <2> HIDE DEF a
  <2> QED
    BY <1>1, <1>3, <1>4, SubSeqIs, LenProperties
<1>8. ~EndsInBackslash(found)
  <2> SUFFICES ASSUME NEW i \in 3 .. Len(found), found[i - 1] = "escape" PROVE FALSE
    BY DEF EndsInBackslash
  <2>1. i - 1 \in 1 .. Len(found)
    BY <1>7
  <2>2. i - 1 \in Positions(found, "escape")
    BY <2>1 DEF Positions
  <2> QED
    BY <2>2
<1>9. ObjectAt(t, a, b)
  BY <1>4, <1>8 DEF ObjectAt
<1>10. \A i \in a .. b : BracesBalance(t, a, i) <=> i \in ObjectEnds(t, a)
  <2> HIDE DEF a
  <2> QED
    BY <1>1, <1>3, <1>4, <1>9, BalancesThere
<1>11. b \in ends /\ ends # {} /\ ends \in SUBSET Nat
  <2> HIDE DEF a
  <2>1. b \in a .. b
    BY <1>4, <1>7
  <2> QED
    BY <1>4, <1>7, <1>10, <2>1
<1>12. \A i \in ends : b <= i
  <2> HIDE DEF a
  <2> SUFFICES ASSUME NEW i \in ends, i < b PROVE FALSE
    BY <1>7, <1>11
  <2>1. i \in a .. b
    BY <1>7, <1>11
  <2>2. i \in ObjectEnds(t, a)
    BY <1>10, <2>1
  <2> HIDE DEF ends
  <2> QED
    BY <1>4, <1>7, <1>11, <2>2
<1>13. Leftmost(ends) = b
  <2> HIDE DEF ends
  <2> QED
    BY <1>11, <1>12, LeftmostIs
<1>14. IsValidJson(found)
  <2>1. ObjectAt(found, 1, Len(found))
    <3>1. SubSeq(found, 1, Len(found)) = found
      BY <1>7, SubSeqFull
    <3> QED
      BY <1>8, <3>1 DEF ObjectAt
  <2> QED
    BY <1>7, <2>1, ObjectIsValid
<1>15. CleanDuplicateKeys(SubSeq(t, a, Leftmost(ends))) = found
  BY <1>4, <1>13 DEF CleanDuplicateKeys
<1>16. ExtractJsonFromResponse(response) =
           IF Positions(t, "open") = {} \/ ends = {}
                  \/ ~IsValidJson(CleanDuplicateKeys(SubSeq(t, a, Leftmost(ends))))
           THEN NotFound ELSE CleanDuplicateKeys(SubSeq(t, a, Leftmost(ends)))
  BY <1>6 DEF ExtractJsonFromResponse
<1> HIDE DEF a, ends
<1> QED
  BY <1>3, <1>11, <1>14, <1>15, <1>16

-------------------------------------------------------------------------------
(* Escaping *)
LEMMA EscapeIs ==
    ASSUME NEW V, Tokens \subseteq V, NEW token \in V
    PROVE  /\ Escape(token) \in Seq(V) /\ Len(Escape(token)) \in {1, 2}
           /\ Len(Escape(token)) = 1 =>
                 /\ token \notin {"quote", "escape", "newline"}
                 /\ Escape(token)[1] = token
           /\ Len(Escape(token)) = 2 =>
                 /\ Escape(token)[1] = "escape"
                 /\ Escape(token)[2] = IF token = "newline" THEN "char" ELSE token
<1>0. "escape" \in V /\ "char" \in V
  BY DEF Tokens
<1>1. CASE token \in {"quote", "escape"}
  <2>1. Escape(token) = <<"escape", token>> /\ token # "newline"
    BY <1>1 DEF Escape
  <2> QED
    BY <1>0, <2>1
<1>2. CASE token = "newline"
  <2>1. Escape(token) = <<"escape", "char">>
    BY <1>2 DEF Escape
  <2>2. <<"escape", "char">> \in Seq(V) /\ Len(<<"escape", "char">>) = 2
    BY <1>0
  <2>3. <<"escape", "char">>[1] = "escape" /\ <<"escape", "char">>[2] = "char"
    OBVIOUS
  <2> QED
    BY <1>2, <2>1, <2>2, <2>3
<1>3. CASE token \notin {"quote", "escape", "newline"}
  <2>1. Escape(token) = <<token>>
    BY <1>3 DEF Escape
  <2> QED
    BY <1>3, <2>1
<1> QED
  BY <1>1, <1>2, <1>3

LEMMA EscapingScan ==
    ASSUME NEW V, Tokens \subseteq V, NEW s \in Seq(V)
    PROVE  /\ Escaping(s)[0] = <<>>
           /\ \A i \in 0 .. Len(s) : Escaping(s)[i] \in Seq(V)
           /\ \A i \in 1 .. Len(s) : Escaping(s)[i] = Escaping(s)[i - 1] \o Escape(s[i])
<1> DEFINE n == Len(s)
           step == [p \in (1 .. n) \X Seq(V) |-> p[2] \o Escape(s[p[1]])]
           Result(f) == [i \in 0 .. Len(s) |-> IF i = 0 THEN <<>> ELSE f[i - 1] \o Escape(s[i])]
<1>1. n \in Nat /\ \A i \in 1 .. n : Escape(s[i]) \in Seq(V)
  BY LenProperties, ElementOfSeq, EscapeIs
<1>2. step \in [(1 .. n) \X Seq(V) -> Seq(V)]
  BY <1>1
<1>3. PICK f : IsScan(f, n, Seq(V), <<>>, step)
  <2>1. <<>> \in Seq(V) /\ IsStep(step, n, Seq(V))
    BY <1>2, EmptySeq DEF IsStep
  <2> HIDE DEF step, n
  <2> QED
    BY <1>1, <2>1, ScanExists, Zenon
<1>4. ASSUME NEW i \in 1 .. n PROVE f[i - 1] \in Seq(V) /\ f[i] = f[i - 1] \o Escape(s[i])
  <2>1. i - 1 \in 0 .. n
    BY <1>1
  <2>2. f[i - 1] \in Seq(V) /\ f[i] = step[<<i, f[i - 1]>>]
    BY <1>3, <2>1 DEF IsScan
  <2>3. step[<<i, f[i - 1]>>] = f[i - 1] \o Escape(s[i])
    BY <2>2
  <2> HIDE DEF step
  <2> QED
    BY <2>2, <2>3
<1>5. f = Result(f)
  <2>1. f \in [0 .. n -> Seq(V)] /\ f[0] = <<>>
    BY <1>3 DEF IsScan
  <2>2. \A i \in 0 .. n : f[i] = IF i = 0 THEN <<>> ELSE f[i - 1] \o Escape(s[i])
    <3> SUFFICES ASSUME NEW i \in 0 .. n
                 PROVE  f[i] = IF i = 0 THEN <<>> ELSE f[i - 1] \o Escape(s[i])
      OBVIOUS
    <3>1. CASE i = 0
      BY <2>1, <3>1
    <3>2. CASE i # 0
      <4>1. i \in 1 .. n
        BY <1>1, <3>2
      <4>2. f[i] = f[i - 1] \o Escape(s[i])
        BY <1>4, <4>1
      <4> QED
        BY <3>2, <4>2
    <3> QED
      BY <3>1, <3>2
  <2> QED
    BY <2>1, <2>2
<1> DEFINE E == Escaping(s)
<1>6. E = Result(E)
  <2> SUFFICES \E h : h = Result(h)
    BY Zenon DEF Escaping
  <2> QED
    BY <1>5
<1> HIDE DEF E
<1>7. E[0] = <<>> /\ \A i \in 1 .. n : E[i] = E[i - 1] \o Escape(s[i])
  BY <1>1, <1>6
<1> DEFINE S == {i \in 0 .. n : E[i] \in Seq(V)}
<1>8. 0 \in S
  <2>1. <<>> \in Seq(V)
    BY EmptySeq
  <2>2. E[0] \in Seq(V)
    BY <1>7, <2>1
  <2>3. 0 \in 0 .. n
    BY <1>1
  <2> HIDE DEF n
  <2> QED
    BY <2>2, <2>3
<1>9. ASSUME NEW i \in 0 .. n - 1, i \in S PROVE i + 1 \in S
  <2>1. i + 1 \in 1 .. n /\ (i + 1) - 1 = i /\ i + 1 \in 0 .. n
    BY <1>1
  <2>2. E[i + 1] = E[i] \o Escape(s[i + 1]) /\ Escape(s[i + 1]) \in Seq(V) /\ E[i] \in Seq(V)
    BY <1>1, <1>7, <1>9, <2>1
  <2>3. E[i + 1] \in Seq(V)
    BY <2>2, ConcatProperties
  <2> QED
    BY <2>1, <2>3
<1>10. 0 .. n \subseteq S
  <2> HIDE DEF S, n
  <2> QED
    BY <1>1, <1>8, <1>9, UpTo
<1> QED
  BY <1>7, <1>10 DEF E

(* What has been written stays: each token adds one or two at the end. *)
LEMMA EscapingGrows ==
    ASSUME NEW V, Tokens \subseteq V, NEW s \in Seq(V), NEW m \in 0 .. Len(s), NEW k \in 0 .. m
    PROVE  LET E == Escaping(s)
           IN  /\ Len(E[k]) \in Nat /\ Len(E[m]) \in Nat
               /\ k < m => Len(E[k]) < Len(E[m])
               /\ \A j \in 1 .. Len(E[k]) : j \in 1 .. Len(E[m]) /\ E[m][j] = E[k][j]
<1> DEFINE n == Len(s)
           E == Escaping(s)
           Kept1(i, l) == /\ i < l => Len(E[i]) < Len(E[l])
                          /\ \A j \in 1 .. Len(E[i]) : j \in 1 .. Len(E[l]) /\ E[l][j] = E[i][j]
           S == {l \in 0 .. n : \A i \in 0 .. l : Kept1(i, l)}
<1>1. n \in Nat
  BY LenProperties
<1>2. \A i \in 0 .. n : E[i] \in Seq(V) /\ Len(E[i]) \in Nat
  BY EscapingScan, LenProperties
<1>3. \A i \in 1 .. n : E[i] = E[i - 1] \o Escape(s[i])
  BY EscapingScan
<1> HIDE DEF E
<1>4. 0 \in S
  BY <1>1
<1>5. ASSUME NEW l \in 0 .. n - 1, l \in S PROVE l + 1 \in S
  <2>1. l + 1 \in 1 .. n /\ (l + 1) - 1 = l /\ l + 1 \in 0 .. n /\ l \in 0 .. n
    BY <1>1
  <2>2. E[l + 1] = E[l] \o Escape(s[l + 1])
    BY <1>3, <2>1
  <2>3. Escape(s[l + 1]) \in Seq(V) /\ Len(Escape(s[l + 1])) \in {1, 2}
    <3>1. s[l + 1] \in V
      BY <2>1, ElementOfSeq
    <3> QED
      BY <3>1, EscapeIs
  <2> DEFINE u == E[l]
             v == E[l + 1]
             w == Escape(s[l + 1])
  <2>4. /\ u \in Seq(V) /\ w \in Seq(V) /\ v = u \o w
        /\ Len(u) \in Nat /\ Len(v) \in Nat /\ Len(w) \in {1, 2}
    BY <1>2, <2>1, <2>2, <2>3
  <2> HIDE DEF u, v, w
  <2>5. /\ Len(v) = Len(u) + Len(w)
        /\ \A j \in 1 .. Len(u) + Len(w) : v[j] = IF j <= Len(u) THEN u[j] ELSE w[j - Len(u)]
    BY <2>4, ConcatProperties
  <2>6. Len(u) < Len(v) /\ \A j \in 1 .. Len(u) : j \in 1 .. Len(v) /\ v[j] = u[j]
    <3> DEFINE x == Len(u)
               y == Len(w)
    <3>1. x \in Nat /\ y \in {1, 2} /\ Len(v) = x + y
      BY <2>4, <2>5
    <3>2. \A j \in 1 .. x + y : v[j] = IF j <= x THEN u[j] ELSE w[j - x]
      BY <2>5
    <3> HIDE DEF x, y
    <3>3. x < x + y /\ \A j \in 1 .. x : j \in 1 .. x + y /\ v[j] = u[j]
      BY <3>1, <3>2
    <3> QED
      BY <3>1, <3>3 DEF x
  <2>7. ASSUME NEW i \in 0 .. l + 1 PROVE Kept1(i, l + 1)
    <3>1. CASE i = l + 1
      <4>1. \A j \in 1 .. Len(v) : j \in 1 .. Len(v) /\ v[j] = v[j]
        OBVIOUS
      <4>2. ~(i < l + 1)
        BY <3>1, <2>1
      <4> QED
        BY <3>1, <4>1, <4>2 DEF v
    <3>2. CASE i # l + 1
      <4>1. i \in 0 .. l /\ i \in 0 .. n /\ (i < l \/ i = l)
        BY <3>2, <1>1, <2>1
      <4> DEFINE z == E[i]
      <4>2. /\ Len(z) \in Nat /\ (i < l => Len(z) < Len(u))
            /\ \A j \in 1 .. Len(z) : j \in 1 .. Len(u) /\ u[j] = z[j]
        BY <1>2, <1>5, <4>1 DEF u
      <4>3. i = l => z = u
        BY DEF u
      <4> HIDE DEF z
      <4>4. Len(z) < Len(v)
        BY <2>4, <2>6, <4>1, <4>2, <4>3
      <4>5. \A j \in 1 .. Len(z) : j \in 1 .. Len(v) /\ v[j] = z[j]
        BY <2>6, <4>2
      <4> QED
        BY <4>4, <4>5 DEF v, z
    <3> QED
      BY <3>1, <3>2
  <2> HIDE DEF Kept1
  <2> QED
    BY <2>1, <2>7
<1>6. 0 .. n \subseteq S
  <2> HIDE DEF S, n
  <2> QED
    BY <1>1, <1>4, <1>5, UpTo
<1>7. m \in 0 .. n /\ k \in 0 .. n
  BY <1>1
<1>8. Kept1(k, m)
  BY <1>6, <1>7
<1> QED
  BY <1>2, <1>7, <1>8 DEF E

Quoted(s) == <<"quote">> \o EscapeJson(s) \o <<"quote">>

(* Where the k-th token ends in it. *)
End(s, k) == Len(Escaping(s)[k]) + 1

LEMMA QuotedIs ==
    ASSUME NEW V, Tokens \subseteq V, NEW s \in Seq(V)
    PROVE  /\ Quoted(s) \in Seq(V) /\ Len(Quoted(s)) = End(s, Len(s)) + 1
           /\ Quoted(s)[1] = "quote" /\ Quoted(s)[Len(Quoted(s))] = "quote"
           /\ \A j \in 1 .. Len(Escaping(s)[Len(s)]) : Quoted(s)[j + 1] = Escaping(s)[Len(s)][j]
<1> DEFINE X == EscapeJson(s)
           q == <<"quote">>
           u == q \o X
           Q == u \o q
<1>1. Len(s) \in Nat /\ Len(s) \in 0 .. Len(s)
  BY LenProperties
<1>2. X = Escaping(s)[Len(s)] /\ X \in Seq(V) /\ Len(X) \in Nat
  BY <1>1, EscapingScan, LenProperties DEF EscapeJson
<1>3. q \in Seq(V) /\ Len(q) = 1 /\ q[1] = "quote"
  BY DEF Tokens
<1> HIDE DEF X, q
<1>4. /\ u \in Seq(V) /\ Len(u) = 1 + Len(X)
      /\ \A i \in 1 .. 1 + Len(X) : u[i] = IF i <= 1 THEN q[i] ELSE X[i - 1]
  BY <1>2, <1>3, ConcatProperties
<1> HIDE DEF u
<1>5. /\ Q \in Seq(V) /\ Len(Q) = Len(u) + 1
      /\ \A i \in 1 .. Len(u) + 1 : Q[i] = IF i <= Len(u) THEN u[i] ELSE q[i - Len(u)]
  <2>1. u \in Seq(V) /\ q \in Seq(V)
    BY <1>3, <1>4
  <2>2. /\ u \o q \in Seq(V) /\ Len(u \o q) = Len(u) + Len(q)
        /\ \A i \in 1 .. Len(u) + Len(q) :
              (u \o q)[i] = IF i <= Len(u) THEN u[i] ELSE q[i - Len(u)]
    BY <2>1, ConcatProperties, Zenon
  <2> QED
    BY <1>3, <2>2, Zenon
<1> DEFINE x == Len(X)
           c == Len(u)
<1>6. x \in Nat /\ c = 1 + x
  BY <1>2, <1>4
<1>7. /\ \A i \in 1 .. 1 + x : u[i] = IF i <= 1 THEN q[i] ELSE X[i - 1]
      /\ \A i \in 1 .. c + 1 : Q[i] = IF i <= c THEN u[i] ELSE q[i - c]
  BY <1>4, <1>5
<1>8. Len(Q) = x + 2
  BY <1>5, <1>6
<1> HIDE DEF x, c, Q
<1>9. Q[1] = "quote"
  BY <1>3, <1>6, <1>7
<1>10. Q[x + 2] = "quote"
  BY <1>3, <1>6, <1>7
<1>11. \A j \in 1 .. x : Q[j + 1] = X[j]
  <2> SUFFICES ASSUME NEW j \in 1 .. x PROVE Q[j + 1] = X[j]
    OBVIOUS
  <2>1. j + 1 \in 1 .. c /\ j + 1 \in 1 .. c + 1 /\ j + 1 \in 1 .. 1 + x /\ (j + 1) - 1 = j /\ ~(j + 1 <= 1)
    BY <1>6
  <2> QED
    BY <1>6, <1>7, <2>1
<1>12. Quoted(s) = Q
  BY DEF Quoted, Q, u, q, X
<1>13. End(s, Len(s)) + 1 = x + 2
  BY <1>2, <1>6 DEF End, x
<1> QED
  BY <1>2, <1>5, <1>8, <1>9, <1>10, <1>11, <1>12, <1>13 DEF x

LEMMA EndsGrow ==
    ASSUME NEW V, Tokens \subseteq V, NEW s \in Seq(V), NEW m \in 0 .. Len(s), NEW k \in 0 .. m
    PROVE  /\ End(s, k) \in Nat \ {0} /\ End(s, m) \in Nat /\ End(s, 0) = 1
           /\ k < m => End(s, k) < End(s, m)
<1>1. Len(s) \in Nat
  BY LenProperties
<1>2. /\ Len(Escaping(s)[k]) \in Nat /\ Len(Escaping(s)[m]) \in Nat
      /\ k < m => Len(Escaping(s)[k]) < Len(Escaping(s)[m])
  BY EscapingGrows
<1>3. Len(Escaping(s)[0]) = 0
  BY EscapingScan, EmptySeq
<1> QED
  BY <1>2, <1>3 DEF End

(* After the first k tokens the next one stands there, escaped. *)
LEMMA QuotedPieces ==
    ASSUME NEW V, Tokens \subseteq V, NEW s \in Seq(V), NEW k \in 0 .. Len(s) - 1
    PROVE  /\ End(s, k + 1) = End(s, k) + Len(Escape(s[k + 1]))
           /\ \A j \in 1 .. Len(Escape(s[k + 1])) :
                 Quoted(s)[End(s, k) + j] = Escape(s[k + 1])[j]
<1> DEFINE u == Escaping(s)[k]
           v == Escaping(s)[k + 1]
           w == Escape(s[k + 1])
           X == Escaping(s)[Len(s)]
<1>1. /\ Len(s) \in Nat /\ k + 1 \in 1 .. Len(s) /\ (k + 1) - 1 = k /\ k \in 0 .. Len(s)
      /\ k + 1 \in 0 .. Len(s) /\ Len(s) \in 0 .. Len(s)
  BY LenProperties
<1>2. u \in Seq(V) /\ v = u \o w /\ w \in Seq(V) /\ Len(u) \in Nat /\ Len(w) \in Nat
  <2>1. s[k + 1] \in V
    BY <1>1, ElementOfSeq
  <2>2. w \in Seq(V)
    BY <2>1, EscapeIs
  <2>3. u \in Seq(V) /\ v = u \o w
    BY <1>1, EscapingScan
  <2> HIDE DEF u, v, w
  <2> QED
    BY <2>2, <2>3, LenProperties
<1>3. \A j \in 1 .. Len(v) : j \in 1 .. Len(X) /\ X[j] = v[j]
  BY <1>1, EscapingGrows
<1>4. \A j \in 1 .. Len(X) : Quoted(s)[j + 1] = X[j]
  BY QuotedIs
<1> HIDE DEF u, v, w, X
<1>5. /\ Len(v) = Len(u) + Len(w)
      /\ \A j \in 1 .. Len(u) + Len(w) : v[j] = IF j <= Len(u) THEN u[j] ELSE w[j - Len(u)]
  BY <1>2, ConcatProperties
<1> DEFINE x == Len(u)
           y == Len(w)
<1>6. x \in Nat /\ y \in Nat /\ Len(v) = x + y
  BY <1>2, <1>5
<1>7. \A j \in 1 .. x + y : v[j] = IF j <= x THEN u[j] ELSE w[j - x]
  BY <1>5
<1>8. \A j \in 1 .. x + y : j \in 1 .. Len(X) /\ X[j] = v[j]
  BY <1>3, <1>6
<1>9. End(s, k) = x + 1 /\ End(s, k + 1) = (x + y) + 1
  BY <1>6 DEF End, x, u, v
<1> HIDE DEF x, y
<1>10. ASSUME NEW j \in 1 .. y PROVE Quoted(s)[(x + 1) + j] = w[j]
  <2>1. x + j \in 1 .. x + y /\ ~(x + j <= x) /\ (x + j) - x = j /\ (x + 1) + j = (x + j) + 1
    BY <1>6
  <2>2. X[x + j] = w[j]
    BY <1>7, <1>8, <2>1
  <2>3. Quoted(s)[(x + j) + 1] = X[x + j]
    BY <1>4, <1>8, <2>1
  <2> QED
    BY <2>1, <2>2, <2>3
<1>11. (x + y) + 1 = (x + 1) + y
  BY <1>6
<1> QED
  BY <1>9, <1>10, <1>11 DEF y, w

(* The part that a token becomes: read in a string, it leaves the string open, *)
(* and all of it but its last token is taken by a backslash.                   *)
LEMMA PieceIsRead ==
    ASSUME NEW V, Tokens \subseteq V, NEW s \in Seq(V), NEW k \in 0 .. Len(s) - 1,
           Modes(Quoted(s))[End(s, k)] = "string"
    PROVE  /\ Modes(Quoted(s))[End(s, k + 1)] = "string"
           /\ \A j \in End(s, k) + 1 .. End(s, k + 1) :
                 /\ Modes(Quoted(s))[j] # "text" /\ Quoted(s)[j] # "newline"
                 /\ Modes(Quoted(s))[j] # "taken" <=> j = End(s, k + 1)
           /\ Quoted(s)[End(s, k + 1)] = IF s[k + 1] = "newline" THEN "char" ELSE s[k + 1]
<1> DEFINE Q == Quoted(s)
           M == Modes(Q)
           a == End(s, k)
           b == End(s, k + 1)
           w == Escape(s[k + 1])
           token == s[k + 1]
           c == Len(w)
<1>1. Len(s) \in Nat /\ k + 1 \in 1 .. Len(s) /\ k + 1 \in 0 .. Len(s) /\ k \in 0 .. k + 1
      /\ Len(s) \in 0 .. Len(s) /\ k + 1 \in 0 .. Len(s)
  BY LenProperties
<1>2. a \in Nat \ {0} /\ b \in Nat
  BY <1>1, EndsGrow
<1>3. b <= End(s, Len(s)) /\ End(s, Len(s)) \in Nat
  <2>1. End(s, Len(s)) \in Nat /\ (k + 1 < Len(s) => b < End(s, Len(s)))
    BY <1>1, EndsGrow
  <2>2. CASE k + 1 = Len(s)
    BY <1>2, <2>1, <2>2
  <2>3. CASE k + 1 < Len(s)
    BY <1>2, <2>1, <2>3
  <2> QED
    BY <1>1, <2>1, <2>2, <2>3
<1>4. token \in V
  BY <1>1, ElementOfSeq
<1>5. b = a + c /\ \A j \in 1 .. c : Q[a + j] = w[j]
  BY QuotedPieces
<1>6. /\ c \in {1, 2}
      /\ c = 1 => token \notin {"quote", "escape", "newline"} /\ w[1] = token
      /\ c = 2 => w[1] = "escape" /\ w[2] = IF token = "newline" THEN "char" ELSE token
  BY <1>4, EscapeIs
<1>7. Q \in Seq(V) /\ Len(Q) = End(s, Len(s)) + 1
  BY QuotedIs
<1>8. /\ M \in [0 .. Len(Q) -> ModeSet]
      /\ \A i \in 1 .. Len(Q) : M[i] = ModeAfter(M[i - 1], Q[i])
  BY <1>7, ModesScan
<1>9. M[a] = "string" /\ "string" \in ModeSet /\ "taken" \in ModeSet
  BY DEF ModeSet
<1>10. 1 .. b \subseteq 1 .. Len(Q)
  BY <1>2, <1>3, <1>7
<1>11. SUFFICES /\ M[b] = "string"
                /\ \A j \in a + 1 .. b :
                      M[j] # "text" /\ Q[j] # "newline" /\ (M[j] # "taken" <=> j = b)
                /\ Q[b] = IF token = "newline" THEN "char" ELSE token
  OBVIOUS
<1> HIDE DEF Q, M, a, b, w, token, c
<1>12. a + 1 \in 1 .. b /\ (a + 1) - 1 = a
  BY <1>2, <1>5, <1>6
<1>13. M[a + 1] = ModeAfter("string", Q[a + 1])
  <2>1. M[a + 1] = ModeAfter(M[a], Q[a + 1])
    BY <1>8, <1>10, <1>12
  <2> QED
    BY <1>9, <2>1
<1>14. CASE c = 1
  <2>1. b = a + 1 /\ \A j \in a + 1 .. b : j = b
    BY <1>2, <1>5, <1>14
  <2>2. Q[a + 1] = token
    BY <1>5, <1>6, <1>14
  <2>3. M[a + 1] = "string"
    BY <1>6, <1>9, <1>13, <1>14, <2>2, ModeAfterIs
  <2> QED
    BY <1>6, <1>14, <2>1, <2>2, <2>3
<1>15. CASE c = 2
  <2>1. /\ b = a + 2 /\ \A j \in a + 1 .. b : j = a + 1 \/ j = a + 2
        /\ a + 1 # a + 2 /\ a + 2 \in 1 .. b /\ (a + 2) - 1 = a + 1
    BY <1>2, <1>5, <1>15
  <2>2. Q[a + 1] = "escape" /\ Q[a + 2] = IF token = "newline" THEN "char" ELSE token
    BY <1>5, <1>6, <1>15
  <2>3. M[a + 1] = "taken"
    BY <1>9, <1>13, <2>2, ModeAfterIs
  <2>4. M[a + 2] = ModeAfter(M[a + 1], Q[a + 2])
    BY <1>8, <1>10, <2>1
  <2>5. M[a + 2] = "string"
    BY <1>9, <2>3, <2>4, ModeAfterIs
  <2>6. Q[a + 1] # "newline" /\ Q[a + 2] # "newline"
    BY <2>2
  <2> QED
    BY <2>1, <2>2, <2>3, <2>5, <2>6
<1> QED
  BY <1>6, <1>14, <1>15

(* So the string stays open to the quote that was put behind it. *)
LEMMA QuotedModes ==
    ASSUME NEW V, Tokens \subseteq V, NEW s \in Seq(V)
    PROVE  /\ Modes(Quoted(s))[End(s, Len(s))] = "string"
           /\ \A j \in 2 .. End(s, Len(s)) :
                 /\ Modes(Quoted(s))[j] # "text" /\ Quoted(s)[j] # "newline"
                 /\ Modes(Quoted(s))[j] # "taken" <=> \E m \in 1 .. Len(s) : j = End(s, m)
           /\ \A k \in 1 .. Len(s) :
                 Quoted(s)[End(s, k)] = IF s[k] = "newline" THEN "char" ELSE s[k]
<1> DEFINE Q == Quoted(s)
           M == Modes(Q)
           n == Len(s)
           Read(k) == /\ M[End(s, k)] = "string"
                      /\ \A j \in 2 .. End(s, k) :
                            /\ M[j] # "text" /\ Q[j] # "newline"
                            /\ M[j] # "taken" <=> \E m \in 1 .. k : j = End(s, m)
                      /\ \A m \in 1 .. k :
                            Q[End(s, m)] = IF s[m] = "newline" THEN "char" ELSE s[m]
           S == {k \in 0 .. n : Read(k)}
<1>1. n \in Nat /\ 0 \in 0 .. n /\ n \in 0 .. n /\ 0 \in 0 .. 0
  BY LenProperties
<1>2. 0 \in S
  <2>1. End(s, 0) = 1
    BY <1>1, EndsGrow
  <2>2. Q \in Seq(V) /\ Len(Q) = End(s, n) + 1 /\ Q[1] = "quote" /\ End(s, n) \in Nat
    BY <1>1, QuotedIs, EndsGrow
  <2>3. M[0] = "text" /\ \A i \in 1 .. Len(Q) : M[i] = ModeAfter(M[i - 1], Q[i])
    BY <2>2, ModesScan
  <2> HIDE DEF Q, M
  <2>4. 1 \in 1 .. Len(Q) /\ 1 - 1 = 0
    BY <2>2
  <2>5. M[1] = ModeAfter("text", "quote")
    BY <2>2, <2>3, <2>4
  <2>6. M[1] = "string"
    <3>1. "text" \in ModeSet
      BY DEF ModeSet
    <3> QED
      BY <2>5, <3>1, ModeAfterIs
  <2> QED
    BY <1>1, <2>1, <2>6
<1>3. ASSUME NEW k \in 0 .. n - 1, k \in S PROVE k + 1 \in S
  <2>1. Read(k)
    BY <1>3
  <2>2. /\ M[End(s, k + 1)] = "string"
        /\ \A j \in End(s, k) + 1 .. End(s, k + 1) :
              M[j] # "text" /\ Q[j] # "newline" /\ (M[j] # "taken" <=> j = End(s, k + 1))
        /\ Q[End(s, k + 1)] = IF s[k + 1] = "newline" THEN "char" ELSE s[k + 1]
    BY <2>1, PieceIsRead
  <2> HIDE DEF Q, M
  <2>3. k + 1 \in 0 .. n /\ k \in 0 .. n /\ k \in 0 .. k + 1 /\ k + 1 \in 1 .. k + 1 /\ k < k + 1
    BY <1>1
  <2>4. /\ End(s, k) \in Nat /\ End(s, k + 1) \in Nat /\ End(s, k) < End(s, k + 1)
    BY <1>1, <2>3, EndsGrow
  <2>5. ASSUME NEW m \in 1 .. k PROVE End(s, m) \in Nat /\ End(s, m) <= End(s, k)
    <3>1. m \in 0 .. k /\ (m < k \/ m = k)
      BY <1>1
    <3>2. End(s, m) \in Nat /\ (m < k => End(s, m) < End(s, k))
      BY <2>3, <3>1, EndsGrow
    <3> QED
      BY <2>4, <3>1, <3>2
  <2>6. \A m \in 1 .. k + 1 : m \in 1 .. k \/ m = k + 1
    BY <1>1
  <2>7. 1 .. k \subseteq 1 .. k + 1
    BY <1>1
  <2>8. ASSUME NEW j \in 2 .. End(s, k + 1)
        PROVE  /\ M[j] # "text" /\ Q[j] # "newline"
               /\ M[j] # "taken" <=> \E m \in 1 .. k + 1 : j = End(s, m)
    <3>1. CASE j <= End(s, k)
      <4>1. j \in 2 .. End(s, k) /\ j # End(s, k + 1)
        BY <2>4, <3>1
      <4> QED
        BY <2>1, <2>6, <2>7, <4>1
    <3>2. CASE ~(j <= End(s, k))
      <4>1. j \in End(s, k) + 1 .. End(s, k + 1)
        BY <2>4, <3>2
      <4>2. \A m \in 1 .. k : j # End(s, m)
        BY <2>4, <2>5, <3>2
      <4> QED
        BY <2>2, <2>3, <2>6, <4>1, <4>2
    <3> QED
      BY <3>1, <3>2
  <2>9. ASSUME NEW m \in 1 .. k + 1
        PROVE  Q[End(s, m)] = IF s[m] = "newline" THEN "char" ELSE s[m]
    BY <2>1, <2>2, <2>6
  <2>10. Read(k + 1)
    BY <2>2, <2>8, <2>9
  <2> QED
    BY <2>3, <2>10
<1>4. 0 .. n \subseteq S
  <2> HIDE DEF S, n
  <2> QED
    BY <1>1, <1>2, <1>3, UpTo
<1>5. Read(n)
  BY <1>1, <1>4
<1> QED
  BY <1>5

LEMMA QuotedReads ==
    ASSUME NEW V, Tokens \subseteq V, NEW s \in Seq(V)
    PROVE  LET quoted == Quoted(s)
               inside == 2 .. Len(quoted) - 1
               read == {i \in inside : Modes(quoted)[i] # "taken"}
           IN  /\ \A i \in inside : Modes(quoted)[i] # "text" /\ quoted[i] # "newline"
               /\ Modes(quoted)[Len(quoted)] = "text"
               /\ Kept(quoted, read)
                     = [k \in 1 .. Len(s) |-> IF s[k] = "newline" THEN "char" ELSE s[k]]
<1> DEFINE n == Len(s)
           quoted == Quoted(s)
           M == Modes(quoted)
           last == End(s, n)
           inside == 2 .. Len(quoted) - 1
           read == {i \in inside : M[i] # "taken"}
           e == [k \in 1 .. n |-> End(s, k)]
<1>3. n \in Nat /\ n \in 0 .. n
  BY LenProperties
<1>4. last \in Nat \ {0}
  BY <1>3, EndsGrow
<1>5. quoted \in Seq(V) /\ Len(quoted) = last + 1 /\ quoted[Len(quoted)] = "quote"
  BY QuotedIs
<1>6. inside = 2 .. last
  BY <1>4, <1>5
<1>7. /\ M[last] = "string"
      /\ \A j \in 2 .. last : /\ M[j] # "text" /\ quoted[j] # "newline"
                              /\ M[j] # "taken" <=> \E m \in 1 .. n : j = End(s, m)
      /\ \A k \in 1 .. n : quoted[End(s, k)] = IF s[k] = "newline" THEN "char" ELSE s[k]
  BY QuotedModes
<1>8. M[Len(quoted)] = "text"
  <2>1. \A i \in 1 .. Len(quoted) : M[i] = ModeAfter(M[i - 1], quoted[i])
    BY <1>5, ModesScan
  <2> HIDE DEF M, quoted, last
  <2>2. Len(quoted) \in 1 .. Len(quoted) /\ Len(quoted) - 1 = last
    BY <1>4, <1>5
  <2>3. M[Len(quoted)] = ModeAfter("string", "quote")
    BY <1>5, <1>7, <2>1, <2>2
  <2>4. "string" \in ModeSet
    BY DEF ModeSet
  <2> QED
    BY <2>3, <2>4, ModeAfterIs
<1>9. ASSUME NEW k \in 1 .. n PROVE End(s, k) \in 2 .. last
  <2>1. k \in 0 .. n /\ 0 \in 0 .. k /\ 0 < k /\ (k < n \/ k = n)
    BY <1>3
  <2>2. End(s, k) \in Nat /\ End(s, 0) = 1 /\ End(s, 0) < End(s, k)
    BY <2>1, EndsGrow
  <2>3. k < n => End(s, k) < last
    BY <1>3, <2>1, EndsGrow
  <2> HIDE DEF n, last
  <2>4. End(s, k) <= last
    BY <1>4, <2>1, <2>2, <2>3 DEF last
  <2> QED
    BY <1>4, <2>2, <2>4
<1>10. Enumerates(e, n, read)
  <2>1. \A k \in 1 .. n : e[k] \in read
    BY <1>6, <1>7, <1>9
  <2>2. \A i \in read : \E k \in 1 .. n : i = e[k]
    BY <1>6, <1>7
  <2>3. ASSUME NEW j \in 1 .. n, NEW k \in 1 .. n, j < k PROVE e[j] < e[k]
    <3>1. j \in 0 .. k /\ k \in 0 .. n
      BY <1>3, <2>3
    <3>2. End(s, j) < End(s, k)
      BY <2>3, <3>1, EndsGrow
    <3> QED
      BY <3>2
  <2> HIDE DEF e, read
  <2> QED
    BY <2>1, <2>2, <2>3 DEF Enumerates
<1>11. read \in SUBSET Nat
  BY <1>4, <1>6
<1>12. Kept(quoted, read) = TokensAt(quoted, e, n)
  <2>1. read \in SUBSET Nat /\ Enumerates(e, n, read) /\ n \in Nat
    BY <1>3, <1>10, <1>11
  <2> HIDE DEF e, read, n, quoted
  <2> QED
    BY <2>1, KeptAre
<1>13. TokensAt(quoted, e, n)
          = [k \in 1 .. n |-> IF s[k] = "newline" THEN "char" ELSE s[k]]
  <2> HIDE DEF quoted, n
  <2> QED
    BY <1>7 DEF TokensAt
<1>14. \A i \in inside : M[i] # "text" /\ quoted[i] # "newline"
  BY <1>6, <1>7
<1> QED
  BY <1>8, <1>12, <1>13, <1>14

LEMMA EscapedReads ==
    ASSUME AnswerTyped
    PROVE  EscapedIsOneString
<1> DEFINE s == WithoutFence(response)
<1>1. PICK T : s \in Seq(T)
  BY WithoutFenceIsSeq
<1> DEFINE V == T \cup Tokens
<1>2. s \in Seq(V) /\ Tokens \subseteq V
  BY <1>1, SeqMonotonic
<1> HIDE DEF V, s
<1> QED
  BY <1>2, QuotedReads DEF EscapedIsOneString, Quoted, s

(***************************************************************************)
(* For answers of any length, cut off anywhere: the parser of the          *)
(* application (LlmResultParser._extractJson) takes the object at the      *)
(* first brace, all of it, and no part of one that has no end; the native  *)
(* parser finds the same one; and what escapeJson puts into quotes is one  *)
(* string that reads as the text it was.                                   *)
(***************************************************************************)
THEOREM AnswersAreRead == Spec => []ParserIsExact
<1>1. Init => AnswerTyped
  BY EmptySeq DEF Init, AnswerTyped
<1>2. AnswerTyped /\ [Next]_vars => AnswerTyped'
  <2> SUFFICES ASSUME response \in Seq(Tokens), [Next]_vars PROVE response' \in Seq(Tokens)
    BY DEF AnswerTyped
  <2>1. CASE WriteToken
    BY <2>1, AppendProperties DEF WriteToken
  <2>2. CASE WriteByte \/ CreateTensor \/ SetDimension \/ UNCHANGED vars
    BY <2>2 DEF WriteByte, CreateTensor, SetDimension, vars
  <2> QED
    BY <2>1, <2>2 DEF Next
<1>3. AnswerTyped => ParserIsExact
  BY ObjectsFound, NoPartTaken, ParsersDoAgree, EscapedReads DEF ParserIsExact
<1> QED
  BY <1>1, <1>2, <1>3, PTL DEF Spec
================================================================================
