---------------------------------- MODULE Utf8 ----------------------------------
(***************************************************************************)
(* The text that native code hands to JNI, as a sequence of the classes of *)
(* its bytes: what sanitizeUtf8 of mnn-jni.cpp makes of it, and what the   *)
(* fixed buffers of the log macros and of the preview of a response cut    *)
(* off.                                                                    *)
(***************************************************************************)
EXTENDS Naturals, Sequences

(* "space" is the blank a bad byte becomes; "bad" starts no character. *)
Bytes == {"ascii", "continuation", "lead2", "lead3", "lead4", "bad"}

(* The length of the character that a byte starts, 0 when it starts none. *)
CharLength(b) ==
    CASE b \in {"ascii", "space"} -> 1
      [] b = "lead2" -> 2
      [] b = "lead3" -> 3
      [] b = "lead4" -> 4
      [] OTHER -> 0

(* The tests of the loop: a start byte, enough bytes, and continuations. *)
CompleteAt(s, i) ==
    LET n == CharLength(s[i])
    IN  /\ n > 0
        /\ i + n - 1 <= Len(s)
        /\ \A j \in i + 1 .. i + n - 1 : s[j] = "continuation"

(* A bug: all the bytes an incomplete character announces are skipped. *)
SanitizeUtf8Skipping(s) ==
    LET from[i \in Nat \ {0}] ==
            IF i > Len(s) THEN <<>>
            ELSE LET n == CharLength(s[i])
                 IN  IF CompleteAt(s, i)
                     THEN SubSeq(s, i, i + n - 1) \o from[i + n]
                     ELSE <<"space">> \o from[i + (IF n = 0 THEN 1 ELSE n)]
    IN  from[1]

(* The loop: what it makes of the text from byte i on. *)
Sanitized(s) ==
    LET from[i \in Nat \ {0}] ==
            IF i > Len(s) THEN <<>>
            ELSE IF CompleteAt(s, i)
            THEN LET n == CharLength(s[i]) IN SubSeq(s, i, i + n - 1) \o from[i + n]
            ELSE <<"space">> \o from[i + 1]
    IN  from

SanitizeUtf8(s) == Sanitized(s)[1]

(* snprintf into a buffer, and substr: the first n bytes, wherever they end. *)
Cut(s, n) == IF n < Len(s) THEN SubSeq(s, 1, n) ELSE s

-------------------------------------------------------------------------------
(* The reference: UTF-8 by its characters, not by a scan. *)

CharactersOf(s) ==
    {c \in (1 .. Len(s)) \X (1 .. 4) :
        LET last == c[1] + c[2] - 1
        IN  /\ CharLength(s[c[1]]) = c[2]
            /\ last <= Len(s)
            /\ \A j \in c[1] + 1 .. last : s[j] = "continuation"}

InCharacter(s, k) == \E c \in CharactersOf(s) : k \in c[1] .. c[1] + c[2] - 1

WellFormed(s) == \A k \in 1 .. Len(s) : InCharacter(s, k)

Repaired(s) == [k \in 1 .. Len(s) |-> IF InCharacter(s, k) THEN s[k] ELSE "space"]
================================================================================
