------------------------------- MODULE NativeData -------------------------------
(***************************************************************************)
(* Data at the native boundary.  The model's answer grows by a token at a  *)
(* time, and may end anywhere (maxTokens); a line for JNI grows by a byte; *)
(* a tensor is created and its dimensions are set one by one.  The         *)
(* properties say what the code makes of every value that arises.          *)
(***************************************************************************)
EXTENDS Utf8, ResponseJson, MnnTensor, FiniteSets

CONSTANTS
    MaxTokens,      \* bound on the length of an answer
    MaxBytes,       \* bound on the length of a line
    Lengths,        \* what the dimensions of a tensor are chosen from
    NoTensor        \* no tensor has been created

ASSUME BoundsAssumption ==
    /\ MaxTokens \in Nat /\ MaxBytes \in Nat
    /\ Lengths \subseteq Nat \ {0}

VARIABLES
    response,       \* the stream that Llm::response writes to
    line,           \* the bytes of a line for NewStringUTF
    tensor          \* a tensor, or NoTensor

vars == <<response, line, tensor>>

Init == response = <<>> /\ line = <<>> /\ tensor = NoTensor

NoText == response = <<>> /\ line = <<>>

WriteToken ==
    /\ line = <<>> /\ tensor = NoTensor /\ Len(response) < MaxTokens
    /\ \E t \in Tokens : response' = Append(response, t)
    /\ UNCHANGED <<line, tensor>>

WriteByte ==
    /\ response = <<>> /\ tensor = NoTensor /\ Len(line) < MaxBytes
    /\ \E b \in Bytes : line' = Append(line, b)
    /\ UNCHANGED <<response, tensor>>

CreateTensor ==
    /\ NoText /\ tensor = NoTensor
    /\ \E shape \in [1 .. 4 -> Lengths], c \in CTypes, d \in DimensionTypes :
          \/ tensor' = DeviceTensor(shape, c, d)
          \/ \E data \in {Null, "given"} : tensor' = HostTensor(shape, c, data, d)
    /\ UNCHANGED <<response, line>>

SetDimension ==
    /\ tensor # NoTensor
    /\ \E i \in 0 .. 3, n \in Lengths :
          tensor' \in {WithLength(tensor, i, n), WithStride(tensor, i, n)}
    /\ UNCHANGED <<response, line>>

(* The kinds of data do not meet: each is looked at alone. *)
Next == WriteToken \/ WriteByte \/ CreateTensor \/ SetDimension

Spec == Init /\ [][Next]_vars

-------------------------------------------------------------------------------

(* A well-formed line that a buffer or the preview of a response cuts off  *)
(* anywhere: the characters before the cut are kept, the split one blanked. *)
CutIsRepaired ==
    WellFormed(line) =>
        \A n \in 0 .. Len(line) :
            LET whole == {i \in 1 .. n : \E c \in CharactersOf(line) :
                            i \in c[1] .. c[1] + c[2] - 1 /\ c[1] + c[2] - 1 <= n}
            IN  /\ Cardinality(1 .. n \ whole) <= 3
                /\ SanitizeUtf8(Cut(line, n))
                      = [i \in 1 .. n |-> IF i \in whole THEN line[i] ELSE "space"]

(***************************************************************************)
(* sanitizeUtf8, a scan that goes on by a byte after a bad one, keeps      *)
(* exactly the complete characters of any bytes and blanks the others, one *)
(* by one; its result is well formed, whatever it was given, and of a line *)
(* that a buffer has cut it costs at most the one character that is split. *)
(***************************************************************************)
SanitizedIsRepaired ==
    /\ SanitizeUtf8(line) = Repaired(line)
    /\ WellFormed(SanitizeUtf8(line))
    /\ CutIsRepaired

(***************************************************************************)
(* The answer, its fences aside, has an object at its first brace, with    *)
(* braces, escaped quotes or text in its strings and text around it: the   *)
(* parser finds it.  The exception is a string that ends in a backslash,   *)
(* whose closing quote the parser takes for an escaped one.                *)
(***************************************************************************)
ObjectIsFound ==
    LET t == WithoutFence(response)
    IN  \A a, b \in 1 .. Len(t) :
            /\ a \in Positions(t, "open") /\ a = Leftmost(Positions(t, "open"))
            /\ a <= b /\ IsObject(SubSeq(t, a, b)) /\ ~EndsInBackslash(SubSeq(t, a, b))
            => ExtractJson(response) = SubSeq(t, a, b)

(* The answer ends before its object does: what the parser returns is      *)
(* nothing, or no object, so that jsonDecode refuses it.                   *)
NoPartIsTaken ==
    LET t == WithoutFence(response)
        rest == SubSeq(t, Leftmost(Positions(t, "open")), Len(t))
    IN  /\ Positions(t, "open") # {}
        /\ \A n \in 1 .. Len(rest) : ~IsObject(SubSeq(rest, 1, n))
        => ~IsObject(ExtractJson(response))

(* The native parser, with its other way to fences and braces, returns the *)
(* same where fences are only around the text and strings have neither     *)
(* braces nor backslashes.                                                 *)
ParsersAgree ==
    LET found == ExtractJson(response)
        markers == {i \in 1 .. Len(response) : response[i] = "fence"}
    IN  /\ IsObject(found) /\ ~BraceInString(found) /\ Positions(found, "escape") = {}
        /\ markers \subseteq {1, Len(response)}
        => ExtractJsonFromResponse(response) = found

(* escapeJson makes of any text the inside of one string: within quotes it *)
(* is a string to its end, and a parser reads the same tokens back.        *)
EscapedIsOneString ==
    LET s == WithoutFence(response)
        quoted == <<"quote">> \o EscapeJson(s) \o <<"quote">>
        inside == 2 .. Len(quoted) - 1
        read == {i \in inside : Modes(quoted)[i] # "taken"}
    IN  /\ \A i \in inside : Modes(quoted)[i] # "text" /\ quoted[i] # "newline"
        /\ Modes(quoted)[Len(quoted)] = "text"
        /\ Kept(quoted, read)
              = [k \in 1 .. Len(s) |-> IF s[k] = "newline" THEN "char" ELSE s[k]]

(***************************************************************************)
(* The application takes from an answer the object at its first brace, all *)
(* of it or nothing; an answer that maxTokens ends too early never passes  *)
(* for a whole one, nor an inner object for it.  The native parser agrees, *)
(* and what escapeJson puts into an object reads as the text it was.       *)
(***************************************************************************)
ParserIsExact == ObjectIsFound /\ NoPartIsTaken /\ ParsersAgree /\ EscapedIsOneString

(* sizeof, in bytes, of the C types that halide_type_of knows *)
SizeOf ==
    [ bool     |-> 1, uint8_t  |-> 1, uint16_t |-> 2, uint32_t |-> 4, uint64_t |-> 8,
                      int8_t   |-> 1, int16_t  |-> 2, int32_t  |-> 4, int64_t  |-> 8,
      float    |-> 4, double   |-> 8, pointer  |-> 8 ]

===============================================================================
