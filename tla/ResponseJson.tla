------------------------------ MODULE ResponseJson ------------------------------
(***************************************************************************)
(* Finding the JSON object in what a language model answers: the parser    *)
(* that the application uses (LlmResultParser._extractJson, in Dart), the  *)
(* one the native context carries (extractJsonFromResponse), and the       *)
(* grammar both have in mind.  A text is a sequence of tokens; everything  *)
(* that no parser looks at is a "char".                                    *)
(***************************************************************************)
EXTENDS Integers, FiniteSets, Sequences

(* "fence" is ``` with or without json; "escape" is a backslash. *)
Tokens == {"open", "close", "quote", "escape", "fence", "newline", "char"}

NotFound == <<>>

Positions(t, token) == {i \in 1 .. Len(t) : t[i] = token}

Leftmost(S) == CHOOSE i \in S : \A j \in S : i <= j
Rightmost(S) == CHOOSE i \in S : \A j \in S : j <= i

(* What remains of a text when only the tokens at the places S are kept. *)
Nth(S, n) == CHOOSE i \in S : Cardinality({j \in S : j <= i}) = n
Kept(t, S) == [n \in 1 .. Cardinality(S) |-> t[Nth(S, n)]]

(* A quote opens or closes a string unless a backslash stands before it. *)
Toggles(t, i) == t[i] = "quote" /\ (i = 1 \/ t[i - 1] # "escape")

(* inString, after the character at i of a scan that began at a *)
InString(t, a, i) == Cardinality({j \in a .. i : Toggles(t, j)}) % 2 = 1

(* The braces that a scan has counted at i. *)
Braces(t, a, i, brace) == {j \in a .. i : t[j] = brace /\ ~InString(t, a, j)}

Depth(t, a, i) == Cardinality(Braces(t, a, i, "open")) - Cardinality(Braces(t, a, i, "close"))

-------------------------------------------------------------------------------
(* lib/data/services/llm_prompt_service.dart *)

WithoutFence(t) == Kept(t, {i \in 1 .. Len(t) : t[i] # "fence"})

(* Where depth comes back to 0 outside of a string. *)
ObjectEnds(t, a) ==
    {i \in a .. Len(t) : t[i] = "close" /\ ~InString(t, a, i) /\ Depth(t, a, i) = 0}

(* A bug: the last brace that opens an object is taken for its start. *)
ExtractJsonFromLast(response) ==
    LET t == WithoutFence(response)
        starts == Positions(t, "open")
        ends == ObjectEnds(t, Rightmost(starts))
    IN  IF starts = {} \/ ends = {} THEN NotFound
        ELSE SubSeq(t, Rightmost(starts), Leftmost(ends))

ExtractJson(response) ==
    LET t == WithoutFence(response)
        starts == Positions(t, "open")
        ends == ObjectEnds(t, Leftmost(starts))
    IN  IF starts = {} \/ ends = {} THEN NotFound
        ELSE SubSeq(t, Leftmost(starts), Leftmost(ends))

-------------------------------------------------------------------------------
(* mnn-jni.cpp *)

(* Leading fences go one by one; the last that is left ends the text. *)
WithoutMarkers(t) ==
    LET text == {i \in 1 .. Len(t) : t[i] # "fence"}
        body == IF text = {} THEN <<>> ELSE SubSeq(t, Leftmost(text), Len(t))
        fences == Positions(body, "fence")
    IN  IF fences = {} THEN body ELSE SubSeq(body, 1, Rightmost(fences) - 1)

(* The brace count of "first complete JSON object", which knows no strings. *)
BracesBalance(t, a, i) ==
    t[i] = "close" /\ Cardinality({j \in a .. i : t[j] = "open"})
                        = Cardinality({j \in a .. i : t[j] = "close"})

Trim(t) ==
    LET text == {i \in 1 .. Len(t) : t[i] # "newline"}
    IN  IF text = {} THEN <<>> ELSE SubSeq(t, Leftmost(text), Rightmost(text))

(* Braces in strings do not count here. *)
IsValidJson(t) ==
    LET s == Trim(t)
    IN  s # <<>> /\ s[1] = "open" /\ s[Len(s)] = "close" /\ Depth(s, 1, Len(s)) = 0

(* Duplicate keys are left as they are. *)
CleanDuplicateKeys(json) == json

ExtractJsonFromResponse(response) ==
    LET t == WithoutMarkers(response)
        starts == Positions(t, "open")
        ends == {i \in Leftmost(starts) .. Len(t) : BracesBalance(t, Leftmost(starts), i)}
        json == CleanDuplicateKeys(SubSeq(t, Leftmost(starts), Leftmost(ends)))
    IN  IF starts = {} \/ ends = {} \/ ~IsValidJson(json) THEN NotFound ELSE json

Escape(token) ==
    CASE token \in {"quote", "escape"} -> <<"escape", token>>
      [] token = "newline" -> <<"escape", "char">>
      [] OTHER -> <<token>>

(* The result when the first i tokens have been looked at. *)
Escaping(s) ==
    LET result[i \in 0 .. Len(s)] ==
            IF i = 0 THEN <<>> ELSE result[i - 1] \o Escape(s[i])
    IN  result

EscapeJson(s) == Escaping(s)[Len(s)]

-------------------------------------------------------------------------------
(* The grammar: in a string a backslash takes the next token with it. *)

Modes(t) ==
    LET mode[i \in 0 .. Len(t)] ==
            IF i = 0 THEN "text"
            ELSE CASE mode[i - 1] = "taken" -> "string"
                   [] mode[i - 1] = "string" /\ t[i] = "escape" -> "taken"
                   [] mode[i - 1] = "string" /\ t[i] \notin {"escape", "quote"} -> "string"
                   [] mode[i - 1] = "string" /\ t[i] = "quote" -> "text"
                   [] mode[i - 1] = "text" /\ t[i] = "quote" -> "string"
                   [] OTHER -> "text"
    IN  mode

(* What stands outside of strings; a backslash may not. *)
Structure(t) == {i \in 1 .. Len(t) : Modes(t)[i] = "text" /\ Modes(t)[i - 1] = "text"}

Nesting(t, i) ==
    Cardinality({j \in Structure(t) : j <= i /\ t[j] = "open"})
      - Cardinality({j \in Structure(t) : j <= i /\ t[j] = "close"})

IsObject(t) ==
    /\ t # <<>> /\ t[1] = "open" /\ t[Len(t)] = "close"
    /\ Modes(t)[Len(t)] = "text"
    /\ \A i \in Structure(t) : t[i] # "escape"
    /\ \A i \in 1 .. Len(t) - 1 : Nesting(t, i) > 0
    /\ Nesting(t, Len(t)) = 0

(* A string ends in an escaped backslash: \\" *)
EndsInBackslash(t) ==
    \E i \in 3 .. Len(t) : t[i] = "quote" /\ t[i - 1] = "escape" /\ t[i - 2] = "escape"

BraceInString(t) ==
    \E i \in 1 .. Len(t) : t[i] \in {"open", "close"} /\ i \notin Structure(t)
================================================================================
