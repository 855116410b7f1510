------------------------------ MODULE ModelHolder ------------------------------
(***************************************************************************)
(* What the native side promises of the language model, whose weights take *)
(* most of a gigabyte: there is never more than one, it answers only when  *)
(* it is loaded, and it is not freed while it is loading or answers.       *)
(***************************************************************************)
VARIABLES model, answering

Init == model = "none" /\ ~answering

Create  == model = "none" /\ model' = "loading" /\ UNCHANGED answering
EndLoad == model = "loading" /\ model' \in {"none", "loaded"} /\ UNCHANGED answering
Answer  == model = "loaded" /\ ~answering /\ answering' /\ UNCHANGED model
Reset   == answering /\ answering' = FALSE /\ UNCHANGED model
Free    == model = "loaded" /\ ~answering /\ model' = "none" /\ UNCHANGED answering

Next == Create \/ EndLoad \/ Answer \/ Reset \/ Free

Spec == Init /\ [][Next]_<<model, answering>>
================================================================================
