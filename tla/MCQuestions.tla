----------------------------- MODULE MCQuestions -----------------------------
(* Model-checking instance of Questions. *)
EXTENDS Questions
=============================================================================
