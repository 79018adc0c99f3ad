-------------------------- MODULE MCQuestionGeneration --------------------------
(* The bounds are in the configurations. *)
EXTENDS QuestionGeneration
================================================================================
