------------------------------ MODULE MCAnswerSync ------------------------------
(* The bounds are in the configurations. *)
EXTENDS AnswerSync
================================================================================
