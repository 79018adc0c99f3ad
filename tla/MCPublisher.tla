------------------------------ MODULE MCPublisher ------------------------------
(* Instances of Publisher for TLC.                                         *)
EXTENDS Publisher
=============================================================================
