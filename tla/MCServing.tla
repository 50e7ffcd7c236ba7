------------------------------ MODULE MCServing ------------------------------
(* Serving on two or three questions. *)
EXTENDS Serving
=============================================================================
