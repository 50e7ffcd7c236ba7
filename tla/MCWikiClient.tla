---------------------------- MODULE MCWikiClient -----------------------------
(* WikiClient with waits on both sides of every cap. *)
EXTENDS WikiClient

MCExponential == [a \in 0..MaxRetries |-> 2 ^ a]
=============================================================================
