---------------------------- MODULE MCAnswering ------------------------------
(* Answering on sentences of at most two citations and brackets of one. *)
EXTENDS Answering

CONSTANTS p, x, m, graph

MCPieces ==
    {[tokens |-> s, whole |-> TRUE] : s \in {t \in SUBSET {p, x, m, graph} : Cardinality(t) <= 2}}
    \cup {[tokens |-> {t}, whole |-> FALSE] : t \in {p, x, m, graph}}
=============================================================================
