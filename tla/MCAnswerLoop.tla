---------------------------- MODULE MCAnswerLoop -----------------------------
(* AnswerLoop on sentences of at most two citations and brackets of one. *)
EXTENDS AnswerLoop

CONSTANTS p, x, m, graph

MCPieces ==
    {[tokens |-> s, whole |-> TRUE] : s \in {t \in SUBSET Tokens : Cardinality(t) <= 2}}
    \cup {[tokens |-> {t}, whole |-> FALSE] : t \in Tokens}
=============================================================================
