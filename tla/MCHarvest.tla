------------------------------ MODULE MCHarvest ------------------------------
(* Harvest on a wiki of two pages and two or four titles. *)
EXTENDS Harvest

OneNamespace == <<0>>

\* A first crawl that may be a smoke run, and a full one.
SmokeThenFull == <<{0, 1}, {0}>>

\* The first response has page 1's body and half of its categories, and page 2
\* follows; or it has all the categories, and the bodies follow.
SomeCuts == {<<1, 1>>, <<0, 4>>}

TwoNamespaces == <<0, 3>>
AllInMain == [t \in Titles |-> 0]
LastApart == [t \in Titles |-> IF t = NumTitles THEN 3 ELSE 0]
=============================================================================
