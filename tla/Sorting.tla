------------------------------- MODULE Sorting --------------------------------
(***************************************************************************)
(* list.sort(key=...) and sorted of Python, which are stable: by the       *)
(* places of what is sorted, as a key may be found in several.             *)
(***************************************************************************)
EXTENDS Integers, FiniteSets

\* The places that come before place i.
Below(key, i) == {j \in DOMAIN key : key[j] < key[i] \/ (key[j] = key[i] /\ j < i)}

\* The places in order: the r-th has r - 1 before it.
SortedBy(key) ==
    [r \in DOMAIN key |-> CHOOSE i \in DOMAIN key : Cardinality(Below(key, i)) = r - 1]
=============================================================================
