----------------------------- MODULE StableSort -----------------------------
(***************************************************************************)
(* slice::sort_by and sort_by_key of Rust's library, which the loader sorts*)
(* bars with and the summary of a sweep returns: equal keys keep their     *)
(* order.                                                                  *)
(***************************************************************************)
EXTENDS Integers, FiniteSets

\* Place(keys, i): where a stable sort puts the i-th element.
Place(keys, i) ==
    Cardinality({j \in DOMAIN keys : keys[j] < keys[i] \/ (keys[j] = keys[i] /\ j <= i)})

\* SortBy(list, keys): the list in the order of its elements' keys.
SortBy(list, keys) ==
    [n \in DOMAIN list |-> list[CHOOSE i \in DOMAIN list : Place(keys, i) = n]]
=============================================================================
