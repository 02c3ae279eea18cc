-------------------------------- MODULE Sorting --------------------------------
(***************************************************************************)
(* The sorts of JavaScript and Python, which the generator and the         *)
(* generated program call: sets are sorted by an order without ties.       *)
(***************************************************************************)
EXTENDS Naturals, FiniteSets

IsSortedBy(s, S, lt(_, _)) ==
    /\ S = {s[i] : i \in DOMAIN s}
    /\ \A i, j \in DOMAIN s : i < j => lt(s[i], s[j])

\* The elements of S in the order lt.
SortedSeq(S, lt(_, _)) ==
    CHOOSE s \in [1 .. Cardinality(S) -> S] : IsSortedBy(s, S, lt)
=============================================================================
