--------------------------------- MODULE Sorting -------------------------------
(***************************************************************************)
(* What JavaScript's sort returns, by position: SequencesExt's             *)
(* SetToSortSeq and TLC's SortSeq, without a choice among permutations.    *)
(* R holds the pairs of which the first goes before the second.            *)
(***************************************************************************)
EXTENDS Filtering

InOrder(S, R) ==
    [k \in 1 .. Cardinality(S) |->
        CHOOSE x \in S : Cardinality({y \in S : <<y, x>> \in R}) = k - 1]

\* Positions, the smaller key first and equal ones as they were: the sort is stable.
Precedes(key) ==
    {r \in (DOMAIN key) \X (DOMAIN key) :
        key[r[1]] < key[r[2]] \/ (key[r[1]] = key[r[2]] /\ r[1] < r[2])}

Sorted(seq, key) ==
    LET order == InOrder(DOMAIN key, Precedes(key))
    IN  [k \in DOMAIN seq |-> seq[order[k]]]
================================================================================
