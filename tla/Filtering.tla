-------------------------------- MODULE Filtering ------------------------------
(***************************************************************************)
(* What JavaScript's filter returns: SequencesExt's SelectSeq by position, *)
(* and without a recursion.                                                *)
(***************************************************************************)
EXTENDS Integers, FiniteSets, Sequences

Members(seq) == {seq[i] : i \in DOMAIN seq}

\* What is at the positions kept, in the order it was given.
Filtered(seq, kept) ==
    [k \in 1 .. Cardinality(kept) |->
        seq[CHOOSE i \in kept : Cardinality({j \in kept : j < i}) = k - 1]]
================================================================================
