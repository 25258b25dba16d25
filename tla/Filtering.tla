------------------------------- MODULE Filtering -------------------------------
(***************************************************************************)
(* array.filter, which the stores of the program are cleaned with: what of *)
(* a sequence is in a set, in its order.  A fold and not SelectSeq, which  *)
(* the provers cannot expand.                                              *)
(***************************************************************************)
EXTENDS Integers, SequencesExt

Filter(seq, S) ==
    FoldLeft(LAMBDA kept, x : IF x \in S THEN Append(kept, x) ELSE kept,
             <<>>, seq)

=============================================================================
