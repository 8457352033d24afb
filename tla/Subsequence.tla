---------------------------- MODULE Subsequence -----------------------------
(***************************************************************************)
(* SelectSeq with a set for the test, as a function that the provers can   *)
(* look into.                                                              *)
(***************************************************************************)
EXTENDS Integers, Sequences

\* The members of S in the sequence, in order.
Only(seq, S) ==
  LET kept[i \in 0 .. Len(seq)] ==
        IF i = 0 THEN <<>>
        ELSE IF seq[i] \in S THEN Append(kept[i - 1], seq[i]) ELSE kept[i - 1]
  IN kept[Len(seq)]
=============================================================================
