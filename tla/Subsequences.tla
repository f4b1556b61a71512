---------------------------- MODULE Subsequences ----------------------------
(***************************************************************************)
(* What is left of a sequence when elements are erased from it.  It is     *)
(* SelectSeq with the positions that stay in place of a test, so that the  *)
(* provers, which have no operators as parameters, can reason about it.    *)
(***************************************************************************)
EXTENDS Naturals, Sequences

\* The elements at some positions among the first n, for each n.
Upto(s, positions) ==
  LET upto[n \in 0 .. Len(s)] ==
        IF n = 0 THEN <<>>
        ELSE IF n \in positions THEN Append(upto[n - 1], s[n]) ELSE upto[n - 1]
  IN  upto

\* What is at some positions of a sequence, in its order.
Part(s, positions) == Upto(s, positions)[Len(s)]
=============================================================================
