----------------------------- MODULE Selections -----------------------------
(***************************************************************************)
(* Picking some elements of a sequence, in order.  It is SelectSeq for     *)
(* membership in a set, written with a recursive function, which the       *)
(* provers can reason about (SumTheorems): they do not expand an operator  *)
(* that takes another one.                                                 *)
(***************************************************************************)
EXTENDS Naturals, Sequences

Picked(seq, S) ==
  LET picked[n \in 0 .. Len(seq)] ==
        IF n = 0 THEN <<>>
        ELSE IF seq[n] \in S THEN Append(picked[n - 1], seq[n])
        ELSE picked[n - 1]
  IN  picked

\* The elements of seq that are in S.
Keep(seq, S) == Picked(seq, S)[Len(seq)]
=============================================================================
