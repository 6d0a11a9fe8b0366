------------------------------- MODULE Sums -------------------------------
(***************************************************************************)
(* The total of a table of amounts held by the accounts 1 .. n.  Solidity  *)
(* keeps such a total beside its mappings (totalYes, totalStaked, ...) and *)
(* never recomputes it; the models need the sum itself to say that the two *)
(* agree.  It is written with a recursive function, which the provers can  *)
(* reason about (SumTheorems), where a fold over a set is out of their     *)
(* reach.                                                                  *)
(***************************************************************************)
EXTENDS Naturals

\* Partial(f, n)[k] is f[1] + ... + f[k].
Partial(f, n) ==
  LET s[k \in 0 .. n] == IF k = 0 THEN 0 ELSE s[k - 1] + f[k]
  IN  s

Total(f, n) == Partial(f, n)[n]

\* The sum of f over a finite set, entries below zero included.
SumOver(f, S) ==
  LET s[T \in SUBSET S] ==
        IF T = {} THEN 0 ELSE f[CHOOSE x \in T : TRUE] + s[T \ {CHOOSE x \in T : TRUE}]
  IN  s[S]
=============================================================================
