-------------------------------- MODULE Poll --------------------------------
(***************************************************************************)
(* What the oracle contracts promise of a market: every oracle may cast    *)
(* one ballot of some weight while there is no verdict, and the one        *)
(* verdict, given at any time, is the heavier side of the ballots cast by  *)
(* then.  Stakes, caps, activity and running tallies are means to it.      *)
(***************************************************************************)
EXTENDS Sums

CONSTANTS NumVoters, Question

Voter == 1 .. NumVoters

VARIABLES cast, verdict

Cast(q, side) ==
  [v \in Voter |-> IF cast[q][v].choice = side THEN cast[q][v].weight ELSE 0]

Init ==
  /\ cast = [q \in Question |-> [v \in Voter |-> [weight |-> 0, choice |-> FALSE]]]
  /\ verdict = [q \in Question |-> "none"]

Vote(q, v) ==
  /\ verdict[q] = "none"
  /\ cast[q][v].weight = 0
  /\ cast'[q][v].weight > 0
  /\ cast' = [cast EXCEPT ![q][v] = cast'[q][v]]
  /\ UNCHANGED verdict

\* A tie is a yes.
Decide(q) ==
  /\ verdict[q] = "none"
  /\ verdict' = [verdict EXCEPT ![q] =
       IF Total(Cast(q, TRUE), NumVoters) >= Total(Cast(q, FALSE), NumVoters) THEN "yes" ELSE "no"]
  /\ UNCHANGED cast

Next == \E q \in Question : Decide(q) \/ \E v \in Voter : Vote(q, v)

Spec == Init /\ [][Next]_<<cast, verdict>>
=============================================================================
