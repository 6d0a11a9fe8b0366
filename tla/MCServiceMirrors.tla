------------------------- MODULE MCServiceMirrors -------------------------
(* Two voters, two requests at once: the names of neither matter. *)
EXTENDS ServiceMirrors

CONSTANTS v1, v2, q1, q2

Symmetry == Permutations(Voter) \cup Permutations(Request)
=============================================================================
