-------------------------- MODULE MCOracleNetwork --------------------------
(***************************************************************************)
(* An instance of OracleNetwork for TLC: two oracles with two units each,  *)
(* one market, a cap that cuts weights in half, one that does not and one  *)
(* that only the constructor takes, a slash that takes half of a stake     *)
(* (and fails on a stake of one) and one that takes all of it.             *)
(***************************************************************************)
EXTENDS OracleNetwork
=============================================================================
