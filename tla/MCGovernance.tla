---------------------------- MODULE MCGovernance ----------------------------
(***************************************************************************)
(* An instance of Governance for TLC: two holders who can pass power to    *)
(* each other and so split, tie or concentrate it, two proposals that may  *)
(* carry the same call, one delay that the timelock refuses, a uint        *)
(* parameter whose value may be executed before or after its limits, and a *)
(* call that changes nothing.  Any call may be made under any ripe id.     *)
(***************************************************************************)
EXTENDS Governance

MCInitialVotes == <<1, 1>>

MCDelays == {0, 1}

MCCalls ==
  {[fn |-> "setBounds", key |-> "cap", min |-> 1, max |-> 2],
   [fn |-> "setUint", key |-> "cap", value |-> 2],
   [fn |-> "setBool", key |-> "cap", value |-> TRUE],
   [fn |-> "setAddress", key |-> "cap", value |-> "a"],
   [fn |-> "noop"]}
=============================================================================
