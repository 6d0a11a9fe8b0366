------------------------ MODULE ParameterController ------------------------
(***************************************************************************)
(* The governed parameter store (governance/ParameterController.sol).      *)
(* Every function is onlyGovernance: each action here is the effect of one *)
(* call that the governance address makes, and Governance composes them    *)
(* with the DAO and the timelock that stand behind that address.           *)
(***************************************************************************)
EXTENDS Integers

CONSTANTS
  Key,        \* parameter keys
  Address,    \* values of address parameters
  NoAddress   \* address(0)

VARIABLES
  bounds,         \* per key: its limits and whether they were ever set
  uintParams, boolParams, addressParams

paramVars == <<bounds, uintParams, boolParams, addressParams>>

NoBounds == [min |-> 0, max |-> 0, exists |-> FALSE]

ParamInit ==
  /\ bounds = [k \in Key |-> NoBounds]
  /\ uintParams = [k \in Key |-> 0]
  /\ boolParams = [k \in Key |-> FALSE]
  /\ addressParams = [k \in Key |-> NoAddress]

SetBounds(key, min, max) ==
  /\ ~bounds[key].exists
  /\ min < max
  /\ bounds' = [bounds EXCEPT ![key] = [min |-> min, max |-> max, exists |-> TRUE]]
  /\ UNCHANGED <<uintParams, boolParams, addressParams>>

\* Mutant: a parameter without limits takes any value.
SetUintUnbounded(key, value) ==
  /\ bounds[key].exists => bounds[key].min <= value /\ value <= bounds[key].max
  /\ uintParams' = [uintParams EXCEPT ![key] = value]
  /\ UNCHANGED <<bounds, boolParams, addressParams>>

SetUint(key, value) ==
  /\ bounds[key].exists
  /\ bounds[key].min <= value /\ value <= bounds[key].max
  /\ uintParams' = [uintParams EXCEPT ![key] = value]
  /\ UNCHANGED <<bounds, boolParams, addressParams>>

SetBool(key, value) ==
  /\ boolParams' = [boolParams EXCEPT ![key] = value]
  /\ UNCHANGED <<bounds, uintParams, addressParams>>

SetAddress(key, value) ==
  /\ addressParams' = [addressParams EXCEPT ![key] = value]
  /\ UNCHANGED <<bounds, uintParams, boolParams>>

-----------------------------------------------------------------------------
(* A call as it travels through a proposal: the function and its arguments. *)

Call(call) ==
  \/ call.fn = "setBounds" /\ SetBounds(call.key, call.min, call.max)
  \/ call.fn = "setUint" /\ SetUint(call.key, call.value)
  \/ call.fn = "setBool" /\ SetBool(call.key, call.value)
  \/ call.fn = "setAddress" /\ SetAddress(call.key, call.value)

\* Types.
ParamTypeOK ==
  /\ bounds \in [Key -> [min : Nat, max : Nat, exists : BOOLEAN]]
  /\ uintParams \in [Key -> Nat]
  /\ boolParams \in [Key -> BOOLEAN]
  /\ addressParams \in [Key -> Address \cup {NoAddress}]

\* A uint parameter that was ever set is within its limits.  Zero is what a
\* parameter reads before it is set.
WithinBounds ==
  \A k \in Key :
    \/ uintParams[k] = 0
    \/ /\ bounds[k].exists
       /\ bounds[k].min <= uintParams[k] /\ uintParams[k] <= bounds[k].max
=============================================================================
