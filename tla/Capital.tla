------------------------------ MODULE Capital ------------------------------
(***************************************************************************)
(* Idle capital: CapitalRouter passes ether on to approved YieldVaults and *)
(* books how much each has; RiskAllocator keeps limits of its own, which   *)
(* the router does not ask for.  Vaults are the base contract: deploying   *)
(* and unwinding do nothing.                                               *)
(***************************************************************************)
EXTENDS Naturals

CONSTANTS
  Vault,
  MaxAmount,     \* bound: one transfer
  MaxExposures,  \* bound: the limits governance may set
  MaxTotal       \* bound: what is ever routed to one vault

VARIABLES
  approvedVaults, vaultExposure, maxVaultExposure,  \* CapitalRouter
  strategies,                                       \* RiskAllocator
  totalBalance                                      \* of each vault

router == <<approvedVaults, vaultExposure, maxVaultExposure>>
vars   == <<router, strategies, totalBalance>>

\* Who takes ether that is sent without the call of a payable function.  None of the
\* three contracts has a receive or fallback function.
TakesPlainEther == {"account"}

Init ==
  /\ approvedVaults = [v \in Vault |-> FALSE]
  /\ vaultExposure = [v \in Vault |-> 0]
  /\ maxVaultExposure \in MaxExposures
  /\ strategies = [v \in Vault |-> [approved |-> FALSE, maxExposure |-> 0]]
  /\ totalBalance = [v \in Vault |-> 0]

ApproveVault(v, approved) ==
  /\ approvedVaults' = [approvedVaults EXCEPT ![v] = approved]
  /\ UNCHANGED <<vaultExposure, maxVaultExposure, strategies, totalBalance>>

UpdateMaxVaultExposure(newMax) ==
  /\ maxVaultExposure' = newMax
  /\ UNCHANGED <<approvedVaults, vaultExposure, strategies, totalBalance>>

ApproveStrategy(v, approved, maxExposure) ==
  /\ strategies' = [strategies EXCEPT ![v] = [approved |-> approved, maxExposure |-> maxExposure]]
  /\ UNCHANGED <<router, totalBalance>>

Deposit(v, amount) == totalBalance' = [totalBalance EXCEPT ![v] = @ + amount]

\* Anybody may route capital.
RouteCapital(v, amount) ==
  /\ vaultExposure[v] + amount <= MaxTotal
  /\ approvedVaults[v]
  /\ amount > 0
  /\ vaultExposure[v] + amount <= maxVaultExposure
  /\ vaultExposure' = [vaultExposure EXCEPT ![v] = @ + amount]
  /\ Deposit(v, amount)
  /\ UNCHANGED <<approvedVaults, maxVaultExposure, strategies>>

\* The vault pays the contract that called it.
Withdraw(v, amount, caller) ==
  /\ amount > 0 /\ amount <= totalBalance[v]
  /\ totalBalance' = [totalBalance EXCEPT ![v] = @ - amount]
  /\ caller \in TakesPlainEther

WithdrawCapital(v, amount) ==
  /\ approvedVaults[v]
  /\ amount > 0 /\ amount <= vaultExposure[v]
  /\ vaultExposure' = [vaultExposure EXCEPT ![v] = @ - amount]
  /\ Withdraw(v, amount, "router")
  /\ UNCHANGED <<approvedVaults, maxVaultExposure, strategies>>

\* The router's books are not told.
EmergencyWithdrawAll(v, to) ==
  /\ totalBalance' = [totalBalance EXCEPT ![v] = 0]
  /\ to \in TakesPlainEther
  /\ UNCHANGED <<router, strategies>>

Next ==
  \/ \E v \in Vault, flag \in BOOLEAN :
       ApproveVault(v, flag) \/ \E limit \in MaxExposures : ApproveStrategy(v, flag, limit)
  \/ \E newMax \in MaxExposures : UpdateMaxVaultExposure(newMax)
  \/ \E v \in Vault, amount \in 1 .. MaxAmount : RouteCapital(v, amount) \/ WithdrawCapital(v, amount)
  \/ \E v \in Vault, to \in {"account", "router"} : EmergencyWithdrawAll(v, to)

Spec == Init /\ [][Next]_vars

-----------------------------------------------------------------------------
(* Properties. *)

\* contracts/yield/YieldVault.sol:106 says of withdraw "Must always succeed for
\* settlement priority": whatever an approved vault holds for the router can be
\* taken back.  The vault pays with a plain call, which the router does not take.
WithdrawalsSucceed ==
  \A v \in Vault, amount \in 1 .. MaxAmount :
    approvedVaults[v] /\ amount <= vaultExposure[v] /\ amount <= totalBalance[v]
      => ENABLED WithdrawCapital(v, amount)
=============================================================================
