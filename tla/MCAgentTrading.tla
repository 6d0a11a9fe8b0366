--------------------------- MODULE MCAgentTrading ---------------------------
(***************************************************************************)
(* Instances of AgentTrading for TLC.  Two cycles run at the same time in  *)
(* two markets.  The limits are below the largest trade, so that one bet   *)
(* reaches either of them, two cycles can pass a limit together, and two   *)
(* unchecked trades would break what the overshoot allows.  A day is less  *)
(* than a tick: a prediction leaves the daily sum while it counts for its  *)
(* market.  The second instance has one cycle and one market.              *)
(***************************************************************************)
EXTENDS AgentTrading
=============================================================================
