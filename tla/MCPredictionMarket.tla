------------------------- MODULE MCPredictionMarket -------------------------
(***************************************************************************)
(* An instance of PredictionMarket for TLC.  Two bet sizes that do not     *)
(* divide each other make the payouts round; a 10% fee makes the fee round *)
(* as well.  The clock has one value before the market opens, one while it *)
(* is open, one in the dispute window and one after it.                    *)
(***************************************************************************)
EXTENDS PredictionMarket

MCBetAmounts == {7, 20}
=============================================================================
