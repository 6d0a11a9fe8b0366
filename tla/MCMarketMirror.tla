--------------------------- MODULE MCMarketMirror ---------------------------
(***************************************************************************)
(* An instance of MarketMirror for TLC: two requests record two            *)
(* transactions that fall on the same row, two requests settle, and the    *)
(* owner's agent predicts the other side.                                  *)
(***************************************************************************)
EXTENDS MarketMirror

MCBets ==
  <<[user |-> "u", side |-> "YES", amount |-> 1],
    [user |-> "u", side |-> "YES", amount |-> 2]>>

MCTxOf == <<1, 2>>

MCAsks == <<TRUE, FALSE>>

MCPredicted == <<"NO">>
=============================================================================
