--------------------------- MODULE MCPaperTrading ---------------------------
(***************************************************************************)
(* Two markets and a page of one; the worker and one client of the API.    *)
(* The exchange lists No first of "m", and the model takes either side of  *)
(* it.  "n" is listed before "m": it is closed, never decided, and offered *)
(* now and then, which puts it in the page of closed markets or takes it   *)
(* out.                                                                    *)
(***************************************************************************)
EXTENDS PaperTrading

Says1(yes, active, closed) == [yes |-> yes, active |-> active, closed |-> closed]

MCRank == [m \in PaperMarket |-> IF m = "n" THEN 1 ELSE 2]
MCSays == [m \in PaperMarket |->
  IF m = "n" THEN {Says1(4000, TRUE, TRUE), Says1(4000, FALSE, TRUE)}
  ELSE {Says1(yes, ~closed, closed) : yes \in {4000, 10000}, closed \in BOOLEAN}]
MCCategoryOf == [m \in PaperMarket |-> "general"]
MCDrift == {-3000}
MCSignal == {[probability |-> 9000, confidence |-> 2000]}
=============================================================================
