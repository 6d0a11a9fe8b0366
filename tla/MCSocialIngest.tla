---------------------------- MODULE MCSocialIngest ----------------------------
(***************************************************************************)
(* The loop on render and the scheduled job, each with its own address;    *)
(* two items, three requests at a time, and agents in three situations.    *)
(***************************************************************************)
EXTENDS AgentSignals

CONSTANTS job, loop, news, blog, a, b, silent

MCHostOf   == job :> "runner" @@ loop :> "render"
\* The first feed never has an item; it may fail.
MCFeedList == <<blog, news>>
MCFeedOf   == [i \in Item |-> news]
\* a is eligible by the heuristic, b is not.
MCText ==
  a :> [blank |-> FALSE, predictive |-> TRUE, markers |-> 2, digits |-> 4, velocity |-> -5, volume |-> 0, sentiment |-> -8] @@
  b :> [blank |-> FALSE, predictive |-> FALSE, markers |-> 7, digits |-> 0, velocity |-> 0, volume |-> 19, sentiment |-> 2]
MCSituation ==
  LET long   == [matched |-> 13, yes |-> 0]
      short  == [matched |-> 2, yes |-> 2]
      advice == <<[probability |-> 12000, confidence |-> 0], [probability |-> 2500, confidence |-> 4000]>>
  IN  {[pool |-> [yes |-> 3, no |-> 7], history |-> short, advice |-> <<>>],
       [pool |-> [yes |-> 3, no |-> 7], history |-> long, advice |-> advice],
       [pool |-> [yes |-> 0, no |-> 0], history |-> long, advice |-> <<>>]}
\* The AI is silent, or finds the item worth nothing.
MCAnswers == {silent, [bps |-> 0, eligible |-> FALSE]}
===============================================================================
