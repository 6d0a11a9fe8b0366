----------------------------- MODULE AgentSignals -----------------------------
(***************************************************************************)
(* What an agent makes of the stored events when it looks at a market: the *)
(* signals, the estimate they give together, and the trade it would make.  *)
(* Every event and every settled market counted here shares a keyword with *)
(* the market.  AgentTrading has what becomes of the trade.                *)
(***************************************************************************)
EXTENDS SocialIngest, Sums

CONSTANTS
  Situation,        \* what else the agent may see: the market's pool, [yes, no]; the history,
                    \* [matched, yes], of settled markets like it; the advice of the signal
                    \* endpoints, a sequence of [probability, confidence]
  MaxTradeWei,      \* max_trade_wei
  RiskTolerance,
  MinEdge, MinConfidence

ASSUME SignalAssumption ==
  /\ \A s \in Situation :
       /\ s.pool \in [yes : Nat, no : Nat]
       /\ s.history \in [matched : Nat, yes : Nat] /\ s.history.yes <= s.history.matched
       /\ s.advice \in Seq([probability : Int, confidence : Nat])
  /\ MaxTradeWei \in Nat \ {0} /\ RiskTolerance \in 1 .. 10
  /\ MinEdge \in Nat \ {0} /\ MinConfidence \in Nat

\* _clamp_bps of a / b: round takes a half to the even side.
Rounded(a, b) ==
  LET q == a \div b
      r == 2 * (a % b)
  IN  ClampBps(IF r > b \/ (r = b /\ q % 2 = 1) THEN q + 1 ELSE q)

\* _probability_from_pools
PoolPrice(pool) ==
  IF pool.yes + pool.no = 0 THEN 5000 ELSE Rounded(pool.yes * 10000, pool.yes + pool.no)

Events == {i \in Item : rows[i] # Absent}

\* A signal that is not available is an empty sequence.
SocialSignal ==
  LET n         == Cardinality(Events)
      sentiment == SumOver([i \in Events |-> Text[i].sentiment], Events)
      scores    == SumOver([i \in Events |-> rows[i].bps], Events)
  IN  IF n = 0 THEN <<>>
      ELSE <<[probability |-> Rounded(5000 * n + 700 * sentiment, n),
              confidence  |-> Rounded(4 * n * Least(3000, 250 * n) + scores, 4 * n)]>>

HistoricalSignal(h) ==
  IF h.matched < 3 THEN <<>>
  ELSE <<[probability |-> Rounded(10000 * h.yes, h.matched), confidence |-> Least(2500, 200 * h.matched)]>>

\* _external_signals: an answer without a confidence, or of confidence 0, gets 1000.
ExternalSignals(advice) ==
  [k \in DOMAIN advice |->
     [probability |-> ClampBps(advice[k].probability),
      confidence  |-> IF advice[k].confidence = 0 THEN 1000 ELSE ClampBps(advice[k].confidence)]]

Signals(s) == SocialSignal \o HistoricalSignal(s.history) \o ExternalSignals(s.advice)

\* Error: a missing probability is even.
EvenIfMissing(signal, price) == IF signal.probability = 0 THEN 5000 ELSE signal.probability

\* A probability of 0 is taken for a missing one.
OpinionOf(signal, price) == IF signal.probability = 0 THEN price ELSE signal.probability

\* _estimate_probability: the market itself has the weight 1000.
Weight(signals) == 1000 + Total([k \in DOMAIN signals |-> signals[k].confidence], Len(signals))

Opinions(price, signals) ==
  1000 * price + Total([k \in DOMAIN signals |-> OpinionOf(signals[k], price) * signals[k].confidence], Len(signals))

Estimate(price, signals) ==
  LET weight   == Weight(signals)
      opinions == Opinions(price, signals)
      lean     == opinions - 5000 * weight
  IN  [bps |-> Rounded(opinions, weight),
       confidence |-> Max({Rounded(2 * Most(lean, -lean), weight)} \cup {signals[k].confidence : k \in DOMAIN signals})]

\* _size_trade
TradeSize(edge) == Most(1, (MaxTradeWei * Most(100, Least(2000, edge)) * RiskTolerance) \div 20000)

\* _decide_market, before it looks at what is already at stake
DecideMarket(price, signals) ==
  LET estimate == Estimate(price, signals)
      edge     == Most(estimate.bps - price, price - estimate.bps)
  IN  [side  |-> IF estimate.bps >= price THEN "YES" ELSE "NO",
       stake |-> IF edge < MinEdge \/ estimate.confidence < MinConfidence THEN 0 ELSE TradeSize(edge)]

-----------------------------------------------------------------------------
\* Whatever events are stored and whatever others say, an agent trades only
\* where some signal points beyond the market's price, on the side it points
\* to, and never more than its limit.
TradesFollowSignals ==
  \A s \in Situation :
    LET price   == PoolPrice(s.pool)
        signals == Signals(s)
        trade   == DecideMarket(price, signals)
        Points(k) == IF trade.side = "YES" THEN signals[k].probability > price ELSE signals[k].probability < price
    IN  trade.stake > 0 => trade.stake <= MaxTradeWei /\ \E k \in DOMAIN signals : Points(k)
===============================================================================
