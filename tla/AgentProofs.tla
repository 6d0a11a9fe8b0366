---------------------------- MODULE AgentProofs ----------------------------
(***************************************************************************)
(* The safety properties of the agents' services: AgentTrading, for any    *)
(* number of markets, cycles and predictions and any limits; the ingestion *)
(* of news and what the agents make of it (AgentSignals), for any number   *)
(* of workers, hosts and items and any limits; and the paper book          *)
(* (PaperTrading), for any markets, prices, signals and stakes.  The three *)
(* systems share no variable.                                              *)
(***************************************************************************)
EXTENDS AgentTrading, AgentSignals, PaperTrading, SumTheorems, Sequences, FiniteSets, FiniteSetTheorems

-----------------------------------------------------------------------------
(* AgentTrading: the inductive invariant *)

\* What a cycle holds at each of its steps: nobody else handles its prediction.
Handling ==
  /\ \A c \in Cycle :
       /\ pc[c] \in {"market", "daily", "create"} => stake[c] > 0
       /\ pc[c] \in {"submit", "send", "wait", "recorded"} <=> current[c] # 0
       /\ pc[c] = "submit" => status[current[c]] = "PAPER"
       /\ pc[c] \in {"send", "wait", "recorded"} => status[current[c]] = "SUBMITTED"
       /\ pc[c] \in {"submit", "send"} => bet[current[c]] = "none"
       /\ pc[c] = "recorded" => current[c] \in recorded
  /\ \A c, d \in Cycle : current[c] = current[d] /\ current[c] # 0 => c = d

\* What has passed a check and is not stored yet.
PlannedIn(m) == [c \in Cycle |-> IF pc[c] \in {"daily", "create"} /\ at[c] = m THEN stake[c] ELSE 0]
PlannedToday == [c \in Cycle |-> IF pc[c] = "create" THEN stake[c] ELSE 0]

MarketRoom ==
  \A m \in Market : Total(HeldIn(m), MaxPredictions) + Total(PlannedIn(m), NumCycles) <= MaxMarket + Overshoot

DayRoom == Total(HeldToday, MaxPredictions) + Total(PlannedToday, NumCycles) <= MaxDaily + Overshoot

Tracked == NoUnknownBet /\ ExecutedIsReal

Base == TypeOK /\ Handling /\ Tracked

IInv == Base /\ MarketRoom /\ DayRoom

\* Predictions are numbered from 1; 0 is the prediction of an idle cycle.
Slot == 0 .. MaxPredictions
Size == 0 .. MaxTrade
Time == 0 .. now

LEMMA Numbers ==
  /\ Prediction \subseteq Slot /\ 0 \in Slot /\ 0 \notin Prediction
  /\ Slot \ {0} \subseteq Prediction
  /\ 1 \in Market /\ 0 \in Size /\ 1 .. MaxTrade \subseteq Size
  /\ \A x \in 1 .. MaxTrade : x > 0
BY TradingAssumption DEF Slot, Size, Market, Prediction

LEMMA BaseInit == Init => Base
<1> SUFFICES ASSUME Init PROVE Base
  OBVIOUS
<1>1. TypeOK
  BY TradingAssumption DEF Init, TypeOK, Stored, Market
<1>2. Handling /\ Tracked
  BY DEF Init, Handling, Tracked, NoUnknownBet, ExecutedIsReal
<1> QED
  BY <1>1, <1>2 DEF Base

-----------------------------------------------------------------------------
(* AgentTrading: types, who handles what, and what is known of bets *)

LEMMA TypeStep == Base /\ [Next]_vars => TypeOK'
<1> SUFFICES ASSUME Base, [Next]_vars PROVE TypeOK'
  OBVIOUS
<1> USE Numbers DEF Base, TypeOK, Handling, Stored, vars, predictions, cycles, Goto, Slot, Size, Time
<1>1. ASSUME NEW c \in Cycle, StartCycle(c) PROVE TypeOK'
  BY <1>1 DEF StartCycle
<1>2. ASSUME NEW c \in Cycle, Skip(c) PROVE TypeOK'
  BY <1>2 DEF Skip
<1>3. ASSUME NEW c \in Cycle, Consider(c) PROVE TypeOK'
  BY <1>3 DEF Consider
<1>4. ASSUME NEW c \in Cycle, CheckMarketExposure(c) PROVE TypeOK'
  BY <1>4 DEF CheckMarketExposure, Proceed, Done
<1>5. ASSUME NEW c \in Cycle, CheckDailyExposure(c) PROVE TypeOK'
  BY <1>5 DEF CheckDailyExposure, Proceed, Done
<1>6. ASSUME NEW c \in Cycle, CreatePrediction(c) PROVE TypeOK'
  BY <1>6 DEF CreatePrediction, First, Done
<1>7. ASSUME NEW c \in Cycle, MarkSubmitted(c) PROVE TypeOK'
  BY <1>7 DEF MarkSubmitted, SetStatus
<1>8. ASSUME NEW c \in Cycle, SendBet(c) PROVE TypeOK'
  BY <1>8 DEF SendBet
<1>9. ASSUME NEW c \in Cycle, Record(c) PROVE TypeOK'
  <2>1. current[c] \in Prediction
    BY <1>9 DEF Record
  <2>2. recorded' \subseteq Prediction
    BY <1>9, <2>1 DEF Record
  <2> QED BY <1>9, <2>2 DEF Record
<1>10. ASSUME NEW c \in Cycle, Complete(c) PROVE TypeOK'
  BY <1>10 DEF Complete, Done, SetStatus
<1>11. ASSUME NEW c \in Cycle, Fail(c) PROVE TypeOK'
  BY <1>11 DEF Fail, Done, SetStatus
<1>12. ASSUME NEW c \in Cycle, EndCycle(c) PROVE TypeOK'
  BY <1>12 DEF EndCycle
<1>13. ASSUME NEW c \in Cycle, Crash(c) PROVE TypeOK'
  BY <1>13 DEF Crash
<1>14. ASSUME NEW p \in Prediction, Mine(p) PROVE TypeOK'
  BY <1>14 DEF Mine
<1>15. CASE Tick
  BY <1>15 DEF Tick
<1>16. CASE UNCHANGED vars
  BY <1>16
<1> QED
  BY <1>1, <1>2, <1>3, <1>4, <1>5, <1>6, <1>7, <1>8, <1>9, <1>10,
     <1>11, <1>12, <1>13, <1>14, <1>15, <1>16 DEF Next, Run, Decide, Execute

LEMMA HandlingStep == Base /\ [Next]_vars => Handling'
<1> SUFFICES ASSUME Base, [Next]_vars PROVE Handling'
  OBVIOUS
<1> USE Numbers DEF Base, TypeOK, Handling, Tracked, NoUnknownBet, ExecutedIsReal, Stored, vars, predictions, cycles, Goto, Slot, Size
<1>1. ASSUME NEW c \in Cycle, StartCycle(c) PROVE Handling'
  BY <1>1 DEF StartCycle
<1>2. ASSUME NEW c \in Cycle, Skip(c) PROVE Handling'
  BY <1>2 DEF Skip
<1>3. ASSUME NEW c \in Cycle, Consider(c) PROVE Handling'
  BY <1>3 DEF Consider
<1>4. ASSUME NEW c \in Cycle, CheckMarketExposure(c) PROVE Handling'
  BY <1>4 DEF CheckMarketExposure, Proceed, Done
<1>5. ASSUME NEW c \in Cycle, CheckDailyExposure(c) PROVE Handling'
  BY <1>5 DEF CheckDailyExposure, Proceed, Done
<1>6. ASSUME NEW c \in Cycle, CreatePrediction(c) PROVE Handling'
  BY <1>6 DEF CreatePrediction, First, Done
<1>7. ASSUME NEW c \in Cycle, MarkSubmitted(c) PROVE Handling'
  BY <1>7 DEF MarkSubmitted, SetStatus
<1>8. ASSUME NEW c \in Cycle, SendBet(c) PROVE Handling'
  BY <1>8 DEF SendBet
<1>9. ASSUME NEW c \in Cycle, Record(c) PROVE Handling'
  BY <1>9 DEF Record
<1>10. ASSUME NEW c \in Cycle, Complete(c) PROVE Handling'
  BY <1>10 DEF Complete, Done, SetStatus
<1>11. ASSUME NEW c \in Cycle, Fail(c) PROVE Handling'
  BY <1>11 DEF Fail, Done, SetStatus
<1>12. ASSUME NEW c \in Cycle, EndCycle(c) PROVE Handling'
  BY <1>12 DEF EndCycle
<1>13. ASSUME NEW c \in Cycle, Crash(c) PROVE Handling'
  BY <1>13 DEF Crash
<1>14. ASSUME NEW p \in Prediction, Mine(p) PROVE Handling'
  BY <1>14 DEF Mine
<1>15. CASE Tick
  BY <1>15 DEF Tick
<1>16. CASE UNCHANGED vars
  BY <1>16
<1> QED
  BY <1>1, <1>2, <1>3, <1>4, <1>5, <1>6, <1>7, <1>8, <1>9, <1>10,
     <1>11, <1>12, <1>13, <1>14, <1>15, <1>16 DEF Next, Run, Decide, Execute

LEMMA TrackedStep == Base /\ [Next]_vars => Tracked'
<1> SUFFICES ASSUME Base, [Next]_vars PROVE Tracked'
  OBVIOUS
<1> USE Numbers DEF Base, TypeOK, Handling, Tracked, NoUnknownBet, ExecutedIsReal, Stored, vars, predictions, cycles, Goto, Slot, Size
<1>1. ASSUME NEW c \in Cycle, StartCycle(c) PROVE Tracked'
  BY <1>1 DEF StartCycle
<1>2. ASSUME NEW c \in Cycle, Skip(c) PROVE Tracked'
  BY <1>2 DEF Skip
<1>3. ASSUME NEW c \in Cycle, Consider(c) PROVE Tracked'
  BY <1>3 DEF Consider
<1>4. ASSUME NEW c \in Cycle, CheckMarketExposure(c) PROVE Tracked'
  BY <1>4 DEF CheckMarketExposure, Proceed, Done
<1>5. ASSUME NEW c \in Cycle, CheckDailyExposure(c) PROVE Tracked'
  BY <1>5 DEF CheckDailyExposure, Proceed, Done
<1>6. ASSUME NEW c \in Cycle, CreatePrediction(c) PROVE Tracked'
  BY <1>6 DEF CreatePrediction, First, Done
<1>7. ASSUME NEW c \in Cycle, MarkSubmitted(c) PROVE Tracked'
  BY <1>7 DEF MarkSubmitted, SetStatus
<1>8. ASSUME NEW c \in Cycle, SendBet(c) PROVE Tracked'
  BY <1>8 DEF SendBet
<1>9. ASSUME NEW c \in Cycle, Record(c) PROVE Tracked'
  BY <1>9 DEF Record
<1>10. ASSUME NEW c \in Cycle, Complete(c) PROVE Tracked'
  BY <1>10 DEF Complete, Done, SetStatus
<1>11. ASSUME NEW c \in Cycle, Fail(c) PROVE Tracked'
  BY <1>11 DEF Fail, Done, SetStatus
<1>12. ASSUME NEW c \in Cycle, EndCycle(c) PROVE Tracked'
  BY <1>12 DEF EndCycle
<1>13. ASSUME NEW c \in Cycle, Crash(c) PROVE Tracked'
  BY <1>13 DEF Crash
<1>14. ASSUME NEW p \in Prediction, Mine(p) PROVE Tracked'
  BY <1>14 DEF Mine
<1>15. CASE Tick
  BY <1>15 DEF Tick
<1>16. CASE UNCHANGED vars
  BY <1>16
<1> QED
  BY <1>1, <1>2, <1>3, <1>4, <1>5, <1>6, <1>7, <1>8, <1>9, <1>10,
     <1>11, <1>12, <1>13, <1>14, <1>15, <1>16 DEF Next, Run, Decide, Execute

LEMMA BaseStep == Base /\ [Next]_vars => Base'
BY TypeStep, HandlingStep, TrackedStep DEF Base

-----------------------------------------------------------------------------
(* AgentTrading: what is stored and what is planned, together *)

LEMMA Balance ==
  ASSUME NEW L \in Int, NEW a \in Nat, NEW b \in Nat, NEW c \in Nat, NEW d \in Nat,
         NEW p \in Nat, NEW q \in Nat, NEW r \in Nat, NEW s \in Nat,
         b + p = a + q, d + r = c + s, q + s <= p + r, a + c <= L
  PROVE  b + d <= L
OBVIOUS

\* When one entry of each of two tables changes and the two entries do not grow
\* together, the two totals do not.
Exchanged(n, k, L, f, f2, g, g2, u, v) ==
  /\ n \in Nat /\ k \in Nat /\ L \in Int
  /\ f \in [1 .. n -> Nat] /\ f2 \in [1 .. n -> Nat]
  /\ g \in [1 .. k -> Nat] /\ g2 \in [1 .. k -> Nat]
  /\ u \in 1 .. n /\ \A x \in 1 .. n : x # u => f2[x] = f[x]
  /\ v \in 1 .. k /\ \A x \in 1 .. k : x # v => g2[x] = g[x]
  /\ f2[u] + g2[v] <= f[u] + g[v]
  /\ Total(f, n) + Total(g, k) <= L

LEMMA Exchange ==
  ASSUME NEW n, NEW k, NEW L, NEW f, NEW f2, NEW g, NEW g2, NEW u, NEW v,
         Exchanged(n, k, L, f, f2, g, g2, u, v)
  PROVE  Total(f2, n) + Total(g2, k) <= L
<1> USE DEF Exchanged
<1>1. Total(f2, n) + f[u] = Total(f, n) + f2[u]
  BY TotalUpdate
<1>2. Total(g2, k) + g[v] = Total(g, k) + g2[v]
  BY TotalUpdate
<1>3. PICK a \in Nat, b \in Nat, c \in Nat, d \in Nat :
        a = Total(f, n) /\ b = Total(f2, n) /\ c = Total(g, k) /\ d = Total(g2, k)
  BY TotalNat
<1>4. PICK p \in Nat, q \in Nat, r \in Nat, s \in Nat :
        p = f[u] /\ q = f2[u] /\ r = g[v] /\ s = g2[v]
  OBVIOUS
<1>5. b + p = a + q /\ d + r = c + s /\ q + s <= p + r /\ a + c <= L
  BY <1>1, <1>2, <1>3, <1>4
<1>6. b + d <= L
  BY <1>5, Balance
<1> QED
  BY <1>3, <1>6

\* A check that lets one more amount pass leaves the totals within the overshoot.
Passing(n, k, b, L, f, g, v) ==
  /\ n \in Nat /\ k \in Nat /\ b \in Nat /\ L \in Nat
  /\ f \in [1 .. n -> Nat] /\ g \in [1 .. k -> Nat] /\ v \in 1 .. k
  /\ \A x \in 1 .. k : g[x] <= b
  /\ Total(f, n) + g[v] <= L

LEMMA Passed ==
  ASSUME NEW n, NEW k, NEW b, NEW L, NEW f, NEW g, NEW v, Passing(n, k, b, L, f, g, v)
  PROVE  Total(f, n) + Total(g, k) <= L + (k - 1) * b
<1> USE DEF Passing
<1>1. Total(g, k) <= g[v] + (k - 1) * b
  BY TotalOthers
<1>2. PICK a \in Nat, c \in Nat, d \in Nat : a = Total(f, n) /\ c = Total(g, k) /\ d = g[v]
  BY TotalNat
<1>3. (k - 1) * b \in Int
  OBVIOUS
<1> QED
  BY <1>1, <1>2, <1>3

TablesOK ==
  /\ \A m \in Market : /\ HeldIn(m) \in [1 .. MaxPredictions -> Nat]
                       /\ PlannedIn(m) \in [1 .. NumCycles -> Nat]
                       /\ \A c \in Cycle : PlannedIn(m)[c] <= MaxTrade
  /\ HeldToday \in [1 .. MaxPredictions -> Nat]
  /\ PlannedToday \in [1 .. NumCycles -> Nat]
  /\ \A c \in Cycle : PlannedToday[c] <= MaxTrade

LEMMA Tables == TypeOK => TablesOK
BY TradingAssumption DEF TypeOK, TablesOK, HeldIn, PlannedIn, HeldToday, PlannedToday, Prediction, Cycle

\* A step that changes what prediction p holds and what cycle c plans for market m,
\* and no other, and does not make the two together larger.
Moves(m, p, c) ==
  /\ \A x \in Prediction : x # p => HeldIn(m)'[x] = HeldIn(m)[x]
  /\ \A x \in Cycle : x # c => PlannedIn(m)'[x] = PlannedIn(m)[x]
  /\ HeldIn(m)'[p] + PlannedIn(m)'[c] <= HeldIn(m)[p] + PlannedIn(m)[c]

LEMMA MovesKeepRoom ==
  ASSUME TablesOK, TablesOK', NEW m \in Market, NEW p \in Prediction, NEW c \in Cycle, Moves(m, p, c),
         Total(HeldIn(m), MaxPredictions) + Total(PlannedIn(m), NumCycles) <= MaxMarket + Overshoot
  PROVE  (Total(HeldIn(m), MaxPredictions) + Total(PlannedIn(m), NumCycles))' <= MaxMarket + Overshoot
<1>1. /\ HeldIn(m) \in [1 .. MaxPredictions -> Nat] /\ HeldIn(m)' \in [1 .. MaxPredictions -> Nat]
      /\ PlannedIn(m) \in [1 .. NumCycles -> Nat] /\ PlannedIn(m)' \in [1 .. NumCycles -> Nat]
  BY DEF TablesOK
<1>2. MaxMarket + Overshoot \in Int
  BY TradingAssumption DEF Overshoot
<1>3. p \in 1 .. MaxPredictions /\ c \in 1 .. NumCycles
  BY DEF Prediction, Cycle
<1>4. MaxPredictions \in Nat /\ NumCycles \in Nat
  BY TradingAssumption
<1>5. PICK f, f2, g, g2, L :
        /\ f = HeldIn(m) /\ f2 = HeldIn(m)' /\ g = PlannedIn(m) /\ g2 = PlannedIn(m)'
        /\ L = MaxMarket + Overshoot
  OBVIOUS
<1>6. /\ \A x \in 1 .. MaxPredictions : x # p => f2[x] = f[x]
      /\ \A x \in 1 .. NumCycles : x # c => g2[x] = g[x]
      /\ f2[p] + g2[c] <= f[p] + g[c]
      /\ Total(f, MaxPredictions) + Total(g, NumCycles) <= L
  BY <1>5 DEF Moves, Prediction, Cycle
<1>7. /\ f \in [1 .. MaxPredictions -> Nat] /\ f2 \in [1 .. MaxPredictions -> Nat]
      /\ g \in [1 .. NumCycles -> Nat] /\ g2 \in [1 .. NumCycles -> Nat] /\ L \in Int
  BY <1>1, <1>2, <1>5
<1>8. Exchanged(MaxPredictions, NumCycles, L, f, f2, g, g2, p, c)
  BY <1>3, <1>4, <1>6, <1>7 DEF Exchanged
<1>9. Total(f2, MaxPredictions) + Total(g2, NumCycles) <= L
  BY <1>8, Exchange
<1> QED
  BY <1>5, <1>9 DEF Overshoot

\* A check that passes.
LEMMA PassedRoom ==
  ASSUME TablesOK', NEW m \in Market, NEW c \in Cycle,
         HeldIn(m)' = HeldIn(m), PlannedIn(m)'[c] = stake[c],
         Total(HeldIn(m), MaxPredictions) + stake[c] <= MaxMarket
  PROVE  (Total(HeldIn(m), MaxPredictions) + Total(PlannedIn(m), NumCycles))' <= MaxMarket + Overshoot
<1>1. PICK f, g : f = HeldIn(m)' /\ g = PlannedIn(m)'
  OBVIOUS
<1>2. /\ f \in [1 .. MaxPredictions -> Nat] /\ g \in [1 .. NumCycles -> Nat]
      /\ \A x \in 1 .. NumCycles : g[x] <= MaxTrade
  BY <1>1 DEF TablesOK, Cycle
<1>3. c \in 1 .. NumCycles /\ Total(f, MaxPredictions) + g[c] <= MaxMarket
  BY <1>1 DEF Cycle
<1>4. Passing(MaxPredictions, NumCycles, MaxTrade, MaxMarket, f, g, c)
  BY <1>2, <1>3, TradingAssumption DEF Passing
<1>5. Total(f, MaxPredictions) + Total(g, NumCycles) <= MaxMarket + (NumCycles - 1) * MaxTrade
  BY <1>4, Passed
<1> QED
  BY <1>1, <1>5 DEF Overshoot

LEMMA MarketStep == Base /\ MarketRoom /\ [Next]_vars => MarketRoom'
<1> SUFFICES ASSUME Base, MarketRoom, [Next]_vars, NEW m \in Market
             PROVE  (Total(HeldIn(m), MaxPredictions) + Total(PlannedIn(m), NumCycles))' <= MaxMarket + Overshoot
  BY DEF MarketRoom, Overshoot
<1> DEFINE Kept == (Total(HeldIn(m), MaxPredictions) + Total(PlannedIn(m), NumCycles))' <= MaxMarket + Overshoot
<1>a. TablesOK /\ TablesOK'
  <2>1. (TypeOK => TablesOK)'
    BY Tables, PTL
  <2> QED BY <2>1, Tables, TypeStep DEF Base
<1>b. Total(HeldIn(m), MaxPredictions) + Total(PlannedIn(m), NumCycles) <= MaxMarket + Overshoot
  BY DEF MarketRoom
<1>c. 1 \in Prediction /\ 1 \in Cycle
  BY TradingAssumption DEF Prediction, Cycle
<1>d. ASSUME NEW p \in Prediction, NEW c \in Cycle, Moves(m, p, c) PROVE Kept
  BY <1>a, <1>b, <1>d, MovesKeepRoom
<1> HIDE DEF Kept
<1> USE Numbers DEF Moves, HeldIn, PlannedIn, Counts, Exposed, Base, TypeOK, Handling, Stored,
                    vars, predictions, cycles, Goto, Slot, Size
<1>1. ASSUME NEW c \in Cycle, StartCycle(c) PROVE Kept
  <2>1. Moves(m, 1, c)
    BY <1>1, <1>c DEF StartCycle
  <2> QED BY <2>1, <1>c, <1>d
<1>2. ASSUME NEW c \in Cycle, Skip(c) PROVE Kept
  <2>1. Moves(m, 1, c)
    BY <1>2, <1>c DEF Skip
  <2> QED BY <2>1, <1>c, <1>d
<1>3. ASSUME NEW c \in Cycle, Consider(c) PROVE Kept
  <2>1. Moves(m, 1, c)
    BY <1>3, <1>c DEF Consider
  <2> QED BY <2>1, <1>c, <1>d
<1>4. ASSUME NEW c \in Cycle, CheckMarketExposure(c) PROVE Kept
  <2>1. CASE pc'[c] = "daily" /\ at[c] = m
    <3>1. Total(HeldIn(m), MaxPredictions) + stake[c] <= MaxMarket
      BY <1>4, <2>1 DEF CheckMarketExposure, Proceed, Done, MarketExposure
    <3>2. HeldIn(m)' = HeldIn(m) /\ PlannedIn(m)'[c] = stake[c]
      BY <1>4, <2>1 DEF CheckMarketExposure, Proceed, Done
    <3> QED BY <1>a, <3>1, <3>2, PassedRoom DEF Kept
  <2>2. CASE ~(pc'[c] = "daily" /\ at[c] = m)
    <3>1. Moves(m, 1, c)
      BY <1>4, <1>c, <2>2 DEF CheckMarketExposure, Proceed, Done
    <3> QED BY <3>1, <1>c, <1>d
  <2> QED BY <2>1, <2>2
<1>5. ASSUME NEW c \in Cycle, CheckDailyExposure(c) PROVE Kept
  <2>1. Moves(m, 1, c)
    BY <1>5, <1>c DEF CheckDailyExposure, Proceed, Done
  <2> QED BY <2>1, <1>c, <1>d
<1>6. ASSUME NEW c \in Cycle, CreatePrediction(c) PROVE Kept
  <2>1. PICK p \in Prediction : p \notin Stored /\ Moves(m, p, c)
    BY <1>6 DEF CreatePrediction, First, Done
  <2> QED BY <2>1, <1>d
<1>7. ASSUME NEW c \in Cycle, MarkSubmitted(c) PROVE Kept
  <2>1. current[c] \in Prediction /\ Moves(m, current[c], c)
    BY <1>7 DEF MarkSubmitted, Done, SetStatus
  <2> QED BY <2>1, <1>d
<1>8. ASSUME NEW c \in Cycle, SendBet(c) PROVE Kept
  <2>1. Moves(m, 1, c)
    BY <1>8, <1>c DEF SendBet
  <2> QED BY <2>1, <1>c, <1>d
<1>9. ASSUME NEW c \in Cycle, Record(c) PROVE Kept
  <2>1. Moves(m, 1, c)
    BY <1>9, <1>c DEF Record
  <2> QED BY <2>1, <1>c, <1>d
<1>10. ASSUME NEW c \in Cycle, Complete(c) PROVE Kept
  <2>1. current[c] \in Prediction /\ Moves(m, current[c], c)
    BY <1>10 DEF Complete, Done, SetStatus
  <2> QED BY <2>1, <1>d
<1>11. ASSUME NEW c \in Cycle, Fail(c) PROVE Kept
  <2>1. current[c] \in Prediction /\ Moves(m, current[c], c)
    BY <1>11 DEF Fail, Done, SetStatus
  <2> QED BY <2>1, <1>d
<1>12. ASSUME NEW c \in Cycle, EndCycle(c) PROVE Kept
  <2>1. Moves(m, 1, c)
    BY <1>12, <1>c DEF EndCycle
  <2> QED BY <2>1, <1>c, <1>d
<1>13. ASSUME NEW c \in Cycle, Crash(c) PROVE Kept
  <2>1. Moves(m, 1, c)
    BY <1>13, <1>c DEF Crash
  <2> QED BY <2>1, <1>c, <1>d
<1>14. ASSUME NEW p \in Prediction, Mine(p) PROVE Kept
  <2>1. Moves(m, 1, 1)
    BY <1>14, <1>c DEF Mine
  <2> QED BY <2>1, <1>c, <1>d
<1>15. ASSUME Tick PROVE Kept
  <2>1. Moves(m, 1, 1)
    BY <1>15, <1>c DEF Tick
  <2> QED BY <2>1, <1>c, <1>d
<1>16. ASSUME UNCHANGED vars PROVE Kept
  <2>1. Moves(m, 1, 1)
    BY <1>16, <1>c
  <2> QED BY <2>1, <1>c, <1>d
<1>17. Kept
  BY <1>1, <1>2, <1>3, <1>4, <1>5, <1>6, <1>7, <1>8, <1>9, <1>10,
     <1>11, <1>12, <1>13, <1>14, <1>15, <1>16 DEF Next, Run, Decide, Execute
<1> QED
  BY <1>17 DEF Kept

\* The same for what was stored, and what is planned, today.
DayMoves(p, c) ==
  /\ \A x \in Prediction : x # p => HeldToday'[x] = HeldToday[x]
  /\ \A x \in Cycle : x # c => PlannedToday'[x] = PlannedToday[x]
  /\ HeldToday'[p] + PlannedToday'[c] <= HeldToday[p] + PlannedToday[c]

LEMMA DayMovesKeepRoom ==
  ASSUME TablesOK, TablesOK', NEW p \in Prediction, NEW c \in Cycle, DayMoves(p, c),
         Total(HeldToday, MaxPredictions) + Total(PlannedToday, NumCycles) <= MaxDaily + Overshoot
  PROVE  (Total(HeldToday, MaxPredictions) + Total(PlannedToday, NumCycles))' <= MaxDaily + Overshoot
<1>1. /\ HeldToday \in [1 .. MaxPredictions -> Nat] /\ HeldToday' \in [1 .. MaxPredictions -> Nat]
      /\ PlannedToday \in [1 .. NumCycles -> Nat] /\ PlannedToday' \in [1 .. NumCycles -> Nat]
  BY DEF TablesOK
<1>2. MaxDaily + Overshoot \in Int
  BY TradingAssumption DEF Overshoot
<1>3. p \in 1 .. MaxPredictions /\ c \in 1 .. NumCycles
  BY DEF Prediction, Cycle
<1>4. MaxPredictions \in Nat /\ NumCycles \in Nat
  BY TradingAssumption
<1>5. PICK f, f2, g, g2, L :
        /\ f = HeldToday /\ f2 = HeldToday' /\ g = PlannedToday /\ g2 = PlannedToday'
        /\ L = MaxDaily + Overshoot
  OBVIOUS
<1>6. /\ \A x \in 1 .. MaxPredictions : x # p => f2[x] = f[x]
      /\ \A x \in 1 .. NumCycles : x # c => g2[x] = g[x]
      /\ f2[p] + g2[c] <= f[p] + g[c]
      /\ Total(f, MaxPredictions) + Total(g, NumCycles) <= L
  BY <1>5 DEF DayMoves, Prediction, Cycle
<1>7. /\ f \in [1 .. MaxPredictions -> Nat] /\ f2 \in [1 .. MaxPredictions -> Nat]
      /\ g \in [1 .. NumCycles -> Nat] /\ g2 \in [1 .. NumCycles -> Nat] /\ L \in Int
  BY <1>1, <1>2, <1>5
<1>8. Exchanged(MaxPredictions, NumCycles, L, f, f2, g, g2, p, c)
  BY <1>3, <1>4, <1>6, <1>7 DEF Exchanged
<1>9. Total(f2, MaxPredictions) + Total(g2, NumCycles) <= L
  BY <1>8, Exchange
<1> QED
  BY <1>5, <1>9 DEF Overshoot

\* A check that passes.
LEMMA DayPassed ==
  ASSUME TablesOK', NEW c \in Cycle,
         HeldToday' = HeldToday, PlannedToday'[c] = stake[c],
         Total(HeldToday, MaxPredictions) + stake[c] <= MaxDaily
  PROVE  (Total(HeldToday, MaxPredictions) + Total(PlannedToday, NumCycles))' <= MaxDaily + Overshoot
<1>1. PICK f, g : f = HeldToday' /\ g = PlannedToday'
  OBVIOUS
<1>2. /\ f \in [1 .. MaxPredictions -> Nat] /\ g \in [1 .. NumCycles -> Nat]
      /\ \A x \in 1 .. NumCycles : g[x] <= MaxTrade
  BY <1>1 DEF TablesOK, Cycle
<1>3. c \in 1 .. NumCycles /\ Total(f, MaxPredictions) + g[c] <= MaxDaily
  BY <1>1 DEF Cycle
<1>4. Passing(MaxPredictions, NumCycles, MaxTrade, MaxDaily, f, g, c)
  BY <1>2, <1>3, TradingAssumption DEF Passing
<1>5. Total(f, MaxPredictions) + Total(g, NumCycles) <= MaxDaily + (NumCycles - 1) * MaxTrade
  BY <1>4, Passed
<1> QED
  BY <1>1, <1>5 DEF Overshoot

\* As the clock ticks, predictions stop counting.
LEMMA DayExpires ==
  ASSUME TablesOK, TablesOK', PlannedToday' = PlannedToday,
         \A x \in 1 .. MaxPredictions : HeldToday'[x] <= HeldToday[x],
         Total(HeldToday, MaxPredictions) + Total(PlannedToday, NumCycles) <= MaxDaily + Overshoot
  PROVE  (Total(HeldToday, MaxPredictions) + Total(PlannedToday, NumCycles))' <= MaxDaily + Overshoot
<1>1. PICK f, f2, g : f = HeldToday /\ f2 = HeldToday' /\ g = PlannedToday
  OBVIOUS
<1>2. /\ f \in [1 .. MaxPredictions -> Nat] /\ f2 \in [1 .. MaxPredictions -> Nat]
      /\ g \in [1 .. NumCycles -> Nat] /\ \A x \in 1 .. MaxPredictions : f2[x] <= f[x]
  BY <1>1 DEF TablesOK
<1>3. Total(f2, MaxPredictions) <= Total(f, MaxPredictions)
  BY <1>2, TradingAssumption, TotalMonotone
<1>a. Total(f, MaxPredictions) \in Nat /\ Total(f2, MaxPredictions) \in Nat /\ Total(g, NumCycles) \in Nat
  BY <1>2, TradingAssumption, TotalNat
<1>b. MaxDaily + Overshoot \in Int
  BY TradingAssumption DEF Overshoot
<1>4. PICK a \in Nat, b \in Nat, c \in Nat, L \in Int :
        /\ a = Total(f, MaxPredictions) /\ b = Total(f2, MaxPredictions) /\ c = Total(g, NumCycles)
        /\ L = MaxDaily + Overshoot
  BY <1>a, <1>b
<1>5. a + c <= L
  BY <1>1, <1>4
<1>6. b + c <= L
  BY <1>3, <1>4, <1>5
<1>7. PlannedToday' = g
  BY <1>1
<1> QED
  BY <1>1, <1>4, <1>6, <1>7 DEF Overshoot

LEMMA DayStep == Base /\ DayRoom /\ [Next]_vars => DayRoom'
<1> SUFFICES ASSUME Base, DayRoom, [Next]_vars
             PROVE  (Total(HeldToday, MaxPredictions) + Total(PlannedToday, NumCycles))' <= MaxDaily + Overshoot
  BY DEF DayRoom, Overshoot
<1> DEFINE Kept == (Total(HeldToday, MaxPredictions) + Total(PlannedToday, NumCycles))' <= MaxDaily + Overshoot
<1>a. TablesOK /\ TablesOK'
  <2>1. (TypeOK => TablesOK)'
    BY Tables, PTL
  <2> QED BY <2>1, Tables, TypeStep DEF Base
<1>b. Total(HeldToday, MaxPredictions) + Total(PlannedToday, NumCycles) <= MaxDaily + Overshoot
  BY DEF DayRoom
<1>c. 1 \in Prediction /\ 1 \in Cycle
  BY TradingAssumption DEF Prediction, Cycle
<1>d. ASSUME NEW p \in Prediction, NEW c \in Cycle, DayMoves(p, c) PROVE Kept
  BY <1>a, <1>b, <1>d, DayMovesKeepRoom
<1> HIDE DEF Kept
<1> USE Numbers DEF DayMoves, HeldToday, PlannedToday, Counts, Exposed, Base, TypeOK, Handling, Stored,
                    vars, predictions, cycles, Goto, Slot, Size
<1>1. ASSUME NEW c \in Cycle, StartCycle(c) PROVE Kept
  <2>1. DayMoves(1, c)
    BY <1>1, <1>c DEF StartCycle
  <2> QED BY <2>1, <1>c, <1>d
<1>2. ASSUME NEW c \in Cycle, Skip(c) PROVE Kept
  <2>1. DayMoves(1, c)
    BY <1>2, <1>c DEF Skip
  <2> QED BY <2>1, <1>c, <1>d
<1>3. ASSUME NEW c \in Cycle, Consider(c) PROVE Kept
  <2>1. DayMoves(1, c)
    BY <1>3, <1>c DEF Consider
  <2> QED BY <2>1, <1>c, <1>d
<1>4. ASSUME NEW c \in Cycle, CheckDailyExposure(c) PROVE Kept
  <2>1. CASE pc'[c] = "create"
    <3>1. Total(HeldToday, MaxPredictions) + stake[c] <= MaxDaily
      BY <1>4, <2>1 DEF CheckDailyExposure, Proceed, Done, DailyExposure
    <3>2. HeldToday' = HeldToday /\ PlannedToday'[c] = stake[c]
      BY <1>4, <2>1 DEF CheckDailyExposure, Proceed, Done
    <3> QED BY <1>a, <3>1, <3>2, DayPassed DEF Kept
  <2>2. CASE pc'[c] # "create"
    <3>1. DayMoves(1, c)
      BY <1>4, <1>c, <2>2 DEF CheckDailyExposure, Proceed, Done
    <3> QED BY <3>1, <1>c, <1>d
  <2> QED BY <2>1, <2>2
<1>5. ASSUME NEW c \in Cycle, CheckMarketExposure(c) PROVE Kept
  <2>1. DayMoves(1, c)
    BY <1>5, <1>c DEF CheckMarketExposure, Proceed, Done
  <2> QED BY <2>1, <1>c, <1>d
<1>6. ASSUME NEW c \in Cycle, CreatePrediction(c) PROVE Kept
  <2>1. PICK p \in Prediction : p \notin Stored /\ DayMoves(p, c)
    BY <1>6 DEF CreatePrediction, First, Done
  <2> QED BY <2>1, <1>d
<1>7. ASSUME NEW c \in Cycle, MarkSubmitted(c) PROVE Kept
  <2>1. current[c] \in Prediction /\ DayMoves(current[c], c)
    BY <1>7 DEF MarkSubmitted, Done, SetStatus
  <2> QED BY <2>1, <1>d
<1>8. ASSUME NEW c \in Cycle, SendBet(c) PROVE Kept
  <2>1. DayMoves(1, c)
    BY <1>8, <1>c DEF SendBet
  <2> QED BY <2>1, <1>c, <1>d
<1>9. ASSUME NEW c \in Cycle, Record(c) PROVE Kept
  <2>1. DayMoves(1, c)
    BY <1>9, <1>c DEF Record
  <2> QED BY <2>1, <1>c, <1>d
<1>10. ASSUME NEW c \in Cycle, Complete(c) PROVE Kept
  <2>1. current[c] \in Prediction /\ DayMoves(current[c], c)
    BY <1>10 DEF Complete, Done, SetStatus
  <2> QED BY <2>1, <1>d
<1>11. ASSUME NEW c \in Cycle, Fail(c) PROVE Kept
  <2>1. current[c] \in Prediction /\ DayMoves(current[c], c)
    BY <1>11 DEF Fail, Done, SetStatus
  <2> QED BY <2>1, <1>d
<1>12. ASSUME NEW c \in Cycle, EndCycle(c) PROVE Kept
  <2>1. DayMoves(1, c)
    BY <1>12, <1>c DEF EndCycle
  <2> QED BY <2>1, <1>c, <1>d
<1>13. ASSUME NEW c \in Cycle, Crash(c) PROVE Kept
  <2>1. DayMoves(1, c)
    BY <1>13, <1>c DEF Crash
  <2> QED BY <2>1, <1>c, <1>d
<1>14. ASSUME NEW p \in Prediction, Mine(p) PROVE Kept
  <2>1. DayMoves(1, 1)
    BY <1>14, <1>c DEF Mine
  <2> QED BY <2>1, <1>c, <1>d
<1>15. ASSUME Tick PROVE Kept
  <2>1. PlannedToday' = PlannedToday
    BY <1>15 DEF Tick
  <2>2. \A x \in 1 .. MaxPredictions : HeldToday'[x] <= HeldToday[x]
    BY <1>15, TradingAssumption DEF Tick, Prediction
  <2> QED BY <2>1, <2>2, <1>a, <1>b, DayExpires DEF Kept
<1>16. ASSUME UNCHANGED vars PROVE Kept
  <2>1. DayMoves(1, 1)
    BY <1>16, <1>c
  <2> QED BY <2>1, <1>c, <1>d
<1>17. Kept
  BY <1>1, <1>2, <1>3, <1>4, <1>5, <1>6, <1>7, <1>8, <1>9, <1>10,
     <1>11, <1>12, <1>13, <1>14, <1>15, <1>16 DEF Next, Run, Decide, Execute
<1> QED
  BY <1>17 DEF Kept

-----------------------------------------------------------------------------
(* AgentTrading: the theorems *)

LEMMA OvershootNat == Overshoot \in Nat
<1>1. PICK k \in Nat : k = NumCycles - 1
  BY TradingAssumption
<1>2. \A x, y \in Nat : x * y \in Nat
  OBVIOUS
<1>3. k * MaxTrade \in Nat
  BY <1>2, TradingAssumption
<1> QED
  BY <1>1, <1>3 DEF Overshoot

LEMMA Start == Init => IInv
<1> SUFFICES ASSUME Init PROVE IInv
  OBVIOUS
<1>1. Base /\ TablesOK
  BY BaseInit, Tables DEF Base
<1>2. ASSUME NEW m \in Market
      PROVE  Total(HeldIn(m), MaxPredictions) = 0 /\ Total(PlannedIn(m), NumCycles) = 0
  <2>1. \A p \in 1 .. MaxPredictions : HeldIn(m)[p] = 0
    BY DEF Init, HeldIn, Counts, Exposed, Prediction
  <2>2. \A c \in 1 .. NumCycles : PlannedIn(m)[c] = 0
    BY DEF Init, PlannedIn, Cycle
  <2> QED BY <1>1, <2>1, <2>2, TotalZero, TradingAssumption DEF TablesOK
<1>3. Total(HeldToday, MaxPredictions) = 0 /\ Total(PlannedToday, NumCycles) = 0
  <2>1. \A p \in 1 .. MaxPredictions : HeldToday[p] = 0
    BY DEF Init, HeldToday, Counts, Exposed, Prediction
  <2>2. \A c \in 1 .. NumCycles : PlannedToday[c] = 0
    BY DEF Init, PlannedToday, Cycle
  <2> QED BY <1>1, <2>1, <2>2, TotalZero, TradingAssumption DEF TablesOK
<1>4. 0 <= MaxMarket + Overshoot /\ 0 <= MaxDaily + Overshoot
  BY OvershootNat, TradingAssumption
<1> QED
  BY <1>1, <1>2, <1>3, <1>4 DEF IInv, MarketRoom, DayRoom

LEMMA Invariance == Spec => []IInv
<1>1. IInv /\ [Next]_vars => IInv'
  BY BaseStep, MarketStep, DayStep DEF IInv
<1> QED
  BY Start, <1>1, PTL DEF Spec

\* What is stored is at most what is stored and planned.
LEMMA ExposureWithin == IInv => MarketExposureBounded /\ DailyExposureBounded
<1> SUFFICES ASSUME IInv PROVE MarketExposureBounded /\ DailyExposureBounded
  OBVIOUS
<1>1. TablesOK
  BY Tables DEF IInv, Base
<1>2. \A a, b \in Nat, L \in Nat : a + b <= L => a <= L
  OBVIOUS
<1>3. MaxMarket + Overshoot \in Nat /\ MaxDaily + Overshoot \in Nat
  BY OvershootNat, TradingAssumption
<1>4. ASSUME NEW m \in Market PROVE MarketExposure(m) <= MaxMarket + Overshoot
  <2>1. Total(HeldIn(m), MaxPredictions) \in Nat /\ Total(PlannedIn(m), NumCycles) \in Nat
    BY <1>1, TotalNat, TradingAssumption DEF TablesOK
  <2>2. Total(HeldIn(m), MaxPredictions) + Total(PlannedIn(m), NumCycles) <= MaxMarket + Overshoot
    BY DEF IInv, MarketRoom
  <2> QED BY <1>2, <1>3, <2>1, <2>2 DEF MarketExposure
<1>5. DailyExposure <= MaxDaily + Overshoot
  <2>1. Total(HeldToday, MaxPredictions) \in Nat /\ Total(PlannedToday, NumCycles) \in Nat
    BY <1>1, TotalNat, TradingAssumption DEF TablesOK
  <2>2. Total(HeldToday, MaxPredictions) + Total(PlannedToday, NumCycles) <= MaxDaily + Overshoot
    BY DEF IInv, DayRoom
  <2> QED BY <1>2, <1>3, <2>1, <2>2 DEF DailyExposure
<1> QED
  BY <1>4, <1>5 DEF MarketExposureBounded, DailyExposureBounded

\* Every variable keeps its type, and every stored prediction a stake of at most one trade.
THEOREM TypeCorrect == Spec => []TypeOK
<1>1. IInv => TypeOK
  BY DEF IInv, Base
<1> QED
  BY Invariance, <1>1, PTL

\* However many cycles run at the same time, and whatever fails, an agent's counted
\* exposure on a market is at most the limit and one trade for each other cycle.
THEOREM MarketOvershoot == Spec => []MarketExposureBounded
<1>1. IInv => MarketExposureBounded
  BY ExposureWithin
<1> QED
  BY Invariance, <1>1, PTL

\* The same for its exposure of the last day.
THEOREM DailyOvershoot == Spec => []DailyExposureBounded
<1>1. IInv => DailyExposureBounded
  BY ExposureWithin
<1> QED
  BY Invariance, <1>1, PTL

\* A runner that has the agent for itself keeps both limits exactly: the checks are
\* complete, and only concurrency exceeds them.
THEOREM AloneWithinLimits ==
  ASSUME NumCycles = 1
  PROVE  Spec => []((\A m \in Market : MarketExposure(m) <= MaxMarket) /\ DailyExposure <= MaxDaily)
<1>1. MaxMarket + Overshoot = MaxMarket /\ MaxDaily + Overshoot = MaxDaily
  BY TradingAssumption DEF Overshoot
<1>2. IInv => (\A m \in Market : MarketExposure(m) <= MaxMarket) /\ DailyExposure <= MaxDaily
  BY <1>1, ExposureWithin DEF MarketExposureBounded, DailyExposureBounded
<1> QED
  BY Invariance, <1>2, PTL

\* The database knows of every transaction, wherever a cycle fails or crashes.
THEOREM BetsKnown == Spec => []NoUnknownBet
<1>1. IInv => NoUnknownBet
  BY DEF IInv, Base, Tracked
<1> QED
  BY Invariance, <1>1, PTL

\* What is EXECUTED is in the market and in the backend's copy of it.
THEOREM ExecutedReal == Spec => []ExecutedIsReal
<1>1. IInv => ExecutedIsReal
  BY DEF IInv, Base, Tracked
<1> QED
  BY Invariance, <1>1, PTL

\* Overlapping cycles exceed neither limit by more than one trade each.
THEOREM Overshoots == Spec => []ExposureBounded
BY TypeCorrect, MarketOvershoot, DailyOvershoot, PTL DEF ExposureBounded

\* Predictions and transactions are about the same bets, wherever a cycle ends.
THEOREM BetsAccountedFor == Spec => []BetsAccounted
BY BetsKnown, ExecutedReal, PTL DEF BetsAccounted

-----------------------------------------------------------------------------
(* SocialIngest: what the limiter compares and what an item scores *)

LEMMA LeastMost ==
  ASSUME NEW x \in Int, NEW y \in Int
  PROVE  /\ Least(x, y) = IF x <= y THEN x ELSE y
         /\ Most(x, y) = IF x <= y THEN y ELSE x
         /\ Least(x, y) \in Int /\ Most(x, y) \in Int
<1>1. Min({x, y}) = IF x <= y THEN x ELSE y
  <2> DEFINE lo == IF x <= y THEN x ELSE y
  <2>1. lo \in {x, y} /\ \A z \in {x, y} : lo <= z
    OBVIOUS
  <2>2. \A z \in {x, y} : (\A zz \in {x, y} : z <= zz) => z = lo
    OBVIOUS
  <2> HIDE DEF lo
  <2>3. Min({x, y}) = lo
    BY <2>1, <2>2 DEF Min
  <2> QED BY <2>3 DEF lo
<1>2. Max({x, y}) = IF x <= y THEN y ELSE x
  <2> DEFINE hi == IF x <= y THEN y ELSE x
  <2>1. hi \in {x, y} /\ \A z \in {x, y} : hi >= z
    OBVIOUS
  <2>2. \A z \in {x, y} : (\A zz \in {x, y} : z >= zz) => z = hi
    OBVIOUS
  <2> HIDE DEF hi
  <2>3. Max({x, y}) = hi
    BY <2>1, <2>2 DEF Max
  <2> QED BY <2>3 DEF hi
<1> QED BY <1>1, <1>2 DEF Least, Most

LEMMA LeastNat ==
  ASSUME NEW x \in Nat, NEW y \in Nat
  PROVE  Least(x, y) \in Nat /\ Least(x, y) <= y
<1>1. Least(x, y) = IF x <= y THEN x ELSE y
  BY LeastMost
<1> QED BY <1>1

LEMMA Between ==
  ASSUME NEW x \in Int, NEW top \in Nat
  PROVE  Most(0, Least(top, x)) \in 0 .. top
<1>1. Least(top, x) = IF top <= x THEN top ELSE x
  BY LeastMost
<1>2. PICK y : y = IF top <= x THEN top ELSE x
  OBVIOUS
<1>3. y \in Int /\ y <= top
  BY <1>2
<1>4. Most(0, y) = IF 0 <= y THEN y ELSE 0
  BY <1>3, LeastMost
<1> QED BY <1>1, <1>2, <1>3, <1>4

EventScore == [bps : BpsSet, eligible : BOOLEAN]

LEMMA ClampType ==
  ASSUME NEW x \in Int
  PROVE  ClampBps(x) \in BpsSet
<1>1. PICK top \in Nat : top = 10000
  OBVIOUS
<1>2. Most(0, Least(top, x)) \in 0 .. top
  BY Between
<1> QED BY <1>1, <1>2 DEF ClampBps, BpsSet

LEMMA ScoreType ==
  ASSUME SocialAssumption, NEW i \in Item, NEW answer \in Answers
  PROVE  Score(i, answer) \in EventScore /\ Heuristic(i) \in EventScore
<1> DEFINE t == Text[i]
<1>1. /\ t.markers \in Nat /\ t.digits \in Nat /\ t.velocity \in Int /\ t.volume \in Int
      /\ t.blank \in BOOLEAN /\ t.predictive \in BOOLEAN
  <2>1. t \in [blank : BOOLEAN, predictive : BOOLEAN, markers : Nat, digits : Nat,
               velocity : Int, volume : Int, sentiment : Int]
    BY DEF SocialAssumption
  <2> HIDE DEF t
  <2> QED BY <2>1
<1> DEFINE vel == Most(0, t.velocity \div 10)
           vol == Most(0, t.volume \div 20)
           bps == 2500 + (IF t.predictive THEN 1800 ELSE 0) + Least(2200, t.markers * 400)
                       + (IF t.digits >= 3 THEN 900 ELSE 0) + Least(1200, vel + vol)
<1>2. bps \in Int
  <2>0. t.velocity \div 10 \in Int /\ t.volume \div 20 \in Int /\ t.markers * 400 \in Int
    BY <1>1
  <2>1. PICK a \in Int, b \in Int, c \in Int : a = t.velocity \div 10 /\ b = t.volume \div 20 /\ c = t.markers * 400
    BY <2>0
  <2>2. Most(0, a) \in Int /\ Most(0, b) \in Int /\ Least(2200, c) \in Int
    <3>1. a \in Int /\ b \in Int /\ c \in Int /\ 0 \in Int /\ 2200 \in Int
      BY <2>1
    <3>2. Most(0, a) \in Int
      BY <3>1, LeastMost
    <3>3. Most(0, b) \in Int
      BY <3>1, LeastMost
    <3>4. Least(2200, c) \in Int
      BY <3>1, LeastMost
    <3> QED BY <3>2, <3>3, <3>4
  <2>3. PICK d \in Int : d = Most(0, a) + Most(0, b)
    BY <2>2
  <2>4. Least(1200, d) \in Int
    BY <2>3, LeastMost
  <2>5. bps = 2500 + (IF t.predictive THEN 1800 ELSE 0) + Least(2200, c) + (IF t.digits >= 3 THEN 900 ELSE 0) + Least(1200, d)
    BY <2>1, <2>3
  <2> HIDE DEF bps, t
  <2> QED BY <2>2, <2>4, <2>5
<1>3. ClampBps(bps) \in BpsSet
  <2>1. PICK x \in Int : x = bps
    BY <1>2
  <2>2. ClampBps(x) \in BpsSet
    BY ClampType
  <2> HIDE DEF bps
  <2> QED BY <2>1, <2>2
<1>4. Heuristic(i) = IF t.blank THEN [bps |-> 0, eligible |-> FALSE]
                       ELSE [bps |-> ClampBps(bps), eligible |-> ClampBps(bps) >= 5500]
  BY DEF Heuristic
<1>5. Heuristic(i) \in EventScore
  <2> DEFINE c == ClampBps(bps)
             ok == c >= 5500
  <2>1. ok \in BOOLEAN
    OBVIOUS
  <2> HIDE DEF t, bps
  <2>2. c \in BpsSet
    BY <1>3
  <2>3. Heuristic(i) \in {[bps |-> 0, eligible |-> FALSE], [bps |-> c, eligible |-> ok]}
    BY <1>4
  <2> HIDE DEF c, ok
  <2>4. [bps |-> 0, eligible |-> FALSE] \in EventScore /\ [bps |-> c, eligible |-> ok] \in EventScore
    <3>1. 0 \in BpsSet
      BY DEF BpsSet
    <3> QED BY <2>1, <2>2, <3>1 DEF EventScore
  <2> QED BY <2>3, <2>4
<1>6. CASE answer = NoAnswer \/ Text[i].blank
  BY <1>5, <1>6 DEF Score
<1>7. CASE ~(answer = NoAnswer \/ Text[i].blank)
  <2>1. answer.bps \in Int /\ answer.eligible \in BOOLEAN
    <3>1. answer \in [bps : Int, eligible : BOOLEAN]
      BY <1>7 DEF SocialAssumption
    <3> QED BY <3>1
  <2>2. ClampBps(answer.bps) \in BpsSet
    BY <2>1, ClampType
  <2>3. Score(i, answer) = [bps |-> ClampBps(answer.bps), eligible |-> answer.eligible]
    BY <1>7 DEF Score
  <2> QED BY <1>5, <2>1, <2>2, <2>3 DEF EventScore
<1> QED BY <1>6, <1>7

-----------------------------------------------------------------------------
(* SocialIngest: the inductive invariant *)

\* A host never gets more requests let through than its counter says, nor more
\* than the limit, where the limiter fails closed.
Request == [item : Item, from : Host, by : SUBSET Worker, step : {"arrived", "limited", "new"}]
HandlerTypes == handler \in [Handler -> {Free} \cup Request]
Counters ==
  /\ count \in [Host -> Nat] /\ passed \in [Host -> Nat]
  /\ ~FailOpen => \A a \in Host : passed[a] <= count[a] /\ passed[a] <= MaxRequests

\* What the worker processes hold is what the feeds listed.
Listings ==
  /\ listing \in [Feed -> Seq(Item)]
  /\ \A f \in Feed : IsInjective(listing[f]) /\ (\A i \in Range(listing[f]) : FeedOf[i] = f)
Workers ==
  /\ worker \in [Worker -> [todo : Seq(Feed), items : Seq(Item)]]
  /\ rested \subseteq Worker

\* A worker waits for one request at most, about an item it still has to post.
Waits ==
  /\ \A h \in Handler : \A w \in handler[h].by : worker[w].items # <<>>
  /\ \A h, g \in Handler : \A w \in Worker : w \in handler[h].by /\ w \in handler[g].by => h = g

\* A row is somebody's score, and one request was told that it made it.
EventRow(i) == {Score(i, answer) : answer \in Answers}
EventRows ==
  /\ rows = [i \in Item |-> rows[i]] /\ told = [i \in Item |-> told[i]]
  /\ \A i \in Item : /\ (rows[i] = Absent \/ rows[i] \in EventRow(i))
                     /\ told[i] = (IF rows[i] = Absent THEN 0 ELSE 1)

IngestInv ==
  /\ SocialAssumption /\ HandlerTypes /\ Counters /\ Listings /\ Workers /\ Waits /\ EventRows
  /\ failures \in 0 .. MaxFailures

\* Free is not a request, and a stored row is not Absent.
LEMMA FreeIsNot ==
  /\ \A r \in Request : r # Free /\ r.step # "free"
  /\ Free.step = "free" /\ Free.by = {}
  /\ \A s \in EventScore : s # Absent
<1>1. ASSUME NEW r \in Request PROVE r.step # "free"
  BY DEF Request
<1>2. Free.step = "free" /\ Free.by = {}
  BY DEF Free
<1>3. ASSUME NEW s \in EventScore, s = Absent PROVE FALSE
  <2>1. DOMAIN s = {"bps", "eligible"} /\ DOMAIN Absent = {"none"}
    BY DEF EventScore, Absent
  <2> QED BY <1>3, <2>1
<1> QED BY <1>1, <1>2, <1>3


LEMMA WorkerTypes ==
  ASSUME Workers, NEW w \in Worker
  PROVE  /\ worker[w] \in [todo : Seq(Feed), items : Seq(Item)]
         /\ worker[w].todo \in Seq(Feed) /\ worker[w].items \in Seq(Item)
<1>1. worker[w] \in [todo : Seq(Feed), items : Seq(Item)]
  BY DEF Workers
<1> QED BY <1>1

LEMMA HandlerIs ==
  ASSUME HandlerTypes, NEW h \in Handler
  PROVE  /\ handler[h] \in {Free} \cup Request
         /\ handler[h] # Free => handler[h] \in Request
         /\ handler[h].step # "free" => handler[h] \in Request
         /\ handler[h].by \in SUBSET Worker
<1>1. handler[h] \in {Free} \cup Request
  BY DEF HandlerTypes
<1>2. \A r \in Request : r.by \in SUBSET Worker
  BY DEF Request
<1> QED BY <1>1, <1>2, FreeIsNot

LEMMA RequestFields ==
  ASSUME NEW r \in Request
  PROVE  r.item \in Item /\ r.from \in Host /\ r.by \in SUBSET Worker
BY DEF Request

LEMMA RequestStep ==
  ASSUME NEW r \in Request, NEW s \in {"arrived", "limited", "new"}
  PROVE  [r EXCEPT !.step = s] \in Request /\ [r EXCEPT !.step = s].by = r.by
BY DEF Request

LEMMA RequestLeft ==
  ASSUME NEW r \in Request
  PROVE  [r EXCEPT !.by = {}] \in Request /\ [r EXCEPT !.by = {}].by = {}
BY DEF Request

\* The workers in ws have gone on to their next item.
LEMMA AdvanceKeeps ==
  ASSUME Workers, NEW ws \in SUBSET Worker, \A w \in ws : worker[w].items # <<>>,
         worker' = Advance(ws), rested' = rested
  PROVE  /\ Workers'
         /\ \A w \in Worker \ ws : worker'[w] = worker[w]
<1>1. ASSUME NEW w \in ws PROVE [worker[w] EXCEPT !.items = Tail(@)] \in [todo : Seq(Feed), items : Seq(Item)]
  <2>1. worker[w] \in [todo : Seq(Feed), items : Seq(Item)] /\ worker[w].items \in Seq(Item)
    BY WorkerTypes
  <2>2. Tail(worker[w].items) \in Seq(Item)
    BY <2>1
  <2> QED BY <2>1, <2>2
<1>2. ASSUME NEW w \in Worker PROVE worker[w] \in [todo : Seq(Feed), items : Seq(Item)]
  BY WorkerTypes
<1>3. worker' = [w \in Worker |-> IF w \in ws THEN [worker[w] EXCEPT !.items = Tail(@)] ELSE worker[w]]
  BY DEF Advance
<1>4. worker' \in [Worker -> [todo : Seq(Feed), items : Seq(Item)]]
  BY <1>1, <1>2, <1>3
<1> QED BY <1>3, <1>4 DEF Workers

\* The answer of a request lets the workers that wait for it go on.
LEMMA AnswerKeeps ==
  ASSUME HandlerTypes, Workers, Waits, NEW h \in Handler, Answer(h)
  PROVE  HandlerTypes' /\ Workers' /\ Waits' /\ listing' = listing /\ rested' = rested
<1>1. handler' = [handler EXCEPT ![h] = Free] /\ worker' = Advance(handler[h].by)
      /\ listing' = listing /\ rested' = rested
  BY DEF Answer
<1>2. HandlerTypes'
  BY <1>1 DEF HandlerTypes
<1>3. handler'[h].by = {} /\ \A g \in Handler : g # h => handler'[g] = handler[g]
  BY <1>1, FreeIsNot DEF HandlerTypes
<1>4. handler[h].by \in SUBSET Worker
  BY HandlerIs
<1>5. Workers' /\ \A w \in Worker \ handler[h].by : worker'[w] = worker[w]
  BY <1>1, <1>4, AdvanceKeeps DEF Waits
<1>6. Waits'
  <2>1. ASSUME NEW g \in Handler, NEW w \in handler'[g].by
        PROVE  g # h /\ w \in handler[g].by /\ worker'[w].items # <<>>
    <3>1. g # h /\ w \in handler[g].by /\ w \in Worker
      BY <2>1, <1>3, HandlerIs
    <3>2. w \notin handler[h].by
      BY <3>1 DEF Waits
    <3>3. worker'[w] = worker[w] /\ worker[w].items # <<>>
      BY <3>1, <3>2, <1>5 DEF Waits
    <3> QED BY <3>1, <3>3
  <2>2. ASSUME NEW f \in Handler, NEW g \in Handler, NEW w \in Worker, w \in handler'[f].by, w \in handler'[g].by
        PROVE  f = g
    BY <2>1, <2>2 DEF Waits
  <2> QED BY <2>1, <2>2 DEF Waits
<1> QED BY <1>1, <1>2, <1>5, <1>6

LEMMA ContinueKeeps ==
  ASSUME HandlerTypes, Workers, Waits, NEW h \in Handler, handler[h] \in Request,
         NEW s \in {"arrived", "limited", "new"}, Continue(h, s)
  PROVE  HandlerTypes' /\ Workers' /\ Waits' /\ listing' = listing /\ rested' = rested
<1>1. handler' = [handler EXCEPT ![h].step = s] /\ worker' = worker /\ listing' = listing /\ rested' = rested
  BY DEF Continue
<1>2. [handler[h] EXCEPT !.step = s] \in Request /\ [handler[h] EXCEPT !.step = s].by = handler[h].by
  BY RequestStep
<1>3. handler' = [handler EXCEPT ![h] = [handler[h] EXCEPT !.step = s]]
  BY <1>1
<1>4. HandlerTypes' /\ \A g \in Handler : handler'[g].by = handler[g].by
  BY <1>2, <1>3 DEF HandlerTypes
<1>5. Waits'
  BY <1>1, <1>4 DEF Waits
<1>6. Workers'
  BY <1>1 DEF Workers
<1> QED BY <1>1, <1>4, <1>5, <1>6

\* One more request of a host, let through or refused.
LEMMA CountKeeps ==
  ASSUME SocialAssumption, Counters, NEW a \in Host,
         \/ /\ count' = [count EXCEPT ![a] = @ + 1]
            /\ IF count'[a] <= MaxRequests THEN passed' = [passed EXCEPT ![a] = @ + 1] ELSE passed' = passed
         \/ /\ count' = count \/ (count[a] = 0 /\ count' = [count EXCEPT ![a] = 1])
            /\ passed' = passed \/ (FailOpen /\ passed' = [passed EXCEPT ![a] = @ + 1])
  PROVE  Counters'
<1>1. count[a] \in Nat /\ passed[a] \in Nat /\ MaxRequests \in Nat
  BY DEF Counters, SocialAssumption
<1>2. count' \in [Host -> Nat] /\ passed' \in [Host -> Nat]
  <2> DEFINE more == [count EXCEPT ![a] = @ + 1]
             one  == [count EXCEPT ![a] = 1]
             pass == [passed EXCEPT ![a] = @ + 1]
  <2>1. {count, more, one} \subseteq [Host -> Nat] /\ {passed, pass} \subseteq [Host -> Nat]
    BY <1>1 DEF Counters
  <2>2. count' \in {count, more, one} /\ passed' \in {passed, pass}
    OBVIOUS
  <2> HIDE DEF more, one, pass
  <2> QED BY <2>1, <2>2
<1>3. \A b \in Host : b # a => count'[b] = count[b] /\ passed'[b] = passed[b]
  BY DEF Counters
<1>4. ASSUME ~FailOpen PROVE passed'[a] <= count'[a] /\ passed'[a] <= MaxRequests
  <2>1. passed[a] <= count[a] /\ passed[a] <= MaxRequests
    BY <1>4 DEF Counters
  <2>2. CASE count' = [count EXCEPT ![a] = @ + 1]
    <3>1. count'[a] = count[a] + 1
      BY <2>2 DEF Counters
    <3>2. passed'[a] = passed[a] \/ (passed'[a] = passed[a] + 1 /\ count'[a] <= MaxRequests)
      BY <1>4, <1>1, <2>2, <3>1 DEF Counters
    <3> QED BY <3>1, <3>2, <2>1, <1>1
  <2>3. CASE /\ count' = count \/ (count[a] = 0 /\ count' = [count EXCEPT ![a] = 1])
             /\ passed' = passed
    <3>1. count'[a] = count[a] \/ (count[a] = 0 /\ count'[a] = 1)
      BY <2>3 DEF Counters
    <3> QED BY <3>1, <2>1, <2>3, <1>1
  <2> QED BY <2>2, <2>3, <1>4
<1> QED BY <1>2, <1>3, <1>4 DEF Counters

\* A row that is stored is a signal.
LEMMA EventIs ==
  ASSUME SocialAssumption, NEW i \in Item, NEW answer \in Answers
  PROVE  Score(i, answer) \in EventRow(i) /\ Score(i, answer) # Absent
BY ScoreType, FreeIsNot DEF EventRow

LEMMA IngestInit == SocialInit => IngestInv
<1> SUFFICES ASSUME SocialAssumption, SocialInit PROVE IngestInv
  BY SocialAssumption
<1> USE DEF SocialInit
<1>1. HandlerTypes
  BY DEF HandlerTypes
<1>2. Counters
  BY DEF Counters, SocialAssumption
<1>3. Listings
  BY DEF Listings, IsInjective, Range
<1>4. Workers
  BY DEF Workers, Nobody
<1>5. Waits
  BY FreeIsNot DEF Waits
<1>6. EventRows
  BY DEF EventRows
<1> QED BY <1>1, <1>2, <1>3, <1>4, <1>5, <1>6 DEF IngestInv, SocialAssumption

LEMMA IngestStep == IngestInv /\ [SocialNext]_socialVars => IngestInv'
<1> SUFFICES ASSUME IngestInv, [SocialNext]_socialVars PROVE IngestInv'
  OBVIOUS
<1> USE DEF IngestInv
<1>a. SocialAssumption'
  BY DEF SocialAssumption, Feed, Host
<1>f. Fails => failures' \in 0 .. MaxFailures
  BY DEF Fails, SocialAssumption
<1>0. CASE UNCHANGED socialVars
  BY <1>0, <1>a DEF socialVars, HandlerTypes, Counters, Listings, Workers, Waits, EventRows
<1>1. ASSUME NEW i \in Item, Publish(i) PROVE IngestInv'
  <2> DEFINE f == FeedOf[i]
  <2>1. f \in Feed /\ listing[f] \in Seq(Item) /\ i \notin Range(listing[f])
    BY <1>1 DEF Publish, Listed, SocialAssumption, Listings
  <2>2. listing' = [listing EXCEPT ![f] = <<i>> \o @]
    BY <1>1 DEF Publish
  <2> HIDE DEF f
  <2>3. listing' \in [Feed -> Seq(Item)]
    BY <2>1, <2>2 DEF Listings
  <2> DEFINE l == listing[f]
             m == <<i>> \o l
  <2>4. /\ DOMAIN m = 1 .. Len(l) + 1 /\ DOMAIN l = 1 .. Len(l) /\ m[1] = i
        /\ \A k \in 2 .. Len(l) + 1 : m[k] = l[k - 1] /\ k - 1 \in DOMAIN l
    BY <2>1
  <2>5. IsInjective(m) /\ \A j \in Range(m) : j = i \/ j \in Range(l)
    <3>1. IsInjective(l)
      BY <2>1 DEF Listings
    <3> HIDE DEF m, l
    <3>2. Len(l) \in Nat
      BY <2>1 DEF l
    <3>3. i \notin Range(l)
      BY <2>1 DEF l
    <3>4. \A k \in DOMAIN m : k = 1 \/ k \in 2 .. Len(l) + 1
      BY <2>4, <3>2
    <3>5. \A k \in DOMAIN m : m[k] = i \/ m[k] \in Range(l)
      BY <2>4, <3>4 DEF Range
    <3>6. ASSUME NEW a \in DOMAIN m, NEW b \in DOMAIN m, m[a] = m[b] PROVE a = b
      <4>1. CASE a = 1 /\ b = 1
        BY <4>1
      <4>2. CASE a = 1 /\ b \in 2 .. Len(l) + 1
        BY <4>2, <2>4, <3>3, <3>6 DEF Range
      <4>3. CASE b = 1 /\ a \in 2 .. Len(l) + 1
        BY <4>3, <2>4, <3>3, <3>6 DEF Range
      <4>4. CASE a \in 2 .. Len(l) + 1 /\ b \in 2 .. Len(l) + 1
        <5>1. a - 1 = b - 1
          BY <4>4, <2>4, <3>1, <3>6 DEF IsInjective
        <5> QED BY <5>1, <4>4, <3>2
      <4> QED BY <3>4, <4>1, <4>2, <4>3, <4>4
    <3>7. IsInjective(m)
      BY <3>6 DEF IsInjective
    <3> QED BY <3>5, <3>7 DEF Range
  <2>6. listing'[f] = m /\ \A g \in Feed : g # f => listing'[g] = listing[g]
    BY <2>1, <2>2 DEF Listings
  <2>7. ASSUME NEW g \in Feed
        PROVE IsInjective(listing'[g]) /\ \A j \in Range(listing'[g]) : FeedOf[j] = g
    <3>1. CASE g = f
      <4>1. \A j \in Range(l) : FeedOf[j] = f
        BY <2>1 DEF Listings
      <4> HIDE DEF m, l
      <4> QED BY <3>1, <4>1, <2>5, <2>6 DEF f
    <3>2. CASE g # f
      BY <3>2, <2>6 DEF Listings
    <3> QED BY <3>1, <3>2
  <2>8. Listings'
    <3> HIDE DEF m, l
    <3> QED BY <2>3, <2>7 DEF Listings, Feed
  <2>9. /\ worker' = worker /\ rested' = rested /\ handler' = handler /\ rows' = rows /\ told' = told
        /\ count' = count /\ passed' = passed /\ failures' = failures
    BY <1>1 DEF Publish
  <2>10. HandlerTypes' /\ Counters' /\ Workers' /\ Waits' /\ EventRows'
    BY <2>9 DEF HandlerTypes, Counters, Workers, Waits, EventRows
  <2> QED BY <1>a, <2>8, <2>9, <2>10
<1>2. ASSUME NEW w \in Worker, Begin(w) PROVE IngestInv'
  <2>1. /\ worker' = [worker EXCEPT ![w].todo = FeedList] /\ rested' = rested \ {w} /\ worker[w] = Nobody
        /\ listing' = listing /\ handler' = handler /\ rows' = rows /\ told' = told
        /\ count' = count /\ passed' = passed /\ failures' = failures
    BY <1>2 DEF Begin
  <2>2. [worker[w] EXCEPT !.todo = FeedList] \in [todo : Seq(Feed), items : Seq(Item)]
    <3>1. FeedList \in Seq(Feed)
      BY DEF SocialAssumption
    <3> QED BY <3>1, WorkerTypes
  <2>3. worker' = [worker EXCEPT ![w] = [worker[w] EXCEPT !.todo = FeedList]]
    BY <2>1
  <2>4. Workers'
    BY <2>1, <2>2, <2>3 DEF Workers
  <2>5. worker[w].items = <<>> /\ \A v \in Worker : v # w => worker'[v] = worker[v]
    BY <2>1 DEF Workers, Nobody
  <2>6. Waits'
    BY <2>1, <2>5, HandlerIs DEF Waits
  <2>7. HandlerTypes' /\ Counters' /\ Listings' /\ EventRows'
    BY <2>1 DEF HandlerTypes, Counters, Listings, EventRows
  <2> QED BY <1>a, <2>1, <2>4, <2>6, <2>7
<1>3. ASSUME NEW w \in Worker, Fetch(w) PROVE IngestInv'
  <2>1. /\ worker[w].todo # <<>> /\ worker[w].items = <<>>
        /\ rested' = rested /\ listing' = listing /\ handler' = handler /\ rows' = rows /\ told' = told
        /\ count' = count /\ passed' = passed /\ failures' \in 0 .. MaxFailures
    BY <1>3, <1>f DEF Fetch
  <2> DEFINE got  == [worker[w] EXCEPT !.todo = Tail(@)]
             page == [todo |-> Tail(worker[w].todo), items |-> FeedPage(Head(worker[w].todo))]
  <2>2. worker' = [worker EXCEPT ![w] = got] \/ worker' = [worker EXCEPT ![w] = page]
    BY <1>3 DEF Fetch
  <2>3. Tail(worker[w].todo) \in Seq(Feed) /\ Head(worker[w].todo) \in Feed
    BY <2>1, WorkerTypes
  <2>4. ASSUME NEW f \in Feed PROVE FeedPage(f) \in Seq(Item)
    <3>1. PICK l \in Seq(Item) : l = listing[f]
      BY DEF Listings
    <3>2. ItemsPerFeed \in Nat /\ Len(l) \in Nat
      BY DEF SocialAssumption
    <3>3. PICK n : n = Least(ItemsPerFeed, Len(l))
      OBVIOUS
    <3>4. n \in Nat /\ n <= Len(l)
      <4> HIDE DEF IngestInv
      <4> QED BY <3>2, <3>3, LeastNat
    <3>5. SubSeq(l, 1, n) \in Seq(Item)
      BY <3>4
    <3> QED BY <3>1, <3>3, <3>5 DEF FeedPage
  <2>5. got \in [todo : Seq(Feed), items : Seq(Item)] /\ page \in [todo : Seq(Feed), items : Seq(Item)]
    BY <2>3, <2>4, WorkerTypes
  <2> HIDE DEF got, page
  <2>6. Workers' /\ \A v \in Worker : v # w => worker'[v] = worker[v]
    BY <2>1, <2>2, <2>5 DEF Workers
  <2>7. Waits'
    BY <2>1, <2>6, HandlerIs DEF Waits
  <2>8. HandlerTypes' /\ Counters' /\ Listings' /\ EventRows'
    BY <2>1 DEF HandlerTypes, Counters, Listings, EventRows
  <2> QED BY <1>a, <2>1, <2>6, <2>7, <2>8
<1>4. ASSUME NEW w \in Worker, Post(w) PROVE IngestInv'
  <2> DEFINE free == {h \in Handler : handler[h] = Free}
             h == CHOOSE h \in free : TRUE
             r == [item |-> Head(worker[w].items), from |-> HostOf[w], by |-> {w}, step |-> "arrived"]
  <2>1. /\ worker[w].items # <<>> /\ ~Waiting(w) /\ free # {} /\ handler' = [handler EXCEPT ![h] = r]
        /\ rested' = rested /\ listing' = listing /\ worker' = worker /\ rows' = rows /\ told' = told
        /\ count' = count /\ passed' = passed /\ failures' = failures
    BY <1>4 DEF Post
  <2>2. h \in Handler /\ handler[h] = Free
    BY <2>1
  <2>3. r \in Request
    <3>1. Head(worker[w].items) \in Item
      BY <2>1, WorkerTypes
    <3> QED BY <3>1 DEF Request, Host
  <2>4. r.by = {w}
    OBVIOUS
  <2> HIDE DEF r, h
  <2>5. HandlerTypes' /\ handler'[h] = r /\ \A g \in Handler : g # h => handler'[g] = handler[g]
    BY <2>1, <2>2, <2>3 DEF HandlerTypes
  <2>6. Waits'
    <3>1. \A g \in Handler : w \notin handler[g].by
      BY <2>1 DEF Waiting
    <3>2. ASSUME NEW g \in Handler, NEW v \in handler'[g].by PROVE worker'[v].items # <<>>
      BY <2>1, <2>4, <2>5, <3>2 DEF Waits
    <3>3. ASSUME NEW f \in Handler, NEW g \in Handler, NEW v \in Worker, v \in handler'[f].by, v \in handler'[g].by
          PROVE f = g
      BY <2>4, <2>5, <3>1, <3>3 DEF Waits
    <3> QED BY <3>2, <3>3 DEF Waits
  <2>7. Workers' /\ Counters' /\ Listings' /\ EventRows'
    BY <2>1 DEF Workers, Counters, Listings, EventRows
  <2> QED BY <1>a, <2>1, <2>5, <2>6, <2>7
<1>5. ASSUME NEW w \in Worker, Timeout(w) PROVE IngestInv'
  <2>1. PICK h \in Handler : w \in handler[h].by /\ handler' = [handler EXCEPT ![h].by = {}]
    BY <1>5 DEF Timeout
  <2>2. /\ worker' = Advance({w}) /\ rested' = rested /\ listing' = listing /\ rows' = rows /\ told' = told
        /\ count' = count /\ passed' = passed /\ failures' \in 0 .. MaxFailures
    BY <1>5, <1>f DEF Timeout
  <2>3. handler[h] \in Request
    BY <2>1, HandlerIs, FreeIsNot
  <2>4. [handler[h] EXCEPT !.by = {}] \in Request /\ [handler[h] EXCEPT !.by = {}].by = {}
    BY <2>3, RequestLeft
  <2>5. handler' = [handler EXCEPT ![h] = [handler[h] EXCEPT !.by = {}]]
    BY <2>1
  <2>6. HandlerTypes' /\ handler'[h].by = {} /\ \A g \in Handler : g # h => handler'[g] = handler[g]
    BY <2>4, <2>5 DEF HandlerTypes
  <2>7. Workers' /\ \A v \in Worker \ {w} : worker'[v] = worker[v]
    <3>1. \A v \in {w} : worker[v].items # <<>>
      BY <2>1 DEF Waits
    <3> QED BY <2>2, <3>1, AdvanceKeeps
  <2>8. Waits'
    <3>1. ASSUME NEW g \in Handler, NEW v \in handler'[g].by
          PROVE g # h /\ v \in handler[g].by /\ worker'[v].items # <<>>
      <4>1. g # h /\ v \in handler[g].by /\ v \in Worker
        BY <2>6, HandlerIs, <3>1
      <4>2. v # w
        BY <4>1, <2>1 DEF Waits
      <4> QED BY <4>1, <4>2, <2>7 DEF Waits
    <3>2. ASSUME NEW f \in Handler, NEW g \in Handler, NEW v \in Worker, v \in handler'[f].by, v \in handler'[g].by
          PROVE f = g
      BY <3>1, <3>2 DEF Waits
    <3> QED BY <3>1, <3>2 DEF Waits
  <2>9. Counters' /\ Listings' /\ EventRows'
    BY <2>2 DEF Counters, Listings, EventRows
  <2> QED BY <1>a, <2>2, <2>6, <2>7, <2>8, <2>9
<1>6. ASSUME NEW w \in Worker, Restart(w) PROVE IngestInv'
  <2>1. /\ worker' = [worker EXCEPT ![w] = Nobody]
        /\ handler' = [h \in Handler |-> IF w \in handler[h].by THEN [handler[h] EXCEPT !.by = {}] ELSE handler[h]]
        /\ rested' = rested /\ listing' = listing /\ rows' = rows /\ told' = told
        /\ count' = count /\ passed' = passed /\ failures' \in 0 .. MaxFailures
    BY <1>6, <1>f DEF Restart
  <2>2. Workers' /\ \A v \in Worker : v # w => worker'[v] = worker[v]
    <3>1. Nobody \in [todo : Seq(Feed), items : Seq(Item)]
      BY DEF Nobody
    <3> QED BY <2>1, <3>1 DEF Workers
  <2>3. ASSUME NEW h \in Handler
        PROVE  /\ handler'[h] \in {Free} \cup Request
               /\ handler'[h].by \in SUBSET (handler[h].by \ {w})
    <3>1. CASE w \in handler[h].by
      <4>1. handler[h] \in Request
        BY <3>1, HandlerIs, FreeIsNot
      <4>2. handler'[h] = [handler[h] EXCEPT !.by = {}]
        BY <2>1, <3>1
      <4> QED BY <4>1, <4>2, RequestLeft
    <3>2. CASE w \notin handler[h].by
      <4>1. handler'[h] = handler[h]
        BY <2>1, <3>2
      <4> QED BY <4>1, <3>2, HandlerIs
    <3> QED BY <3>1, <3>2
  <2>4. HandlerTypes'
    BY <2>1, <2>3 DEF HandlerTypes
  <2>5. Waits'
    <3>1. ASSUME NEW h \in Handler, NEW v \in handler'[h].by PROVE worker'[v].items # <<>>
      <4>1. v \in handler[h].by /\ v # w /\ v \in Worker
        BY <2>3, HandlerIs
      <4> QED BY <4>1, <2>2 DEF Waits
    <3>2. ASSUME NEW f \in Handler, NEW g \in Handler, NEW v \in Worker, v \in handler'[f].by, v \in handler'[g].by
          PROVE f = g
      BY <2>3, <3>2 DEF Waits
    <3> QED BY <3>1, <3>2 DEF Waits
  <2>6. Counters' /\ Listings' /\ EventRows'
    BY <2>1 DEF Counters, Listings, EventRows
  <2> QED BY <1>a, <2>1, <2>2, <2>4, <2>5, <2>6
<1>7. ASSUME NEW h \in Handler, CheckLimit(h) PROVE IngestInv'
  <2> DEFINE a == handler[h].from
  <2>1. /\ handler[h] \in Request /\ count' = [count EXCEPT ![a] = @ + 1]
        /\ rows' = rows /\ told' = told /\ failures' = failures
    BY <1>7, HandlerIs DEF CheckLimit
  <2>2. a \in Host
    BY <2>1, RequestFields
  <2>3. IF count'[a] <= MaxRequests THEN Allow(h) ELSE Answer(h) /\ passed' = passed
    BY <1>7 DEF CheckLimit, Within
  <2>4. Allow(h) => Continue(h, "limited") /\ passed' = [passed EXCEPT ![a] = @ + 1]
    BY DEF Allow
  <2> HIDE DEF a
  <2>5. Counters'
    BY <2>1, <2>2, <2>3, <2>4, CountKeeps
  <2>6. HandlerTypes' /\ Workers' /\ Waits' /\ listing' = listing /\ rested' = rested
    BY <2>1, <2>3, <2>4, AnswerKeeps, ContinueKeeps
  <2>7. Listings' /\ EventRows'
    BY <2>1, <2>6 DEF Listings, EventRows
  <2> QED BY <1>a, <2>1, <2>5, <2>6, <2>7
<1>8. ASSUME NEW h \in Handler, LimiterFails(h) PROVE IngestInv'
  <2> DEFINE a == handler[h].from
  <2>1. /\ handler[h] \in Request /\ failures' \in 0 .. MaxFailures
        /\ rows' = rows /\ told' = told
        /\ count' = count \/ (count[a] = 0 /\ count' = [count EXCEPT ![a] = 1])
    BY <1>8, <1>f, HandlerIs DEF LimiterFails
  <2>2. a \in Host
    BY <2>1, RequestFields
  <2>3. IF FailOpen THEN Allow(h) ELSE Answer(h) /\ passed' = passed
    BY <1>8 DEF LimiterFails
  <2>4. Allow(h) => Continue(h, "limited") /\ passed' = [passed EXCEPT ![a] = @ + 1]
    BY DEF Allow
  <2> HIDE DEF a
  <2>5. Counters'
    BY <2>1, <2>2, <2>3, <2>4, CountKeeps
  <2>6. HandlerTypes' /\ Workers' /\ Waits' /\ listing' = listing /\ rested' = rested
    BY <2>1, <2>3, <2>4, AnswerKeeps, ContinueKeeps
  <2>7. Listings' /\ EventRows'
    BY <2>1, <2>6 DEF Listings, EventRows
  <2> QED BY <1>a, <2>1, <2>5, <2>6, <2>7
<1>9. ASSUME NEW h \in Handler, LookUp(h) PROVE IngestInv'
  <2>1. /\ handler[h] \in Request /\ failures' = failures
        /\ rows' = rows /\ told' = told /\ count' = count /\ passed' = passed
        /\ Answer(h) \/ Continue(h, "new")
    BY <1>9, HandlerIs DEF LookUp
  <2>2. HandlerTypes' /\ Workers' /\ Waits' /\ listing' = listing /\ rested' = rested
    BY <2>1, AnswerKeeps, ContinueKeeps
  <2>3. Listings' /\ EventRows' /\ Counters'
    BY <2>1, <2>2 DEF Listings, EventRows, Counters
  <2> QED BY <1>a, <2>1, <2>2, <2>3
<1>10. ASSUME NEW h \in Handler, Create(h) PROVE IngestInv'
  <2> DEFINE i == handler[h].item
  <2>1. handler[h] \in Request /\ i \in Item
    <3>1. handler[h] \in Request
      BY <1>10, HandlerIs DEF Create
    <3> QED BY <3>1, RequestFields
  <2>2. /\ failures' = failures /\ count' = count /\ passed' = passed /\ Answer(h)
        /\ IF rows[i] = Absent
           THEN /\ \E answer \in Answers : rows' = [rows EXCEPT ![i] = Score(i, answer)]
                /\ told' = [told EXCEPT ![i] = @ + 1]
           ELSE rows' = rows /\ told' = told
    BY <1>10 DEF Create, Insertable
  <2> HIDE DEF i
  <2>3. HandlerTypes' /\ Workers' /\ Waits' /\ listing' = listing /\ rested' = rested
    BY <2>2, AnswerKeeps
  <2>4. EventRows'
    <3>1. CASE rows[i] = Absent
      <4>1. PICK answer \in Answers : rows' = [rows EXCEPT ![i] = Score(i, answer)]
        BY <2>2, <3>1
      <4>2. Score(i, answer) \in EventRow(i) /\ Score(i, answer) # Absent
        BY <2>1, EventIs
      <4>3. told[i] = 0 /\ told' = [told EXCEPT ![i] = @ + 1]
        BY <2>1, <2>2, <3>1 DEF EventRows
      <4>4. rows'[i] = Score(i, answer) /\ told'[i] = 1
            /\ \A j \in Item : j # i => rows'[j] = rows[j] /\ told'[j] = told[j]
        BY <2>1, <4>1, <4>3 DEF EventRows
      <4>5. rows' = [j \in Item |-> rows'[j]] /\ told' = [j \in Item |-> told'[j]]
        BY <4>1, <4>3 DEF EventRows
      <4> QED BY <4>2, <4>4, <4>5 DEF EventRows, EventRow
    <3>2. CASE rows[i] # Absent
      BY <2>2, <3>2 DEF EventRows
    <3> QED BY <3>1, <3>2
  <2>5. Listings' /\ Counters'
    BY <2>2, <2>3 DEF Listings, Counters
  <2> QED BY <1>a, <2>2, <2>3, <2>4, <2>5
<1>11. ASSUME NEW h \in Handler, Break(h) PROVE IngestInv'
  <2>1. /\ failures' \in 0 .. MaxFailures /\ Answer(h)
        /\ rows' = rows /\ told' = told /\ count' = count /\ passed' = passed
    BY <1>11, <1>f DEF Break
  <2>2. HandlerTypes' /\ Workers' /\ Waits' /\ listing' = listing /\ rested' = rested
    BY <2>1, AnswerKeeps
  <2>3. Listings' /\ EventRows' /\ Counters'
    BY <2>1, <2>2 DEF Listings, EventRows, Counters
  <2> QED BY <1>a, <2>1, <2>2, <2>3
<1>12. CASE NextWindow
  <2>1. /\ count' = [a \in Host |-> 0] /\ passed' = [a \in Host |-> 0]
        /\ rested' = rested \cup {w \in Worker : worker[w] = Nobody}
        /\ listing' = listing /\ worker' = worker /\ handler' = handler
        /\ rows' = rows /\ told' = told /\ failures' = failures
    BY <1>12 DEF NextWindow, Fresh
  <2>2. Counters'
    BY <2>1 DEF Counters, SocialAssumption
  <2>3. Workers'
    BY <2>1 DEF Workers
  <2>4. HandlerTypes' /\ Listings' /\ Waits' /\ EventRows'
    BY <2>1 DEF HandlerTypes, Listings, Waits, EventRows
  <2> QED BY <1>a, <2>1, <2>2, <2>3, <2>4
<1> QED
  BY <1>0, <1>1, <1>2, <1>3, <1>4, <1>5, <1>6, <1>7, <1>8, <1>9, <1>10, <1>11, <1>12
     DEF SocialNext, RunOnce, Serve

LEMMA AtMostOne ==
  ASSUME NEW S, \A x \in S : \A y \in S : x = y
  PROVE  Cardinality(S) <= 1
<1>0. Cardinality(S) = Cardinality(S)
  BY DEF Cardinality, Cardinality
<1>1. CASE S = {}
  BY <1>0, <1>1, FS_EmptySet
<1>2. CASE S # {}
  <2>1. PICK x : S = {x}
    BY <1>2
  <2> QED BY <1>0, <2>1, FS_Singleton
<1> QED BY <1>1, <1>2

LEMMA IngestSafe == IngestInv => IngestedOnce /\ LimitHolds
<1> SUFFICES ASSUME IngestInv PROVE IngestedOnce /\ LimitHolds
  OBVIOUS
<1> USE DEF IngestInv
<1>1. LimitHolds
  BY DEF Counters, LimitHolds
<1>2. ASSUME NEW i \in Item, rows[i] # Absent
      PROVE rows[i] \in EventScore /\ Shown(i) \in EventRow(i)
  <2>1. PICK answer \in Answers : rows[i] = Score(i, answer)
    BY <1>2 DEF EventRows, EventRow
  <2>2. NoAnswer \in Answers
    BY DEF SocialAssumption
  <2>3. Score(i, NoAnswer) = Heuristic(i)
    BY DEF Score
  <2>4. Shown(i) \in {rows[i], Heuristic(i)}
    BY DEF Shown
  <2> QED BY <2>1, <2>2, <2>3, <2>4, ScoreType DEF EventRow
<1>3. \A w \in Worker : /\ worker[w].todo \in Seq(Feed) /\ worker[w].items \in Seq(Item)
                        /\ Cardinality({h \in Handler : w \in handler[h].by}) <= 1
  <2>1. ASSUME NEW w \in Worker PROVE Cardinality({h \in Handler : w \in handler[h].by}) <= 1
    BY AtMostOne DEF Waits
  <2> QED BY <2>1, WorkerTypes
<1>4. \A i \in Item : told[i] = (IF rows[i] = Absent THEN 0 ELSE 1)
  BY DEF EventRows
<1>5. told \in [Item -> Nat]
  BY <1>4 DEF EventRows
<1>6. \A h \in Handler : handler[h] = Free \/ handler[h] \in Request
  BY DEF HandlerTypes
<1>7. SocialTypeOK
  <2>1. \A f \in Feed : IsInjective(listing[f]) /\ \A i \in Range(listing[f]) : FeedOf[i] = f
    BY DEF Listings
  <2>2. rested \subseteq Worker /\ count \in [Host -> Nat] /\ passed \in [Host -> Nat] /\ failures \in 0 .. MaxFailures
    BY DEF Workers, Counters
  <2>3. \A i \in Item : rows[i] = Absent \/ rows[i] \in [bps : BpsSet, eligible : BOOLEAN]
    BY <1>2 DEF EventScore
  <2>4. \A h \in Handler : handler[h] = Free \/
          handler[h] \in [item : Item, from : Host, by : SUBSET Worker, step : {"arrived", "limited", "new"}]
    BY <1>6 DEF Request
  <2> HIDE DEF IngestInv
  <2> QED BY <1>3, <1>5, <2>1, <2>2, <2>3, <2>4 DEF SocialTypeOK
<1> QED BY <1>1, <1>2, <1>4, <1>7 DEF IngestedOnce, EventRow

\* However many requests bring an item at once, one of them is told that it made
\* the event and the event is stored with one score, the AI's or the heuristic's.
THEOREM IngestedOnceHolds == SocialSpec => []IngestedOnce
<1>1. SocialInit => IngestInv
  BY IngestInit
<1>2. IngestInv /\ [SocialNext]_socialVars => IngestInv'
  BY IngestStep
<1>3. IngestInv => IngestedOnce
  BY IngestSafe
<1> QED BY <1>1, <1>2, <1>3, PTL DEF SocialSpec

\* A limiter that fails closed lets no host through more often than the limit in
\* a window, whatever Redis does between its two commands.
THEOREM LimitHoldsAlways == SocialSpec => []LimitHolds
<1>1. SocialInit => IngestInv
  BY IngestInit
<1>2. IngestInv /\ [SocialNext]_socialVars => IngestInv'
  BY IngestStep
<1>3. IngestInv => LimitHolds
  BY IngestSafe
<1> QED BY <1>1, <1>2, <1>3, PTL DEF SocialSpec

-----------------------------------------------------------------------------
(* AgentSignals: rounding *)

LEMMA BpsIs == \A x : x \in BpsSet <=> x \in Int /\ 0 <= x /\ x <= 10000
<1>1. PICK top \in Nat : top = 10000
  OBVIOUS
<1>2. \A x : x \in 0 .. top <=> x \in Int /\ 0 <= x /\ x <= top
  OBVIOUS
<1> QED BY <1>1, <1>2 DEF BpsSet

LEMMA ClampIs ==
  ASSUME NEW x \in Int
  PROVE  ClampBps(x) = IF x < 0 THEN 0 ELSE IF 10000 < x THEN 10000 ELSE x
<1>1. PICK y : y = IF 10000 <= x THEN 10000 ELSE x
  OBVIOUS
<1>2. Least(10000, x) = y
  BY <1>1, LeastMost
<1>3. y \in Int
  BY <1>1
<1>4. Most(0, y) = IF 0 <= y THEN y ELSE 0
  BY <1>3, LeastMost
<1> QED BY <1>1, <1>2, <1>4 DEF ClampBps

LEMMA Division ==
  ASSUME NEW a \in Int, NEW b \in Nat \ {0}
  PROVE  /\ a \div b \in Int /\ a % b \in Int
         /\ a = (a \div b) * b + (a % b) /\ 0 <= a % b /\ a % b < b
OBVIOUS

\* A value rounds to no more and no less than a bound that it keeps to.
LEMMA RoundedFits ==
  ASSUME NEW a \in Int, NEW b \in Nat \ {0}
  PROVE  /\ Rounded(a, b) \in BpsSet
         /\ \A p \in BpsSet : /\ a <= p * b => Rounded(a, b) <= p
                              /\ a >= p * b => Rounded(a, b) >= p
<1>1. PICK q \in Int, r \in Int : q = a \div b /\ r = a % b
  BY Division
<1>2. a = q * b + r /\ 0 <= r /\ r < b
  BY <1>1, Division
<1>3. PICK x : x = IF 2 * r > b \/ (2 * r = b /\ q % 2 = 1) THEN q + 1 ELSE q
  OBVIOUS
<1>4. x \in Int
  BY <1>3
<1>5. Rounded(a, b) = ClampBps(x)
  BY <1>1, <1>3 DEF Rounded
<1>6. ASSUME NEW p \in Int, a <= p * b PROVE x <= p
  <2>1. CASE q > p
    <3>1. q * b >= (p + 1) * b
      BY <2>1
    <3>2. (p + 1) * b = p * b + b
      OBVIOUS
    <3> QED BY <1>2, <1>6, <3>1, <3>2
  <2>2. CASE q = p
    <3>1. r = 0
      BY <1>2, <1>6, <2>2
    <3> QED BY <1>3, <2>2, <3>1
  <2>3. CASE q < p
    BY <1>3, <2>3
  <2> QED BY <2>1, <2>2, <2>3
<1>7. ASSUME NEW p \in Int, a >= p * b PROVE x >= p
  <2>1. CASE q < p
    <3>1. (q + 1) * b <= p * b
      BY <2>1
    <3>2. (q + 1) * b = q * b + b
      OBVIOUS
    <3> QED BY <1>2, <1>7, <3>1, <3>2
  <2>2. CASE q >= p
    BY <1>3, <2>2
  <2> QED BY <2>1, <2>2
<1>8. ASSUME NEW p \in BpsSet PROVE (x <= p => ClampBps(x) <= p) /\ (x >= p => ClampBps(x) >= p)
  BY <1>4, ClampIs, BpsIs
<1>9. ASSUME NEW p \in BpsSet PROVE p \in Int
  BY BpsIs
<1> QED BY <1>4, <1>5, <1>6, <1>7, <1>8, <1>9, ClampType

-----------------------------------------------------------------------------
(* AgentSignals: every signal is a probability and a confidence *)

SignalSet == [probability : BpsSet, confidence : BpsSet]

LEMMA SignalIs ==
  ASSUME NEW p \in BpsSet, NEW c \in BpsSet
  PROVE  [probability |-> p, confidence |-> c] \in SignalSet
BY DEF SignalSet

LEMMA PriceIs ==
  ASSUME NEW pool \in [yes : Nat, no : Nat]
  PROVE  PoolPrice(pool) \in BpsSet
<1>1. PICK y \in Nat, n \in Nat : y = pool.yes /\ n = pool.no
  OBVIOUS
<1>2. CASE y + n = 0
  <2>1. PoolPrice(pool) = 5000
    BY <1>1, <1>2 DEF PoolPrice
  <2> QED BY <2>1, BpsIs
<1>3. CASE y + n # 0
  <2>1. PICK a \in Int, b \in Nat \ {0} : a = y * 10000 /\ b = y + n
    BY <1>3
  <2>2. Rounded(a, b) \in BpsSet
    BY RoundedFits
  <2> QED BY <1>1, <1>3, <2>1, <2>2 DEF PoolPrice
<1> QED BY <1>2, <1>3

LEMMA SocialFits ==
  ASSUME IngestInv, IsFiniteSet(Events)
  PROVE  SocialSignal \in Seq(SignalSet)
<1> DEFINE n  == Cardinality(Events)
           se == [i \in Events |-> Text[i].sentiment]
           sc == [i \in Events |-> rows[i].bps]
<1>1. n \in Nat
  <2>1. Cardinality(Events) = Cardinality(Events)
    BY DEF Cardinality, Cardinality
  <2> QED BY <2>1, FS_CardinalityType
<1>2. \A i \in Events : se[i] \in Int /\ sc[i] \in Int
  <2>1. SUFFICES ASSUME NEW i \in Events PROVE Text[i].sentiment \in Int /\ rows[i].bps \in Int
    OBVIOUS
  <2>2. i \in Item /\ rows[i] # Absent
    BY DEF Events
  <2>3. Text[i].sentiment \in Int
    <3>1. Text[i] \in [blank : BOOLEAN, predictive : BOOLEAN, markers : Nat, digits : Nat,
                       velocity : Int, volume : Int, sentiment : Int]
      BY <2>2 DEF IngestInv, SocialAssumption
    <3> QED BY <3>1
  <2>4. PICK answer \in Answers : rows[i] = Score(i, answer)
    BY <2>2 DEF IngestInv, EventRows, EventRow
  <2>5. rows[i] \in EventScore
    BY <2>2, <2>4, ScoreType DEF IngestInv
  <2>6. rows[i].bps \in BpsSet
    BY <2>5 DEF EventScore
  <2> QED BY <2>3, <2>6, BpsIs
<1>3. PICK x, y : x = SumOver(se, Events) /\ y = SumOver(sc, Events)
  OBVIOUS
<1>4. SumOver(se, Events) = SumOver(se, Events) /\ SumOver(sc, Events) = SumOver(sc, Events)
  BY DEF SumOver, SumOver
<1>5. x \in Int /\ y \in Int
  <2> HIDE DEF se, sc
  <2>1. SumOver(se, Events) \in Int
    BY <1>2, SumOverInt
  <2>2. SumOver(sc, Events) \in Int
    BY <1>2, SumOverInt
  <2> QED BY <1>3, <1>4, <2>1, <2>2
<1>6. SocialSignal =
        IF n = 0 THEN <<>>
        ELSE <<[probability |-> Rounded(5000 * n + 700 * x, n),
                confidence  |-> Rounded(4 * n * Least(3000, 250 * n) + y, 4 * n)]>>
  BY <1>3 DEF SocialSignal
<1> HIDE DEF n
<1>7. CASE n = 0
  BY <1>6, <1>7
<1>8. CASE n # 0
  <2>1. PICK l \in Int : l = Least(3000, 250 * n)
    BY <1>1, LeastMost
  <2>2. 4 * n * l \in Int
    BY <1>1, <2>1
  <2>3. PICK a \in Int, b \in Int, d \in Nat \ {0} :
          a = 5000 * n + 700 * x /\ b = 4 * n * l + y /\ d = 4 * n
    BY <1>1, <1>5, <1>8, <2>2
  <2>4. Rounded(a, n) \in BpsSet
    BY <1>1, <1>8, RoundedFits
  <2>5. Rounded(b, d) \in BpsSet
    BY RoundedFits
  <2>6. SocialSignal = <<[probability |-> Rounded(a, n), confidence |-> Rounded(b, d)]>>
    BY <1>6, <1>8, <2>1, <2>3
  <2>7. [probability |-> Rounded(a, n), confidence |-> Rounded(b, d)] \in SignalSet
    BY <2>4, <2>5, SignalIs
  <2> QED BY <2>6, <2>7
<1> QED BY <1>7, <1>8

LEMMA HistoryFits ==
  ASSUME NEW h, h \in [matched : Nat, yes : Nat]
  PROVE  HistoricalSignal(h) \in Seq(SignalSet)
<1>1. PICK m \in Nat, y \in Nat : m = h.matched /\ y = h.yes
  OBVIOUS
<1>2. CASE m < 3
  BY <1>1, <1>2 DEF HistoricalSignal
<1>3. CASE ~(m < 3)
  <2>1. PICK a \in Int : a = 10000 * y
    OBVIOUS
  <2>2. Rounded(a, m) \in BpsSet
    BY <1>3, RoundedFits
  <2>3. PICK b \in Int : b = 200 * m
    OBVIOUS
  <2>4. Least(2500, b) \in BpsSet
    <3>1. Least(2500, b) = IF 2500 <= b THEN 2500 ELSE b
      <4>1. \A lo, hi \in Int : Least(lo, hi) = IF lo <= hi THEN lo ELSE hi
        BY LeastMost
      <4>2. 2500 \in Int
        OBVIOUS
      <4> QED BY <4>1, <4>2
    <3>2. b >= 0
      BY <2>3
    <3> QED BY <3>1, <3>2, BpsIs
  <2>5. [probability |-> Rounded(a, m), confidence |-> Least(2500, b)] \in SignalSet
    BY <2>2, <2>4, SignalIs
  <2>6. HistoricalSignal(h) = <<[probability |-> Rounded(a, m), confidence |-> Least(2500, b)]>>
    BY <1>1, <1>3, <2>1, <2>3 DEF HistoricalSignal
  <2> QED BY <2>5, <2>6
<1> QED BY <1>2, <1>3

LEMMA AdviceFits ==
  ASSUME NEW advice \in Seq([probability : Int, confidence : Nat])
  PROVE  ExternalSignals(advice) \in Seq(SignalSet)
<1> DEFINE e(k) == [probability |-> ClampBps(advice[k].probability),
                    confidence  |-> IF advice[k].confidence = 0 THEN 1000 ELSE ClampBps(advice[k].confidence)]
<1>1. ASSUME NEW k \in 1 .. Len(advice) PROVE e(k) \in SignalSet
  <2>1. advice[k] \in [probability : Int, confidence : Nat]
    <3>1. \A S : \A q \in Seq(S) : q \in [1 .. Len(q) -> S]
      OBVIOUS
    <3> QED BY <3>1
  <2>2. PICK x \in Int, c \in Nat : x = advice[k].probability /\ c = advice[k].confidence
    BY <2>1
  <2>3. ClampBps(x) \in BpsSet /\ ClampBps(c) \in BpsSet /\ 1000 \in BpsSet
    <3>1. \A z \in Int : ClampBps(z) \in BpsSet
      BY ClampType
    <3>2. c \in Int
      OBVIOUS
    <3>3. 1000 \in BpsSet
      BY BpsIs
    <3> QED BY <3>1, <3>2, <3>3
  <2>4. PICK d \in BpsSet : d = IF c = 0 THEN 1000 ELSE ClampBps(c)
    BY <2>3
  <2>5. e(k) = [probability |-> ClampBps(x), confidence |-> d]
    BY <2>2, <2>4
  <2>6. PICK y \in BpsSet : y = ClampBps(x)
    BY <2>3
  <2>7. [probability |-> y, confidence |-> d] \in SignalSet
    BY SignalIs
  <2> HIDE DEF e
  <2> QED BY <2>5, <2>6, <2>7
<1>2. ExternalSignals(advice) = [k \in 1 .. Len(advice) |-> e(k)]
  BY DEF ExternalSignals
<1> HIDE DEF e
<1>3. Len(advice) \in Nat
  OBVIOUS
<1>4. [k \in 1 .. Len(advice) |-> e(k)] \in [1 .. Len(advice) -> SignalSet]
  BY <1>1
<1> QED BY <1>2, <1>3, <1>4

LEMMA SignalsFit ==
  ASSUME IngestInv, IsFiniteSet(Events), SignalAssumption, NEW s \in Situation
  PROVE  Signals(s) \in Seq(SignalSet)
<1>1. s.history \in [matched : Nat, yes : Nat] /\ s.advice \in Seq([probability : Int, confidence : Nat])
  BY DEF SignalAssumption
<1>2. SocialSignal \in Seq(SignalSet)
  BY SocialFits
<1>3. HistoricalSignal(s.history) \in Seq(SignalSet)
  BY <1>1, HistoryFits
<1>4. PICK advice \in Seq([probability : Int, confidence : Nat]) : advice = s.advice
  BY <1>1
<1>5. ExternalSignals(advice) \in Seq(SignalSet)
  BY AdviceFits
<1>6. \A x, y, z \in Seq(SignalSet) : x \o y \o z \in Seq(SignalSet)
  OBVIOUS
<1> QED BY <1>2, <1>3, <1>4, <1>5, <1>6 DEF Signals

-----------------------------------------------------------------------------
(* AgentSignals: the estimate and the trade *)

\* The estimate lies between the price and the furthest opinion.
LEMMA EstimateFits ==
  ASSUME NEW signals \in Seq(SignalSet), NEW price \in BpsSet
  PROVE  /\ Estimate(price, signals).bps \in BpsSet
         /\ (\A k \in DOMAIN signals : signals[k].probability <= price) => Estimate(price, signals).bps <= price
         /\ (\A k \in DOMAIN signals : signals[k].probability >= price) => Estimate(price, signals).bps >= price
<1> DEFINE n == Len(signals)
           c == [k \in DOMAIN signals |-> signals[k].confidence]
           o == [k \in DOMAIN signals |-> OpinionOf(signals[k], price) * signals[k].confidence]
           m == [k \in DOMAIN signals |-> price * signals[k].confidence]
<1>1. n \in Nat /\ DOMAIN signals = 1 .. n
  OBVIOUS
<1>2. ASSUME NEW k \in DOMAIN signals
      PROVE  signals[k].confidence \in Nat /\ signals[k].probability \in Nat
  <2>1. signals[k] \in SignalSet
    OBVIOUS
  <2>2. signals[k].confidence \in BpsSet /\ signals[k].probability \in BpsSet
    BY <2>1 DEF SignalSet
  <2> QED BY <2>2, BpsIs
<1>3. price \in Nat /\ price \in Int
  BY BpsIs
<1>4. ASSUME NEW k \in DOMAIN signals
      PROVE  /\ OpinionOf(signals[k], price) \in Nat
             /\ signals[k].probability <= price => OpinionOf(signals[k], price) <= price
             /\ signals[k].probability >= price => OpinionOf(signals[k], price) >= price
  BY <1>2, <1>3 DEF OpinionOf
<1>5. \A x, y \in Nat : x * y \in Nat
  OBVIOUS
<1>6. c \in [1 .. n -> Nat] /\ o \in [1 .. n -> Nat] /\ m \in [1 .. n -> Nat]
  <2>1. ASSUME NEW k \in DOMAIN signals
        PROVE  OpinionOf(signals[k], price) * signals[k].confidence \in Nat /\ price * signals[k].confidence \in Nat
    BY <1>2, <1>3, <1>4, <1>5
  <2> QED BY <1>1, <1>2, <2>1
<1>7. Total(c, n) = Total(c, n) /\ Total(o, n) = Total(o, n)
  BY DEF Total, Total, Partial, Partial
<1>8. PICK t, u, v : t = Total(c, n) /\ u = Total(o, n) /\ v = Total(m, n)
  OBVIOUS
<1>9. Weight(signals) = 1000 + t /\ Opinions(price, signals) = 1000 * price + u
  <2>1. Len(signals) = n
    OBVIOUS
  <2> QED BY <1>7, <1>8, <2>1 DEF Weight, Opinions
<1>10. v = price * t
  <2>1. \A k \in 1 .. n : m[k] = price * c[k]
    BY <1>1
  <2> HIDE DEF n, c, m
  <2> QED BY <1>1, <1>3, <1>6, <1>8, <2>1, TotalTimes
<1>11. (\A k \in DOMAIN signals : signals[k].probability <= price) => u <= v
  <2>1. SUFFICES ASSUME \A k \in DOMAIN signals : signals[k].probability <= price PROVE u <= v
    OBVIOUS
  <2>2. \A x, y, z \in Nat : x <= y => x * z <= y * z
    OBVIOUS
  <2>3. \A k \in 1 .. n : o[k] <= m[k]
    BY <1>1, <1>2, <1>3, <1>4, <2>1, <2>2
  <2> HIDE DEF n, o, m
  <2> QED BY <1>1, <1>6, <1>8, <2>3, TotalMonotone
<1>12. (\A k \in DOMAIN signals : signals[k].probability >= price) => v <= u
  <2>1. SUFFICES ASSUME \A k \in DOMAIN signals : signals[k].probability >= price PROVE v <= u
    OBVIOUS
  <2>2. \A x, y, z \in Nat : x <= y => x * z <= y * z
    OBVIOUS
  <2>3. \A k \in 1 .. n : m[k] <= o[k]
    BY <1>1, <1>2, <1>3, <1>4, <2>1, <2>2
  <2> HIDE DEF n, o, m
  <2> QED BY <1>1, <1>6, <1>8, <2>3, TotalMonotone
<1>13. t \in Nat /\ u \in Nat
  <2> HIDE DEF n, o, c
  <2> QED BY <1>1, <1>6, <1>8, TotalNat
<1>14. price * (1000 + t) = 1000 * price + v
  BY <1>3, <1>10, <1>13
<1>15. PICK w \in Nat \ {0}, x \in Int : w = 1000 + t /\ x = 1000 * price + u
  BY <1>3, <1>13
<1>16. Estimate(price, signals).bps = Rounded(x, w)
  BY <1>9, <1>15 DEF Estimate
<1>17. /\ Rounded(x, w) \in BpsSet
       /\ x <= price * w => Rounded(x, w) <= price
       /\ x >= price * w => Rounded(x, w) >= price
  BY RoundedFits
<1>18. v \in Int
  BY <1>3, <1>10, <1>13
<1> QED
  BY <1>3, <1>11, <1>12, <1>13, <1>14, <1>15, <1>16, <1>17, <1>18

LEMMA SizeFits ==
  ASSUME SignalAssumption, NEW edge \in Int
  PROVE  TradeSize(edge) \in Int /\ TradeSize(edge) <= MaxTradeWei
<1>1. MaxTradeWei \in Nat \ {0} /\ RiskTolerance \in 1 .. 10
  BY DEF SignalAssumption
<1>2. PICK l \in Int : l = (IF 2000 <= edge THEN 2000 ELSE edge) /\ l <= 2000
  OBVIOUS
<1>3. Least(2000, edge) = l
  BY <1>2, LeastMost
<1>4. PICK f \in Nat : f = (IF 100 <= l THEN l ELSE 100) /\ f <= 2000
  BY <1>2
<1>5. Most(100, l) = f
  BY <1>2, <1>4, LeastMost
<1>6. MaxTradeWei * f * RiskTolerance <= MaxTradeWei * 20000
  <2>1. f * RiskTolerance <= 20000
    <3>1. f * RiskTolerance <= f * 10
      BY <1>1, <1>4
    <3> QED BY <1>1, <1>4, <3>1
  <2>2. MaxTradeWei * (f * RiskTolerance) <= MaxTradeWei * 20000
    <3>1. PICK z \in Nat : z = f * RiskTolerance
      BY <1>1
    <3>2. MaxTradeWei * z <= MaxTradeWei * 20000
      BY <1>1, <2>1, <3>1
    <3> QED BY <3>1, <3>2
  <2> QED BY <1>1, <1>4, <2>2
<1>7. PICK a \in Nat : a = MaxTradeWei * f * RiskTolerance
  BY <1>1, <1>4
<1>8. a \div 20000 \in Int /\ a \div 20000 <= MaxTradeWei
  BY <1>1, <1>6, <1>7
<1>9. PICK d \in Int : d = a \div 20000
  BY <1>8
<1>10. Most(1, d) = IF 1 <= d THEN d ELSE 1
  BY LeastMost
<1>11. TradeSize(edge) = Most(1, d)
  BY <1>3, <1>5, <1>7, <1>9 DEF TradeSize
<1> QED BY <1>1, <1>8, <1>9, <1>10, <1>11

LEMMA TradeFits ==
  ASSUME SignalAssumption, NEW signals \in Seq(SignalSet), NEW price \in BpsSet, DecideMarket(price, signals).stake > 0
  PROVE  /\ DecideMarket(price, signals).stake <= MaxTradeWei
         /\ IF DecideMarket(price, signals).side = "YES"
            THEN \E k \in DOMAIN signals : signals[k].probability > price
            ELSE \E k \in DOMAIN signals : signals[k].probability < price
<1>1. PICK e \in Int : e = Estimate(price, signals).bps
  BY EstimateFits, BpsIs
<1>2. price \in Int
  BY BpsIs
<1>3. \A k \in DOMAIN signals : signals[k].probability \in Int
  <2>1. SUFFICES ASSUME NEW k \in DOMAIN signals PROVE signals[k].probability \in Int
    OBVIOUS
  <2>2. signals[k] \in SignalSet
    OBVIOUS
  <2> QED BY <2>2, BpsIs DEF SignalSet
<1>4. PICK edge \in Int : edge = (IF e - price <= price - e THEN price - e ELSE e - price)
  BY <1>1, <1>2
<1>5. Most(e - price, price - e) = edge
  <2>1. e - price \in Int /\ price - e \in Int
    BY <1>1, <1>2
  <2> QED BY <1>4, <2>1, LeastMost
<1>6. /\ DecideMarket(price, signals).side = (IF e >= price THEN "YES" ELSE "NO")
      /\ DecideMarket(price, signals).stake =
           IF edge < MinEdge \/ Estimate(price, signals).confidence < MinConfidence THEN 0 ELSE TradeSize(edge)
  BY <1>1, <1>5 DEF DecideMarket
<1>7. ~(edge < MinEdge) /\ DecideMarket(price, signals).stake = TradeSize(edge)
  BY <1>6
<1>8. edge > 0
  BY <1>4, <1>7 DEF SignalAssumption
<1>9. TradeSize(edge) <= MaxTradeWei
  BY SizeFits
<1>10. CASE e >= price
  <2>1. e > price
    BY <1>1, <1>2, <1>4, <1>8, <1>10
  <2>2. \E k \in DOMAIN signals : ~(signals[k].probability <= price)
    BY <1>1, <1>2, <2>1, EstimateFits
  <2>3. \E k \in DOMAIN signals : signals[k].probability > price
    BY <1>2, <1>3, <2>2
  <2> QED BY <1>6, <1>7, <1>9, <1>10, <2>3
<1>11. CASE e < price
  <2>1. \E k \in DOMAIN signals : ~(signals[k].probability >= price)
    BY <1>1, <1>2, <1>11, EstimateFits
  <2>2. \E k \in DOMAIN signals : signals[k].probability < price
    BY <1>2, <1>3, <2>1
  <2>3. DecideMarket(price, signals).side = "NO"
    BY <1>1, <1>2, <1>6, <1>11
  <2> QED BY <1>7, <1>9, <2>2, <2>3
<1> QED BY <1>1, <1>2, <1>10, <1>11

-----------------------------------------------------------------------------
(* AgentSignals: the stored events are finitely many *)

LEMMA EventsStep == IngestInv /\ IsFiniteSet(Events) /\ [SocialNext]_socialVars => IsFiniteSet(Events')
<1> SUFFICES ASSUME IngestInv, IsFiniteSet(Events), [SocialNext]_socialVars PROVE IsFiniteSet(Events')
  OBVIOUS
<1>1. ASSUME rows' = rows PROVE IsFiniteSet(Events')
  BY <1>1 DEF Events
<1>2. ASSUME NEW h \in Handler, Create(h) PROVE IsFiniteSet(Events')
  <2>1. rows' = rows \/ \E x : rows' = [rows EXCEPT ![handler[h].item] = x]
    BY <1>2 DEF Create
  <2>2. CASE \E x : rows' = [rows EXCEPT ![handler[h].item] = x]
    <3>1. PICK x : rows' = [rows EXCEPT ![handler[h].item] = x]
      BY <2>2
    <3>2. \A i \in Item : i # handler[h].item => rows'[i] = rows[i]
      BY <3>1 DEF IngestInv, EventRows
    <3>3. Events' \subseteq Events \cup {handler[h].item}
      BY <3>2 DEF Events
    <3>4. IsFiniteSet(Events \cup {handler[h].item})
      BY FS_AddElement
    <3> QED BY <3>3, <3>4, FS_Subset
  <2> QED BY <1>1, <2>1, <2>2
<1>3. ASSUME NEW h \in Handler, Serve(h) \/ LimiterFails(h) \/ Break(h) PROVE rows' = rows \/ Create(h)
  BY <1>3 DEF Serve, LimiterFails, Break, CheckLimit, LookUp
<1>4. ASSUME NEW w \in Worker, RunOnce(w) \/ Timeout(w) \/ Restart(w) PROVE rows' = rows
  BY <1>4 DEF RunOnce, Begin, Fetch, Post, Timeout, Restart
<1>5. ASSUME NEW i \in Item, Publish(i) PROVE rows' = rows
  BY <1>5 DEF Publish
<1>6. ASSUME NextWindow PROVE rows' = rows
  BY <1>6 DEF NextWindow
<1>7. CASE UNCHANGED socialVars
  BY <1>1, <1>7 DEF socialVars
<1> QED
  BY <1>1, <1>2, <1>3, <1>4, <1>5, <1>6, <1>7 DEF SocialNext

LEMMA TradesFollow ==
  ASSUME SignalAssumption, IngestInv, IsFiniteSet(Events)
  PROVE  TradesFollowSignals
<1>1. SUFFICES ASSUME NEW s \in Situation, DecideMarket(PoolPrice(s.pool), Signals(s)).stake > 0
               PROVE  LET price   == PoolPrice(s.pool)
                          signals == Signals(s)
                          trade   == DecideMarket(price, signals)
                          Points(k) == IF trade.side = "YES" THEN signals[k].probability > price
                                       ELSE signals[k].probability < price
                      IN  trade.stake <= MaxTradeWei /\ \E k \in DOMAIN signals : Points(k)
  BY DEF TradesFollowSignals
<1>2. PICK signals \in Seq(SignalSet) : signals = Signals(s)
  BY SignalsFit
<1>3. PICK price \in BpsSet : price = PoolPrice(s.pool)
  <2>1. s.pool \in [yes : Nat, no : Nat]
    BY DEF SignalAssumption
  <2> QED BY <2>1, PriceIs
<1>4. /\ DecideMarket(price, signals).stake <= MaxTradeWei
      /\ IF DecideMarket(price, signals).side = "YES"
         THEN \E k \in DOMAIN signals : signals[k].probability > price
         ELSE \E k \in DOMAIN signals : signals[k].probability < price
  BY <1>1, <1>2, <1>3, TradeFits
<1> QED BY <1>2, <1>3, <1>4

\* Whatever is stored and whatever others say, an agent trades only where some
\* signal points beyond the market's price, on that side, within its limit.
THEOREM TradesFollowSignalsHolds == SocialSpec => []TradesFollowSignals
<1> DEFINE TradeInv == SignalAssumption /\ IngestInv /\ IsFiniteSet(Events)
<1>1. SocialInit => TradeInv
  <2>1. SocialInit => Events = {}
    BY DEF SocialInit, Events
  <2> QED BY <2>1, IngestInit, FS_EmptySet, SignalAssumption
<1>2. TradeInv /\ [SocialNext]_socialVars => TradeInv'
  <2>1. SignalAssumption => SignalAssumption'
    BY DEF SignalAssumption
  <2> QED BY <2>1, IngestStep, EventsStep
<1>3. TradeInv => TradesFollowSignals
  BY TradesFollow
<1> QED BY <1>1, <1>2, <1>3, PTL DEF SocialSpec

-----------------------------------------------------------------------------
(* PaperTrading: the arithmetic of a decision *)

LEMMA ClampBounds ==
  ASSUME NEW x \in Int, NEW lo \in Int, NEW hi \in Int, lo <= hi
  PROVE  Clamp(x, lo, hi) \in Int /\ lo <= Clamp(x, lo, hi) /\ Clamp(x, lo, hi) <= hi
BY DEF Clamp, Min2, Max2

LEMMA BpsRangeIs == \A x : x \in BpsRange <=> x \in Int /\ 0 <= x /\ x <= 10000
<1>1. PICK top \in Nat : top = 10000
  OBVIOUS
<1>2. \A x : x \in 0 .. top <=> x \in Int /\ 0 <= x /\ x <= top
  OBVIOUS
<1> QED BY <1>1, <1>2 DEF BpsRange

LEMMA BpsBounds ==
  ASSUME NEW x \in Int
  PROVE  Bps(x) \in BpsRange
<1>1. PICK top \in Nat : top = 10000
  OBVIOUS
<1>2. PICK y : y = Clamp(x, 0, top)
  OBVIOUS
<1>3. y \in Int /\ 0 <= y /\ y <= top
  BY <1>2, ClampBounds
<1>4. y \in BpsRange
  BY <1>1, <1>3, BpsRangeIs
<1>5. Bps(x) = y
  BY <1>1, <1>2 DEF Bps
<1> QED BY <1>4, <1>5

LEMMA Max2Int ==
  ASSUME NEW x \in Int, NEW y \in Int
  PROVE  Max2(x, y) \in Int /\ Max2(x, y) >= x /\ Max2(x, y) >= y
BY DEF Max2

LEMMA Min2Int ==
  ASSUME NEW x \in Int, NEW y \in Int
  PROVE  Min2(x, y) \in Int
BY DEF Min2

LEMMA Toward0Int ==
  ASSUME NEW x \in Int, NEW y \in Nat \ {0}
  PROVE  Toward0(x, y) \in Int
BY DEF Toward0

LEMMA RawFits ==
  ASSUME NEW base \in BpsRange, NEW drift \in Int, NEW conviction \in Nat
  PROVE  /\ RawProbability(base, drift) \in BpsRange
         /\ RawConfidence(RawProbability(base, drift), conviction) \in BpsRange
<1>1. base \in Int
  BY BpsRangeIs
<1>2. Toward0(15 * (base - 5000), 100) \in Int
  BY <1>1, Toward0Int
<1>3. RawProbability(base, drift) \in BpsRange
  BY <1>1, <1>2, BpsBounds DEF RawProbability
<1>4. PICK p \in BpsRange : p = RawProbability(base, drift)
  BY <1>3
<1>5. p \in Int
  BY BpsRangeIs
<1>6. Max2(p - 5000, 5000 - p) \in Int /\ Min2(3200, conviction) \in Int
  <2>1. p - 5000 \in Int /\ 5000 - p \in Int /\ 3200 \in Int /\ conviction \in Int
    BY <1>5
  <2> QED BY <2>1, Max2Int, Min2Int
<1>7. RawConfidence(p, conviction) \in BpsRange
  BY <1>6, BpsBounds DEF RawConfidence
<1> QED BY <1>3, <1>4, <1>7

LEMMA BlendFits ==
  ASSUME PaperAssumption, NEW p \in BpsRange, NEW c \in BpsRange, NEW s \in SignalAnswers
  PROVE  Blend(p, c, s).probability \in BpsRange /\ Blend(p, c, s).confidence \in BpsRange
<1>1. p \in Nat /\ c \in Nat
  BY BpsRangeIs
<1>2. s = <<>> \/ \E x \in PaperSignal : s = <<x>>
  BY DEF SignalAnswers
<1>3. \A x \in PaperSignal : x.probability \in Nat /\ x.confidence \in Nat
  <2>1. PaperSignal \subseteq [probability : BpsRange, confidence : BpsRange]
    BY DEF PaperAssumption
  <2>2. \A x \in PaperSignal : x.probability \in BpsRange /\ x.confidence \in BpsRange
    BY <2>1
  <2>3. \A x \in BpsRange : x \in Nat
    BY BpsRangeIs
  <2> QED BY <2>2, <2>3
<1>4. Len(s) \in Nat /\ \A i \in 1 .. Len(s) : s[i] \in PaperSignal
  BY <1>2
<1>5. PICK n \in Nat : n = Len(s)
  BY <1>4
<1>6. PICK conf : conf = [i \in 1 .. n |-> s[i].confidence]
  OBVIOUS
<1>7. PICK opin : opin = [i \in 1 .. n |-> Opinion(s[i], p) * s[i].confidence]
  OBVIOUS
<1>8. conf \in [1 .. n -> Nat]
  BY <1>3, <1>4, <1>5, <1>6
<1>9. opin \in [1 .. n -> Nat]
  <2>1. ASSUME NEW i \in 1 .. n PROVE Opinion(s[i], p) * s[i].confidence \in Nat
    <3>1. s[i].confidence \in Nat /\ Opinion(s[i], p) \in Nat
      BY <1>1, <1>3, <1>4, <1>5 DEF Opinion
    <3> QED BY <3>1
  <2> QED BY <2>1, <1>7
<1>10. PICK own : own = Max2(1000, c)
  OBVIOUS
<1>11. own \in Nat /\ own > 0
  BY <1>1, <1>10 DEF Max2
<1>12. PICK weight : weight = own + Total(conf, n)
  OBVIOUS
<1>13. Total(conf, n) = Total(conf, n) /\ Total(opin, n) = Total(opin, n)
  BY DEF Total, Total, Partial, Partial
<1>14. weight \in Nat \ {0}
  <2>1. Total(conf, n) \in Nat
    BY <1>8, TotalNat
  <2> QED BY <2>1, <1>11, <1>12, <1>13
<1>15. PICK mean : mean = (p * own + Total(opin, n)) \div weight
  OBVIOUS
<1>16. mean \in Int
  <2>1. Total(opin, n) \in Nat /\ p * own \in Nat
    <3>1. Total(opin, n) \in Nat
      BY <1>9, TotalNat
    <3>2. p * own \in Nat
      BY <1>1, <1>11
    <3> QED BY <3>1, <3>2
  <2>2. p * own + Total(opin, n) \in Int
    BY <2>1, <1>13
  <2> QED BY <2>2, <1>14, <1>15
<1>17. PICK voices : voices = {own} \cup {s[i].confidence : i \in 1 .. n}
  OBVIOUS
<1>18. PICK loud : loud = CHOOSE x \in voices : x >= own /\ \A i \in 1 .. n : x >= s[i].confidence
  OBVIOUS
<1>19. \E x \in voices : x >= own /\ \A i \in 1 .. n : x >= s[i].confidence
  <2>1. CASE n = 0
    BY <2>1, <1>11, <1>17
  <2>2. CASE n = 1
    <3>1. 1 \in 1 .. n /\ s[1].confidence \in Nat /\ \A i \in 1 .. n : i = 1
      BY <2>2, <1>3, <1>4, <1>5
    <3>2. s[1].confidence \in voices /\ own \in voices
      BY <3>1, <1>17
    <3> QED BY <3>1, <3>2, <1>11
  <2>3. n = 0 \/ n = 1
    BY <1>2, <1>5
  <2> QED BY <2>1, <2>2, <2>3
<1>20. loud \in voices
  BY <1>18, <1>19
<1>21. loud \in Int
  BY <1>3, <1>4, <1>5, <1>11, <1>17, <1>20
<1>22. Bps(mean) \in BpsRange
  BY <1>16, BpsBounds
<1>23. Bps(Max2(loud, (8 * Max2(mean - 5000, 5000 - mean)) \div 10)) \in BpsRange
  <2>1. Max2(mean - 5000, 5000 - mean) \in Int
    BY <1>16, Max2Int
  <2>2. (8 * Max2(mean - 5000, 5000 - mean)) \div 10 \in Int
    BY <2>1
  <2>3. Max2(loud, (8 * Max2(mean - 5000, 5000 - mean)) \div 10) \in Int
    BY <2>2, <1>21, Max2Int
  <2> QED BY <2>3, BpsBounds
<1>24. Blend(p, c, s) = [probability |-> Bps(mean),
          confidence |-> Bps(Max2(loud, (8 * Max2(mean - 5000, 5000 - mean)) \div 10))]
  <2>1. Blend(p, c, s) =
          [probability |-> Bps((p * own + Total(opin, n)) \div weight),
           confidence |-> Bps(Max2(loud,
             (8 * Max2((p * own + Total(opin, n)) \div weight - 5000,
                         5000 - (p * own + Total(opin, n)) \div weight)) \div 10))]
    BY <1>5, <1>6, <1>7, <1>10, <1>12, <1>17, <1>18 DEF Blend
  <2> QED BY <2>1, <1>15
<1> QED BY <1>22, <1>23, <1>24

LEMMA StakeBounds ==
  ASSUME PaperAssumption, NEW edge \in Int, NEW confidence \in Int
  PROVE  StakeSize(edge, confidence) \in MinStake .. MaxStake
<1>1. MinStake \in Int /\ MaxStake \in Int /\ MinStake <= MaxStake
  BY DEF PaperAssumption
<1>2. Clamp(edge, 250, 2500) \in Int /\ Clamp(confidence, 600, 6000) \in Int
  BY ClampBounds
<1>3. Clamp(edge, 250, 2500) \div 10 \in Int /\ Clamp(confidence, 600, 6000) \div 100 \in Int
  BY <1>2
<1>4. PICK x \in Int, y \in Int : x = Clamp(edge, 250, 2500) \div 10 /\ y = Clamp(confidence, 600, 6000) \div 100
  BY <1>3
<1>5. (MaxStake * x * y) \div 15000 \in Int
  <2>1. MaxStake * x \in Int
    BY <1>1
  <2>2. MaxStake * x * y \in Int
    BY <2>1
  <2> QED BY <2>2
<1>6. StakeSize(edge, confidence) = Clamp((MaxStake * x * y) \div 15000, MinStake, MaxStake)
  BY <1>4 DEF StakeSize
<1> QED BY <1>1, <1>5, <1>6, ClampBounds
LEMMA EntryRangeIs == \A x : x \in EntryRange <=> x \in Int /\ 1 <= x /\ x <= 9999
<1>1. PICK top \in Nat : top = 9999
  OBVIOUS
<1>2. \A x : x \in 1 .. top <=> x \in Int /\ 1 <= x /\ x <= top
  OBVIOUS
<1> QED BY <1>1, <1>2 DEF EntryRange

LEMMA BiasRangeIs == \A x : x \in BiasRange <=> x \in Int /\ -1500 <= x /\ x <= 1500
<1>1. PICK top \in Nat : top = 1500
  OBVIOUS
<1>2. \A x : x \in -top .. top <=> x \in Int /\ -top <= x /\ x <= top
  OBVIOUS
<1> QED BY <1>1, <1>2 DEF BiasRange

LEMMA ProfitInt ==
  ASSUME NEW p, p.stake \in Int, p.entry \in EntryRange, NEW price \in Int
  PROVE  Profit(p, price) \in Int
<1>1. Max2(1, p.entry) \in Int /\ Max2(1, p.entry) >= 1
  <2>1. 1 \in Int /\ p.entry \in Int
    BY EntryRangeIs
  <2> QED BY <2>1, Max2Int
<1>2. p.stake * price \in Int
  OBVIOUS
<1>3. PICK a \in Int, b \in Nat \ {0} : a = p.stake * price /\ b = Max2(1, p.entry)
  BY <1>1, <1>2
<1>4. a \div b \in Int
  OBVIOUS
<1> QED BY <1>3, <1>4 DEF Profit

\* The stored terms of a position decide its profit.
LEMMA ProfitSame ==
  ASSUME NEW p, NEW q, p.stake = q.stake, p.entry = q.entry, NEW price
  PROVE  Profit(p, price) = Profit(q, price)
BY DEF Profit

-----------------------------------------------------------------------------
(* PaperTrading: the inductive invariant *)

QuoteType == [prices : BpsRange \X BpsRange, active : BOOLEAN, closed : BOOLEAN]
Quoted(it) == it \in QuoteType /\ it.prices[1] + it.prices[2] = 10000
SameVerdict(p, q) == p.prices = q.prices /\ p.closed = q.closed

MarketRow == [kind : {"market"}, active : BOOLEAN, closed : BOOLEAN, yes : BpsRange, no : BpsRange,
              resolved : BOOLEAN, final : BOOLEAN]
TableRow  == [kind : {"table"}, samples : Nat, bias : BiasRange]

Exit(side, verdict) == IF (side = "YES") = verdict THEN 10000 ELSE 0

SameTerms(p, q) == p.side = q.side /\ p.model = q.model /\ p.stake = q.stake /\ p.entry = q.entry

\* What a market's row, a position and a table say is so.
RowFits(m, row) == row.resolved => Resolved(m) /\ row.final = Verdict(m)
PositionFits(m, p) ==
  p.status = "SETTLED" => Resolved(m) /\ p.final = Verdict(m) /\ p.exit = Exit(p.side, Verdict(m))
TableFits(k, t) == t.samples \in 1 .. Cardinality(SettledIn(k))

BookTables ==
  /\ quoted \in [PaperMarket -> QuoteType] /\ \A m \in PaperMarket : Quoted(quoted[m])
  /\ markets \in [PaperMarket -> {Nothing} \cup MarketRow]
  /\ \A m \in PaperMarket : markets[m] \in MarketRow => RowFits(m, markets[m])
  /\ book \in [PaperMarket -> {Nothing} \cup Position]
  /\ \A m \in PaperMarket : book[m] \in Position => PositionFits(m, book[m])
  /\ calibration \in [Category -> {Nothing} \cup TableRow]
  /\ \A k \in Category : calibration[k] \in TableRow => TableFits(k, calibration[k])
  /\ failed \in 0 .. MaxFailed

\* What an operation has still to visit: a page that was read before the exchange
\* decided a market, or a position as it was listed, may be behind the tables.
PageItem(i) == i[1] \in PaperMarket /\ Quoted(i[2]) /\ (ResolvedBy(i[2]) => SameVerdict(i[2], quoted[i[1]]))
RowItem(i)  == i[1] \in PaperMarket /\ i[2] \in MarketRow
OpenItem(i) == /\ i[1] \in PaperMarket /\ i[2] \in Position
               /\ book[i[1]] \in Position /\ SameTerms(i[2], book[i[1]])
TableItem(i) == i[1] \in Category /\ i[2] \in TableRow /\ TableFits(i[1], i[2])

ItemFits(operation, i) ==
  /\ operation \in {"ingest", "ingest closed"} => PageItem(i)
  /\ operation = "cycle" => RowItem(i)
  /\ operation = "settle" => OpenItem(i)
  /\ operation = "calibrate" => TableItem(i)

WorkFits(c) ==
  \/ work[c] = NotRead
  \/ /\ plan[c] # <<>> /\ work[c].kind = "items"
     /\ \A i \in work[c].left : ItemFits(Head(plan[c]), i)

\* What a caller is about to write.
OpenHand(h) == h.market \in PaperMarket /\ h.row \in Position /\ h.row.status = "OPEN"
MarkHand(h) == /\ h.market \in PaperMarket /\ book[h.market] \in Position
               /\ h.found.status = "OPEN" /\ h.current \in BpsRange /\ h.profit \in Int
SettleHand(h) == /\ h.market \in PaperMarket /\ book[h.market] \in Position
                 /\ Resolved(h.market) /\ h.final \in BOOLEAN /\ h.final = Verdict(h.market)
                 /\ h.exit = Exit(book[h.market].side, Verdict(h.market))
                 /\ h.profit \in Int /\ h.profit = Profit(book[h.market], h.exit)

HandFits(c) ==
  \/ hand[c] = Nothing
  \/ /\ plan[c] # <<>> /\ hand[c].kind \in {"open", "mark", "settle"}
     /\ hand[c].kind = "open" => OpenHand(hand[c])
     /\ hand[c].kind = "mark" => MarkHand(hand[c])
     /\ hand[c].kind = "settle" => SettleHand(hand[c])

Requests ==
  /\ DOMAIN plan = Caller /\ DOMAIN work = Caller /\ DOMAIN hand = Caller /\ DOMAIN settled = Caller
  /\ \A c \in Caller : WorkFits(c) /\ HandFits(c)

PaperInv == PaperAssumption /\ BookTables /\ Requests
-----------------------------------------------------------------------------
(* PaperTrading: what the rows and decisions are *)

LEMMA KindsDiffer ==
  /\ Nothing \notin Position /\ Nothing \notin MarketRow /\ Nothing \notin TableRow
  /\ Nothing.status = "none" /\ Nothing.kind = "none"
  /\ \A p \in Position : p.kind = "prediction" /\ p.status \in {"OPEN", "SETTLED"} /\ p # Nothing
<1>1. Nothing.kind = "none" /\ Nothing.status = "none"
  BY DEF Nothing
<1>2. \A p \in Position : p.kind = "prediction" /\ p.status \in {"OPEN", "SETTLED"}
  BY DEF Position
<1>3. \A r \in MarketRow : r.kind = "market"
  BY DEF MarketRow
<1>4. \A t \in TableRow : t.kind = "table"
  BY DEF TableRow
<1> QED BY <1>1, <1>2, <1>3, <1>4

LEMMA PositionParts ==
  ASSUME NEW p \in Position
  PROVE  /\ p.side \in {"YES", "NO"} /\ p.model \in BpsRange /\ p.stake \in MinStake .. MaxStake
         /\ p.entry \in EntryRange /\ p.current \in BpsRange /\ p.profit \in Int
         /\ p.final \in BOOLEAN /\ p.exit \in {0, 10000}
BY DEF Position

LEMMA QuoteFits ==
  ASSUME NEW m, NEW q \in [yes : BpsRange, active : BOOLEAN, closed : BOOLEAN]
  PROVE  Quoted(Quote(m, q))
<1>0. PICK yes \in BpsRange, active \in BOOLEAN, closed \in BOOLEAN :
        yes = q.yes /\ active = q.active /\ closed = q.closed
  OBVIOUS
<1>1. 10000 - yes \in BpsRange
  BY BpsRangeIs
<1>2. yes \in Int
  BY BpsRangeIs
<1>3. PICK no \in BpsRange : no = 10000 - yes
  BY <1>1
<1>4. CASE m \in NoFirst
  <2>1. Quote(m, q) = [prices |-> <<no, yes>>, active |-> active, closed |-> closed]
    BY <1>0, <1>3, <1>4 DEF Quote
  <2>2. no + yes = 10000
    BY <1>2, <1>3
  <2> QED BY <2>1, <2>2 DEF Quoted, QuoteType
<1>5. CASE m \notin NoFirst
  <2>1. Quote(m, q) = [prices |-> <<yes, no>>, active |-> active, closed |-> closed]
    BY <1>0, <1>3, <1>5 DEF Quote
  <2>2. yes + no = 10000
    BY <1>2, <1>3
  <2> QED BY <2>1, <2>2 DEF Quoted, QuoteType
<1> QED BY <1>4, <1>5

\* The row made of what the exchange lists says what the exchange has decided.
LEMMA RowIs ==
  ASSUME NEW m \in PaperMarket, NEW item, Quoted(item),
         ResolvedBy(item) => SameVerdict(item, quoted[m])
  PROVE  Row(m, item) \in MarketRow /\ RowFits(m, Row(m, item))
<1>1. /\ item.prices \in BpsRange \X BpsRange /\ item.closed \in BOOLEAN /\ item.active \in BOOLEAN
      /\ item.prices[1] + item.prices[2] = 10000
  BY DEF Quoted, QuoteType
<1>2. PICK a \in BpsRange, b \in BpsRange : a = item.prices[1] /\ b = item.prices[2]
  BY <1>1
<1>3. a \in Int /\ b \in Int /\ a + b = 10000 /\ 0 <= a /\ 0 <= b
  BY <1>1, <1>2, BpsRangeIs
<1>4. PICK slot : slot = YesAt(m)
  OBVIOUS
<1>5. slot = (IF m \in NoFirst THEN 2 ELSE 1)
  BY <1>4 DEF YesAt
<1>6. PICK yes, no : yes = item.prices[slot] /\ no = item.prices[3 - slot]
  OBVIOUS
<1>7. yes \in BpsRange /\ no \in BpsRange /\ ((yes = a /\ no = b) \/ (yes = b /\ no = a))
  <2>1. CASE m \in NoFirst
    BY <1>2, <1>5, <1>6, <2>1
  <2>2. CASE m \notin NoFirst
    BY <1>2, <1>5, <1>6, <2>2
  <2> QED BY <2>1, <2>2
<1>8. yes \in Int /\ no \in Int
  BY <1>3, <1>7
<1>9. ResolvedBy(item) <=> item.closed /\ (yes >= 9900 \/ no >= 9900)
  <2>1. 1 \in 1 .. 2 /\ 2 \in 1 .. 2 /\ \A i \in 1 .. 2 : i = 1 \/ i = 2
    OBVIOUS
  <2> QED BY <1>2, <1>7, <2>1 DEF ResolvedBy
<1>10. FinalOf(m, item) <=> ResolvedBy(item) /\ yes >= no
  BY <1>4, <1>6 DEF FinalOf
<1>11. ResolvedBy(item) \in BOOLEAN /\ FinalOf(m, item) \in BOOLEAN /\ (item.active /\ ~item.closed) \in BOOLEAN
  BY <1>1 DEF ResolvedBy, FinalOf
<1>12. Row(m, item) \in MarketRow
  BY <1>1, <1>4, <1>6, <1>7, <1>11 DEF Row, MarketRow
<1>13. ASSUME ResolvedBy(item) PROVE Resolved(m) /\ (FinalOf(m, item) <=> Verdict(m))
  <2>1. item.prices = quoted[m].prices /\ item.closed = quoted[m].closed
    BY <1>13 DEF SameVerdict
  <2>2. Resolved(m)
    BY <1>13, <2>1 DEF Resolved, ResolvedBy
  <2>3. Verdict(m) <=> yes >= 9900
    BY <1>5, <1>6, <2>1 DEF Verdict
  <2>4. yes >= 9900 \/ no >= 9900
    BY <1>9, <1>13
  <2>5. yes + no = 10000
    BY <1>3, <1>7
  <2>6. yes >= no <=> yes >= 9900
    BY <1>8, <2>4, <2>5
  <2> QED BY <1>10, <1>13, <2>2, <2>3, <2>6
<1>14. Row(m, item).resolved = ResolvedBy(item) /\ Row(m, item).final = FinalOf(m, item)
  BY DEF Row
<1>15. Verdict(m) \in BOOLEAN
  BY DEF Verdict
<1> QED BY <1>11, <1>12, <1>13, <1>14, <1>15 DEF RowFits

LEMMA DecisionIs ==
  ASSUME PaperAssumption, NEW m \in PaperMarket, NEW row \in MarketRow, NEW d \in Drift, NEW v \in Conviction,
         NEW s \in SignalAnswers, calibration[CategoryOf[m]] \in {Nothing} \cup TableRow
  PROVE  /\ Decision(m, row, d, v, s) \in Position
         /\ Decision(m, row, d, v, s).status = "OPEN"
<1>1. row.yes \in BpsRange /\ row.no \in BpsRange /\ d \in Int /\ v \in Nat
  BY DEF MarketRow, PaperAssumption
<1>2. PICK yes, no : yes = row.yes /\ no = row.no
  OBVIOUS
<1>3. PICK raw, sure : raw = RawProbability(yes, d) /\ sure = RawConfidence(raw, v)
  OBVIOUS
<1>4. raw \in BpsRange /\ sure \in BpsRange
  BY <1>1, <1>2, <1>3, RawFits
<1>5. PICK voice : voice = IF s = <<>> THEN [probability |-> raw, confidence |-> sure] ELSE Blend(raw, sure, s)
  OBVIOUS
<1>6. voice.probability \in BpsRange /\ voice.confidence \in BpsRange
  BY <1>4, <1>5, BlendFits
<1>7. PICK bias : bias = IF calibration[CategoryOf[m]] = Nothing THEN 0 ELSE calibration[CategoryOf[m]].bias
  OBVIOUS
<1>8. bias \in Int
  <2>1. \A t \in TableRow : t.bias \in Int
    BY BiasRangeIs DEF TableRow
  <2> QED BY <1>7, <2>1
<1>9. PICK fair : fair = Bps(voice.probability + bias)
  OBVIOUS
<1>10. fair \in Int
  BY <1>6, <1>8, <1>9, BpsBounds, BpsRangeIs
<1>11. PICK side : side = IF fair >= yes THEN "YES" ELSE "NO"
  OBVIOUS
<1>12. PICK price : price = Clamp(PriceFor(side, row), 1, 9999)
  OBVIOUS
<1>13. price \in EntryRange /\ price \in BpsRange
  <2>1. PICK x : x = PriceFor(side, row)
    OBVIOUS
  <2>2. x \in Int
    BY <1>1, <2>1, BpsRangeIs DEF PriceFor
  <2>3. PICK top \in Nat : top = 9999
    OBVIOUS
  <2>4. price \in Int /\ 1 <= price /\ price <= top
    BY <1>12, <2>1, <2>2, <2>3, ClampBounds
  <2> QED BY <2>3, <2>4, EntryRangeIs, BpsRangeIs
<1>14. PICK size : size = StakeSize(Max2(fair - yes, yes - fair), voice.confidence)
  OBVIOUS
<1>15. size \in MinStake .. MaxStake
  <2>1. yes \in Int /\ voice.confidence \in Int
    BY <1>1, <1>2, <1>6, BpsRangeIs
  <2>2. Max2(fair - yes, yes - fair) \in Int
    BY <1>10, <2>1, Max2Int
  <2> QED BY <1>14, <2>1, <2>2, StakeBounds
<1>16. PICK row2 : row2 = [kind |-> "prediction", status |-> "OPEN", side |-> side, model |-> voice.probability,
         stake |-> size, entry |-> price, current |-> price, profit |-> 0, final |-> FALSE, exit |-> 0]
  OBVIOUS
<1>17. Decision(m, row, d, v, s) = row2
  BY <1>2, <1>3, <1>5, <1>7, <1>9, <1>11, <1>12, <1>14, <1>16 DEF Decision
<1>18. row2 \in Position
  BY <1>6, <1>11, <1>13, <1>15, <1>16 DEF Position
<1> QED BY <1>16, <1>17, <1>18
-----------------------------------------------------------------------------
(* PaperTrading: what every step leaves true *)

\* What the exchange decided stays, and so do positions, their terms and their
\* settlement.
Later ==
  /\ \A m \in PaperMarket : Resolved(m) => SameVerdict(quoted'[m], quoted[m])
  /\ \A m \in PaperMarket : book[m] \in Position =>
       /\ book'[m] \in Position /\ SameTerms(book'[m], book[m])
       /\ book[m].status = "SETTLED" => book'[m].status = "SETTLED"

LEMMA VerdictStays ==
  ASSUME Later, NEW m \in PaperMarket, Resolved(m)
  PROVE  Resolved(m)' /\ Verdict(m)' = Verdict(m)
<1>1. SameVerdict(quoted'[m], quoted[m])
  BY DEF Later
<1> QED BY <1>1 DEF SameVerdict, Resolved, Verdict

LEMMA PaperInitHolds == PaperInit => PaperInv
<1> SUFFICES ASSUME PaperAssumption, PaperInit PROVE PaperInv
  BY PaperAssumption
<1>1. MaxFailed \in Nat
  BY DEF PaperAssumption
<1>2. DOMAIN quoted = PaperMarket /\ quoted \in [DOMAIN quoted -> {quoted[m] : m \in DOMAIN quoted}]
  BY DEF PaperInit
<1>3. ASSUME NEW m \in PaperMarket PROVE Quoted(quoted[m])
  <2>1. PICK q \in Says[m] : quoted[m] = Quote(m, q)
    BY DEF PaperInit
  <2>2. q \in [yes : BpsRange, active : BOOLEAN, closed : BOOLEAN]
    BY <2>1 DEF PaperAssumption
  <2> QED BY <2>1, <2>2, QuoteFits
<1>4. quoted \in [PaperMarket -> QuoteType]
  <2>1. \A m \in PaperMarket : quoted[m] \in QuoteType
    BY <1>3 DEF Quoted
  <2> QED BY <1>2, <2>1
<1>5. BookTables
  <2>1. /\ markets = [m \in PaperMarket |-> Nothing] /\ book = [m \in PaperMarket |-> Nothing]
        /\ calibration = [k \in Category |-> Nothing] /\ failed = 0
    BY DEF PaperInit
  <2>2. failed \in 0 .. MaxFailed
    BY <1>1, <2>1
  <2>3. /\ \A m \in PaperMarket : markets[m] \notin MarketRow /\ book[m] \notin Position
        /\ \A k \in Category : calibration[k] \notin TableRow
    BY <2>1, KindsDiffer
  <2>4. /\ markets \in [PaperMarket -> {Nothing} \cup MarketRow]
        /\ book \in [PaperMarket -> {Nothing} \cup Position]
        /\ calibration \in [Category -> {Nothing} \cup TableRow]
    BY <2>1
  <2> QED BY <1>3, <1>4, <2>2, <2>3, <2>4 DEF BookTables
<1>6. Requests
  BY DEF Requests, PaperInit, WorkFits, HandFits
<1> QED BY <1>5, <1>6 DEF PaperInv

LEMMA SettledInGrows ==
  ASSUME PaperAssumption, BookTables, Later, NEW k, NEW t, TableFits(k, t)
  PROVE  TableFits(k, t)'
<1>1. SettledIn(k) \subseteq SettledIn(k)'
  <2>1. ASSUME NEW m \in PaperMarket, book[m].status = "SETTLED" PROVE book'[m].status = "SETTLED"
    <3>1. book[m] \in Position
      BY <2>1, KindsDiffer DEF BookTables
    <3> QED BY <2>1, <3>1 DEF Later
  <2> QED BY <2>1 DEF SettledIn
<1>2. IsFiniteSet(PaperMarket)
  <2>1. IsFiniteSet(PaperMarket)
    BY DEF PaperAssumption
  <2> QED BY <2>1 DEF IsFiniteSet, IsFiniteSet
<1>3. SettledIn(k)' \subseteq PaperMarket
  BY DEF SettledIn
<1>4. IsFiniteSet(SettledIn(k)')
  BY <1>2, <1>3, FS_Subset
<1>5. Cardinality(SettledIn(k)) <= Cardinality(SettledIn(k)') /\ Cardinality(SettledIn(k)) \in Nat
      /\ Cardinality(SettledIn(k)') \in Nat
  BY <1>1, <1>4, FS_Subset, FS_CardinalityType
<1> QED BY <1>5 DEF TableFits

LEMMA TermsChain ==
  ASSUME NEW p, NEW q, NEW r, SameTerms(p, q), SameTerms(r, q)
  PROVE  SameTerms(p, r)
BY DEF SameTerms

LEMMA ItemStays ==
  ASSUME PaperAssumption, BookTables, Later, NEW operation, NEW i, ItemFits(operation, i)
  PROVE  ItemFits(operation, i)'
<1>1. ASSUME PageItem(i) PROVE PageItem(i)'
  <2>1. i[1] \in PaperMarket /\ Quoted(i[2])
    BY <1>1 DEF PageItem
  <2>2. ASSUME ResolvedBy(i[2]) PROVE SameVerdict(i[2], quoted'[i[1]])
    <3>1. SameVerdict(i[2], quoted[i[1]])
      BY <1>1, <2>2 DEF PageItem
    <3>2. Resolved(i[1])
      BY <2>2, <3>1 DEF Resolved, ResolvedBy, SameVerdict
    <3>3. SameVerdict(quoted'[i[1]], quoted[i[1]])
      BY <2>1, <3>2 DEF Later
    <3> QED BY <3>1, <3>3 DEF SameVerdict
  <2> QED BY <2>1, <2>2 DEF PageItem
<1>2. ASSUME OpenItem(i) PROVE OpenItem(i)'
  <2>1. i[1] \in PaperMarket /\ i[2] \in Position /\ book[i[1]] \in Position /\ SameTerms(i[2], book[i[1]])
    BY <1>2 DEF OpenItem
  <2>2. book'[i[1]] \in Position /\ SameTerms(book'[i[1]], book[i[1]])
    BY <2>1 DEF Later
  <2>3. SameTerms(i[2], book'[i[1]])
    BY <2>1, <2>2, TermsChain
  <2> QED BY <2>1, <2>2, <2>3 DEF OpenItem
<1>3. ASSUME TableItem(i) PROVE TableItem(i)'
  BY <1>3, SettledInGrows DEF TableItem
<1>4. RowItem(i) => RowItem(i)'
  BY DEF RowItem
<1> QED BY <1>1, <1>2, <1>3, <1>4 DEF ItemFits

LEMMA HandStays ==
  ASSUME Later, NEW h
  PROVE  /\ OpenHand(h) => OpenHand(h)'
         /\ MarkHand(h) => MarkHand(h)'
         /\ SettleHand(h) => SettleHand(h)'
<1>1. OpenHand(h) => OpenHand(h)'
  BY DEF OpenHand
<1>2. MarkHand(h) => MarkHand(h)'
  BY DEF MarkHand, Later
<1>3. ASSUME SettleHand(h) PROVE SettleHand(h)'
  <2>1. h.market \in PaperMarket /\ book[h.market] \in Position /\ Resolved(h.market)
    BY <1>3 DEF SettleHand
  <2>2. Resolved(h.market)' /\ Verdict(h.market)' = Verdict(h.market)
    BY <2>1, VerdictStays
  <2>3. book'[h.market] \in Position /\ SameTerms(book'[h.market], book[h.market])
    BY <2>1 DEF Later
  <2>4. book'[h.market].side = book[h.market].side
    BY <2>3 DEF SameTerms
  <2>5. Profit(book'[h.market], h.exit) = Profit(book[h.market], h.exit)
    BY <2>3, ProfitSame DEF SameTerms
  <2> QED BY <1>3, <2>1, <2>2, <2>3, <2>4, <2>5 DEF SettleHand, Exit
<1> QED BY <1>1, <1>2, <1>3

\* A caller that does not move keeps what it holds.
LEMMA OthersFit ==
  ASSUME PaperAssumption, BookTables, Requests, Later, NEW c \in Caller,
         plan'[c] = plan[c], work'[c] = work[c], hand'[c] = hand[c]
  PROVE  WorkFits(c)' /\ HandFits(c)'
<1>1. WorkFits(c) /\ HandFits(c)
  BY DEF Requests
<1>2. WorkFits(c)'
  BY <1>1, ItemStays DEF WorkFits
<1>3. HandFits(c)'
  BY <1>1, HandStays DEF HandFits
<1> QED BY <1>2, <1>3

LEMMA RequestsStep ==
  ASSUME PaperAssumption, BookTables, Requests, Later, NEW c \in Caller,
         DOMAIN plan' = Caller, DOMAIN work' = Caller, DOMAIN hand' = Caller, DOMAIN settled' = Caller,
         \A d \in Caller \ {c} : plan'[d] = plan[d] /\ work'[d] = work[d] /\ hand'[d] = hand[d],
         WorkFits(c)', HandFits(c)'
  PROVE  Requests'
<1>1. ASSUME NEW d \in Caller PROVE WorkFits(d)' /\ HandFits(d)'
  <2>1. CASE d = c
    BY <2>1
  <2>2. CASE d # c
    BY <2>2, OthersFit
  <2> QED BY <2>1, <2>2
<1> QED BY <1>1 DEF Requests, Caller

LEMMA LaterSame ==
  ASSUME UNCHANGED <<quoted, book>>
  PROVE  Later
BY DEF Later, SameTerms, SameVerdict

LEMMA TablesSame ==
  ASSUME BookTables, UNCHANGED <<quoted, markets, book, calibration>>, failed' \in 0 .. MaxFailed
  PROVE  BookTables'
BY DEF BookTables, RowFits, PositionFits, TableFits, Resolved, Verdict, SettledIn
-----------------------------------------------------------------------------
(* PaperTrading: the steps *)

LEMMA TradeStep ==
  ASSUME PaperInv, NEW m \in PaperMarket, NEW q \in Says[m], Trade(m, q)
  PROVE  PaperInv'
<1>1. PaperAssumption /\ BookTables /\ Requests
  BY DEF PaperInv
<1>2. /\ quoted[m].closed => q.closed
      /\ Resolved(m) => Quote(m, q).prices = quoted[m].prices
      /\ quoted' = [quoted EXCEPT ![m] = Quote(m, q)]
      /\ UNCHANGED <<markets, book, calibration, plan, work, hand, settled, failed>>
  BY DEF Trade, paperRows, local
<1>3. quoted \in [PaperMarket -> QuoteType] /\ \A x \in PaperMarket : Quoted(quoted[x])
  BY <1>1 DEF BookTables
<1>4. Quoted(Quote(m, q))
  <2>1. q \in [yes : BpsRange, active : BOOLEAN, closed : BOOLEAN]
    BY <1>1 DEF PaperAssumption
  <2> QED BY <2>1, QuoteFits
<1>5. /\ quoted' \in [PaperMarket -> QuoteType] /\ \A x \in PaperMarket : Quoted(quoted'[x])
  BY <1>2, <1>3, <1>4 DEF Quoted
<1>10. ASSUME NEW x \in PaperMarket, Resolved(x) PROVE SameVerdict(quoted'[x], quoted[x])
  <2>1. CASE x # m
    BY <1>2, <1>3, <2>1 DEF SameVerdict
  <2>2. CASE x = m
    <3>1. quoted'[x] = Quote(m, q)
      BY <1>2, <1>3, <2>2
    <3>2. Quote(m, q).closed = q.closed /\ q.closed \in BOOLEAN
      BY <1>1 DEF Quote, PaperAssumption
    <3>3. quoted[m].closed = TRUE
      BY <1>3, <1>10, <2>2 DEF Resolved, QuoteType
    <3> QED BY <1>2, <1>10, <2>2, <3>1, <3>2, <3>3 DEF SameVerdict
  <2> QED BY <2>1, <2>2
<1>6. Later
  BY <1>2, <1>10 DEF Later, SameTerms
<1>7. \A x \in PaperMarket : Resolved(x) => Resolved(x)' /\ Verdict(x)' = Verdict(x)
  BY <1>6, VerdictStays
<1>8. BookTables'
  <2>1. \A x \in PaperMarket : markets[x] \in MarketRow => RowFits(x, markets[x])'
    BY <1>1, <1>2, <1>7 DEF BookTables, RowFits
  <2>2. \A x \in PaperMarket : book[x] \in Position => PositionFits(x, book[x])'
    BY <1>1, <1>2, <1>7 DEF BookTables, PositionFits
  <2>3. \A k \in Category : calibration[k] \in TableRow => TableFits(k, calibration[k])'
    BY <1>1, <1>2 DEF BookTables, TableFits, SettledIn
  <2> QED BY <1>1, <1>2, <1>5, <2>1, <2>2, <2>3 DEF BookTables
<1>9. Requests'
  <2>1. ASSUME NEW c \in Caller PROVE WorkFits(c)' /\ HandFits(c)'
    BY <1>1, <1>2, <1>6, OthersFit
  <2>2. Caller' = Caller
    BY DEF Caller
  <2> QED BY <1>1, <1>2, <2>1, <2>2 DEF Requests
<1> QED BY <1>1, <1>8, <1>9 DEF PaperInv

\* Steps that only change what one caller holds.
LEMMA OwnStep ==
  ASSUME PaperInv, NEW c \in Caller, UNCHANGED <<quoted, markets, book, calibration>>,
         failed' \in 0 .. MaxFailed,
         DOMAIN plan' = Caller, DOMAIN work' = Caller, DOMAIN hand' = Caller, DOMAIN settled' = Caller,
         \A d \in Caller \ {c} : plan'[d] = plan[d] /\ work'[d] = work[d] /\ hand'[d] = hand[d],
         WorkFits(c)', HandFits(c)'
  PROVE  PaperInv'
<1>1. PaperAssumption /\ BookTables /\ Requests
  BY DEF PaperInv
<1>2. Later
  BY LaterSame
<1>3. BookTables'
  BY <1>1, TablesSame
<1>4. Requests'
  BY <1>1, <1>2, RequestsStep
<1> QED BY <1>1, <1>3, <1>4 DEF PaperInv

LEMMA Holds ==
  ASSUME PaperInv, NEW c \in Caller
  PROVE  /\ WorkFits(c) /\ HandFits(c)
         /\ DOMAIN plan = Caller /\ DOMAIN work = Caller /\ DOMAIN hand = Caller /\ DOMAIN settled = Caller
         /\ failed \in 0 .. MaxFailed
         /\ plan[c] = <<>> => work[c] = NotRead /\ hand[c] = Nothing
         /\ work[c].kind = "items" => plan[c] # <<>> /\ \A i \in work[c].left : ItemFits(Head(plan[c]), i)
<1>1. WorkFits(c) /\ HandFits(c)
  BY DEF PaperInv, Requests
<1>2. NotRead.kind # "items"
  BY DEF NotRead
<1> QED BY <1>1, <1>2 DEF PaperInv, Requests, WorkFits, HandFits, BookTables

LEMMA AskStep ==
  ASSUME PaperInv, NEW c \in Caller, NEW o, Ask(c, o)
  PROVE  PaperInv'
<1>1. /\ plan[c] = <<>> /\ plan' = [plan EXCEPT ![c] = o]
      /\ UNCHANGED <<quoted, markets, book, calibration, work, hand, settled, failed>>
  BY DEF Ask, paperRows
<1>2. work[c] = NotRead /\ hand[c] = Nothing
  BY <1>1, Holds
<1>3. WorkFits(c)' /\ HandFits(c)'
  BY <1>1, <1>2 DEF WorkFits, HandFits
<1>4. DOMAIN plan' = Caller /\ \A d \in Caller \ {c} : plan'[d] = plan[d]
  BY <1>1, Holds
<1> QED BY <1>1, <1>3, <1>4, Holds, OwnStep

LEMMA FinishStep ==
  ASSUME PaperInv, NEW c \in Caller, Finish(c)
  PROVE  PaperInv'
<1>1. /\ hand[c] = Nothing /\ work' = [work EXCEPT ![c] = NotRead]
      /\ UNCHANGED <<quoted, markets, book, calibration, hand, failed>>
  BY DEF Finish, paperRows, Visiting
<1>2. /\ DOMAIN plan' = Caller /\ DOMAIN settled' = Caller
      /\ \A d \in Caller \ {c} : plan'[d] = plan[d]
  <2>1. CASE UNCHANGED <<plan, settled>>
    BY <2>1, Holds
  <2>2. CASE /\ \E new : plan' = [plan EXCEPT ![c] = new]
             /\ settled' = [settled EXCEPT ![c] = FALSE]
    BY <2>2, Holds
  <2> QED BY <2>1, <2>2 DEF Finish
<1>3. /\ DOMAIN plan' = Caller /\ DOMAIN work' = Caller /\ DOMAIN settled' = Caller
      /\ work'[c] = NotRead
      /\ \A d \in Caller \ {c} : plan'[d] = plan[d] /\ work'[d] = work[d]
  BY <1>1, <1>2, Holds
<1>4. WorkFits(c)' /\ HandFits(c)'
  BY <1>1, <1>3 DEF WorkFits, HandFits
<1> QED BY <1>1, <1>3, <1>4, Holds, OwnStep

LEMMA AbortStep ==
  ASSUME PaperInv, NEW c \in Caller, Abort(c), failed' \in 0 .. MaxFailed
  PROVE  PaperInv'
<1>1. /\ plan' = [plan EXCEPT ![c] = <<>>] /\ work' = [work EXCEPT ![c] = NotRead]
      /\ hand' = [hand EXCEPT ![c] = Nothing] /\ settled' = [settled EXCEPT ![c] = FALSE]
      /\ UNCHANGED <<quoted, markets, book, calibration>>
  BY DEF Abort, paperRows
<1>2. /\ DOMAIN plan' = Caller /\ DOMAIN work' = Caller /\ DOMAIN settled' = Caller /\ DOMAIN hand' = Caller
      /\ work'[c] = NotRead /\ hand'[c] = Nothing
      /\ \A d \in Caller \ {c} : plan'[d] = plan[d] /\ work'[d] = work[d] /\ hand'[d] = hand[d]
  BY <1>1, Holds
<1>3. WorkFits(c)' /\ HandFits(c)'
  BY <1>2 DEF WorkFits, HandFits
<1> QED BY <1>1, <1>2, <1>3, OwnStep

LEMMA FailStep ==
  ASSUME PaperInv, NEW c \in Caller, FailRequest(c)
  PROVE  PaperInv'
<1>1. failed' \in 0 .. MaxFailed
  <2>1. failed \in 0 .. MaxFailed /\ MaxFailed \in Nat
    BY DEF PaperInv, BookTables, PaperAssumption
  <2>2. failed < MaxFailed /\ failed' = failed + 1
    BY DEF FailRequest
  <2> QED BY <2>1, <2>2
<1> QED BY <1>1, AbortStep DEF FailRequest

LEMMA RefusedStep ==
  ASSUME PaperInv, NEW c \in Caller, Refused(c)
  PROVE  PaperInv'
BY AbortStep, Holds DEF Refused

\* The operations are told apart by their names.
LEMMA Operation ==
  ASSUME NEW c, NEW operation, Doing(c, operation)
  PROVE  plan[c] # <<>> /\ Head(plan[c]) = operation
BY DEF Doing

\* A caller that lists what it has to visit.
LEMMA ListingStep ==
  ASSUME PaperInv, NEW c \in Caller, NEW S, plan[c] # <<>>,
         work' = [work EXCEPT ![c] = Items(S)],
         \A i \in S : ItemFits(Head(plan[c]), i),
         UNCHANGED <<quoted, markets, book, calibration, plan, hand, settled, failed>>
  PROVE  PaperInv'
<1>1. DOMAIN work' = Caller /\ work'[c] = Items(S) /\ \A d \in Caller \ {c} : work'[d] = work[d]
  BY Holds
<1>2. Items(S).kind = "items" /\ Items(S).left = S
  BY DEF Items
<1>3. \A i \in S : ItemFits(Head(plan[c]), i)'
  <2>1. Later
    BY LaterSame
  <2>2. PICK operation : operation = Head(plan[c])
    OBVIOUS
  <2>3. \A i \in S : ItemFits(operation, i)'
    BY <2>1, <2>2, ItemStays DEF PaperInv
  <2>4. Head(plan[c])' = operation
    BY <2>2
  <2> QED BY <2>3, <2>4
<1>4. WorkFits(c)'
  BY <1>1, <1>2, <1>3 DEF WorkFits
<1>5. HandFits(c)'
  <2>1. Later
    BY LaterSame
  <2> QED BY <2>1, Holds, HandStays DEF HandFits
<1> QED BY <1>1, <1>4, <1>5, Holds, OwnStep

LEMMA PageStep ==
  ASSUME PaperInv, NEW c \in Caller, Page(c)
  PROVE  PaperInv'
<1>1. /\ Doing(c, "ingest") \/ Doing(c, "ingest closed")
      /\ \E page \in SUBSET PaperMarket : work' = [work EXCEPT ![c] = Items({<<m, quoted[m]>> : m \in page})]
      /\ UNCHANGED <<quoted, markets, book, calibration, plan, hand, settled, failed>>
  BY DEF Page, Matching, Ingesting, paperRows
<1>4. PICK seen \in SUBSET PaperMarket : work' = [work EXCEPT ![c] = Items({<<m, quoted[m]>> : m \in seen})]
  BY <1>1
<1>2. plan[c] # <<>> /\ Head(plan[c]) \in {"ingest", "ingest closed"}
  BY <1>1, Operation
<1>3. ASSUME NEW i \in {<<m, quoted[m]>> : m \in seen} PROVE ItemFits(Head(plan[c]), i)
  <2>1. PICK m \in PaperMarket : i = <<m, quoted[m]>>
    OBVIOUS
  <2>2. Quoted(quoted[m])
    BY DEF PaperInv, BookTables
  <2>3. PageItem(i)
    BY <2>1, <2>2 DEF PageItem, SameVerdict
  <2> QED BY <1>2, <2>3 DEF ItemFits
<1> QED BY <1>1, <1>2, <1>3, <1>4, ListingStep

LEMMA ListStep ==
  ASSUME PaperInv, NEW c \in Caller, NEW seen \in SUBSET PaperMarket, List(c, seen)
  PROVE  PaperInv'
<1>1. /\ Doing(c, "cycle") /\ \A m \in seen : markets[m] # Nothing
      /\ work' = [work EXCEPT ![c] = Items({<<m, markets[m]>> : m \in seen})]
      /\ UNCHANGED <<quoted, markets, book, calibration, plan, hand, settled, failed>>
  BY DEF List, paperRows
<1>2. plan[c] # <<>> /\ Head(plan[c]) = "cycle"
  BY <1>1, Operation
<1>3. ASSUME NEW i \in {<<m, markets[m]>> : m \in seen} PROVE ItemFits(Head(plan[c]), i)
  <2>1. PICK m \in PaperMarket : i = <<m, markets[m]>> /\ markets[m] # Nothing
    BY <1>1
  <2>2. markets[m] \in MarketRow
    BY <2>1 DEF PaperInv, BookTables
  <2>3. RowItem(i)
    BY <2>1, <2>2 DEF RowItem
  <2> QED BY <1>2, <2>3 DEF ItemFits
<1> QED BY <1>1, <1>2, <1>3, ListingStep

LEMMA ListOpenStep ==
  ASSUME PaperInv, NEW c \in Caller, ListOpen(c)
  PROVE  PaperInv'
<1> DEFINE S == {<<m, book[m]>> : m \in {x \in PaperMarket : book[x].status = "OPEN"}}
<1>1. /\ Doing(c, "settle") /\ work' = [work EXCEPT ![c] = Items(S)]
      /\ UNCHANGED <<quoted, markets, book, calibration, plan, hand, settled, failed>>
  BY DEF ListOpen, paperRows
<1>2. plan[c] # <<>> /\ Head(plan[c]) = "settle"
  BY <1>1, Operation
<1>3. ASSUME NEW i \in S PROVE ItemFits(Head(plan[c]), i)
  <2>1. PICK m \in PaperMarket : i = <<m, book[m]>> /\ book[m].status = "OPEN"
    OBVIOUS
  <2>2. book[m] \in Position
    BY <2>1, KindsDiffer DEF PaperInv, BookTables
  <2>3. OpenItem(i)
    BY <2>1, <2>2 DEF OpenItem, SameTerms
  <2> QED BY <1>2, <2>3 DEF ItemFits
<1> HIDE DEF S
<1> QED BY <1>1, <1>2, <1>3, ListingStep

LEMMA TableIs ==
  ASSUME PaperAssumption, BookTables, NEW k, SettledIn(k) # {}
  PROVE  Table(k) \in TableRow /\ TableFits(k, Table(k))
<1>1. PICK S : S = SettledIn(k)
  OBVIOUS
<1>2. S \subseteq PaperMarket /\ S # {} /\ \A m \in S : book[m] \in Position
  BY <1>1, KindsDiffer DEF SettledIn, BookTables
<1>3. IsFiniteSet(S)
  <2>1. IsFiniteSet(PaperMarket)
    BY DEF PaperAssumption
  <2>2. IsFiniteSet(PaperMarket)
    BY <2>1 DEF IsFiniteSet, IsFiniteSet
  <2> QED BY <1>2, <2>2, FS_Subset
<1>4. PICK n : n = Cardinality(S)
  OBVIOUS
<1>5. n \in Nat /\ n # 0
  BY <1>2, <1>3, <1>4, FS_CardinalityType, FS_EmptySet
<1>6. Cardinality(S) = n
  BY <1>4 DEF Cardinality, Cardinality
<1>7. PICK f : f = [m \in S |-> (IF book[m].final THEN 10000 ELSE 0) - book[m].model]
  OBVIOUS
<1>8. \A m \in S : f[m] \in Int
  <2>1. ASSUME NEW m \in S PROVE f[m] \in Int
    <3>1. book[m].model \in Int
      BY <1>2, PositionParts, BpsRangeIs
    <3> QED BY <1>7, <3>1
  <2> QED BY <2>1
<1>9. SumOver(f, S) = SumOver(f, S)
  BY DEF SumOver, SumOver
<1>10. SumOver(f, S) \in Int
  BY <1>3, <1>8, <1>9, SumOverInt
<1>11. PICK e \in Int, w \in Nat \ {0} : e = SumOver(f, S) /\ w = n + 25
  BY <1>5, <1>10
<1>12. Toward0(e, w) \in Int
  BY Toward0Int
<1>13. PICK top \in Nat : top = 1500
  OBVIOUS
<1>14. Clamp(Toward0(e, w), -top, top) \in BiasRange
  <2>1. -top \in Int /\ top \in Int /\ -top <= top
    OBVIOUS
  <2>2. PICK b : b = Clamp(Toward0(e, w), -top, top)
    OBVIOUS
  <2>3. b \in Int /\ -top <= b /\ b <= top
    BY <1>12, <2>1, <2>2, ClampBounds
  <2> QED BY <1>13, <2>2, <2>3, BiasRangeIs
<1>15. Table(k) = [kind |-> "table", samples |-> n, bias |-> Clamp(Toward0(e, w), -top, top)]
  BY <1>1, <1>6, <1>7, <1>11, <1>13 DEF Table
<1>16. Table(k) \in TableRow /\ Table(k).samples = n
  BY <1>5, <1>14, <1>15 DEF TableRow
<1> QED BY <1>1, <1>4, <1>5, <1>16 DEF TableFits

LEMMA ListSettledStep ==
  ASSUME PaperInv, NEW c \in Caller, ListSettled(c)
  PROVE  PaperInv'
<1> DEFINE S == {<<k, Table(k)>> : k \in {x \in Category : SettledIn(x) # {}}}
<1>1. /\ Doing(c, "calibrate") /\ work' = [work EXCEPT ![c] = Items(S)]
      /\ UNCHANGED <<quoted, markets, book, calibration, plan, hand, settled, failed>>
  BY DEF ListSettled, paperRows
<1>2. plan[c] # <<>> /\ Head(plan[c]) = "calibrate"
  BY <1>1, Operation
<1>3. ASSUME NEW i \in S PROVE ItemFits(Head(plan[c]), i)
  <2>1. PICK k \in Category : i = <<k, Table(k)>> /\ SettledIn(k) # {}
    OBVIOUS
  <2>2. TableItem(i)
    BY <2>1, TableIs DEF TableItem, PaperInv
  <2> QED BY <1>2, <2>2 DEF ItemFits
<1> HIDE DEF S
<1> QED BY <1>1, <1>2, <1>3, ListingStep
\* A caller that has visited an item.
LEMMA Visited ==
  ASSUME PaperInv, Later, NEW c \in Caller, NEW item \in work[c].left, work[c].kind = "items",
         work' = Without(c, item), plan' = plan
  PROVE  /\ DOMAIN work' = Caller /\ (\A d \in Caller \ {c} : work'[d] = work[d])
         /\ plan[c] # <<>> /\ ItemFits(Head(plan[c]), item) /\ WorkFits(c)'
<1>1. DOMAIN work' = Caller /\ work'[c] = Items(work[c].left \ {item})
      /\ \A d \in Caller \ {c} : work'[d] = work[d]
  BY Holds DEF Without
<1>2. work'[c].kind = "items" /\ work'[c].left = work[c].left \ {item}
  BY <1>1 DEF Items
<1>3. plan[c] # <<>> /\ \A i \in work[c].left : ItemFits(Head(plan[c]), i)
  BY Holds
<1>4. \A i \in work'[c].left : ItemFits(Head(plan[c]), i)'
  <2>1. PICK operation : operation = Head(plan[c])
    OBVIOUS
  <2>2. \A i \in work'[c].left : ItemFits(operation, i)'
    BY <1>2, <1>3, <2>1, ItemStays DEF PaperInv
  <2>3. Head(plan[c])' = operation
    BY <2>1
  <2> QED BY <2>2, <2>3
<1>5. WorkFits(c)'
  BY <1>2, <1>3, <1>4 DEF WorkFits
<1> QED BY <1>1, <1>3, <1>5

LEMMA DecisionsSame ==
  ASSUME quoted' = quoted, NEW m
  PROVE  Resolved(m)' = Resolved(m) /\ Verdict(m)' = Verdict(m)
BY DEF Resolved, Verdict

LEMMA UpsertStep ==
  ASSUME PaperInv, NEW c \in Caller, NEW item \in work[c].left, Upsert(c, item)
  PROVE  PaperInv'
<1>1. /\ Doing(c, "ingest") \/ Doing(c, "ingest closed")
      /\ work[c].kind = "items" /\ work' = Without(c, item)
      /\ markets' = [markets EXCEPT ![item[1]] = Row(item[1], item[2])]
      /\ UNCHANGED <<quoted, book, calibration, plan, hand, settled, failed>>
  BY DEF Upsert, Ingesting, Visiting
<1>2. Later
  BY <1>1, LaterSame
<1>3. /\ DOMAIN work' = Caller /\ \A d \in Caller \ {c} : work'[d] = work[d]
      /\ plan[c] # <<>> /\ ItemFits(Head(plan[c]), item) /\ WorkFits(c)'
  BY <1>1, <1>2, Visited
<1>4. PageItem(item)
  BY <1>1, <1>3, Operation DEF ItemFits
<1>5. Row(item[1], item[2]) \in MarketRow /\ RowFits(item[1], Row(item[1], item[2]))
  BY <1>4, RowIs DEF PageItem
<1>6. PaperAssumption /\ BookTables /\ Requests
  BY DEF PaperInv
<1>7. BookTables'
  <2>1. item[1] \in PaperMarket
    BY <1>4 DEF PageItem
  <2>2. markets \in [PaperMarket -> {Nothing} \cup MarketRow]
    BY <1>6 DEF BookTables
  <2>3. markets' \in [PaperMarket -> {Nothing} \cup MarketRow]
    BY <1>1, <1>5, <2>1, <2>2
  <2>4. ASSUME NEW m \in PaperMarket, markets'[m] \in MarketRow PROVE RowFits(m, markets'[m])
    <3>1. CASE m = item[1]
      BY <1>1, <1>5, <2>2, <3>1
    <3>2. CASE m # item[1]
      BY <1>1, <1>6, <2>2, <2>4, <3>2 DEF BookTables
    <3> QED BY <3>1, <3>2
  <2>5. \A m \in PaperMarket : markets'[m] \in MarketRow => RowFits(m, markets[m])'
    BY <1>1, <2>4, DecisionsSame DEF RowFits
  <2>6. \A m \in PaperMarket : book'[m] \in Position => PositionFits(m, book[m])'
    BY <1>1, <1>6, DecisionsSame DEF PositionFits, BookTables
  <2>7. \A k \in Category : calibration'[k] \in TableRow => TableFits(k, calibration[k])'
    BY <1>1, <1>6 DEF TableFits, SettledIn, BookTables
  <2> QED BY <1>1, <1>6, <2>3, <2>5, <2>6, <2>7 DEF BookTables
<1>8. HandFits(c)'
  BY <1>1, <1>2, Holds, HandStays DEF HandFits
<1>9. Requests'
  BY <1>1, <1>2, <1>3, <1>6, <1>8, Holds, RequestsStep
<1> QED BY <1>6, <1>7, <1>9 DEF PaperInv

LEMMA UpsertCalibrationStep ==
  ASSUME PaperInv, NEW c \in Caller, NEW item \in work[c].left, UpsertCalibration(c, item)
  PROVE  PaperInv'
<1>1. /\ Doing(c, "calibrate") /\ work[c].kind = "items" /\ work' = Without(c, item)
      /\ calibration' = [calibration EXCEPT ![item[1]] = item[2]]
      /\ UNCHANGED <<quoted, markets, book, plan, hand, settled, failed>>
  BY DEF UpsertCalibration, Visiting
<1>2. Later
  BY <1>1, LaterSame
<1>3. /\ DOMAIN work' = Caller /\ \A d \in Caller \ {c} : work'[d] = work[d]
      /\ plan[c] # <<>> /\ ItemFits(Head(plan[c]), item) /\ WorkFits(c)'
  BY <1>1, <1>2, Visited
<1>4. item[1] \in Category /\ item[2] \in TableRow /\ TableFits(item[1], item[2])
  BY <1>1, <1>3, Operation DEF ItemFits, TableItem
<1>5. PaperAssumption /\ BookTables /\ Requests
  BY DEF PaperInv
<1>6. BookTables'
  <2>1. calibration \in [Category -> {Nothing} \cup TableRow]
    BY <1>5 DEF BookTables
  <2>2. calibration' \in [Category -> {Nothing} \cup TableRow]
    BY <1>1, <1>4, <2>1
  <2>3. ASSUME NEW k \in Category, calibration'[k] \in TableRow PROVE TableFits(k, calibration'[k])
    <3>1. CASE k = item[1]
      BY <1>1, <1>4, <2>1, <3>1
    <3>2. CASE k # item[1]
      BY <1>1, <1>5, <2>1, <2>3, <3>2 DEF BookTables
    <3> QED BY <3>1, <3>2
  <2>4. \A k \in Category : calibration'[k] \in TableRow => TableFits(k, calibration[k])'
    BY <1>1, <2>3 DEF TableFits, SettledIn
  <2> QED BY <1>1, <1>5, <2>2, <2>4 DEF BookTables, RowFits, PositionFits, Resolved, Verdict
<1>7. HandFits(c)'
  BY <1>1, <1>2, Holds, HandStays DEF HandFits
<1>8. Requests'
  BY <1>1, <1>2, <1>3, <1>5, <1>7, Holds, RequestsStep
<1> QED BY <1>5, <1>6, <1>8 DEF PaperInv

\* A step that visits an item and takes something in hand, or nothing.
LEMMA TakenUp ==
  ASSUME PaperInv, NEW c \in Caller, NEW item \in work[c].left, work[c].kind = "items",
         work' = Without(c, item), DOMAIN hand' = Caller,
         \A d \in Caller \ {c} : hand'[d] = hand[d], HandFits(c)',
         UNCHANGED <<quoted, markets, book, calibration, plan, settled, failed>>
  PROVE  PaperInv'
<1>1. Later
  BY LaterSame
<1>2. DOMAIN work' = Caller /\ WorkFits(c)' /\ \A d \in Caller \ {c} : work'[d] = work[d]
  BY <1>1, Visited
<1>3. \A d \in Caller \ {c} : plan'[d] = plan[d] /\ work'[d] = work[d] /\ hand'[d] = hand[d]
  BY <1>2
<1>4. DOMAIN plan' = Caller /\ DOMAIN settled' = Caller /\ failed' \in 0 .. MaxFailed
  BY Holds
<1> QED BY <1>2, <1>3, <1>4, OwnStep

LEMMA LookStep ==
  ASSUME PaperInv, NEW c \in Caller, NEW item \in work[c].left, Look(c, item)
  PROVE  PaperInv'
<1> DEFINE m == item[1]
           found == book[item[1]]
<1>1. /\ Doing(c, "cycle") /\ work[c].kind = "items" /\ hand[c] = Nothing /\ work' = Without(c, item)
      /\ UNCHANGED <<quoted, markets, book, calibration, plan, settled, failed>>
  BY DEF Look, TurnTo, Visiting, paperRows
<1>2. plan[c] # <<>> /\ Head(plan[c]) = "cycle" /\ ItemFits(Head(plan[c]), item)
  BY <1>1, Operation, Holds
<1>3. m \in PaperMarket /\ item[2] \in MarketRow
  BY <1>2 DEF ItemFits, RowItem
<1>4. PaperAssumption /\ BookTables
  BY DEF PaperInv
<1>5. CASE \E d \in Drift, v \in Conviction, s \in SignalAnswers :
             hand' = [hand EXCEPT ![c] =
               [kind |-> "open", market |-> m, found |-> found, row |-> Decision(m, item[2], d, v, s)]]
  <2>1. PICK d \in Drift, v \in Conviction, s \in SignalAnswers :
          hand' = [hand EXCEPT ![c] =
            [kind |-> "open", market |-> m, found |-> found, row |-> Decision(m, item[2], d, v, s)]]
    BY <1>5
  <2>2. calibration[CategoryOf[m]] \in {Nothing} \cup TableRow
    BY <1>3, <1>4 DEF BookTables, PaperAssumption
  <2>3. Decision(m, item[2], d, v, s) \in Position /\ Decision(m, item[2], d, v, s).status = "OPEN"
    BY <1>3, <1>4, <2>2, DecisionIs
  <2>4. DOMAIN hand' = Caller /\ \A e \in Caller \ {c} : hand'[e] = hand[e]
    BY <2>1, Holds
  <2>5. hand'[c] = [kind |-> "open", market |-> m, found |-> found, row |-> Decision(m, item[2], d, v, s)]
    BY <2>1, Holds
  <2>6. HandFits(c)'
    BY <1>1, <1>2, <1>3, <2>3, <2>5 DEF HandFits, OpenHand
  <2> QED BY <1>1, <2>4, <2>6, TakenUp
<1>6. CASE /\ Markable(found)
           /\ \E price : /\ price = PriceFor(found.side, item[2])
                         /\ hand' = [hand EXCEPT ![c] = [kind |-> "mark", market |-> m, found |-> found,
                              current |-> price, profit |-> Profit(found, price)]]
  <2>1. PICK price : /\ price = PriceFor(found.side, item[2])
                     /\ hand' = [hand EXCEPT ![c] = [kind |-> "mark", market |-> m, found |-> found,
                          current |-> price, profit |-> Profit(found, price)]]
    BY <1>6
  <2>2. found.status = "OPEN"
    BY <1>6 DEF Markable
  <2>3. found \in Position
    BY <1>3, <1>4, <2>2, KindsDiffer DEF BookTables
  <2>4. price \in BpsRange
    BY <1>3, <2>1 DEF PriceFor, MarketRow
  <2>5. Profit(found, price) \in Int
    <3>1. MinStake \in Int /\ MaxStake \in Int
      BY <1>4 DEF PaperAssumption
    <3>2. found.stake \in Int /\ found.entry \in EntryRange
      BY <2>3, <3>1, PositionParts
    <3>3. price \in Int
      BY <2>4, BpsRangeIs
    <3> HIDE DEF found
    <3> QED BY <3>2, <3>3, ProfitInt
  <2>6. DOMAIN hand' = Caller /\ \A e \in Caller \ {c} : hand'[e] = hand[e]
    BY <2>1, Holds
  <2>7. hand'[c] = [kind |-> "mark", market |-> m, found |-> found, current |-> price, profit |-> Profit(found, price)]
    BY <2>1, Holds
  <2>8. HandFits(c)'
    BY <1>1, <1>2, <1>3, <2>2, <2>3, <2>4, <2>5, <2>7 DEF HandFits, MarkHand
  <2> QED BY <1>1, <2>6, <2>8, TakenUp
<1>7. CASE UNCHANGED hand
  <2>1. HandFits(c)'
    BY <1>1, <1>7 DEF HandFits
  <2> QED BY <1>1, <1>7, <2>1, Holds, TakenUp
<1> QED BY <1>5, <1>6, <1>7 DEF Look

LEMMA JudgeStep ==
  ASSUME PaperInv, NEW c \in Caller, NEW item \in work[c].left, Judge(c, item)
  PROVE  PaperInv'
<1>1. PICK row, exit : row = markets[item[1]] /\ exit = IF (item[2].side = "YES") = row.final THEN 10000 ELSE 0
  OBVIOUS
<1>2. /\ Doing(c, "settle") /\ work[c].kind = "items" /\ hand[c] = Nothing /\ work' = Without(c, item)
      /\ hand' = IF row = Nothing \/ ~row.resolved THEN hand
                 ELSE [hand EXCEPT ![c] = [kind |-> "settle", market |-> item[1], found |-> item[2],
                         final |-> row.final, exit |-> exit, profit |-> Profit(item[2], exit)]]
      /\ UNCHANGED <<quoted, markets, book, calibration, plan, settled, failed>>
  BY <1>1 DEF Judge, Visiting, paperRows
<1>3. plan[c] # <<>> /\ Head(plan[c]) = "settle" /\ ItemFits(Head(plan[c]), item)
  BY <1>2, Operation, Holds
<1>4. /\ item[1] \in PaperMarket /\ item[2] \in Position /\ book[item[1]] \in Position
      /\ SameTerms(item[2], book[item[1]])
  BY <1>3 DEF ItemFits, OpenItem
<1>5. CASE row = Nothing \/ ~row.resolved
  <2>1. hand' = hand
    BY <1>2, <1>5
  <2>2. HandFits(c)'
    BY <1>2, <2>1 DEF HandFits
  <2> QED BY <1>2, <2>1, <2>2, Holds, TakenUp
<1>6. CASE row # Nothing /\ row.resolved
  <2>1. row \in MarketRow /\ RowFits(item[1], row)
    BY <1>1, <1>4, <1>6 DEF PaperInv, BookTables
  <2>2. Resolved(item[1]) /\ row.final = Verdict(item[1]) /\ row.final \in BOOLEAN
    BY <1>6, <2>1 DEF RowFits, MarketRow
  <2>3. exit = Exit(book[item[1]].side, Verdict(item[1]))
    BY <1>1, <1>4, <2>2 DEF Exit, SameTerms
  <2>4. Profit(item[2], exit) = Profit(book[item[1]], exit)
    BY <1>4, ProfitSame DEF SameTerms
  <2>5. Profit(item[2], exit) \in Int
    <3>1. MinStake \in Int /\ MaxStake \in Int
      BY DEF PaperInv, PaperAssumption
    <3>2. item[2].stake \in Int /\ item[2].entry \in EntryRange
      BY <1>4, <3>1, PositionParts
    <3>3. exit \in Int
      BY <1>1
    <3> QED BY <3>2, <3>3, ProfitInt
  <2>6. hand' = [hand EXCEPT ![c] = [kind |-> "settle", market |-> item[1], found |-> item[2],
                   final |-> row.final, exit |-> exit, profit |-> Profit(item[2], exit)]]
    BY <1>2, <1>6
  <2>7. DOMAIN hand' = Caller /\ \A e \in Caller \ {c} : hand'[e] = hand[e]
    BY <2>6, Holds
  <2>8. hand'[c] = [kind |-> "settle", market |-> item[1], found |-> item[2],
                    final |-> row.final, exit |-> exit, profit |-> Profit(item[2], exit)]
    BY <2>6, Holds
  <2>9. Resolved(item[1])' /\ Verdict(item[1])' = Verdict(item[1]) /\ book' = book
    BY <1>2, <2>2 DEF Resolved, Verdict
  <2>10. SettleHand(hand[c])'
    BY <1>4, <2>2, <2>3, <2>4, <2>5, <2>8, <2>9 DEF SettleHand
  <2>11. HandFits(c)'
    BY <1>2, <1>3, <2>8, <2>10 DEF HandFits
  <2> QED BY <1>2, <2>7, <2>11, TakenUp
<1> QED BY <1>5, <1>6
\* What a step leaves of the tables when it writes one position.
LEMMA BookStep ==
  ASSUME PaperInv, NEW c \in Caller, NEW m \in PaperMarket, NEW p \in Position,
         book' = [book EXCEPT ![m] = p], PositionFits(m, p),
         book[m] \in Position =>
           SameTerms(p, book[m]) /\ (book[m].status = "SETTLED" => p.status = "SETTLED"),
         hand' = [hand EXCEPT ![c] = Nothing],
         UNCHANGED <<quoted, markets, calibration, plan, work, failed>>, DOMAIN settled' = Caller
  PROVE  PaperInv' /\ Later
<1>1. PaperAssumption /\ BookTables /\ Requests
  BY DEF PaperInv
<1>2. book \in [PaperMarket -> {Nothing} \cup Position]
  BY <1>1 DEF BookTables
<1>3. book' \in [PaperMarket -> {Nothing} \cup Position]
  BY <1>2
<1>4. book'[m] = p /\ \A x \in PaperMarket \ {m} : book'[x] = book[x]
  BY <1>2
<1>5. Later
  <2>1. \A x \in PaperMarket : Resolved(x) => SameVerdict(quoted'[x], quoted[x])
    BY DEF SameVerdict
  <2>2. ASSUME NEW x \in PaperMarket, book[x] \in Position
        PROVE  /\ book'[x] \in Position /\ SameTerms(book'[x], book[x])
               /\ book[x].status = "SETTLED" => book'[x].status = "SETTLED"
    <3>1. CASE x = m
      BY <1>4, <2>2, <3>1
    <3>2. CASE x # m
      BY <1>4, <2>2, <3>2 DEF SameTerms
    <3> QED BY <3>1, <3>2
  <2> QED BY <2>1, <2>2 DEF Later
<1>6. BookTables'
  <2>1. \A x \in PaperMarket : markets'[x] \in MarketRow => RowFits(x, markets[x])'
    BY <1>1, DecisionsSame DEF RowFits, BookTables
  <2>2. ASSUME NEW x \in PaperMarket, book'[x] \in Position PROVE PositionFits(x, book'[x])
    <3>1. CASE x = m
      BY <1>4, <3>1
    <3>2. CASE x # m
      BY <1>1, <1>4, <2>2, <3>2 DEF BookTables
    <3> QED BY <3>1, <3>2
  <2>3. \A x \in PaperMarket : book'[x] \in Position => PositionFits(x, book[x])'
    BY <2>2, DecisionsSame DEF PositionFits
  <2>4. \A k \in Category : calibration'[k] \in TableRow => TableFits(k, calibration[k])'
    <3>1. ASSUME NEW k \in Category, calibration[k] \in TableRow PROVE TableFits(k, calibration[k])'
      <4>1. PICK t : t = calibration[k]
        OBVIOUS
      <4>2. TableFits(k, t)
        BY <1>1, <3>1, <4>1 DEF BookTables
      <4>3. TableFits(k, t)'
        BY <1>1, <1>5, <4>2, SettledInGrows
      <4>4. calibration'[k] = t
        BY <4>1
      <4> QED BY <4>3, <4>4 DEF TableFits
    <3> QED BY <3>1
  <2> QED BY <1>1, <1>3, <2>1, <2>3, <2>4 DEF BookTables
<1>7. WorkFits(c)'
  BY <1>5, <1>1, Holds, ItemStays DEF WorkFits
<1>8. DOMAIN hand' = Caller /\ hand'[c] = Nothing /\ \A d \in Caller \ {c} : hand'[d] = hand[d]
  BY Holds
<1>9. HandFits(c)'
  BY <1>8 DEF HandFits
<1>10. Requests'
  BY <1>1, <1>5, <1>7, <1>8, <1>9, Holds, RequestsStep
<1> QED BY <1>1, <1>5, <1>6, <1>10 DEF PaperInv

LEMMA InHand ==
  ASSUME PaperInv, NEW c \in Caller
  PROVE  /\ hand[c].kind = "open" => OpenHand(hand[c])
         /\ hand[c].kind = "mark" => MarkHand(hand[c])
         /\ hand[c].kind = "settle" => SettleHand(hand[c])
<1>1. Nothing.kind \notin {"open", "mark", "settle"}
  BY DEF Nothing
<1> QED BY <1>1, Holds DEF HandFits

LEMMA OpenStep ==
  ASSUME PaperInv, NEW c \in Caller, Open(c)
  PROVE  PaperInv' /\ Later
<1>1. /\ hand[c].kind = "open" /\ book[hand[c].market] = Nothing
      /\ book' = [book EXCEPT ![hand[c].market] = hand[c].row] /\ hand' = [hand EXCEPT ![c] = Nothing]
      /\ UNCHANGED <<quoted, markets, calibration, plan, work, settled, failed>>
  BY DEF Open
<1>2. OpenHand(hand[c])
  BY <1>1, InHand
<1>3. PICK m, p : m = hand[c].market /\ p = hand[c].row
  OBVIOUS
<1>4. m \in PaperMarket /\ p \in Position /\ p.status = "OPEN" /\ book[m] \notin Position
  BY <1>1, <1>2, <1>3, KindsDiffer DEF OpenHand
<1>5. PositionFits(m, p)
  BY <1>4 DEF PositionFits
<1>6. book' = [book EXCEPT ![m] = p] /\ DOMAIN settled' = Caller
  BY <1>1, <1>3, Holds
<1> QED BY <1>1, <1>4, <1>5, <1>6, BookStep

Marked(p, x, y) == [p EXCEPT !.current = x, !.profit = y]
SettledAt(p, f, e, y) ==
  [p EXCEPT !.status = "SETTLED", !.final = f, !.exit = e, !.current = e, !.profit = y]

LEMMA MarkedIs ==
  ASSUME NEW p \in Position, NEW x \in BpsRange, NEW y \in Int
  PROVE  /\ Marked(p, x, y) \in Position /\ SameTerms(Marked(p, x, y), p)
         /\ Marked(p, x, y).status = p.status /\ Marked(p, x, y).final = p.final
         /\ Marked(p, x, y).exit = p.exit
<1>0. PICK q : q = [p EXCEPT !.current = x, !.profit = y]
  OBVIOUS
<1> DEFINE K  == {"prediction"}
           St == {"OPEN", "SETTLED"}
           Sd == {"YES", "NO"}
           Mo == BpsRange
           Sk == MinStake .. MaxStake
           En == EntryRange
           Cu == BpsRange
           Pr == Int
           Fi == BOOLEAN
           Ex == {0, 10000}
<1>2. Position = [kind : K, status : St, side : Sd, model : Mo, stake : Sk, entry : En, current : Cu,
                    profit : Pr, final : Fi, exit : Ex]
  BY DEF Position
<1>3. x \in Cu /\ y \in Pr
  OBVIOUS
<1> HIDE DEF K, St, Sd, Mo, Sk, En, Cu, Pr, Fi, Ex
<1>4. q \in Position /\ SameTerms(q, p) /\ q.status = p.status /\ q.final = p.final /\ q.exit = p.exit
  BY <1>0, <1>2, <1>3 DEF SameTerms
<1> QED BY <1>0, <1>4 DEF Marked

LEMMA SettledIs ==
  ASSUME NEW p, NEW f, NEW e, NEW y
  PROVE  p \in Position /\ f \in BOOLEAN /\ e \in {0, 10000} /\ y \in Int =>
           /\ SettledAt(p, f, e, y) \in Position /\ SameTerms(SettledAt(p, f, e, y), p)
           /\ SettledAt(p, f, e, y).status = "SETTLED" /\ SettledAt(p, f, e, y).final = f
           /\ SettledAt(p, f, e, y).exit = e /\ SettledAt(p, f, e, y).profit = y
<1>8. SUFFICES ASSUME p \in Position, f \in BOOLEAN, e \in {0, 10000}, y \in Int
               PROVE  /\ SettledAt(p, f, e, y) \in Position /\ SameTerms(SettledAt(p, f, e, y), p)
                      /\ SettledAt(p, f, e, y).status = "SETTLED" /\ SettledAt(p, f, e, y).final = f
                      /\ SettledAt(p, f, e, y).exit = e /\ SettledAt(p, f, e, y).profit = y
  OBVIOUS
<1>1. PICK done : done = "SETTLED"
  OBVIOUS
<1>0. PICK q : q = [p EXCEPT !.status = done, !.final = f, !.exit = e, !.current = e, !.profit = y]
  OBVIOUS
<1> DEFINE K  == {"prediction"}
           St == {"OPEN", "SETTLED"}
           Sd == {"YES", "NO"}
           Mo == BpsRange
           Sk == MinStake .. MaxStake
           En == EntryRange
           Cu == BpsRange
           Pr == Int
           Fi == BOOLEAN
           Ex == {0, 10000}
<1>2. Position = [kind : K, status : St, side : Sd, model : Mo, stake : Sk, entry : En, current : Cu,
                    profit : Pr, final : Fi, exit : Ex]
  BY DEF Position
<1>3. e \in Cu /\ y \in Pr /\ f \in Fi /\ e \in Ex /\ done \in St
  BY BpsRangeIs, <1>1, <1>8
<1> HIDE DEF K, St, Sd, Mo, Sk, En, Cu, Pr, Fi, Ex
<1>4. p \in [kind : K, status : St, side : Sd, model : Mo, stake : Sk, entry : En, current : Cu,
            profit : Pr, final : Fi, exit : Ex]
  BY <1>2, <1>8
<1>5. q \in [kind : K, status : St, side : Sd, model : Mo, stake : Sk, entry : En, current : Cu,
            profit : Pr, final : Fi, exit : Ex]
  BY <1>0, <1>3, <1>4
<1>6. q \in Position
  BY <1>2, <1>5
<1>7. SameTerms(q, p) /\ q.status = done /\ q.final = f /\ q.exit = e /\ q.profit = y
  BY <1>0, <1>2 DEF SameTerms
<1> QED BY <1>0, <1>1, <1>6, <1>7 DEF SettledAt

\* A mark changes the current price and the profit and nothing else.
LEMMA MarkStep ==
  ASSUME PaperInv, NEW c \in Caller, Mark(c)
  PROVE  /\ PaperInv' /\ Later
         /\ \E p, q : /\ book[hand[c].market] = p /\ book' = [book EXCEPT ![hand[c].market] = q]
                      /\ q.status = p.status /\ q.final = p.final /\ q.exit = p.exit
<1>1. PICK m, p, q : /\ m = hand[c].market /\ p = book[m]
                     /\ q = Marked(p, hand[c].current, hand[c].profit)
  OBVIOUS
<1>2. /\ hand[c].kind = "mark" /\ book' = [book EXCEPT ![m] = q]
      /\ hand' = [hand EXCEPT ![c] = Nothing]
      /\ UNCHANGED <<quoted, markets, calibration, plan, work, settled, failed>>
  BY <1>1 DEF Mark, Marked
<1>3. MarkHand(hand[c])
  BY <1>2, InHand
<1>4. m \in PaperMarket /\ p \in Position /\ hand[c].current \in BpsRange /\ hand[c].profit \in Int
  BY <1>1, <1>3 DEF MarkHand
<1>5. q \in Position /\ SameTerms(q, p) /\ q.status = p.status /\ q.final = p.final /\ q.exit = p.exit
  BY <1>1, <1>4, MarkedIs
<1>6. PositionFits(m, p)
  BY <1>1, <1>4 DEF PaperInv, BookTables
<1>7. PositionFits(m, q)
  BY <1>5, <1>6 DEF PositionFits, SameTerms
<1>8. DOMAIN settled' = Caller
  BY <1>2, Holds
<1> QED BY <1>1, <1>2, <1>4, <1>5, <1>7, <1>8, BookStep

LEMMA SettlePredictionStep ==
  ASSUME PaperInv, NEW c \in Caller, SettlePrediction(c)
  PROVE  /\ PaperInv' /\ Later
         /\ hand[c].market \in PaperMarket
         /\ \E p, q : /\ book[hand[c].market] = p /\ book' = [book EXCEPT ![hand[c].market] = q]
                      /\ PositionFits(hand[c].market, q) /\ q.status = "SETTLED" /\ SameTerms(q, p)
                      /\ q.profit = Profit(p, q.exit)
<1>1. PICK h, m, p, q : /\ h = hand[c] /\ m = h.market /\ p = book[m]
                        /\ q = SettledAt(p, h.final, h.exit, h.profit)
  OBVIOUS
<1>2. /\ h.kind = "settle" /\ book' = [book EXCEPT ![m] = q]
      /\ hand' = [hand EXCEPT ![c] = Nothing] /\ settled' = [settled EXCEPT ![c] = TRUE]
      /\ UNCHANGED <<quoted, markets, calibration, plan, work, failed>>
  BY <1>1 DEF SettlePrediction, SettledAt
<1>3. SettleHand(h)
  BY <1>1, <1>2, InHand
<1>4. /\ m \in PaperMarket /\ p \in Position /\ h.final \in BOOLEAN /\ h.profit \in Int
      /\ Resolved(m) /\ h.final = Verdict(m) /\ h.exit = Exit(p.side, Verdict(m))
      /\ h.profit = Profit(p, h.exit)
  BY <1>1, <1>3 DEF SettleHand
<1>5. h.exit \in {0, 10000}
  BY <1>4 DEF Exit
<1>6. /\ q \in Position /\ SameTerms(q, p) /\ q.status = "SETTLED" /\ q.final = h.final /\ q.exit = h.exit
      /\ q.profit = h.profit
  <2>1. PICK f, e, y : f = h.final /\ e = h.exit /\ y = h.profit
    OBVIOUS
  <2>2. f \in BOOLEAN /\ e \in {0, 10000} /\ y \in Int /\ q = SettledAt(p, f, e, y)
    BY <1>1, <1>4, <1>5, <2>1
  <2>3. /\ SettledAt(p, f, e, y) \in Position /\ SameTerms(SettledAt(p, f, e, y), p)
        /\ SettledAt(p, f, e, y).status = "SETTLED" /\ SettledAt(p, f, e, y).final = f
        /\ SettledAt(p, f, e, y).exit = e /\ SettledAt(p, f, e, y).profit = y
    BY <1>4, <2>1, <2>2, SettledIs
  <2> QED BY <2>1, <2>2, <2>3
<1>7. PositionFits(m, q)
  BY <1>4, <1>6 DEF PositionFits, SameTerms
<1>8. DOMAIN settled' = Caller
  BY <1>2, Holds
<1>9. PaperInv' /\ Later
  BY <1>1, <1>2, <1>4, <1>6, <1>7, <1>8, BookStep
<1>10. q.profit = Profit(p, q.exit)
  BY <1>4, <1>6
<1> QED BY <1>1, <1>2, <1>4, <1>6, <1>7, <1>9, <1>10
-----------------------------------------------------------------------------
(* PaperTrading: the theorems *)

\* Where a step of a caller can lead: the invariant holds, and the book keeps
\* what it held, or has one position marked or settled.
BookGoesOn ==
  \A m \in PaperMarket : book[m] \in Position =>
    /\ book'[m] \in Position /\ SameTerms(book'[m], book[m])
    /\ book[m].status = "SETTLED" =>
        /\ book'[m].status = "SETTLED" /\ book'[m].final = book[m].final /\ book'[m].exit = book[m].exit
        /\ \/ book'[m].profit = book[m].profit
           \/ book'[m].profit = Profit(book[m], book[m].exit)
           \/ \E c \in Caller : /\ hand[c].kind = "mark" /\ hand[c].market = m
                                /\ hand[c].found.status = "OPEN"

LEMMA BookSame ==
  ASSUME book' = book
  PROVE  BookGoesOn
BY DEF BookGoesOn, SameTerms

LEMMA OpenGoesOn ==
  ASSUME PaperInv, NEW c \in Caller, Open(c)
  PROVE  BookGoesOn
<1>1. OpenHand(hand[c]) /\ book[hand[c].market] = Nothing /\ book' = [book EXCEPT ![hand[c].market] = hand[c].row]
  BY InHand DEF Open
<1>2. PICK m : m = hand[c].market
  OBVIOUS
<1>3. ASSUME NEW x \in PaperMarket, book[x] \in Position PROVE book'[x] = book[x]
  <2>1. x # m
    BY <1>1, <1>2, <1>3, KindsDiffer
  <2> QED BY <1>1, <1>2, <2>1 DEF PaperInv, BookTables
<1> QED BY <1>3 DEF BookGoesOn, SameTerms

LEMMA MarkGoesOn ==
  ASSUME PaperInv, NEW c \in Caller, Mark(c)
  PROVE  BookGoesOn
<1>1. Later
  BY MarkStep
<1>2. PICK m, p, q : /\ m = hand[c].market /\ p = book[m] /\ book' = [book EXCEPT ![m] = q]
                     /\ q.status = p.status /\ q.final = p.final /\ q.exit = p.exit
  BY MarkStep
<1>3. hand[c].kind = "mark" /\ hand[c].found.status = "OPEN"
  BY InHand DEF Mark, MarkHand
<1>4. DOMAIN book = PaperMarket
  BY DEF PaperInv, BookTables
<1>5. ASSUME NEW x \in PaperMarket, book[x] \in Position
      PROVE  book'[x] \in Position /\ SameTerms(book'[x], book[x])
  BY <1>1, <1>5 DEF Later
<1>6. ASSUME NEW x \in PaperMarket, book[x].status = "SETTLED"
      PROVE  /\ book'[x].status = "SETTLED" /\ book'[x].final = book[x].final /\ book'[x].exit = book[x].exit
             /\ book'[x].profit = book[x].profit \/ x = m
  BY <1>2, <1>4, <1>6
<1> QED BY <1>2, <1>3, <1>5, <1>6 DEF BookGoesOn

LEMMA SettleGoesOn ==
  ASSUME PaperInv, NEW c \in Caller, SettlePrediction(c)
  PROVE  BookGoesOn
<1>1. Later /\ hand[c].market \in PaperMarket
  BY SettlePredictionStep
<1>2. PICK m, p, q : /\ m = hand[c].market /\ p = book[m] /\ book' = [book EXCEPT ![m] = q]
                     /\ PositionFits(m, q) /\ q.status = "SETTLED" /\ SameTerms(q, p)
                     /\ q.profit = Profit(p, q.exit)
  BY SettlePredictionStep
<1>3. DOMAIN book = PaperMarket
  BY DEF PaperInv, BookTables
<1>4. ASSUME NEW x \in PaperMarket, book[x] \in Position
      PROVE  book'[x] \in Position /\ SameTerms(book'[x], book[x])
  BY <1>1, <1>4 DEF Later
<1>5. ASSUME NEW x \in PaperMarket, book[x] \in Position, book[x].status = "SETTLED"
      PROVE  /\ book'[x].status = "SETTLED" /\ book'[x].final = book[x].final /\ book'[x].exit = book[x].exit
             /\ book'[x].profit = book[x].profit \/ book'[x].profit = Profit(book[x], book[x].exit)
  <2>1. CASE x # m
    BY <1>2, <1>3, <1>5, <2>1
  <2>2. CASE x = m
    <3>1. PositionFits(m, p)
      BY <1>2, <1>5, <2>2 DEF PaperInv, BookTables
    <3>2. p.status = "SETTLED" /\ p.side = q.side
      BY <1>2, <1>5, <2>2 DEF SameTerms
    <3>3. p.final = q.final /\ p.exit = q.exit
      BY <1>2, <3>1, <3>2 DEF PositionFits
    <3>4. book'[x] = q
      BY <1>2, <1>3, <2>2
    <3> QED BY <1>2, <2>2, <3>2, <3>3, <3>4
  <2> QED BY <2>1, <2>2
<1> QED BY <1>4, <1>5 DEF BookGoesOn

LEMMA WorkStep ==
  ASSUME PaperInv, NEW c \in Caller, Work(c)
  PROVE  PaperInv' /\ BookGoesOn
<1>1. CASE Finish(c) \/ Page(c) \/ ListOpen(c) \/ ListSettled(c) \/ Refused(c)
  <2>1. PaperInv'
    BY <1>1, FinishStep, PageStep, ListOpenStep, ListSettledStep, RefusedStep
  <2>2. book' = book
    BY <1>1 DEF Finish, Page, ListOpen, ListSettled, Refused, Abort, paperRows
  <2> QED BY <2>1, <2>2, BookSame
<1>2. CASE Open(c)
  BY <1>2, OpenStep, OpenGoesOn
<1>3. CASE Mark(c)
  <2>1. PaperInv'
    BY <1>3, MarkStep
  <2> QED BY <1>3, <2>1, MarkGoesOn
<1>4. CASE SettlePrediction(c)
  <2>1. PaperInv'
    BY <1>4, SettlePredictionStep
  <2> QED BY <1>4, <2>1, SettleGoesOn
<1>5. CASE \E seen \in SUBSET PaperMarket : List(c, seen)
  <2>1. PICK seen \in SUBSET PaperMarket : List(c, seen)
    BY <1>5
  <2>2. PaperInv'
    BY <2>1, ListStep
  <2>3. book' = book
    BY <2>1 DEF List, paperRows
  <2> QED BY <2>2, <2>3, BookSame
<1>6. CASE \E i \in Unvisited(c) : Upsert(c, i) \/ Look(c, i) \/ Judge(c, i) \/ UpsertCalibration(c, i)
  <2>1. PICK i \in Unvisited(c) : Upsert(c, i) \/ Look(c, i) \/ Judge(c, i) \/ UpsertCalibration(c, i)
    BY <1>6
  <2>2. i \in work[c].left
    BY DEF Unvisited
  <2>3. PaperInv'
    BY <2>1, <2>2, UpsertStep, LookStep, JudgeStep, UpsertCalibrationStep
  <2>4. book' = book
    <3>1. Look(c, i) => book' = book
      BY DEF Look, paperRows
    <3>2. Judge(c, i) => book' = book
      BY DEF Judge, paperRows
    <3>3. Upsert(c, i) \/ UpsertCalibration(c, i) => book' = book
      BY DEF Upsert, UpsertCalibration
    <3> QED BY <2>1, <3>1, <3>2, <3>3
  <2> QED BY <2>3, <2>4, BookSame
<1> QED BY <1>1, <1>2, <1>3, <1>4, <1>5, <1>6 DEF Work, GoOn

LEMMA PaperStep ==
  ASSUME PaperInv, [PaperNext]_paperVars
  PROVE  PaperInv' /\ BookGoesOn
<1>1. ASSUME NEW c \in Caller, NEW o, Ask(c, o) PROVE PaperInv' /\ BookGoesOn
  <2>1. book' = book
    BY <1>1 DEF Ask, paperRows
  <2> QED BY <1>1, <2>1, AskStep, BookSame
<1>2. CASE WorkerStep
  <2>1. PaperWorker \in Caller
    BY DEF Caller
  <2> QED BY <1>1, <1>2, <2>1, WorkStep DEF WorkerStep
<1>3. CASE \E c \in Client : Work(c) \/ \E o \in Operations : Ask(c, o)
  <2>1. PICK c \in Client : Work(c) \/ \E o \in Operations : Ask(c, o)
    BY <1>3
  <2>2. c \in Caller
    BY DEF Caller
  <2> QED BY <1>1, <2>1, <2>2, WorkStep
<1>4. CASE \E c \in Caller : FailRequest(c)
  <2>1. PICK c \in Caller : FailRequest(c)
    BY <1>4
  <2>2. book' = book
    BY <2>1 DEF FailRequest, Abort, paperRows
  <2> QED BY <2>1, <2>2, FailStep, BookSame
<1>5. CASE \E m \in PaperMarket : \E q \in Says[m] : Trade(m, q)
  <2>3. PICK m \in PaperMarket : \E q \in Says[m] : Trade(m, q)
    BY <1>5
  <2>1. PICK q \in Says[m] : Trade(m, q)
    BY <2>3
  <2>2. book' = book
    BY <2>1 DEF Trade, paperRows
  <2> QED BY <2>1, <2>2, TradeStep, BookSame
<1>6. CASE UNCHANGED paperVars
  <2>1. UNCHANGED <<quoted, markets, book, calibration, plan, work, hand, settled, failed>>
    BY <1>6 DEF paperVars, paperRows, local
  <2>2. PaperAssumption /\ BookTables /\ Requests
    BY DEF PaperInv
  <2>3. BookTables'
    <3>1. failed' \in 0 .. MaxFailed
      BY <2>1, <2>2 DEF BookTables
    <3> QED BY <2>1, <2>2, <3>1, TablesSame
  <2>4. Requests'
    <3>1. Later
      BY <2>1, LaterSame
    <3>2. \A c \in Caller : WorkFits(c)' /\ HandFits(c)'
      BY <2>1, <2>2, <3>1, OthersFit
    <3>3. Caller' = Caller
      BY DEF Caller
    <3> QED BY <2>1, <2>2, <3>2, <3>3 DEF Requests
  <2> QED BY <2>1, <2>2, <2>3, <2>4, BookSame DEF PaperInv
<1> QED BY <1>2, <1>3, <1>4, <1>5, <1>6 DEF PaperNext

LEMMA PaperInvAlways == PaperSpec => []PaperInv
<1>1. PaperInv /\ [PaperNext]_paperVars => PaperInv'
  BY PaperStep
<1> QED
  BY <1>1, PaperInitHolds, PTL DEF PaperSpec

\* A caller that does nothing has asked for nothing of a page.
Offsets ==
  /\ DOMAIN plan = Caller /\ DOMAIN offset = Caller
  /\ \A c \in Caller : plan[c] = <<>> => offset[c] = 0

LEMMA OffsetsSame ==
  ASSUME Offsets, UNCHANGED <<plan, offset>>
  PROVE  Offsets'
BY DEF Offsets, Caller

\* One caller's offset, or its plan, changes.
LEMMA OffsetsOwn ==
  ASSUME Offsets, NEW c \in Caller, NEW p, NEW o, p = <<>> => o = 0,
         (plan' = plan /\ plan[c] = p) \/ plan' = [plan EXCEPT ![c] = p],
         (offset' = offset /\ offset[c] = o) \/ offset' = [offset EXCEPT ![c] = o]
  PROVE  Offsets'
BY DEF Offsets, Caller

LEMMA OffsetsWork ==
  ASSUME Offsets, NEW c \in Caller, Work(c)
  PROVE  Offsets'
<1>1. CASE Finish(c)
  <2>1. CASE UNCHANGED <<plan, offset>>
    BY <2>1, OffsetsSame
  <2>2. CASE /\ \E p : plan' = [plan EXCEPT ![c] = p]
             /\ offset' = [offset EXCEPT ![c] = 0]
    BY <2>2, OffsetsOwn
  <2> QED BY <1>1, <2>1, <2>2 DEF Finish
<1>2. CASE Page(c)
  <2>1. plan[c] # <<>> /\ plan' = plan
    BY <1>2 DEF Page, Ingesting, Doing
  <2>2. PICK o : offset' = [offset EXCEPT ![c] = o]
    BY <1>2 DEF Page
  <2> QED BY <2>1, <2>2, OffsetsOwn
<1>3. CASE Refused(c)
  BY <1>3, OffsetsOwn DEF Refused, Abort
<1>4. CASE ListOpen(c) \/ ListSettled(c) \/ Open(c) \/ Mark(c) \/ SettlePrediction(c)
  BY <1>4, OffsetsSame DEF ListOpen, ListSettled, Open, Mark, SettlePrediction
<1>5. ASSUME NEW seen, List(c, seen) PROVE Offsets'
  BY <1>5, OffsetsSame DEF List
<1>6. ASSUME NEW i, Upsert(c, i) \/ Judge(c, i) \/ UpsertCalibration(c, i) \/ Look(c, i) PROVE Offsets'
  <2>1. UNCHANGED <<plan, offset>>
    BY <1>6 DEF Upsert, Judge, UpsertCalibration, Look
  <2> QED BY <2>1, OffsetsSame
<1> QED BY <1>1, <1>2, <1>3, <1>4, <1>5, <1>6 DEF Work, GoOn

LEMMA OffsetsStep ==
  ASSUME Offsets, [PaperNext]_paperVars
  PROVE  Offsets'
<1>1. ASSUME NEW c \in Caller, NEW o, Ask(c, o) PROVE Offsets'
  <2>1. plan[c] = <<>> /\ offset[c] = 0 /\ plan' = [plan EXCEPT ![c] = o] /\ offset' = offset
    BY <1>1 DEF Ask, Offsets
  <2> QED BY <2>1, OffsetsOwn
<1>2. PaperWorker \in Caller /\ Client \subseteq Caller
  BY DEF Caller
<1>3. ASSUME NEW c \in Caller, FailRequest(c) PROVE Offsets'
  BY <1>3, OffsetsOwn DEF FailRequest, Abort
<1>4. ASSUME NEW m, NEW q, Trade(m, q) PROVE Offsets'
  BY <1>4, OffsetsSame DEF Trade, local
<1>5. CASE UNCHANGED paperVars
  BY <1>5, OffsetsSame DEF paperVars, local
<1> QED BY <1>1, <1>2, <1>3, <1>4, <1>5, OffsetsWork DEF PaperNext, WorkerStep

LEMMA OffsetsAlways == PaperSpec => []Offsets
<1>1. PaperInit => Offsets
  BY DEF PaperInit, Offsets
<1>2. Offsets /\ [PaperNext]_paperVars => Offsets'
  BY OffsetsStep
<1> QED BY <1>1, <1>2, PTL DEF PaperSpec

\* The rows have their types: every stake is within its limits and every entry
\* price can be divided by.
LEMMA PaperTypes == PaperInv /\ Offsets => PaperTypeOK
<1> SUFFICES ASSUME PaperInv, Offsets PROVE PaperTypeOK
  OBVIOUS
<1>1. \A m \in PaperMarket : book[m] = Nothing \/ book[m] \in Position
  BY DEF PaperInv, BookTables
<1>2. \A k \in Category : calibration[k] = Nothing \/ calibration[k].bias \in BiasRange
  BY DEF PaperInv, BookTables, TableRow
<1>3. \A c \in Caller : plan[c] = <<>> => work[c] = NotRead /\ hand[c] = Nothing /\ offset[c] = 0
  BY Holds DEF Offsets
<1>4. failed \in 0 .. MaxFailed
  BY DEF PaperInv, BookTables
<1> QED BY <1>1, <1>2, <1>3, <1>4 DEF PaperTypeOK

\* A settled position carries the verdict of the exchange, read at the right
\* outcome, for any number of markets and callers, however long a page or a list
\* of positions has been read when it is acted on.
THEOREM SettledAsDecidedHolds == PaperSpec => []SettledAsDecided
<1>1. PaperInv /\ Offsets => SettledAsDecided
  <2> SUFFICES ASSUME PaperInv, Offsets PROVE SettledAsDecided
    OBVIOUS
  <2>1. ASSUME NEW m \in PaperMarket, book[m].status = "SETTLED"
        PROVE  /\ Resolved(m) /\ book[m].final = Verdict(m)
               /\ book[m].exit = IF (book[m].side = "YES") = Verdict(m) THEN 10000 ELSE 0
    <3>1. book[m] \in Position /\ PositionFits(m, book[m])
      BY <2>1, KindsDiffer DEF PaperInv, BookTables
    <3> QED BY <2>1, <3>1 DEF PositionFits, Exit
  <2> QED BY <2>1, PaperTypes DEF SettledAsDecided
<1> QED BY <1>1, PaperInvAlways, OffsetsAlways, PTL

\* A calibration is learnt from settled positions only, however many settlements
\* and calibrations run at once.
THEOREM LearntFromSettledHolds == PaperSpec => []LearntFromSettled
<1>1. PaperInv => LearntFromSettled
  <2> SUFFICES ASSUME PaperInv, NEW k \in Category, calibration[k] # Nothing
               PROVE  calibration[k].samples \in 1 .. Cardinality(SettledIn(k))
    BY DEF LearntFromSettled, SettledIn
  <2>1. TableFits(k, calibration[k])
    BY DEF PaperInv, BookTables
  <2> QED BY <2>1 DEF TableFits
<1> QED BY <1>1, PaperInvAlways, PTL

\* The terms of a position are never replaced, and once it is settled its profit
\* changes only to the profit of its settlement or by a mark that was taken while
\* it was still open.
THEOREM OnlyLateMarksHold == PaperSpec => OnlyLateMarks
<1>1. ASSUME PaperInv, [PaperNext]_paperVars PROVE [KeepsSettlements]_paperVars
  <2>1. BookGoesOn
    BY <1>1, PaperStep
  <2>2. ASSUME NEW m \in PaperMarket, book[m] # Nothing
        PROVE  book'[m] # Nothing /\ \A f \in Terms : book'[m][f] = book[m][f]
    <3>1. book[m] \in Position
      BY <1>1, <2>2 DEF PaperInv, BookTables
    <3>2. book'[m] \in Position /\ SameTerms(book'[m], book[m])
      BY <2>1, <3>1 DEF BookGoesOn
    <3> QED BY <3>2, KindsDiffer DEF SameTerms, Terms
  <2>3. ASSUME NEW m \in PaperMarket, book[m].status = "SETTLED"
        PROVE  /\ book'[m].status = "SETTLED" /\ book'[m].final = book[m].final /\ book'[m].exit = book[m].exit
               /\ \/ book'[m].profit = book[m].profit
                  \/ book'[m].profit = Profit(book[m], book[m].exit)
                  \/ \E c \in Caller : /\ hand[c].kind = "mark" /\ hand[c].market = m
                                       /\ hand[c].found.status = "OPEN"
    <3>1. book[m] \in Position
      BY <1>1, <2>3, KindsDiffer DEF PaperInv, BookTables
    <3> QED BY <2>1, <2>3, <3>1 DEF BookGoesOn
  <2> QED BY <2>2, <2>3 DEF KeepsSettlements
<1> QED BY <1>1, PaperInvAlways, PTL DEF PaperSpec, OnlyLateMarks
=============================================================================
