------------------------- MODULE RiskManagerProofs -------------------------
(***************************************************************************)
(* Proofs about the risk manager, for every value of its constants.        *)
(*                                                                         *)
(* The invariants checked by TLC are not inductive one by one: that the    *)
(* exposure limit survives OpenPosition, which checks nothing, needs the   *)
(* facts about the pending order (OrderFresh), and LossBounded is          *)
(* preserved by Evaluate because DrawdownBreaker and ExposureWithinLimit   *)
(* hold before it.  IInv is their conjunction.                             *)
(***************************************************************************)
EXTENDS RiskManager, FiniteSetTheorems, TLAPS

-----------------------------------------------------------------------------
(* Exposure                                                                *)

PositionMaps == [Slugs -> Position \cup {NoPosition}]

\* The money at stake is a finite number of units.
LEMMA StakesFinite ==
    ASSUME NEW ps \in PositionMaps
    PROVE  IsFiniteSet(Stakes(ps)) /\ Exposure(ps) \in Nat
<1>1. IsFiniteSet(Slugs \X (1..MaxPosition))
  <2>1. IsFiniteSet(1..MaxPosition)
    BY FS_Interval, SizingAssumption
  <2>2. QED
    BY <2>1, FS_Product, SlugsAssumption
<1>2. Stakes(ps) \in SUBSET (Slugs \X (1..MaxPosition))
  <2>1. \A m \in OpenSlugs(ps) : ps[m] \in Position
    BY DEF OpenSlugs, PositionMaps
  <2>2. \A m \in OpenSlugs(ps) : 1..ps[m].cost \subseteq 1..MaxPosition
    BY <2>1, SizingAssumption DEF Position
  <2>3. QED
    BY <2>2 DEF Stakes, OpenSlugs
<1>3. IsFiniteSet(Stakes(ps))
  BY <1>1, <1>2, FS_Subset
<1>4. QED
  BY <1>3, FS_CardinalityType DEF Exposure

\* Opening a position in a market that has none adds its cost.
LEMMA ExposureOpen ==
    ASSUME NEW ps \in PositionMaps, NEW m \in Slugs, NEW pos \in Position,
           ps[m] = NoPosition
    PROVE  Exposure([ps EXCEPT ![m] = pos]) = Exposure(ps) + pos.cost
<1> DEFINE qs == [ps EXCEPT ![m] = pos]
           new == {m} \X (1..pos.cost)
<1>1. pos # NoPosition /\ pos.cost \in 1..MaxPosition
  BY SentinelAssumption DEF Position
<1>2. OpenSlugs(qs) = OpenSlugs(ps) \cup {m} /\ m \notin OpenSlugs(ps)
  BY <1>1 DEF OpenSlugs, PositionMaps
<1>3. qs[m] = pos /\ \A s \in OpenSlugs(ps) : qs[s] = ps[s]
  BY <1>2 DEF OpenSlugs, PositionMaps
<1>4. Stakes(qs) = Stakes(ps) \cup new
  <2>1. ASSUME NEW x PROVE x \in Stakes(qs) <=> x \in Stakes(ps) \cup new
    <3>1. x \in Stakes(qs) <=> \E s \in OpenSlugs(qs) : x \in {s} \X (1..qs[s].cost)
      BY DEF Stakes
    <3>2. x \in Stakes(ps) <=> \E s \in OpenSlugs(ps) : x \in {s} \X (1..ps[s].cost)
      BY DEF Stakes
    <3> HIDE DEF qs
    <3>3. QED
      BY <1>2, <1>3, <3>1, <3>2
  <2>2. QED
    BY <2>1
<1>5. Stakes(ps) \cap new = {}
  <2>1. \A x \in Stakes(ps) : x[1] \in OpenSlugs(ps)
    BY DEF Stakes
  <2>2. QED
    BY <1>2, <2>1
<1>6. IsFiniteSet(new) /\ Cardinality(new) = pos.cost
  <2>1. IsFiniteSet({m}) /\ Cardinality({m}) = 1
    BY FS_Singleton
  <2>2. IsFiniteSet(1..pos.cost) /\ Cardinality(1..pos.cost) = pos.cost
    BY <1>1, FS_Interval
  <2>3. Cardinality(new) = 1 * pos.cost /\ IsFiniteSet(new)
    BY <2>1, <2>2, FS_Product
  <2>4. QED
    BY <1>1, <2>3
<1>7. Cardinality(Stakes(ps) \cup new) = Cardinality(Stakes(ps)) + pos.cost
  <2>1. Cardinality(Stakes(ps) \cup new) =
            Cardinality(Stakes(ps)) + Cardinality(new) - Cardinality(Stakes(ps) \cap new)
    BY <1>6, StakesFinite, FS_Union
  <2>2. Cardinality(Stakes(ps)) \in Nat
    BY StakesFinite DEF Exposure
  <2>3. Cardinality(Stakes(ps) \cap new) = 0
    BY <1>5, FS_EmptySet
  <2> HIDE DEF new
  <2>4. QED
    BY <1>1, <1>6, <2>1, <2>2, <2>3
<1>8. QED
  BY <1>4, <1>7 DEF Exposure

\* Closing a position takes its cost away.
LEMMA ExposureClose ==
    ASSUME NEW ps \in PositionMaps, NEW m \in Slugs, ps[m] # NoPosition
    PROVE  /\ ps[m].cost \in 1..MaxPosition
           /\ Exposure([ps EXCEPT ![m] = NoPosition]) = Exposure(ps) - ps[m].cost
<1> DEFINE qs == [ps EXCEPT ![m] = NoPosition]
<1>1. qs \in PositionMaps /\ qs[m] = NoPosition /\ ps[m] \in Position
  BY DEF PositionMaps
<1>2. ps = [qs EXCEPT ![m] = ps[m]]
  BY DEF PositionMaps
<1>3. Exposure(ps) = Exposure(qs) + ps[m].cost
  <2> HIDE DEF qs
  <2>1. Exposure([qs EXCEPT ![m] = ps[m]]) = Exposure(qs) + ps[m].cost
    BY <1>1, ExposureOpen
  <2>2. QED
    BY <1>2, <2>1
<1>4. ps[m].cost \in 1..MaxPosition
  BY <1>1 DEF Position
<1>5. Exposure(qs) \in Nat
  BY <1>1, StakesFinite
<1>6. QED
  BY <1>3, <1>4, <1>5

\* Without positions nothing is at stake.
LEMMA ExposureNone ==
    Exposure([m \in Slugs |-> NoPosition]) = 0
<1>1. Stakes([m \in Slugs |-> NoPosition]) = {}
  BY DEF Stakes, OpenSlugs
<1>2. QED
  BY <1>1, FS_EmptySet DEF Exposure

-----------------------------------------------------------------------------
(* Sizing and profit                                                       *)

\* An accepted order costs at least a unit, at most cfg.MaxPosition, and no
\* more than the exposure limit leaves.
LEMMA CostBounds ==
    ASSUME TypeOK, NEW p, NEW ask, HasEdge(p, ask), Cost(p, ask) >= MinBet
    PROVE  /\ Cost(p, ask) \in 1..MaxPosition
           /\ Exposure(positions) + Cost(p, ask) <= MaxExposure
<1>1. Exposure(positions) \in Nat
  BY StakesFinite DEF TypeOK, PositionMaps
<1>2. KellyStake(p, ask, bankroll) \in Int
  <2>1. p \in 1..99 /\ ask \in 1..99 /\ bankroll \in Int
    BY DEF HasEdge, TypeOK
  <2>2. (100 - ask) * KellyDivisor \in Nat \ {0}
    BY <2>1, SizingAssumption
  <2>3. (p - ask) * bankroll \in Int
    BY <2>1
  <2>4. QED
    BY <2>2, <2>3 DEF KellyStake
<1>3. QED
  BY <1>1, <1>2, SizingAssumption DEF Cost, Smaller

\* A loss costs the stake and no more; a win gains something or nothing.
LEMMA PnLBounds ==
    ASSUME NEW pos \in Position, NEW won \in BOOLEAN
    PROVE  /\ PnL(pos, won) \in Int
           /\ won => PnL(pos, won) >= 0
           /\ ~won => PnL(pos, won) = -pos.cost
<1>1. pos.cost \in Nat \ {0} /\ pos.price \in 1..99
  BY SizingAssumption DEF Position
<1>2. pos.cost * (100 - pos.price) \in Nat
  BY <1>1
<1>3. (pos.cost * (100 - pos.price)) \div pos.price \in Nat
  BY <1>1, <1>2
<1>4. QED
  BY <1>1, <1>3 DEF PnL

\* At a fresh peak the drawdown is zero, which is below every limit.
LEMMA FreshPeak ==
    ASSUME NEW b \in Int
    PROVE  /\ DrawdownLimit * b \in Int
           /\ b > 0 => DrawdownLimit * b > 0
BY BreakerAssumption

-----------------------------------------------------------------------------
(* IInv is inductive                                                       *)

LEMMA InitIInv == Init => IInv
<1> SUFFICES ASSUME Init PROVE IInv
  OBVIOUS
<1>1. TypeOK
  <2>1. halted \in BOOLEAN
    BY Zenon DEF Init
  <2>2. QED
    BY <2>1, SizingAssumption DEF Init, TypeOK
<1>2. Committed = 0
  BY ExposureNone DEF Init, Committed, PendingCost
<1>3. DrawdownLimit * peakBankroll \in Int
        /\ (peakBankroll > 0 => DrawdownLimit * peakBankroll > 0)
  BY <1>1, FreshPeak DEF TypeOK
<1>4. OrderFresh /\ PeakIsHighest
  BY <1>1 DEF Init, OrderFresh, PeakIsHighest, TypeOK
<1>5. ExposureWithinLimit
  BY <1>2, SizingAssumption DEF ExposureWithinLimit
<1>6. DrawdownBreaker /\ LossBounded
  BY <1>1, <1>2, <1>3, SizingAssumption DEF Init, DrawdownBreaker, LossBounded, TypeOK
<1>7. QED
  BY <1>1, <1>4, <1>5, <1>6 DEF IInv

LEMMA EvaluateIInv ==
    ASSUME IInv, NEW m \in Slugs, NEW d \in Directions,
           NEW p \in ModelProbs, NEW ask \in Asks \cup {NoAsk},
           Evaluate(m, d, p, ask)
    PROVE  IInv'
<1>1. Accepts(m, p, ask) =>
        /\ Cost(p, ask) \in 1..MaxPosition
        /\ Exposure(positions) + Cost(p, ask) <= MaxExposure
  BY CostBounds DEF Accepts, IInv
<1>2. Exposure(positions) \in Nat /\ Exposure(positions') = Exposure(positions)
  BY StakesFinite DEF IInv, TypeOK, PositionMaps, Evaluate
<1>3. TypeOK'
  <2>1. peakBankroll' \in Int /\ halted' \in BOOLEAN
    BY DEF IInv, TypeOK, Evaluate, CheckCooldown
  <2>2. order' \in Order \cup {NoOrder}
    BY <1>1 DEF Evaluate, Accepts, EntryPriceOK, Order
  <2>3. QED
    BY <2>1, <2>2 DEF IInv, TypeOK, Evaluate, account
<1>4. OrderFresh'
  BY SentinelAssumption DEF OrderFresh, Evaluate, Accepts
<1>5. PeakIsHighest'
  BY DEF IInv, TypeOK, PeakIsHighest, Evaluate, CheckCooldown, account
<1>6. Committed' \in Int /\ Committed' <= MaxExposure
  <2>1. CASE order' = NoOrder
    BY <1>2, <2>1, SizingAssumption
       DEF IInv, ExposureWithinLimit, Committed, PendingCost, Evaluate
  <2>2. CASE order' # NoOrder
    BY <1>1, <1>2, <2>2, SizingAssumption DEF Committed, PendingCost, Evaluate
  <2>3. QED
    BY <2>1, <2>2
<1>7. \/ halted' = halted /\ peakBankroll' = peakBankroll
      \/ ~halted' /\ peakBankroll' = bankroll
  BY DEF Evaluate, CheckCooldown
<1>8. bankroll' = bankroll /\ bankroll \in Int /\ peakBankroll \in Int
        /\ DrawdownLimit * peakBankroll \in Int
        /\ DrawdownLimit * bankroll \in Int
        /\ (bankroll > 0 => DrawdownLimit * bankroll > 0)
  BY FreshPeak DEF IInv, TypeOK, Evaluate, account
<1>9. DrawdownBreaker'
  BY <1>7, <1>8 DEF IInv, DrawdownBreaker
<1>10. LossBounded'
  <2>1. CASE order' # NoOrder
    <3>1. ~halted'
      BY <2>1 DEF Evaluate, Accepts
    <3>2. peakBankroll' > 0 =>
            100 * (peakBankroll' - bankroll') < DrawdownLimit * peakBankroll'
      BY <3>1, <1>9 DEF DrawdownBreaker
    <3>3. peakBankroll' \in Int /\ DrawdownLimit * peakBankroll' \in Int
      BY <1>7, <1>8
    <3>4. QED
      BY <3>2, <3>3, <1>6, <1>8, SizingAssumption DEF LossBounded
  <2>2. CASE order' = NoOrder
    <3>1. Committed' = Committed
      BY <1>2, <2>2 DEF Committed, PendingCost, Evaluate
    <3>2. QED
      BY <3>1, <1>6, <1>7, <1>8, SizingAssumption DEF IInv, LossBounded
  <2>3. QED
    BY <2>1, <2>2
<1>11. QED
  BY <1>3, <1>4, <1>5, <1>6, <1>9, <1>10 DEF IInv, ExposureWithinLimit

LEMMA OpenPositionIInv ==
    ASSUME IInv, OpenPosition
    PROVE  IInv'
<1> DEFINE pos == [dir |-> order.dir, price |-> order.price, cost |-> order.cost]
<1>1. order \in Order /\ order.slug \in Slugs /\ pos \in Position
  BY DEF IInv, TypeOK, OpenPosition, Order, Position
<1>2. TypeOK'
  BY <1>1 DEF IInv, TypeOK, OpenPosition, account, breaker
<1>3. Committed' = Committed
  <2>1. positions[order.slug] = NoPosition /\ positions \in PositionMaps
    BY DEF IInv, OrderFresh, OpenPosition, TypeOK, PositionMaps
  <2>2. Exposure([positions EXCEPT ![order.slug] = pos]) =
          Exposure(positions) + pos.cost
    BY <1>1, <2>1, ExposureOpen
  <2>3. Exposure(positions') = Exposure(positions) + order.cost
    BY <2>2 DEF OpenPosition
  <2>4. Exposure(positions') \in Nat
    BY <1>2, StakesFinite DEF TypeOK, PositionMaps
  <2>5. QED
    BY <2>3, <2>4 DEF Committed, PendingCost, OpenPosition
<1>4. OrderFresh'
  BY DEF OpenPosition, OrderFresh
<1>5. UNCHANGED <<bankroll, peakBankroll, halted>>
  BY DEF OpenPosition, account, breaker
<1>6. QED
  BY <1>2, <1>3, <1>4, <1>5 DEF IInv, PeakIsHighest, ExposureWithinLimit,
     DrawdownBreaker, LossBounded

LEMMA SettleIInv ==
    ASSUME IInv, NEW m \in Slugs, NEW outcome \in Outcomes, Settle(m, outcome)
    PROVE  IInv'
<1> DEFINE won == DidWin(positions[m].dir, outcome)
           pnl == PnL(positions[m], won)
<1>1. positions[m] \in Position /\ won \in BOOLEAN
  BY DEF IInv, TypeOK, Settle, SettlePosition, DidWin
<1>2. pnl \in Int /\ (won => pnl >= 0) /\ (~won => pnl = -positions[m].cost)
  BY <1>1, PnLBounds
<1>3. /\ bankroll' = bankroll + pnl
      /\ totalPnL' = totalPnL + pnl
      /\ peakBankroll' = Larger(peakBankroll, bankroll + pnl)
      /\ wins' = (IF won THEN wins + 1 ELSE wins)
      /\ losses' = (IF won THEN losses ELSE losses + 1)
      /\ savedBankroll' \in {savedBankroll, bankroll + pnl}
      /\ positions' = [positions EXCEPT ![m] = NoPosition]
      /\ order = NoOrder
      /\ UNCHANGED <<order, bets, restarts, now>>
      /\ TripBreaker
  BY DEF Settle, SettlePosition
<1> HIDE DEF pnl, won
<1>4. TypeOK'
  <2>1. bankroll' \in Int /\ peakBankroll' \in Int /\ totalPnL' \in Int
        /\ savedBankroll' \in Int
    BY <1>2, <1>3 DEF IInv, TypeOK, Larger
  <2>2. wins' \in Nat /\ losses' \in Nat
    BY <1>1, <1>3 DEF IInv, TypeOK
  <2>3. halted' \in BOOLEAN /\ haltedAt' \in Nat /\ haltCount' \in Nat
    <3>1. \/ halted' = TRUE /\ haltedAt' = now /\ haltCount' = haltCount + 1
          \/ halted' = halted /\ haltedAt' = haltedAt /\ haltCount' = haltCount
      BY <1>3 DEF TripBreaker, breaker
    <3>2. halted' \in BOOLEAN
      BY <3>1, Zenon DEF IInv, TypeOK
    <3>3. QED
      BY <3>1, <3>2 DEF IInv, TypeOK
  <2>4. positions' \in [Slugs -> Position \cup {NoPosition}]
    BY <1>3 DEF IInv, TypeOK
  <2>5. QED
    BY <1>3, <2>1, <2>2, <2>3, <2>4 DEF IInv, TypeOK
<1>5. /\ positions[m].cost \in 1..MaxPosition
      /\ Committed \in Nat
      /\ Committed' = Committed - positions[m].cost
      /\ Committed' \in Nat
  <2>1. positions \in PositionMaps /\ positions' \in PositionMaps
        /\ positions[m] # NoPosition
    BY <1>4 DEF IInv, TypeOK, PositionMaps, Settle, SettlePosition
  <2>2. /\ positions[m].cost \in 1..MaxPosition
        /\ Exposure(positions') = Exposure(positions) - positions[m].cost
    BY <1>3, <2>1, ExposureClose
  <2>3. Exposure(positions) \in Nat /\ Exposure(positions') \in Nat
    BY <2>1, StakesFinite
  <2>4. QED
    BY <1>3, <2>2, <2>3 DEF Committed, PendingCost
<1>6. ExposureWithinLimit'
  BY <1>5, SizingAssumption DEF IInv, ExposureWithinLimit
<1>7. OrderFresh' /\ PeakIsHighest'
  BY <1>2, <1>3 DEF IInv, TypeOK, OrderFresh, PeakIsHighest, Larger
<1>8. DrawdownLimit * peakBankroll \in Int /\ DrawdownLimit * peakBankroll' \in Int
        /\ (peakBankroll' > 0 => DrawdownLimit * peakBankroll' > 0)
  <2>1. peakBankroll \in Int /\ peakBankroll' \in Int
    BY <1>4 DEF IInv, TypeOK
  <2>2. QED
    BY <2>1, FreshPeak
<1>9. DrawdownBreaker'
  BY <1>3, <1>4, <1>8 DEF IInv, TypeOK, DrawdownBreaker, TripBreaker,
     BreakerTrips, breaker
<1>10. LossBounded'
  <2>1. CASE peakBankroll' = peakBankroll
    <3>1. peakBankroll' - bankroll' + Committed' <= peakBankroll - bankroll + Committed
      BY <1>1, <1>2, <1>3, <1>5, <2>1, SizingAssumption DEF IInv, TypeOK
    <3>2. QED
      BY <1>4, <1>5, <1>8, <2>1, <3>1, SizingAssumption DEF IInv, TypeOK, LossBounded
  <2>2. CASE peakBankroll' # peakBankroll
    <3>1. peakBankroll' = bankroll'
      BY <1>2, <1>3, <2>2 DEF IInv, TypeOK, Larger
    <3>2. QED
      BY <1>4, <1>5, <1>6, <1>8, <3>1, SizingAssumption
         DEF TypeOK, LossBounded, ExposureWithinLimit
  <2>3. QED
    BY <2>1, <2>2
<1>11. QED
  BY <1>4, <1>6, <1>7, <1>9, <1>10 DEF IInv

LEMMA RestartIInv ==
    ASSUME IInv, Restart
    PROVE  IInv'
<1>1. TypeOK'
  <2>1. halted' \in BOOLEAN
    BY Zenon DEF Restart, NewManager
  <2>2. QED
    BY <2>1 DEF IInv, TypeOK, Restart, NewManager
<1>2. Committed' = 0
  BY ExposureNone DEF Restart, NewManager, Committed, PendingCost
<1>3. peakBankroll' = bankroll' /\ order' = NoOrder
  BY DEF Restart, NewManager
<1>4. DrawdownLimit * peakBankroll' \in Int
        /\ (peakBankroll' > 0 => DrawdownLimit * peakBankroll' > 0)
  BY <1>1, FreshPeak DEF TypeOK
<1>5. OrderFresh' /\ PeakIsHighest'
  BY <1>1, <1>3 DEF OrderFresh, PeakIsHighest, TypeOK
<1>6. ExposureWithinLimit'
  BY <1>2, SizingAssumption DEF ExposureWithinLimit
<1>7. DrawdownBreaker' /\ LossBounded'
  BY <1>1, <1>2, <1>3, <1>4, SizingAssumption DEF DrawdownBreaker, LossBounded, TypeOK
<1>8. QED
  BY <1>1, <1>5, <1>6, <1>7 DEF IInv

\* The clock, and steps of the rest of the program.
LEMMA OtherIInv ==
    ASSUME IInv, Tick \/ UNCHANGED vars
    PROVE  IInv'
<1>1. TypeOK'
  BY DEF IInv, TypeOK, Tick, vars, account, breaker
<1>2. UNCHANGED <<bankroll, peakBankroll, positions, halted, order>>
  BY DEF Tick, vars, account, breaker
<1>3. UNCHANGED Committed
  BY <1>2 DEF Committed, PendingCost
<1>4. QED
  BY <1>1, <1>2, <1>3 DEF IInv, OrderFresh, PeakIsHighest, ExposureWithinLimit,
     DrawdownBreaker, LossBounded

\* Every step of the risk manager preserves the inductive invariant.
LEMMA NextIInv == IInv /\ [Next]_vars => IInv'
<1> SUFFICES ASSUME IInv, [Next]_vars PROVE IInv'
  OBVIOUS
<1>1. CASE \E m \in Slugs, d \in Directions, p \in ModelProbs, ask \in Asks \cup {NoAsk} :
              Evaluate(m, d, p, ask)
  BY <1>1, EvaluateIInv
<1>2. CASE OpenPosition
  BY <1>2, OpenPositionIInv
<1>3. CASE \E m \in Slugs, outcome \in Outcomes : Settle(m, outcome)
  BY <1>3, SettleIInv
<1>4. CASE Restart
  BY <1>4, RestartIInv
<1>5. CASE Tick \/ UNCHANGED vars
  BY <1>5, OtherIInv
<1>6. QED
  BY <1>1, <1>2, <1>3, <1>4, <1>5 DEF Next

-----------------------------------------------------------------------------
(* The theorems                                                            *)

\* The inductive invariant holds in every state of the risk manager.
THEOREM Invariance == Spec => []IInv
BY InitIInv, NextIInv, PTL DEF Spec

\* Every field of Manager keeps its type, and no stake exceeds
\* cfg.MaxPosition (manager.go:206).
THEOREM TypeCorrect == Spec => []TypeOK
<1>1. IInv => TypeOK
  BY DEF IInv
<1>2. QED
  BY Invariance, <1>1, PTL

\* The open positions and the pending order never exceed cfg.MaxExposure
\* (manager.go:210).
THEOREM ExposureSafe == Spec => []ExposureWithinLimit
<1>1. IInv => ExposureWithinLimit
  BY DEF IInv
<1>2. QED
  BY Invariance, <1>1, PTL

\* While trading is allowed, the drawdown from the peak is below
\* cfg.DrawdownLimit (manager.go:310, 349).
THEOREM BreakerSafe == Spec => []DrawdownBreaker
<1>1. IInv => DrawdownBreaker
  BY DEF IInv
<1>2. QED
  BY Invariance, <1>1, PTL

\* The fall from the peak, with everything at stake lost, stays below the
\* drawdown limit plus cfg.MaxExposure (manager.go:310).
THEOREM LossSafe == Spec => []LossBounded
<1>1. IInv => LossBounded
  BY DEF IInv
<1>2. QED
  BY Invariance, <1>1, PTL

\* No step opens a position while the breaker is tripped (manager.go:148).
THEOREM HaltSafe == Spec => NoBetWhileHalted
<1> DEFINE Opens == \E m \in Slugs : positions[m] = NoPosition /\ positions'[m] # NoPosition
<1>1. ASSUME IInv, [Next]_vars, Opens PROVE ~halted
  <2>1. PICK m \in Slugs : positions[m] = NoPosition /\ positions'[m] # NoPosition
    BY <1>1
  <2>2. CASE OpenPosition
    BY <1>1, <2>2 DEF IInv, OrderFresh, OpenPosition
  <2>3. CASE \E s \in Slugs, outcome \in Outcomes : Settle(s, outcome)
    BY <1>1, <2>1, <2>3 DEF IInv, TypeOK, Settle, SettlePosition
  <2>4. CASE Restart
    BY <2>1, <2>4 DEF Restart, NewManager
  <2>5. CASE UNCHANGED positions
    BY <2>1, <2>5
  <2>6. QED
    BY <1>1, <2>2, <2>3, <2>4, <2>5 DEF Next, vars, Evaluate, Tick
<1>2. IInv /\ [Next]_vars =>
        [\A m \in Slugs : positions[m] = NoPosition /\ positions'[m] # NoPosition
            => ~halted]_vars
  BY <1>1
<1>3. QED
  BY Invariance, <1>2, PTL DEF Spec, NoBetWhileHalted
=============================================================================
