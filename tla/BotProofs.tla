------------------------------ MODULE BotProofs ------------------------------
(***************************************************************************)
(* Proofs about the bot, for any number of windows, bets, crashes and      *)
(* failed writes.                                                          *)
(*                                                                         *)
(* Every step of the bot is a step of the risk manager or leaves it alone, *)
(* so that all that RiskManagerProofs shows of the manager holds here.     *)
(* The invariants about the trade log need to know besides that the row    *)
(* being inserted is that of the position just opened (LoggingOpen), and   *)
(* that an outcome, once written, is the side that won (OutcomeTrue).      *)
(***************************************************************************)
EXTENDS Bot, FiniteSetTheorems, SequenceTheorems, TLAPS

RMP == INSTANCE RiskManagerProofs

Row == [slug : Slugs, dir : Directions, price : 1..99, cost : 1..MaxPosition,
        status : {"open", "won", "lost"}, pnl : Int]

Decision == [slug : Slugs, dir : Directions, p : ModelProbs]

Locals ==
    /\ loop = "evaluating" => decision \in Decision
    /\ logging \in RM!Order \cup {NoOrder}
    /\ rows \in Seq(Row) /\ lost \subseteq Slugs

ResolvingDecided == \A m \in resolving : truth[m] # "open"

\* A market may say "neither" while it is written, but never the wrong side.
OutcomeTrue ==
    \A m \in Slugs : markets[m].outcome # "neither" => markets[m].outcome = truth[m]

LoggingOpen ==
    loop = "logging" =>
        positions[logging.slug] =
            [dir |-> logging.dir, price |-> logging.price, cost |-> logging.cost]

WInv == RM!IInv /\ TypeOK /\ Locals /\ ResolvingDecided /\ OutcomeTrue

LogInv ==
    /\ LoggingOpen /\ BankrollSaved /\ OpenPositionLogged /\ LoneRowSettlesOwnTrade

BotInv == WInv /\ LogInv

-----------------------------------------------------------------------------
(* Records and rows                                                        *)

LEMMA SlugsFinite == IsFiniteSet(Slugs)
BY FS_Interval, WindowAssumption DEF Slugs

MarketEntry == [status : {"unknown", "trading", "resolved"}, outcome : RM!Outcomes]

\* A torn write of a market changes one field at a time.
LEMMA EntryExcept ==
    ASSUME NEW e \in MarketEntry, NEW side \in Directions
    PROVE  /\ [e EXCEPT !.status = "resolved"] =
                  [status |-> "resolved", outcome |-> e.outcome]
           /\ [e EXCEPT !.outcome = side] = [status |-> e.status, outcome |-> side]
BY DEF MarketEntry

\* A settled row keeps the trade it records.
LEMMA RowExcept ==
    ASSUME NEW r \in Row, NEW status \in {"won", "lost"}, NEW pnl \in Int
    PROVE  [r EXCEPT !.status = status, !.pnl = pnl] =
               [slug |-> r.slug, dir |-> r.dir, price |-> r.price, cost |-> r.cost,
                status |-> status, pnl |-> pnl]
<1> DEFINE q == [slug |-> r.slug, dir |-> r.dir, price |-> r.price, cost |-> r.cost,
                 status |-> status, pnl |-> r.pnl]
<1>1. [r EXCEPT !.status = status] = q
  BY DEF Row
<1>2. [q EXCEPT !.pnl = pnl] =
          [slug |-> r.slug, dir |-> r.dir, price |-> r.price, cost |-> r.cost,
           status |-> status, pnl |-> pnl]
  OBVIOUS
<1>3. [r EXCEPT !.status = status, !.pnl = pnl] =
          [[r EXCEPT !.status = status] EXCEPT !.pnl = pnl]
  OBVIOUS
<1> HIDE DEF q
<1> QED
  BY <1>1, <1>2, <1>3

Settled(r, won, pnl) ==
    [slug |-> r.slug, dir |-> r.dir, price |-> r.price, cost |-> r.cost,
     status |-> IF won THEN "won" ELSE "lost", pnl |-> pnl]

\* What the update of a settlement does to each row.
LEMMA SettleRowsAt ==
    ASSUME rows \in Seq(Row), NEW m, NEW won \in BOOLEAN, NEW pnl \in Int
    PROVE  /\ SettleRows(m, won, pnl) \in Seq(Row)
           /\ DOMAIN SettleRows(m, won, pnl) = DOMAIN rows
           /\ \A i \in DOMAIN rows :
                 SettleRows(m, won, pnl)[i] =
                     IF i \in UnsettledRows(m) THEN Settled(rows[i], won, pnl) ELSE rows[i]
<1> DEFINE qs == SettleRows(m, won, pnl)
<1>1. DOMAIN qs = DOMAIN rows
  BY Zenon DEF SettleRows
<1>2. ASSUME NEW i \in DOMAIN rows
      PROVE  /\ qs[i] = IF i \in UnsettledRows(m) THEN Settled(rows[i], won, pnl) ELSE rows[i]
             /\ qs[i] \in Row
  <2>1. rows[i] \in Row
    BY ElementOfSeq, <1>2
  <2>2. CASE i \in UnsettledRows(m)
    <3>1. qs[i] = [rows[i] EXCEPT !.status = IF won THEN "won" ELSE "lost", !.pnl = pnl]
      BY <2>2, Zenon DEF SettleRows, UnsettledRows
    <3>2. (IF won THEN "won" ELSE "lost") \in {"won", "lost"}
      OBVIOUS
    <3>3. qs[i] = Settled(rows[i], won, pnl)
      BY <2>1, <3>1, <3>2, RowExcept DEF Settled
    <3>4. Settled(rows[i], won, pnl) \in Row
      BY <2>1 DEF Settled, Row
    <3> QED
      BY <2>2, <3>3, <3>4
  <2>3. CASE i \notin UnsettledRows(m)
    <3>1. qs[i] = rows[i]
      BY <2>3, Zenon DEF SettleRows, UnsettledRows
    <3> QED
      BY <2>1, <2>3, <3>1
  <2> QED
    BY <2>2, <2>3
<1>3. qs \in Seq(Row)
  <2>1. Len(rows) \in Nat /\ DOMAIN rows = 1..Len(rows)
    OBVIOUS
  <2>2. qs = [i \in 1..Len(rows) |-> qs[i]]
    BY <1>1, <2>1, Zenon DEF SettleRows
  <2> HIDE DEF qs
  <2> QED
    BY <1>1, <1>2, <2>1, <2>2, IsASeq
<1> QED
  BY <1>1, <1>2, <1>3

-----------------------------------------------------------------------------
(* The manager                                                             *)

LEMMA Shared ==
    /\ RM!SizingAssumption /\ RM!BreakerAssumption /\ RM!InputAssumption
    /\ RM!BoundAssumption /\ RM!SentinelAssumption
BY ManagerAssumption

\* The manager's steps, in the words of Bot and of RiskManagerProofs.
LEMMA SameInit == RM!Init <=> RMP!Init
BY DEF RM!Init, RMP!Init

LEMMA SameIInv == RM!IInv <=> RMP!IInv
BY DEF RM!IInv, RMP!IInv, RM!TypeOK, RMP!TypeOK, RM!OrderFresh, RMP!OrderFresh,
       RM!PeakIsHighest, RMP!PeakIsHighest, RM!ExposureWithinLimit,
       RMP!ExposureWithinLimit, RM!DrawdownBreaker, RMP!DrawdownBreaker,
       RM!LossBounded, RMP!LossBounded, RM!Committed, RMP!Committed,
       RM!Exposure, RMP!Exposure, RM!Stakes, RMP!Stakes, RM!OpenSlugs, RMP!OpenSlugs,
       RM!PendingCost, RMP!PendingCost, RM!Position, RMP!Position,
       RM!Directions, RMP!Directions, RM!Order, RMP!Order,
       RM!Cardinality, RMP!Cardinality

LEMMA SameEvaluate ==
    ASSUME NEW m, NEW d, NEW p, NEW ask
    PROVE  RM!Evaluate(m, d, p, ask) <=> RMP!Evaluate(m, d, p, ask)
BY DEF RM!Evaluate, RMP!Evaluate, RM!CheckCooldown, RMP!CheckCooldown,
       RM!CooldownOver, RMP!CooldownOver, RM!Accepts, RMP!Accepts,
       RM!EntryPriceOK, RMP!EntryPriceOK, RM!HasEdge, RMP!HasEdge, RM!Cost, RMP!Cost,
       RM!Smaller, RMP!Smaller, RM!KellyStake, RMP!KellyStake, RM!Exposure, RMP!Exposure,
       RM!Stakes, RMP!Stakes, RM!OpenSlugs, RMP!OpenSlugs, RM!account, RMP!account,
       RM!Cardinality, RMP!Cardinality

LEMMA SameSettle ==
    ASSUME NEW m, NEW outcome
    PROVE  RM!Settle(m, outcome) <=> RMP!Settle(m, outcome)
BY DEF RM!Settle, RMP!Settle, RM!SettlePosition, RMP!SettlePosition,
       RM!DidWin, RMP!DidWin, RM!PnL, RMP!PnL, RM!Larger, RMP!Larger,
       RM!TripBreaker, RMP!TripBreaker, RM!BreakerTrips, RMP!BreakerTrips,
       RM!breaker, RMP!breaker

LEMMA SameNext == [RM!Next]_(RM!vars) <=> [RMP!Next]_(RMP!vars)
<1>1. RM!OpenPosition <=> RMP!OpenPosition
  BY DEF RM!OpenPosition, RMP!OpenPosition, RM!account, RMP!account, RM!breaker, RMP!breaker
<1>2. RM!Restart <=> RMP!Restart
  BY DEF RM!Restart, RMP!Restart, RM!NewManager, RMP!NewManager
<1>3. RM!Tick <=> RMP!Tick
  BY DEF RM!Tick, RMP!Tick, RM!account, RMP!account, RM!breaker, RMP!breaker
<1>4. RM!vars = RMP!vars /\ RM!vars' = RMP!vars'
  BY DEF RM!vars, RMP!vars
<1>5. RM!Directions = RMP!Directions /\ RM!Outcomes = RMP!Outcomes
  BY DEF RM!Directions, RMP!Directions, RM!Outcomes, RMP!Outcomes
<1> QED
  BY <1>1, <1>2, <1>3, <1>4, <1>5, SameEvaluate, SameSettle DEF RM!Next, RMP!Next

\* RiskManagerProofs' InitIInv and NextIInv, for the manager of the bot.
LEMMA ManagerInit == RM!Init => RM!IInv
<1>1. RMP!IsFiniteSet(Slugs)
  BY SlugsFinite DEF IsFiniteSet, RMP!IsFiniteSet
<1> QED
  BY <1>1, Shared, SameInit, SameIInv, RMP!InitIInv
  DEF RM!SizingAssumption, RM!BreakerAssumption, RM!InputAssumption, RM!BoundAssumption,
      RM!SentinelAssumption, RM!Position, RMP!Position, RM!Order, RMP!Order,
      RM!Directions, RMP!Directions

LEMMA ManagerNext == RM!IInv /\ [RM!Next]_(RM!vars) => RM!IInv'
<1>1. RMP!IsFiniteSet(Slugs)
  BY SlugsFinite DEF IsFiniteSet, RMP!IsFiniteSet
<1>2. RMP!IInv /\ [RMP!Next]_(RMP!vars) => RMP!IInv'
  BY <1>1, Shared, RMP!NextIInv
  DEF RM!SizingAssumption, RM!BreakerAssumption, RM!InputAssumption, RM!BoundAssumption,
      RM!SentinelAssumption, RM!Position, RMP!Position, RM!Order, RMP!Order,
      RM!Directions, RMP!Directions
<1>3. RM!IInv' <=> RMP!IInv'
  BY SameIInv, PTL
<1> QED
  BY <1>2, <1>3, SameIInv, SameNext

\* A settlement changes the bankroll by a whole number of units.
LEMMA PnLInt ==
    ASSUME NEW pos \in RM!Position, NEW won \in BOOLEAN
    PROVE  RM!PnL(pos, won) \in Int
<1>1. RMP!PnL(pos, won) \in Int
  <2>1. RMP!IsFiniteSet(Slugs)
    BY SlugsFinite DEF IsFiniteSet, RMP!IsFiniteSet
  <2> QED
    BY <2>1, Shared, RMP!PnLBounds
    DEF RM!SizingAssumption, RM!BreakerAssumption, RM!InputAssumption, RM!BoundAssumption,
        RM!SentinelAssumption, RM!Position, RMP!Position, RM!Order, RMP!Order,
        RM!Directions, RMP!Directions
<1> QED
  BY <1>1 DEF RM!PnL, RMP!PnL

\* Each action of the bot, as the manager sees it.
LEMMA StepOfManager ==
    ASSUME WInv, [Next]_vars
    PROVE  [RM!Next]_(RM!vars)
<1>1. CASE Tick
  BY <1>1 DEF Tick, manager, log, RM!Tick, RM!Next, RM!account, RM!breaker
<1>2. ASSUME NEW m \in Slugs, SettleVisit(m) PROVE RM!Next
  <2>1. markets[m].outcome \in RM!Outcomes
    BY DEF WInv, TypeOK
  <2>2. savedBankroll' \in {savedBankroll, bankroll'}
    BY <1>2 DEF SettleVisit, OnSettle
  <2>3. RM!Settle(m, markets[m].outcome)
    BY <1>2, <2>2 DEF SettleVisit, RM!Settle, RM!SettlePosition
  <2> QED
    BY <2>1, <2>3 DEF RM!Next
<1>3. ASSUME NEW ask \in Asks \cup {NoAsk}, Evaluate(ask) PROVE RM!Next
  <2>1. decision \in Decision
    BY <1>3 DEF Evaluate, WInv, Locals
  <2> QED
    BY <1>3, <2>1 DEF Evaluate, Decision, Directions, RM!Directions, RM!Next
<1>4. CASE OpenPosition
  BY <1>4 DEF OpenPosition, RM!Next
<1>5. CASE Crash
  BY <1>5 DEF Crash, RM!Restart, RM!Next
<1>6. CASE UNCHANGED RM!vars
  BY <1>6
<1>7. ASSUME NEW m \in Slugs, NEW side \in Directions, Close(m, side)
      PROVE  UNCHANGED RM!vars
  BY <1>7 DEF Close, manager, log, RM!vars
<1>8. CASE Stream
  BY <1>8 DEF Stream, EndResolve, OnMarketResolved, manager, log, RM!vars
<1>9. CASE RotationLoop
  BY <1>9 DEF RotationLoop, Rotate, CollectExpired, CheckResolved, CheckUnresolved,
     RotateEnd, manager, log, RM!vars
<1>10. CASE \E found \in SUBSET Discoverable : Boot(found)
  BY <1>10 DEF Boot, manager, log, RM!vars
<1>11. CASE SignalLoop
  <2>1. CASE SettleBegin \/ Hold \/ LogTrade
    BY <2>1 DEF SettleBegin, Hold, LogTrade, manager, log, RM!vars
  <2>2. ASSUME NEW m \in Slugs, SettleSkip(m) PROVE UNCHANGED RM!vars
    BY <2>2 DEF SettleSkip, manager, log, RM!vars
  <2>3. ASSUME NEW m \in Slugs, NEW d \in Directions, NEW p \in ModelProbs,
               Decide(m, d, p)
        PROVE  UNCHANGED RM!vars
    BY <2>3 DEF Decide, manager, log, RM!vars
  <2> QED
    BY <1>2, <1>3, <1>4, <1>11, <2>1, <2>2, <2>3 DEF SignalLoop
<1>12. CASE UNCHANGED vars
  BY <1>12 DEF vars, manager, log, RM!vars
<1> QED
  BY <1>1, <1>5, <1>6, <1>7, <1>8, <1>9, <1>10, <1>11, <1>12 DEF Next, Environment

-----------------------------------------------------------------------------
(* WInv is inductive                                                       *)

\* What WInv says beyond the manager's invariant.
Rest == TypeOK /\ Locals /\ ResolvingDecided /\ OutcomeTrue

LEMMA InitWInv == Init => WInv
<1> SUFFICES ASSUME Init PROVE WInv
  OBVIOUS
<1>1. RM!Init /\ RM!IInv
  BY ManagerInit DEF Init
<1>2. Cardinality({}) = 0
  BY FS_EmptySet
<1>3. rows \in Seq(Row)
  BY EmptySeq DEF Init
<1> QED
  BY <1>1, <1>2, <1>3
  DEF Init, WInv, TypeOK, Locals, ResolvingDecided, OutcomeTrue, OpenPositions, Unknown,
      RM!Init, RM!Outcomes

\* The time passes, or a side wins.
LEMMA EnvironmentRest ==
    ASSUME WInv, Environment
    PROVE  Rest'
<1>1. CASE Tick
  BY <1>1
  DEF WInv, Rest, TypeOK, Locals, ResolvingDecided, OutcomeTrue, OpenPositions, Tick,
      manager, hub, signals, rotator, log
<1>2. ASSUME NEW m \in Slugs, NEW side \in Directions, Close(m, side) PROVE Rest'
  BY <1>2
  DEF WInv, Rest, TypeOK, Locals, ResolvingDecided, OutcomeTrue, OpenPositions, Close,
      manager, hub, signals, rotator, log, Directions, RM!Outcomes, RM!Directions
<1> QED
  BY <1>1, <1>2 DEF Environment

\* The first half of a resolution, or all of it.
LEMMA BeginResolveRest ==
    ASSUME WInv, NEW m \in Slugs, BeginResolve(m), truth[m] # "open",
           UNCHANGED <<manager, loop, toVisit, decision, logging, listening, rows, lost, truth>>,
           expired' \subseteq Slugs, rotation' = rotation
    PROVE  Rest'
<1>1. markets \in [Slugs -> MarketEntry] /\ truth[m] \in Directions
  BY DEF WInv, TypeOK, MarketEntry
<1>2. /\ markets' \in [Slugs -> MarketEntry]
      /\ \A s \in Slugs : markets'[s].outcome \in {markets[s].outcome, truth[s]}
      /\ resolving' \in {resolving, {m}}
  <2>1. CASE UnlockedReads
    <3>1. markets[m] \in MarketEntry
      BY <1>1
    <3>2. markets' = [markets EXCEPT ![m] = [markets[m] EXCEPT !.status = "resolved"]]
      BY <2>1, Zenon DEF BeginResolve
    <3>3. markets' = [markets EXCEPT ![m] = [status |-> "resolved",
                                             outcome |-> markets[m].outcome]]
      BY <1>1, <3>1, <3>2, EntryExcept
    <3> QED
      BY <1>1, <2>1, <3>3 DEF BeginResolve, MarketEntry
  <2>2. CASE ~UnlockedReads
    BY <1>1, <2>2 DEF BeginResolve, MarketEntry, RM!Outcomes, RM!Directions, Directions
  <2> QED
    BY <2>1, <2>2
<1>3. Cardinality({m}) = 1
  BY FS_Singleton
<1>4. TypeOK'
  <2>1. resolving' \in SUBSET Slugs /\ Cardinality(resolving') <= 1
    <3>1. CASE resolving' = resolving
      BY <3>1 DEF WInv, TypeOK
    <3>2. CASE resolving' = {m}
      BY <1>3, <3>2
    <3> QED
      BY <1>2, <3>1, <3>2
  <2>2. markets' \in [Slugs -> [status : {"unknown", "trading", "resolved"},
                               outcome : RM!Outcomes]]
    BY <1>2 DEF MarketEntry
  <2> QED
    BY <2>1, <2>2 DEF WInv, TypeOK, OpenPositions, manager
<1> QED
  BY <1>2, <1>4 DEF WInv, Rest, Locals, ResolvingDecided, OutcomeTrue, TypeOK, manager

LEMMA StreamRest ==
    ASSUME WInv, Stream
    PROVE  Rest'
<1>1. CASE EndResolve
  <2>1. PICK m \in resolving : markets' = [markets EXCEPT ![m].outcome = truth[m]]
    BY <1>1 DEF EndResolve
  <2>2. markets \in [Slugs -> MarketEntry] /\ m \in Slugs /\ truth[m] \in Directions
    BY DEF WInv, TypeOK, MarketEntry, ResolvingDecided
  <2>3. markets' = [markets EXCEPT ![m] = [markets[m] EXCEPT !.outcome = truth[m]]]
    BY <2>1, Zenon
  <2>4. markets' = [markets EXCEPT ![m] = [status |-> markets[m].status, outcome |-> truth[m]]]
    <3>1. markets[m] \in MarketEntry
      BY <2>2
    <3> QED
      BY <2>2, <2>3, <3>1, EntryExcept
  <2>5. Cardinality({}) = 0
    BY FS_EmptySet
  <2>6. TypeOK'
    BY <1>1, <2>2, <2>4, <2>5
    DEF EndResolve, WInv, TypeOK, OpenPositions, MarketEntry, RM!Outcomes, RM!Directions,
        Directions, manager, signals, rotator
  <2> QED
    BY <1>1, <2>2, <2>4, <2>6
    DEF EndResolve, WInv, Rest, Locals, ResolvingDecided, OutcomeTrue, TypeOK, MarketEntry,
        manager, signals, log
<1>2. ASSUME NEW m \in Slugs, OnMarketResolved(m) PROVE Rest'
  <2>1. expired' \subseteq Slugs
    BY <1>2 DEF OnMarketResolved, rotator, WInv, TypeOK
  <2> QED
    BY <1>2, <2>1, BeginResolveRest DEF OnMarketResolved, signals, rotator, log
<1> QED
  BY <1>1, <1>2 DEF Stream

LEMMA RotationRest ==
    ASSUME WInv, RotationLoop
    PROVE  Rest'
<1>1. ASSUME NEW found \in SUBSET Discoverable, Rotate(found) PROVE Rest'
  BY <1>1
  DEF Rotate, Registered, Known, Trading, Discoverable, WInv, Rest, TypeOK, Locals,
      ResolvingDecided, OutcomeTrue, OpenPositions, RM!Outcomes, manager, signals, log
<1>2. CASE CollectExpired
  BY <1>2
  DEF CollectExpired, ExpiredPositions, WInv, Rest, TypeOK, Locals, ResolvingDecided,
      OutcomeTrue, OpenPositions, manager, hub, signals, log
<1>3. ASSUME NEW m \in Slugs, CheckResolved(m) PROVE Rest'
  <2>1. expired' \subseteq Slugs
    BY <1>3 DEF CheckResolved, WInv, TypeOK
  <2>2. CASE markets[m].status # "resolved"
    BY <1>3, <2>1, <2>2, BeginResolveRest DEF CheckResolved, signals, log
  <2>3. CASE markets[m].status = "resolved"
    BY <1>3, <2>1, <2>3
    DEF CheckResolved, WInv, Rest, TypeOK, Locals, ResolvingDecided, OutcomeTrue,
        OpenPositions, manager, signals, log
  <2> QED
    BY <2>2, <2>3
<1>4. ASSUME NEW m \in Slugs, CheckUnresolved(m) PROVE Rest'
  BY <1>4
  DEF CheckUnresolved, WInv, Rest, TypeOK, Locals, ResolvingDecided, OutcomeTrue,
      OpenPositions, manager, hub, signals, log
<1>5. CASE RotateEnd
  BY <1>5
  DEF RotateEnd, WInv, Rest, TypeOK, Locals, ResolvingDecided, OutcomeTrue,
      OpenPositions, manager, hub, signals, log
<1> QED
  BY <1>1, <1>2, <1>3, <1>4, <1>5 DEF RotationLoop

\* A settlement: the rows keep their trades, the manager drops the position.
LEMMA SettleVisitRest ==
    ASSUME WInv, RM!IInv', NEW m \in Slugs, SettleVisit(m)
    PROVE  Rest'
<1> DEFINE won == RM!DidWin(positions[m].dir, markets[m].outcome)
           pnl == RM!PnL(positions[m], won)
<1>1. positions' = [positions EXCEPT ![m] = NoPosition] /\ order' = order
  BY DEF SettleVisit, RM!SettlePosition
<1>2. positions \in [Slugs -> RM!Position \cup {NoPosition}]
  BY DEF WInv, RM!IInv, RM!TypeOK
<1>3. TypeOK'
  BY <1>1, <1>2 DEF SettleVisit, WInv, TypeOK, OpenPositions, hub, rotator
<1>4. won \in BOOLEAN /\ pnl \in Int
  <2>1. bankroll \in Int /\ bankroll' \in Int /\ bankroll' = bankroll + pnl
    BY DEF WInv, RM!IInv, RM!TypeOK, SettleVisit, RM!SettlePosition
  <2>2. positions[m] \in RM!Position
    BY <1>2 DEF SettleVisit, RM!SettlePosition
  <2> QED
    BY <2>2, PnLInt DEF RM!DidWin
<1>5. rows' \in Seq(Row) /\ lost' \subseteq Slugs
  <2>1. rows' \in {rows, SettleRows(m, won, pnl)} /\ lost' \in {lost, lost \cup {m}}
    BY DEF SettleVisit, OnSettle
  <2> HIDE DEF won, pnl
  <2>2. SettleRows(m, won, pnl) \in Seq(Row)
    BY <1>4, SettleRowsAt DEF WInv, Locals
  <2> QED
    BY <2>1, <2>2 DEF WInv, Locals
<1> QED
  BY <1>3, <1>5
  DEF SettleVisit, WInv, Rest, Locals, ResolvingDecided, OutcomeTrue, hub, rotator

LEMMA SignalRest ==
    ASSUME WInv, RM!IInv', SignalLoop
    PROVE  Rest'
<1> USE DEF WInv, Rest, TypeOK, Locals, ResolvingDecided, OutcomeTrue, OpenPositions
<1>1. CASE SettleBegin
  BY <1>1 DEF SettleBegin, manager, hub, rotator, log
<1>2. ASSUME NEW m \in Slugs, SettleSkip(m) PROVE Rest'
  BY <1>2 DEF SettleSkip, manager, hub, rotator, log
<1>3. ASSUME NEW m \in Slugs, SettleVisit(m) PROVE Rest'
  BY <1>3, SettleVisitRest
<1>4. ASSUME NEW m \in Slugs, NEW d \in Directions, NEW p \in ModelProbs,
             Decide(m, d, p)
      PROVE  Rest'
  BY <1>4 DEF Decide, Decision, manager, hub, rotator, log
<1>5. CASE Hold
  BY <1>5 DEF Hold, manager, hub, rotator, log
<1>6. ASSUME NEW ask \in Asks \cup {NoAsk}, Evaluate(ask) PROVE Rest'
  BY <1>6 DEF Evaluate, RM!Evaluate, hub, rotator
<1>7. CASE OpenPosition
  <2>1. positions \in [Slugs -> RM!Position \cup {NoPosition}] /\ order \in RM!Order
    BY <1>7 DEF RM!IInv, RM!TypeOK, OpenPosition, RM!OpenPosition
  <2>2. \A m \in Slugs : positions[m] # NoPosition => positions'[m] # NoPosition
    BY <1>7, <2>1, Shared
    DEF OpenPosition, RM!OpenPosition, RM!SentinelAssumption, RM!Position, RM!Order
  <2> QED
    BY <1>7, <2>1, <2>2 DEF OpenPosition, RM!OpenPosition, hub, rotator
<1>8. CASE LogTrade
  <2>1. logging \in RM!Order /\ rows \in Seq(Row)
    BY <1>8 DEF LogTrade
  <2>2. rows' \in Seq(Row) /\ lost' \subseteq Slugs
    <3> DEFINE row == [slug |-> logging.slug, dir |-> logging.dir, price |-> logging.price,
                       cost |-> logging.cost, status |-> "open", pnl |-> 0]
    <3>1. row \in Row
      BY <2>1 DEF RM!Order, RM!Directions, Directions, Row
    <3>2. Append(rows, row) \in Seq(Row)
      BY <2>1, <3>1, AppendProperties
    <3>3. logging.slug \in Slugs
      BY <2>1 DEF RM!Order
    <3> QED
      BY <1>8, <2>1, <3>2, <3>3 DEF LogTrade
  <2> QED
    BY <1>8, <2>2 DEF LogTrade, manager, hub, rotator
<1> QED
  BY <1>1, <1>2, <1>3, <1>4, <1>5, <1>6, <1>7, <1>8 DEF SignalLoop

LEMMA CrashRest ==
    ASSUME WInv, Crash
    PROVE  Rest'
<1>1. Cardinality({}) = 0
  BY FS_EmptySet
<1> QED
  BY <1>1
  DEF Crash, RM!NewManager, Unknown, WInv, Rest, TypeOK, Locals, ResolvingDecided,
      OutcomeTrue, OpenPositions, RM!Outcomes

LEMMA BootRest ==
    ASSUME WInv, NEW found \in SUBSET Discoverable, Boot(found)
    PROVE  Rest'
BY DEF Boot, Registered, Trading, Discoverable, WInv, Rest, TypeOK, Locals,
       ResolvingDecided, OutcomeTrue, OpenPositions, RM!Outcomes, manager, rotator, log

LEMMA NextWInv == WInv /\ [Next]_vars => WInv'
<1> SUFFICES ASSUME WInv, [Next]_vars PROVE WInv'
  OBVIOUS
<1>1. RM!IInv'
  BY StepOfManager, ManagerNext DEF WInv
<1>2. CASE UNCHANGED vars
  <2>1. Rest'
    BY <1>2
    DEF vars, WInv, Rest, TypeOK, Locals, ResolvingDecided, OutcomeTrue, OpenPositions,
        manager, hub, signals, rotator, log
  <2> QED
    BY <1>1, <2>1 DEF WInv, Rest
<1>3. CASE Next
  <2>1. Rest'
    BY <1>1, <1>3, SignalRest, RotationRest, StreamRest, EnvironmentRest, CrashRest, BootRest
    DEF Next
  <2> QED
    BY <1>1, <2>1 DEF WInv, Rest
<1> QED
  BY <1>2, <1>3

-----------------------------------------------------------------------------
(* The trade log                                                           *)

\* Steps that leave the positions, the bankroll and the rows alone.
Quiet ==
    /\ UNCHANGED <<positions, bankroll, savedBankroll, rows, lost, unsaved>>
    /\ loop = "logging" <=> loop' = "logging"
    /\ loop = "logging" => logging' = logging
    /\ \A m \in Slugs : truth[m] # "open" => truth'[m] = truth[m]

LEMMA QuietSteps ==
    ASSUME WInv, [Next]_vars
    PROVE  Quiet \/ OpenPosition \/ LogTrade \/ Crash \/ \E m \in Slugs : SettleVisit(m)
<1>1. CASE SignalLoop
  <2>1. CASE SettleBegin \/ Hold
    BY <2>1 DEF SettleBegin, Hold, manager, log, Quiet
  <2>2. ASSUME NEW m \in Slugs, SettleSkip(m) PROVE Quiet
    BY <2>2 DEF SettleSkip, manager, log, Quiet
  <2>3. ASSUME NEW m \in Slugs, NEW d \in Directions, NEW p \in ModelProbs,
               Decide(m, d, p)
        PROVE  Quiet
    BY <2>3 DEF Decide, manager, log, Quiet
  <2>4. ASSUME NEW ask \in Asks \cup {NoAsk}, Evaluate(ask) PROVE Quiet
    BY <2>4 DEF Evaluate, RM!Evaluate, RM!account, Quiet
  <2> QED
    BY <1>1, <2>1, <2>2, <2>3, <2>4 DEF SignalLoop
<1>2. CASE RotationLoop
  BY <1>2 DEF RotationLoop, Rotate, CollectExpired, CheckResolved, CheckUnresolved,
     RotateEnd, manager, signals, log, Quiet
<1>3. CASE Stream
  BY <1>3 DEF Stream, EndResolve, OnMarketResolved, manager, signals, log, Quiet
<1>4. CASE Tick
  BY <1>4 DEF Tick, manager, signals, log, Quiet
<1>5. ASSUME NEW m \in Slugs, NEW side \in Directions, Close(m, side) PROVE Quiet
  BY <1>5 DEF Close, WInv, TypeOK, manager, signals, log, Quiet
<1>6. CASE \E found \in SUBSET Discoverable : Boot(found)
  BY <1>6 DEF Boot, manager, log, Quiet
<1>7. CASE UNCHANGED vars
  BY <1>7 DEF vars, manager, signals, log, Quiet
<1> QED
  BY <1>1, <1>2, <1>3, <1>4, <1>5, <1>6, <1>7 DEF Next, Environment

LEMMA QuietLogInv ==
    ASSUME BotInv, Quiet
    PROVE  LogInv'
<1>1. LoggingOpen' /\ BankrollSaved'
  BY DEF BotInv, LogInv, Quiet, LoggingOpen, BankrollSaved
<1>2. OpenPositionLogged'
  BY DEF BotInv, LogInv, Quiet, OpenPositionLogged, OpenPositions, UnsettledRows
<1>3. LoneRowSettlesOwnTrade'
  <2>1. \A i \in DOMAIN rows : rows[i] \in Row
    BY ElementOfSeq DEF BotInv, WInv, Locals
  <2>2. \A i \in DOMAIN rows : rows[i].dir = truth[rows[i].slug] =>
            rows[i].dir = truth'[rows[i].slug]
    BY <2>1 DEF Quiet, Row, Directions
  <2> QED
    BY <2>2 DEF BotInv, LogInv, Quiet, LoneRowSettlesOwnTrade
<1> QED
  BY <1>1, <1>2, <1>3 DEF LogInv

\* The new position is the one that LogTrade is about to write; the others
\* have their rows, since the loop was not logging.
LEMMA OpenPositionLogInv ==
    ASSUME BotInv, OpenPosition
    PROVE  LogInv'
<1>1. /\ order \in RM!Order /\ order.slug \in Slugs
      /\ positions \in [Slugs -> RM!Position \cup {NoPosition}]
  BY DEF BotInv, WInv, RM!IInv, RM!TypeOK, OpenPosition, RM!OpenPosition, RM!Order
<1>2. LoggingOpen'
  BY <1>1 DEF OpenPosition, RM!OpenPosition, LoggingOpen
<1>3. OpenPositionLogged'
  <2> SUFFICES ASSUME NEW m \in OpenPositions' \ lost', m # order.slug
               PROVE  \E i \in UnsettledRows(m)' :
                         /\ rows'[i].dir = positions'[m].dir
                         /\ rows'[i].price = positions'[m].price
                         /\ rows'[i].cost = positions'[m].cost
    BY DEF OpenPositionLogged, OpenPosition
  <2>1. positions'[m] = positions[m] /\ m \in OpenPositions \ lost
    BY <1>1 DEF OpenPosition, RM!OpenPosition, OpenPositions
  <2> QED
    BY <2>1 DEF BotInv, LogInv, OpenPositionLogged, OpenPosition, UnsettledRows
<1>4. BankrollSaved' /\ LoneRowSettlesOwnTrade'
  BY DEF BotInv, LogInv, OpenPosition, RM!OpenPosition, RM!account, BankrollSaved,
     LoneRowSettlesOwnTrade
<1> QED
  BY <1>2, <1>3, <1>4 DEF LogInv

\* The new row is that of the position that was waiting for it.
LEMMA LogTradeLogInv ==
    ASSUME BotInv, LogTrade
    PROVE  LogInv'
<1> DEFINE row == [slug |-> logging.slug, dir |-> logging.dir, price |-> logging.price,
                   cost |-> logging.cost, status |-> "open", pnl |-> 0]
<1>1. rows \in Seq(Row) /\ logging \in RM!Order
  BY DEF BotInv, WInv, TypeOK, Locals, LogTrade
<1>2. LoggingOpen' /\ BankrollSaved'
  BY DEF BotInv, LogInv, LogTrade, LoggingOpen, BankrollSaved, manager
<1>3. CASE rows' = Append(rows, row) /\ lost' = lost
  <2>1. /\ DOMAIN rows' = 1 .. (Len(rows) + 1) /\ Len(rows) \in Nat
        /\ DOMAIN rows = 1..Len(rows)
        /\ rows'[Len(rows) + 1] = row
        /\ \A i \in 1..Len(rows) : rows'[i] = rows[i]
    <3>1. row \in Row
      BY <1>1 DEF RM!Order, RM!Directions, Directions, Row
    <3> HIDE DEF row
    <3> QED
      BY <1>1, <1>3, <3>1, AppendProperties
  <2>2. OpenPositionLogged'
    <3> SUFFICES ASSUME NEW m \in OpenPositions \ lost
                 PROVE  \E i \in UnsettledRows(m)' :
                           /\ rows'[i].dir = positions[m].dir
                           /\ rows'[i].price = positions[m].price
                           /\ rows'[i].cost = positions[m].cost
      BY <1>3 DEF OpenPositionLogged, LogTrade, manager, OpenPositions
    <3>1. CASE logging.slug = m
      <4>1. Len(rows) + 1 \in UnsettledRows(m)'
        BY <2>1, <3>1 DEF UnsettledRows
      <4>2. positions[m] = [dir |-> logging.dir, price |-> logging.price,
                            cost |-> logging.cost]
        BY <3>1 DEF BotInv, LogInv, LoggingOpen, LogTrade
      <4> QED
        BY <2>1, <4>1, <4>2
    <3>2. CASE logging.slug # m
      <4>1. PICK i \in UnsettledRows(m) : /\ rows[i].dir = positions[m].dir
                                          /\ rows[i].price = positions[m].price
                                          /\ rows[i].cost = positions[m].cost
        BY <3>2 DEF BotInv, LogInv, OpenPositionLogged
      <4>2. i \in UnsettledRows(m)' /\ rows'[i] = rows[i]
        BY <2>1, <4>1 DEF UnsettledRows
      <4> QED
        BY <4>1, <4>2
    <3> QED
      BY <3>1, <3>2
  <2>3. LoneRowSettlesOwnTrade'
    <3> SUFFICES ASSUME NEW i \in DOMAIN rows', rows'[i].status # "open",
                        rows'[i].slug \notin lost',
                        \A j \in DOMAIN rows' \ {i} : rows'[j].slug # rows'[i].slug
                 PROVE  /\ rows'[i].pnl = RM!PnL(rows'[i], rows'[i].status = "won")
                        /\ rows'[i].status = "won" => rows'[i].dir = truth'[rows'[i].slug]
      BY DEF LoneRowSettlesOwnTrade
    <3>1. i \in DOMAIN rows /\ rows'[i] = rows[i]
      BY <2>1
    <3>2. \A j \in DOMAIN rows \ {i} : rows[j].slug # rows[i].slug
      BY <2>1, <3>1
    <3> QED
      BY <1>3, <3>1, <3>2 DEF BotInv, LogInv, LoneRowSettlesOwnTrade, LogTrade
  <2> QED
    BY <1>2, <2>2, <2>3 DEF LogInv
<1>4. CASE rows' = rows /\ lost' = lost \cup {logging.slug}
  <2>1. OpenPositionLogged'
    BY <1>4 DEF BotInv, LogInv, OpenPositionLogged, OpenPositions, UnsettledRows,
       LogTrade, manager
  <2>2. LoneRowSettlesOwnTrade'
    BY <1>4 DEF BotInv, LogInv, LoneRowSettlesOwnTrade, LogTrade
  <2> QED
    BY <1>2, <2>1, <2>2 DEF LogInv
<1> QED
  BY <1>3, <1>4 DEF LogTrade

\* The process ends: a restart restores what was saved, or says that it may
\* have not.
LEMMA CrashLogInv ==
    ASSUME BotInv, Crash
    PROVE  LogInv'
<1>1. OpenPositions' = {}
  BY DEF Crash, RM!NewManager, OpenPositions
<1>2. LoggingOpen' /\ BankrollSaved' /\ OpenPositionLogged'
  BY <1>1 DEF Crash, RM!NewManager, LoggingOpen, BankrollSaved, OpenPositionLogged
<1>3. LoneRowSettlesOwnTrade'
  BY DEF BotInv, LogInv, LoneRowSettlesOwnTrade, Crash
<1> QED
  BY <1>2, <1>3 DEF LogInv

\* The rows of the settled window are updated, those of the others kept.  As
\* long as its writes succeeded, the window has an unsettled row, that of the
\* position, so that the bankroll is saved.
LEMMA SettleVisitLogInv ==
    ASSUME BotInv, NEW m \in Slugs, SettleVisit(m)
    PROVE  LogInv'
<1> DEFINE won == RM!DidWin(positions[m].dir, markets[m].outcome)
           pnl == RM!PnL(positions[m], won)
           Logged(s, i) == /\ rows[i].dir = positions[s].dir
                           /\ rows[i].price = positions[s].price
                           /\ rows[i].cost = positions[s].cost
<1>1. /\ loop = "settling" /\ loop' = "settling"
      /\ UNCHANGED truth
      /\ positions[m] # NoPosition
      /\ positions \in [Slugs -> RM!Position \cup {NoPosition}]
      /\ positions' = [positions EXCEPT ![m] = NoPosition]
      /\ rows \in Seq(Row)
  BY DEF SettleVisit, RM!SettlePosition, BotInv, WInv, RM!IInv, RM!TypeOK, Locals
<1>2. won \in BOOLEAN /\ pnl \in Int
  BY <1>1, PnLInt DEF RM!DidWin
<1>3. LoggingOpen'
  BY <1>1 DEF LoggingOpen
<1>4. m \notin lost => \E i \in UnsettledRows(m) : Logged(m, i)
  BY <1>1 DEF BotInv, LogInv, OpenPositionLogged, OpenPositions
<1>5. CASE /\ rows' = SettleRows(m, won, pnl) /\ lost' = lost /\ unsaved' = (m \in lost')
           /\ savedBankroll' = IF UnsettledRows(m) = {} THEN savedBankroll ELSE bankroll'
  <2>1. /\ DOMAIN rows' = DOMAIN rows
        /\ \A i \in DOMAIN rows :
              rows'[i] = IF i \in UnsettledRows(m) THEN Settled(rows[i], won, pnl)
                         ELSE rows[i]
    <3> HIDE DEF won, pnl
    <3> QED
      BY <1>1, <1>2, <1>5, SettleRowsAt
  <2>2. BankrollSaved'
    BY <1>4, <1>5 DEF BankrollSaved
  <2>3. OpenPositionLogged'
    <3> SUFFICES ASSUME NEW s \in OpenPositions' \ lost'
                 PROVE  \E i \in UnsettledRows(s)' :
                           /\ rows'[i].dir = positions'[s].dir
                           /\ rows'[i].price = positions'[s].price
                           /\ rows'[i].cost = positions'[s].cost
      BY DEF OpenPositionLogged
    <3>1. s # m /\ positions'[s] = positions[s] /\ s \in OpenPositions \ lost
      BY <1>1, <1>5 DEF OpenPositions
    <3>2. PICK i \in UnsettledRows(s) : Logged(s, i)
      BY <1>1, <3>1 DEF BotInv, LogInv, OpenPositionLogged
    <3>3. i \in UnsettledRows(s)' /\ rows'[i] = rows[i]
      BY <2>1, <3>1, <3>2 DEF UnsettledRows
    <3> QED
      BY <3>1, <3>2, <3>3
  <2>4. LoneRowSettlesOwnTrade'
    <3> SUFFICES ASSUME NEW i \in DOMAIN rows', rows'[i].status # "open",
                        rows'[i].slug \notin lost',
                        \A j \in DOMAIN rows' \ {i} : rows'[j].slug # rows'[i].slug
                 PROVE  /\ rows'[i].pnl = RM!PnL(rows'[i], rows'[i].status = "won")
                        /\ rows'[i].status = "won" => rows'[i].dir = truth'[rows'[i].slug]
      BY DEF LoneRowSettlesOwnTrade
    <3>1. \A j \in DOMAIN rows : rows'[j].slug = rows[j].slug
      BY <2>1 DEF Settled
    <3>2. i \in DOMAIN rows /\ \A j \in DOMAIN rows \ {i} : rows[j].slug # rows[i].slug
      BY <2>1, <3>1
    <3>3. CASE i \notin UnsettledRows(m)
      BY <1>1, <1>5, <2>1, <3>2, <3>3 DEF BotInv, LogInv, LoneRowSettlesOwnTrade
    <3>4. CASE i \in UnsettledRows(m)
      <4>1. rows[i].slug = m /\ Logged(m, i)
        <5>1. m \notin lost /\ rows[i].slug = m
          BY <1>5, <3>1, <3>2, <3>4 DEF UnsettledRows
        <5>2. PICK j \in UnsettledRows(m) : Logged(m, j)
          BY <1>4, <5>1
        <5>3. j = i
          BY <3>2, <5>1, <5>2 DEF UnsettledRows
        <5> QED
          BY <5>1, <5>2, <5>3
      <4>2. rows'[i] = Settled(rows[i], won, pnl)
        BY <2>1, <3>2, <3>4
      <4>3. /\ rows'[i].slug = m /\ rows'[i].dir = positions[m].dir
            /\ rows'[i].price = positions[m].price /\ rows'[i].cost = positions[m].cost
            /\ rows'[i].pnl = pnl /\ (rows'[i].status = "won" <=> won)
        BY <1>2, <4>1, <4>2 DEF Settled
      <4>4. rows'[i].pnl = RM!PnL(rows'[i], rows'[i].status = "won")
        BY <1>2, <4>3 DEF RM!PnL
      <4>5. rows'[i].status = "won" => rows'[i].dir = truth'[rows'[i].slug]
        <5>1. won => positions[m].dir = markets[m].outcome
          BY DEF RM!DidWin
        <5>2. positions[m].dir # "neither"
          BY <1>1 DEF RM!Position, RM!Directions
        <5> QED
          BY <1>1, <4>3, <5>1, <5>2 DEF BotInv, WInv, OutcomeTrue
      <4> QED
        BY <4>4, <4>5
    <3> QED
      BY <3>3, <3>4
  <2> QED
    BY <1>3, <2>2, <2>3, <2>4 DEF LogInv
<1>6. CASE /\ lost' = lost \cup {m} /\ unsaved' = (m \in lost')
           /\ UNCHANGED <<rows, savedBankroll>>
  <2>1. BankrollSaved'
    BY <1>6 DEF BankrollSaved
  <2>2. OpenPositionLogged'
    BY <1>1, <1>6 DEF BotInv, LogInv, OpenPositionLogged, OpenPositions, UnsettledRows
  <2>3. LoneRowSettlesOwnTrade'
    BY <1>1, <1>6 DEF BotInv, LogInv, LoneRowSettlesOwnTrade
  <2> QED
    BY <1>3, <2>1, <2>2, <2>3 DEF LogInv
<1> QED
  BY <1>5, <1>6 DEF SettleVisit, OnSettle

LEMMA InitBotInv == Init => BotInv
<1> SUFFICES ASSUME Init PROVE BotInv
  OBVIOUS
<1>1. LoggingOpen /\ BankrollSaved /\ OpenPositionLogged /\ LoneRowSettlesOwnTrade
  BY DEF Init, RM!Init, LoggingOpen, BankrollSaved, OpenPositionLogged, OpenPositions,
     LoneRowSettlesOwnTrade
<1> QED
  BY <1>1, InitWInv DEF BotInv, LogInv

LEMMA NextBotInv == BotInv /\ [Next]_vars => BotInv'
<1> SUFFICES ASSUME BotInv, [Next]_vars PROVE BotInv'
  OBVIOUS
<1>1. WInv'
  BY NextWInv DEF BotInv
<1>2. LogInv'
  BY QuietSteps, QuietLogInv, OpenPositionLogInv, LogTradeLogInv, CrashLogInv,
     SettleVisitLogInv DEF BotInv
<1> QED
  BY <1>1, <1>2 DEF BotInv

-----------------------------------------------------------------------------
(* The halt, in one process                                                *)

\* The breaker's time is that of the last trip, and the cooldown has passed
\* since then if the halt was lifted.
HaltClock ==
    /\ halted => tripped = haltedAt /\ tripped # Never
    /\ ~halted => tripped = Never \/ now - tripped >= HaltCooldown

LEMMA StillOver ==
    ASSUME NEW t \in Nat, NEW u \in {t, t + 1}, NEW since \in Int, NEW wait \in Nat,
           t - since >= wait
    PROVE  u - since >= wait
OBVIOUS

\* The clock only goes forward.
LEMMA HaltClockKept ==
    ASSUME WInv, HaltClock, tripped \in Int,
           UNCHANGED <<halted, haltedAt, tripped>>, now' \in {now, now + 1}
    PROVE  HaltClock'
<1>1. now \in Nat /\ HaltCooldown \in Nat
  BY Shared DEF WInv, RM!IInv, RM!TypeOK, RM!BreakerAssumption
<1>2. now - tripped >= HaltCooldown => now' - tripped >= HaltCooldown
  BY <1>1, StillOver
<1>3. CASE halted
  BY <1>3 DEF HaltClock
<1>4. CASE ~halted
  BY <1>2, <1>4 DEF HaltClock
<1> QED
  BY <1>3, <1>4

HaltInv == WInv /\ tripped \in Int /\ HaltClock

\* One session is a behaviour without a crash.
LEMMA NoCrash ==
    ASSUME MaxRestarts = 0, WInv
    PROVE  ~Crash
BY DEF WInv, RM!IInv, RM!TypeOK, Crash

LEMMA InitHaltInv == Init => HaltInv
BY InitWInv DEF Init, RM!Init, HaltInv, HaltClock, Never

LEMMA NextHaltInv ==
    ASSUME MaxRestarts = 0, HaltInv, [Next]_vars
    PROVE  HaltInv'
<1>1. WInv'
  BY NextWInv DEF HaltInv
<1>2. now \in Nat /\ haltedAt \in Nat /\ HaltCooldown \in Nat /\ DrawdownLimit \in Nat \ {0}
      /\ halted \in BOOLEAN
  BY Shared DEF HaltInv, WInv, RM!IInv, RM!TypeOK, RM!BreakerAssumption
<1>3. ASSUME NEW m \in Slugs, SettleVisit(m) PROVE HaltInv'
  <2>1. /\ UNCHANGED now
        /\ tripped' = IF halted' /\ ~halted THEN now ELSE tripped
        /\ \/ ~halted /\ halted' /\ haltedAt' = now
           \/ UNCHANGED <<halted, haltedAt>>
    BY <1>3 DEF SettleVisit, RM!SettlePosition, RM!TripBreaker, RM!breaker
  <2>2. tripped' \in Int /\ HaltClock'
    BY <1>2, <2>1 DEF HaltInv, HaltClock, Never
  <2> QED
    BY <1>1, <2>1, <2>2 DEF HaltInv
<1>4. ASSUME NEW ask \in Asks \cup {NoAsk}, Evaluate(ask) PROVE HaltInv'
  <2>1. /\ UNCHANGED <<now, tripped, haltedAt>>
        /\ \/ halted /\ ~halted' /\ now - haltedAt >= HaltCooldown
           \/ UNCHANGED halted
    BY <1>2, <1>4 DEF Evaluate, RM!Evaluate, RM!CheckCooldown, RM!CooldownOver
  <2>2. HaltClock'
    BY <1>2, <2>1 DEF HaltInv, HaltClock
  <2> QED
    BY <1>1, <2>1, <2>2 DEF HaltInv
<1>5. ASSUME UNCHANGED <<halted, haltedAt, tripped>>, now' \in {now, now + 1}
      PROVE  HaltInv'
  BY <1>1, <1>5, HaltClockKept DEF HaltInv
<1>6. ~Crash
  BY NoCrash DEF HaltInv
<1>7. CASE OpenPosition
  BY <1>5, <1>7 DEF OpenPosition, RM!OpenPosition, RM!breaker
<1>8. CASE Tick
  BY <1>5, <1>8 DEF Tick, manager
<1>9. ASSUME NEW m \in Slugs, NEW side \in Directions, Close(m, side) PROVE HaltInv'
  BY <1>5, <1>9 DEF Close, manager
<1>10. CASE Stream
  BY <1>5, <1>10 DEF Stream, EndResolve, OnMarketResolved, manager
<1>11. CASE RotationLoop
  BY <1>5, <1>11 DEF RotationLoop, Rotate, CollectExpired, CheckResolved, CheckUnresolved,
     RotateEnd, manager
<1>12. CASE \E found \in SUBSET Discoverable : Boot(found)
  BY <1>5, <1>12 DEF Boot, manager
<1>13. CASE SettleBegin \/ Hold \/ LogTrade
  BY <1>5, <1>13 DEF SettleBegin, Hold, LogTrade, manager
<1>14. ASSUME NEW m \in Slugs, SettleSkip(m) PROVE HaltInv'
  BY <1>5, <1>14 DEF SettleSkip, manager
<1>15. ASSUME NEW m \in Slugs, NEW d \in Directions, NEW p \in ModelProbs, Decide(m, d, p)
       PROVE  HaltInv'
  BY <1>5, <1>15 DEF Decide, manager
<1>16. CASE UNCHANGED vars
  BY <1>5, <1>16 DEF vars, manager
<1> QED
  BY <1>3, <1>4, <1>6, <1>7, <1>8, <1>9, <1>10, <1>11, <1>12, <1>13, <1>14, <1>15, <1>16
  DEF Next, SignalLoop, Environment

-----------------------------------------------------------------------------
(* The theorems                                                            *)

\* BotInv holds in every state, across crashes at any step, failing writes
\* and torn reads.
THEOREM BotInvariance == Spec => []BotInv
BY InitBotInv, NextBotInv, PTL DEF Spec

\* The two loops use the manager as its module allows: each of their steps is
\* one of its operations or leaves it alone, and a crash takes what
\* LastBankroll returns, or cfg.Bankroll (main.go:136, 342).
THEOREM UsesManagerCorrectly == Spec => RiskManagerSpec
<1>1. Init => RM!Init
  BY DEF Init
<1>2. BotInv /\ [Next]_vars => [RM!Next]_(RM!vars)
  BY StepOfManager DEF BotInv
<1> QED
  BY <1>1, <1>2, BotInvariance, PTL DEF Spec, RiskManagerSpec, RM!Spec

\* So the manager's invariants hold in the bot, the exposure limit and the
\* breaker's bounds among them (manager.go:210, 310).
THEOREM ManagerInvariance == Spec => []RM!IInv
<1>1. BotInv => RM!IInv
  BY DEF BotInv, WInv
<1> QED
  BY <1>1, BotInvariance, PTL

\* The hub's table, the loops' places and their locals keep their types
\* (main.go:308, hub.go:211).
THEOREM BotTypeCorrect == Spec => []TypeOK
<1>1. BotInv => TypeOK
  BY DEF BotInv, WInv
<1> QED
  BY <1>1, BotInvariance, PTL

\* A restart whose query succeeds restores the bankroll, unless a write of
\* the window settled last failed or this process started with a query that
\* failed and has settled nothing since (store.go:251, main.go:136).
THEOREM BankrollSavedCorrect == Spec => []BankrollSaved
<1>1. BotInv => BankrollSaved
  BY DEF BotInv, LogInv
<1> QED
  BY <1>1, BotInvariance, PTL

\* Without a failed write of its window, an open position has its row
\* (main.go:362).
THEOREM OpenPositionLoggedCorrect == Spec => []OpenPositionLogged
<1>1. BotInv => OpenPositionLogged
  BY DEF BotInv, LogInv
<1> QED
  BY <1>1, BotInvariance, PTL

\* The only row of a window without failed writes gets the profit of its own
\* trade, and no win that was none (store.go:152).
THEOREM LoneRowCorrect == Spec => []LoneRowSettlesOwnTrade
<1>1. BotInv => LoneRowSettlesOwnTrade
  BY DEF BotInv, LogInv
<1> QED
  BY <1>1, BotInvariance, PTL

\* In one process, no bet is placed before the cooldown has passed since the
\* breaker tripped (manager.go:353); a restart forgets the halt.
THEOREM HaltLastsCorrect ==
    ASSUME MaxRestarts = 0
    PROVE  Spec => HaltLasts
<1>1. HaltInv /\ [Next]_vars =>
        [\A m \in Slugs : positions[m] = NoPosition /\ positions'[m] # NoPosition
            => tripped = Never \/ now - tripped >= HaltCooldown]_vars
  <2> SUFFICES ASSUME HaltInv, [Next]_vars, NEW m \in Slugs,
                      positions[m] = NoPosition, positions'[m] # NoPosition
               PROVE  tripped = Never \/ now - tripped >= HaltCooldown
    OBVIOUS
  <2>1. CASE OpenPosition
    <3>1. ~halted
      BY <2>1 DEF OpenPosition, RM!OpenPosition, HaltInv, WInv, RM!IInv, RM!OrderFresh
    <3> QED
      BY <3>1 DEF HaltInv, HaltClock
  <2>2. ASSUME NEW s \in Slugs, SettleVisit(s) PROVE FALSE
    BY <2>2 DEF SettleVisit, RM!SettlePosition, HaltInv, WInv, RM!IInv, RM!TypeOK
  <2>3. ~Crash
    BY DEF Crash, RM!NewManager
  <2>4. ~LogTrade
    BY DEF LogTrade, manager
  <2>5. ~Quiet
    BY DEF Quiet
  <2> QED
    BY <2>1, <2>2, <2>3, <2>4, <2>5, QuietSteps DEF HaltInv
<1>2. HaltInv /\ [Next]_vars => HaltInv'
  BY NextHaltInv
<1> QED
  BY <1>1, <1>2, InitHaltInv, PTL DEF Spec, HaltLasts

-----------------------------------------------------------------------------
(***************************************************************************)
(* One session of the bot implements BetLedger, for any number of windows  *)
(* and bets, and with failing writes: a bet is placed on a window at most  *)
(* once and before it closes, and is settled once, by the side that won.   *)
(*                                                                         *)
(* A window is not bet on twice because a settled window is closed         *)
(* (SettledRight), and the loop does not open a position in a closed one   *)
(* (ClosedInTime, DecidedInTime).  The theorems assume that SettleResolved *)
(* does not read a market while it is written; the refinement, that the    *)
(* process does not restart, since a new process forgets its bets.         *)
(***************************************************************************)

\* A side wins only when its window is over.
ClosedInTime == \A m \in Slugs : truth[m] # "open" => now >= End(m)

\* The window that the loop is about to bet on is not over.
DecidedInTime ==
    /\ loop = "evaluating" => now < End(decision.slug)
    /\ loop = "opening" => now < End(order.slug)

ResolvedRight ==
    /\ resolving = {}
    /\ \A m \in Slugs : markets[m].status = "resolved" =>
          truth[m] # "open" /\ markets[m].outcome = truth[m]

Settlement == [slug : Slugs, dir : Directions, won : BOOLEAN]

\* A settlement is final: its window is closed and has no position again, so
\* that it is also the only one of its window.
SettledRight ==
    /\ settlements \in Seq(Settlement)
    /\ \A i \in DOMAIN settlements :
          /\ truth[settlements[i].slug] # "open"
          /\ settlements[i].won <=> settlements[i].dir = truth[settlements[i].slug]
          /\ positions[settlements[i].slug] = NoPosition
    /\ \A i, j \in DOMAIN settlements :
          settlements[i].slug = settlements[j].slug => i = j

Session == ClosedInTime /\ DecidedInTime /\ ResolvedRight /\ SettledRight

LedgerInv == WInv /\ Session

-----------------------------------------------------------------------------
(* LedgerInv is inductive                                                  *)

LEMMA EndInt == \A m \in Slugs : End(m) \in Int
BY WindowAssumption DEF Slugs, End, Start

LEMMA StillLater ==
    ASSUME NEW t \in Int, NEW u \in Int, NEW end \in Int, t >= end, u >= t
    PROVE  u >= end
OBVIOUS

LEMMA NotYet ==
    ASSUME NEW t \in Int, NEW end \in Int, t < end
    PROVE  ~(t >= end)
OBVIOUS

LEMMA InitLedgerInv == Init => LedgerInv
<1> SUFFICES ASSUME Init PROVE LedgerInv
  OBVIOUS
<1>1. settlements \in Seq(Settlement) /\ DOMAIN settlements = {}
  BY EmptySeq DEF Init
<1> QED
  BY <1>1, InitWInv
  DEF Init, LedgerInv, Session, ClosedInTime, DecidedInTime, ResolvedRight, SettledRight,
      Unknown

\* The time passes, or a side wins.
LEMMA EnvironmentSession ==
    ASSUME LedgerInv, Environment
    PROVE  Session'
<1>1. CASE Tick
  <2>1. now \in Int /\ now' \in Int /\ now' >= now
    BY <1>1 DEF Tick, LedgerInv, WInv, RM!IInv, RM!TypeOK
  <2>2. ClosedInTime'
    <3> SUFFICES ASSUME NEW m \in Slugs, truth[m] # "open"
                 PROVE  now' >= End(m)
      BY <1>1 DEF Tick, ClosedInTime
    <3>1. now >= End(m) /\ End(m) \in Int
      BY EndInt DEF LedgerInv, Session, ClosedInTime
    <3> QED
      BY <2>1, <3>1, StillLater
  <2> QED
    BY <1>1, <2>2
    DEF Tick, LedgerInv, Session, DecidedInTime, ResolvedRight, SettledRight, manager, hub,
        signals
<1>2. ASSUME NEW m \in Slugs, NEW side \in Directions, Close(m, side) PROVE Session'
  <2>1. truth' = [truth EXCEPT ![m] = side] /\ truth[m] = "open" /\ now >= End(m)
        /\ side # "open"
    BY <1>2 DEF Close, Directions
  <2>2. truth \in [Slugs -> Directions \cup {"open"}]
    BY DEF LedgerInv, WInv, TypeOK
  <2>3. ClosedInTime'
    BY <1>2, <2>1, <2>2 DEF Close, LedgerInv, Session, ClosedInTime, End, Start
  <2>4. \A s \in Slugs : truth[s] # "open" => truth'[s] = truth[s]
    BY <2>1, <2>2
  <2>5. ResolvedRight'
    BY <1>2, <2>4 DEF Close, LedgerInv, Session, ResolvedRight, hub
  <2>6. SettledRight'
    <3>1. \A i \in DOMAIN settlements : settlements[i].slug \in Slugs
      <4>1. \A i \in DOMAIN settlements : settlements[i] \in Settlement
        BY ElementOfSeq DEF LedgerInv, Session, SettledRight
      <4> QED
        BY <4>1 DEF Settlement
    <3> QED
      BY <1>2, <2>4, <3>1 DEF Close, LedgerInv, Session, SettledRight, manager
  <2> QED
    BY <1>2, <2>3, <2>5, <2>6
    DEF Close, LedgerInv, Session, DecidedInTime, manager, signals, End, Start
<1> QED
  BY <1>1, <1>2 DEF Environment

\* A market becomes resolved with the side that won.
LEMMA BeginResolveSession ==
    ASSUME UnlockedReads = FALSE, LedgerInv, NEW m \in Slugs, truth[m] # "open",
           BeginResolve(m),
           UNCHANGED <<manager, now, settlements, loop, decision, truth>>
    PROVE  Session'
<1>1. markets' = [markets EXCEPT ![m] = [status |-> "resolved", outcome |-> truth[m]]]
      /\ resolving' = resolving
  BY DEF BeginResolve
<1>2. markets \in [Slugs -> MarketEntry]
  BY DEF LedgerInv, WInv, TypeOK, MarketEntry
<1>3. ResolvedRight'
  BY <1>1, <1>2 DEF LedgerInv, Session, ResolvedRight
<1> QED
  BY <1>3
  DEF LedgerInv, Session, ClosedInTime, DecidedInTime, SettledRight, manager, End, Start

LEMMA StreamSession ==
    ASSUME UnlockedReads = FALSE, LedgerInv, Stream
    PROVE  Session'
<1>1. ~EndResolve
  BY DEF EndResolve, LedgerInv, Session, ResolvedRight
<1>2. PICK m \in Slugs : OnMarketResolved(m)
  BY <1>1 DEF Stream
<1> QED
  BY <1>2, BeginResolveSession DEF OnMarketResolved, signals

\* A registration resolves nothing.
LEMMA RegisteredSession ==
    ASSUME LedgerInv, NEW ms \in SUBSET Slugs, markets' = Registered(ms),
           UNCHANGED <<manager, now, settlements, resolving, truth>>,
           (loop' = loop /\ decision' = decision) \/ loop' = "idle"
    PROVE  Session'
<1>1. ResolvedRight'
  BY DEF Registered, Trading, LedgerInv, Session, ResolvedRight
<1> QED
  BY <1>1
  DEF LedgerInv, Session, ClosedInTime, DecidedInTime, SettledRight, manager, End, Start

LEMMA RotationSession ==
    ASSUME UnlockedReads = FALSE, LedgerInv, RotationLoop
    PROVE  Session'
<1> USE DEF LedgerInv, Session, ClosedInTime, DecidedInTime, ResolvedRight, SettledRight
<1>1. ASSUME NEW found \in SUBSET Discoverable, Rotate(found) PROVE Session'
  BY <1>1, RegisteredSession DEF Rotate, Discoverable, signals
<1>2. CASE CollectExpired \/ RotateEnd
  BY <1>2 DEF CollectExpired, RotateEnd, manager, hub, signals, End, Start
<1>3. ASSUME NEW m \in Slugs, CheckResolved(m) PROVE Session'
  <2>1. CASE markets[m].status # "resolved"
    BY <1>3, <2>1, BeginResolveSession DEF CheckResolved, signals
  <2>2. CASE markets[m].status = "resolved"
    BY <1>3, <2>2 DEF CheckResolved, manager, signals, End, Start
  <2> QED
    BY <2>1, <2>2
<1>4. ASSUME NEW m \in Slugs, CheckUnresolved(m) PROVE Session'
  BY <1>4 DEF CheckUnresolved, manager, hub, signals, End, Start
<1> QED
  BY <1>1, <1>2, <1>3, <1>4 DEF RotationLoop

\* A settlement is appended for a window that had its position until now.
LEMMA SettleVisitSession ==
    ASSUME LedgerInv, NEW m \in Slugs, SettleVisit(m)
    PROVE  Session'
<1> DEFINE won == RM!DidWin(positions[m].dir, markets[m].outcome)
           s == [slug |-> m, dir |-> positions[m].dir, won |-> won]
<1>1. /\ positions[m] # NoPosition
      /\ positions \in [Slugs -> RM!Position \cup {NoPosition}]
      /\ positions' = [positions EXCEPT ![m] = NoPosition]
      /\ UNCHANGED <<now, order, markets, resolving, loop, decision, truth>>
  BY DEF SettleVisit, RM!SettlePosition, LedgerInv, WInv, RM!IInv, RM!TypeOK, hub
<1>2. /\ settlements' = Append(settlements, s)
      /\ truth[m] # "open" /\ markets[m].outcome = truth[m]
  BY DEF SettleVisit, LedgerInv, Session, ResolvedRight
<1>3. settlements \in Seq(Settlement) /\ s \in Settlement
  BY <1>1 DEF LedgerInv, Session, SettledRight, Settlement, RM!Position, RM!Directions,
     Directions, RM!DidWin
<1>4. /\ settlements' \in Seq(Settlement)
      /\ Len(settlements) \in Nat /\ DOMAIN settlements = 1..Len(settlements)
      /\ DOMAIN settlements' = 1..(Len(settlements) + 1)
      /\ settlements'[Len(settlements) + 1] = s
      /\ \A i \in DOMAIN settlements : settlements'[i] = settlements[i]
  <2> HIDE DEF s
  <2> QED
    BY <1>2, <1>3, AppendProperties
<1>5. \A i \in DOMAIN settlements : settlements[i] \in Settlement
  BY <1>3, ElementOfSeq
<1>6. \A i \in DOMAIN settlements :
          /\ settlements[i].slug # m
          /\ positions'[settlements[i].slug] = NoPosition
  BY <1>1, <1>5 DEF LedgerInv, Session, SettledRight, Settlement
<1>7. SettledRight'
  <2>1. \A i \in DOMAIN settlements' : i \in DOMAIN settlements \/ i = Len(settlements) + 1
    BY <1>4
  <2>2. s.slug = m /\ s.dir = positions[m].dir /\ s.won = (s.dir = truth[m])
    BY <1>2 DEF RM!DidWin
  <2>3. positions'[m] = NoPosition
    BY <1>1
  <2>4. \A i, j \in DOMAIN settlements' :
            settlements'[i].slug = settlements'[j].slug => i = j
    <3> SUFFICES ASSUME NEW i \in DOMAIN settlements', NEW j \in DOMAIN settlements',
                        settlements'[i].slug = settlements'[j].slug
                 PROVE  i = j
      OBVIOUS
    <3> HIDE DEF s
    <3>1. CASE i \in DOMAIN settlements /\ j \in DOMAIN settlements
      BY <1>4, <3>1 DEF LedgerInv, Session, SettledRight
    <3>2. CASE ~(i \in DOMAIN settlements /\ j \in DOMAIN settlements)
      BY <1>4, <1>6, <2>1, <2>2, <3>2
    <3> QED
      BY <3>1, <3>2
  <2>5. ASSUME NEW i \in DOMAIN settlements'
        PROVE  /\ truth'[settlements'[i].slug] # "open"
               /\ settlements'[i].won <=> settlements'[i].dir = truth'[settlements'[i].slug]
               /\ positions'[settlements'[i].slug] = NoPosition
    <3> HIDE DEF s
    <3>1. CASE i \in DOMAIN settlements
      BY <1>1, <1>4, <1>6, <3>1 DEF LedgerInv, Session, SettledRight
    <3>2. CASE i = Len(settlements) + 1
      BY <1>1, <1>2, <1>4, <2>2, <2>3, <3>2
    <3> QED
      BY <2>1, <3>1, <3>2
  <2> HIDE DEF s
  <2> QED
    BY <1>4, <2>4, <2>5 DEF SettledRight
<1> QED
  BY <1>1, <1>7
  DEF LedgerInv, Session, ClosedInTime, DecidedInTime, ResolvedRight, End, Start

\* A new position is in a window that is not closed, hence not settled.
LEMMA OpenPositionSession ==
    ASSUME LedgerInv, OpenPosition
    PROVE  /\ Session'
           /\ truth[order.slug] = "open"
           /\ \A i \in DOMAIN settlements : settlements[i].slug # order.slug
<1>1. /\ order.slug \in Slugs /\ now \in Int
      /\ positions \in [Slugs -> RM!Position \cup {NoPosition}]
  BY DEF LedgerInv, WInv, RM!IInv, RM!TypeOK, OpenPosition, RM!OpenPosition, RM!Order
<1>2. truth[order.slug] = "open"
  <2>1. now < End(order.slug) /\ End(order.slug) \in Int
    BY <1>1, EndInt DEF LedgerInv, Session, DecidedInTime, OpenPosition
  <2>2. ~(now >= End(order.slug))
    BY <1>1, <2>1, NotYet
  <2> QED
    BY <1>1, <2>2 DEF LedgerInv, Session, ClosedInTime
<1>3. \A i \in DOMAIN settlements : settlements[i].slug # order.slug
  BY <1>2 DEF LedgerInv, Session, SettledRight
<1>4. SettledRight'
  <2>1. \A i \in DOMAIN settlements : settlements[i].slug \in Slugs
    <3>1. \A i \in DOMAIN settlements : settlements[i] \in Settlement
      BY ElementOfSeq DEF LedgerInv, Session, SettledRight
    <3> QED
      BY <3>1 DEF Settlement
  <2> QED
    BY <1>1, <1>3, <2>1
    DEF LedgerInv, Session, SettledRight, OpenPosition, RM!OpenPosition
<1> QED
  BY <1>2, <1>3, <1>4
  DEF LedgerInv, Session, ClosedInTime, DecidedInTime, ResolvedRight, OpenPosition,
      RM!OpenPosition, hub, End, Start

LEMMA SignalSession ==
    ASSUME LedgerInv, SignalLoop
    PROVE  Session'
<1> USE DEF LedgerInv, Session, ClosedInTime, DecidedInTime, ResolvedRight, SettledRight
<1>1. CASE SettleBegin \/ Hold
  BY <1>1 DEF SettleBegin, Hold, manager, hub, End, Start
<1>2. ASSUME NEW m \in Slugs, SettleSkip(m) PROVE Session'
  BY <1>2 DEF SettleSkip, manager, hub, End, Start
<1>3. ASSUME NEW m \in Slugs, SettleVisit(m) PROVE Session'
  BY <1>3, SettleVisitSession
<1>4. ASSUME NEW m \in Slugs, NEW d \in Directions, NEW p \in ModelProbs,
             Decide(m, d, p)
      PROVE  Session'
  <2>1. DecidedInTime'
    BY <1>4 DEF Decide, CurrentMarkets
  <2> QED
    BY <1>4, <2>1 DEF Decide, manager, hub, End, Start
<1>5. ASSUME NEW ask \in Asks \cup {NoAsk}, Evaluate(ask) PROVE Session'
  <2>1. DecidedInTime'
    BY <1>5 DEF Evaluate, RM!Evaluate
  <2> QED
    BY <1>5, <2>1 DEF Evaluate, RM!Evaluate, hub, End, Start
<1>6. CASE OpenPosition
  BY <1>6, OpenPositionSession
<1>7. CASE LogTrade
  BY <1>7 DEF LogTrade, manager, hub, End, Start
<1> QED
  BY <1>1, <1>2, <1>3, <1>4, <1>5, <1>6, <1>7 DEF SignalLoop

\* A new process knows no market and has settled nothing.
LEMMA CrashSession ==
    ASSUME LedgerInv, Crash
    PROVE  Session'
<1>1. SettledRight'
  <2>1. settlements' \in Seq(Settlement) /\ DOMAIN settlements' = {}
    BY EmptySeq DEF Crash
  <2> QED
    BY <2>1 DEF SettledRight
<1>2. ClosedInTime'
  BY DEF Crash, LedgerInv, Session, ClosedInTime, End, Start
<1>3. DecidedInTime'
  BY DEF Crash, DecidedInTime
<1>4. ResolvedRight'
  <2>1. resolving' = {} /\ \A m \in Slugs : markets'[m].status = "unknown"
    BY DEF Crash, Unknown
  <2> QED
    BY <2>1 DEF ResolvedRight
<1> QED
  BY <1>1, <1>2, <1>3, <1>4 DEF Session

LEMMA NextLedgerInv ==
    ASSUME UnlockedReads = FALSE, LedgerInv, [Next]_vars
    PROVE  LedgerInv'
<1>1. WInv'
  BY NextWInv DEF LedgerInv
<1>2. ASSUME NEW found \in SUBSET Discoverable, Boot(found) PROVE Session'
  BY <1>2, RegisteredSession DEF Boot, Discoverable
<1>3. CASE UNCHANGED vars
  BY <1>1, <1>3
  DEF vars, LedgerInv, Session, ClosedInTime, DecidedInTime, ResolvedRight, SettledRight,
      manager, hub, signals, End, Start
<1>4. CASE Crash
  BY <1>1, <1>4, CrashSession DEF LedgerInv
<1> QED
  BY <1>1, <1>2, <1>3, <1>4, SignalSession, RotationSession, StreamSession, EnvironmentSession
  DEF Next, LedgerInv

-----------------------------------------------------------------------------
(* The refinement                                                          *)

\* What the ledger says of a window, from its position or its settlement.
Shows(m) ==
    /\ positions[m] # NoPosition => Standing(m) = "open" /\ BetOn(m) = positions[m].dir
    /\ \A i \in DOMAIN settlements : settlements[i].slug = m =>
          /\ Standing(m) = (IF settlements[i].won THEN "won" ELSE "lost")
          /\ BetOn(m) = settlements[i].dir
    /\ positions[m] = NoPosition /\ (\A i \in DOMAIN settlements : settlements[i].slug # m)
          => Standing(m) = "none" /\ BetOn(m) = "none"

Shown == \A m \in Slugs : Shows(m)

LEMMA StandingIs == SettledRight => Shown
<1> SUFFICES ASSUME SettledRight, NEW m \in Slugs PROVE Shows(m)
  BY DEF Shown
<1>1. positions[m] # NoPosition => Standing(m) = "open" /\ BetOn(m) = positions[m].dir
  BY DEF Standing, BetOn
<1>2. ASSUME NEW i \in DOMAIN settlements, settlements[i].slug = m
      PROVE  /\ Standing(m) = (IF settlements[i].won THEN "won" ELSE "lost")
             /\ BetOn(m) = settlements[i].dir
  <2>1. {j \in DOMAIN settlements : settlements[j].slug = m} = {i}
    BY <1>2 DEF SettledRight
  <2>2. positions[m] = NoPosition
    BY <1>2 DEF SettledRight
  <2>3. settlements[i].won \in BOOLEAN
    <3>1. settlements[i] \in Settlement
      BY <1>2, ElementOfSeq DEF SettledRight
    <3> QED
      BY <3>1 DEF Settlement
  <2>4. \A w \in BOOLEAN : SettledAs(m, w) <=> settlements[i].won = w
    BY <1>2, <2>1 DEF SettledAs
  <2>5. Standing(m) = (IF settlements[i].won THEN "won" ELSE "lost")
    BY <2>2, <2>3, <2>4 DEF Standing
  <2>6. BetOn(m) = settlements[i].dir
    <3>1. {settlements[k].dir : k \in {j \in DOMAIN settlements : settlements[j].slug = m}}
              = {settlements[i].dir}
      BY <2>1
    <3>2. (CHOOSE side \in {settlements[i].dir} : TRUE) = settlements[i].dir
      OBVIOUS
    <3> QED
      BY <2>2, <3>1, <3>2 DEF BetOn
  <2> QED
    BY <2>5, <2>6
<1>3. positions[m] = NoPosition /\ (\A i \in DOMAIN settlements : settlements[i].slug # m)
          => Standing(m) = "none" /\ BetOn(m) = "none"
  BY DEF Standing, BetOn, SettledAs
<1> QED
  BY <1>1, <1>2, <1>3 DEF Shows

LEMMA StandingIsNext == SettledRight' => Shown'
BY StandingIs, PTL

\* A window whose position and settlements a step leaves alone keeps its bet.
LEMMA Elsewhere ==
    ASSUME NEW m \in Slugs, positions'[m] = positions[m], UNCHANGED settlements
    PROVE  Standing(m)' = Standing(m) /\ BetOn(m)' = BetOn(m)
BY DEF Standing, BetOn, SettledAs

LEMMA PlaceStep ==
    ASSUME LedgerInv, OpenPosition, NEW m, NEW side, m = order.slug, side = order.dir
    PROVE  Ledger!Place(m, side)
<1>1. /\ order \in RM!Order /\ m \in Slugs
      /\ positions \in [Slugs -> RM!Position \cup {NoPosition}]
      /\ positions[m] = NoPosition
      /\ UNCHANGED <<settlements, truth>>
      /\ positions' = [positions EXCEPT ![m] =
                          [dir |-> side, price |-> order.price, cost |-> order.cost]]
  BY DEF LedgerInv, WInv, RM!IInv, RM!TypeOK, RM!OrderFresh, OpenPosition,
     RM!OpenPosition, RM!Order
<1>2. Shown /\ Shown'
  <2>1. SettledRight /\ SettledRight'
    BY OpenPositionSession DEF LedgerInv, Session
  <2> QED
    BY <2>1, StandingIs, StandingIsNext
<1>3. Standing(m) = "none" /\ truth[m] = "open"
  BY <1>1, <1>2, OpenPositionSession DEF Shown, Shows
<1>4. positions'[m].dir = side /\ positions'[m] # NoPosition
  <2>1. [dir |-> side, price |-> order.price, cost |-> order.cost] \in RM!Position
    BY <1>1 DEF RM!Order, RM!Position
  <2> QED
    BY <1>1, <2>1, Shared DEF RM!SentinelAssumption
<1>5. Standing(m)' = "open" /\ BetOn(m)' = side
  BY <1>1, <1>2, <1>4 DEF Shown, Shows
<1>6. ASSUME NEW s \in Slugs, s # m
      PROVE  Standing(s)' = Standing(s) /\ BetOn(s)' = BetOn(s)
  BY <1>1, <1>6, Elsewhere
<1> QED
  BY <1>1, <1>3, <1>5, <1>6 DEF Ledger!Place

LEMMA PayStep ==
    ASSUME LedgerInv, NEW m \in Slugs, SettleVisit(m)
    PROVE  Ledger!Pay(m)
<1> DEFINE s == [slug |-> m, dir |-> positions[m].dir,
                 won |-> RM!DidWin(positions[m].dir, markets[m].outcome)]
           n == Len(settlements) + 1
<1>1. /\ positions[m] # NoPosition
      /\ positions \in [Slugs -> RM!Position \cup {NoPosition}]
      /\ positions' = [positions EXCEPT ![m] = NoPosition]
      /\ settlements' = Append(settlements, s)
      /\ UNCHANGED truth
      /\ truth[m] # "open" /\ markets[m].outcome = truth[m]
  BY DEF SettleVisit, RM!SettlePosition, LedgerInv, WInv, RM!IInv, RM!TypeOK, Session,
     ResolvedRight
<1>2. /\ DOMAIN settlements = 1..Len(settlements) /\ Len(settlements) \in Nat
      /\ DOMAIN settlements' = 1..n
      /\ settlements'[n] = s
      /\ \A i \in DOMAIN settlements : settlements'[i] = settlements[i]
  <2>1. settlements \in Seq(Settlement) /\ s \in Settlement
    BY <1>1 DEF LedgerInv, Session, SettledRight, Settlement, RM!Position, RM!Directions,
       Directions, RM!DidWin
  <2> HIDE DEF s
  <2> QED
    BY <1>1, <2>1, AppendProperties
<1>3. Shown /\ Shown'
  <2>1. SettledRight /\ SettledRight'
    BY SettleVisitSession DEF LedgerInv, Session
  <2> QED
    BY <2>1, StandingIs, StandingIsNext
<1>4. Standing(m) = "open" /\ BetOn(m) = positions[m].dir
  BY <1>1, <1>3 DEF Shown, Shows
<1>5. /\ Standing(m)' = (IF BetOn(m) = truth[m] THEN "won" ELSE "lost")
      /\ BetOn(m)' = BetOn(m)
  <2>1. n \in DOMAIN settlements' /\ settlements'[n].slug = m
        /\ settlements'[n].dir = positions[m].dir
        /\ settlements'[n].won = (positions[m].dir = truth[m])
    BY <1>1, <1>2 DEF RM!DidWin
  <2> HIDE DEF n
  <2> QED
    BY <1>3, <1>4, <2>1 DEF Shown, Shows
<1>6. ASSUME NEW r \in Slugs, r # m
      PROVE  Standing(r)' = Standing(r) /\ BetOn(r)' = BetOn(r)
  <2>1. positions'[r] = positions[r]
    BY <1>1, <1>6
  <2>2. CASE positions[r] # NoPosition
    BY <1>3, <2>1, <2>2 DEF Shown, Shows
  <2>3. ASSUME NEW i \in DOMAIN settlements, settlements[i].slug = r
        PROVE  Standing(r)' = Standing(r) /\ BetOn(r)' = BetOn(r)
    <3>1. i \in DOMAIN settlements' /\ settlements'[i] = settlements[i]
      BY <1>2
    <3> QED
      BY <1>3, <2>3, <3>1 DEF Shown, Shows
  <2>4. CASE positions[r] = NoPosition
              /\ \A i \in DOMAIN settlements : settlements[i].slug # r
    <3>1. \A i \in DOMAIN settlements' : settlements'[i].slug # r
      BY <1>2, <1>6, <2>4
    <3> QED
      BY <1>3, <2>1, <2>4, <3>1 DEF Shown, Shows
  <2> QED
    BY <2>2, <2>3, <2>4
<1> QED
  BY <1>1, <1>4, <1>5, <1>6 DEF Ledger!Pay

LEMMA CloseStep ==
    ASSUME NEW m \in Slugs, NEW side \in Directions, Close(m, side)
    PROVE  Ledger!Close(m, side)
<1>1. /\ truth[m] = "open" /\ truth' = [truth EXCEPT ![m] = side]
      /\ UNCHANGED <<positions, settlements>>
  BY DEF Close, manager
<1>2. \A s \in Slugs : Standing(s)' = Standing(s) /\ BetOn(s)' = BetOn(s)
  BY <1>1, Elsewhere
<1> QED
  BY <1>1, <1>2 DEF Ledger!Close

\* Every other step of a session leaves the ledger alone.
LEMMA StutterStep ==
    ASSUME UNCHANGED <<positions, settlements, truth>>
    PROVE  UNCHANGED Ledger!vars
<1>1. \A s \in Slugs : Standing(s)' = Standing(s) /\ BetOn(s)' = BetOn(s)
  BY Elsewhere
<1> QED
  BY <1>1 DEF Ledger!vars

LEMMA LedgerInit == Init => Ledger!Init
<1> SUFFICES ASSUME Init PROVE Ledger!Init
  OBVIOUS
<1>1. settlements \in Seq(Settlement) /\ DOMAIN settlements = {}
  BY EmptySeq DEF Init
<1>2. Shown
  BY <1>1, StandingIs DEF SettledRight
<1>3. \A m \in Slugs : Standing(m) = "none" /\ BetOn(m) = "none"
  BY <1>1, <1>2 DEF Shown, Shows, Init, RM!Init
<1> QED
  BY <1>3 DEF Init, Ledger!Init

LEMMA LedgerStep ==
    ASSUME MaxRestarts = 0, LedgerInv, [Next]_vars
    PROVE  [Ledger!Next]_(Ledger!vars)
<1>1. CASE OpenPosition
  <2>1. order \in RM!Order
    BY <1>1 DEF OpenPosition, RM!OpenPosition, LedgerInv, WInv, RM!IInv, RM!TypeOK
  <2>2. PICK m \in Slugs, side \in Ledger!Sides : m = order.slug /\ side = order.dir
    BY <2>1 DEF RM!Order, RM!Directions, Ledger!Sides
  <2>3. Ledger!Place(m, side)
    BY <1>1, <2>2, PlaceStep
  <2> QED
    BY <2>3 DEF Ledger!Next
<1>2. ASSUME NEW m \in Slugs, SettleVisit(m) PROVE Ledger!Next
  BY <1>2, PayStep DEF Ledger!Next
<1>3. ASSUME NEW m \in Slugs, NEW side \in Directions, Close(m, side) PROVE Ledger!Next
  BY <1>3, CloseStep DEF Directions, Ledger!Sides, Ledger!Next
<1>4. ~Crash
  BY NoCrash DEF LedgerInv
<1>5. CASE SignalLoop
  <2>1. CASE SettleBegin \/ Hold \/ LogTrade
    BY <2>1, StutterStep DEF SettleBegin, Hold, LogTrade, manager
  <2>2. ASSUME NEW m \in Slugs, SettleSkip(m) PROVE UNCHANGED Ledger!vars
    BY <2>2, StutterStep DEF SettleSkip, manager
  <2>3. ASSUME NEW m \in Slugs, NEW d \in Directions, NEW p \in ModelProbs, Decide(m, d, p)
        PROVE  UNCHANGED Ledger!vars
    BY <2>3, StutterStep DEF Decide, manager
  <2>4. ASSUME NEW ask \in Asks \cup {NoAsk}, Evaluate(ask) PROVE UNCHANGED Ledger!vars
    BY <2>4, StutterStep DEF Evaluate, RM!Evaluate
  <2> QED
    BY <1>1, <1>2, <1>5, <2>1, <2>2, <2>3, <2>4 DEF SignalLoop
<1>6. CASE RotationLoop
  BY <1>6, StutterStep DEF RotationLoop, Rotate, CollectExpired, CheckResolved,
     CheckUnresolved, RotateEnd, manager
<1>7. CASE Stream
  BY <1>7, StutterStep DEF Stream, EndResolve, OnMarketResolved, manager
<1>8. CASE Tick
  BY <1>8, StutterStep DEF Tick, manager
<1>9. CASE \E found \in SUBSET Discoverable : Boot(found)
  BY <1>9, StutterStep DEF Boot, manager
<1>10. CASE UNCHANGED vars
  BY <1>10, StutterStep DEF vars, manager
<1> QED
  BY <1>3, <1>4, <1>5, <1>6, <1>7, <1>8, <1>9, <1>10 DEF Next, Environment

-----------------------------------------------------------------------------
(* The theorems                                                            *)

\* LedgerInv holds in every state, also across crashes.
THEOREM SessionInvariance ==
    ASSUME UnlockedReads = FALSE
    PROVE  Spec => []LedgerInv
<1>1. LedgerInv /\ [Next]_vars => LedgerInv'
  BY NextLedgerInv
<1> QED
  BY <1>1, InitLedgerInv, PTL DEF Spec

\* A position is settled as won exactly if its side won, unless SettleResolved
\* reads a market while it is written: the run bot_unlocked shows that the
\* assumption is needed (manager.go:267).
THEOREM SettledByOutcomeCorrect ==
    ASSUME UnlockedReads = FALSE
    PROVE  Spec => []SettledByOutcome
<1>1. LedgerInv => SettledByOutcome
  BY DEF LedgerInv, Session, SettledRight, SettledByOutcome
<1> QED
  BY <1>1, SessionInvariance, PTL

\* One session implements the ledger: one bet at most on a window, before it
\* closes, settled once and by the side that won (hub.go:211, manager.go:156,
\* 261).
THEOREM LedgerCorrect ==
    ASSUME MaxRestarts = 0, UnlockedReads = FALSE
    PROVE  Spec => LedgerSpec
<1>1. LedgerInv /\ [Next]_vars => [Ledger!Next]_(Ledger!vars)
  BY LedgerStep
<1> QED
  BY <1>1, SessionInvariance, LedgerInit, PTL DEF Spec, LedgerSpec, Ledger!Spec
=============================================================================
