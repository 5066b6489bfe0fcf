---------------------------- MODULE RiskManager ----------------------------
(***************************************************************************)
(* The risk manager of the bot (internal/risk/manager.go and kelly.go).    *)
(* It sizes an order by fractional Kelly, caps one position and the sum of *)
(* all open ones, books profit and loss when a market settles, and halts   *)
(* trading at a drawdown from the peak until a cooldown has passed.        *)
(*                                                                         *)
(* Every method holds Manager.mu, so each is one action.  The order that   *)
(* Evaluate returns lives in a local variable of the signal loop until the *)
(* loop passes it to OpenPosition; that goroutine is the only caller of    *)
(* Evaluate, OpenPosition and SettleResolved, so no position settles while *)
(* an order is pending.  SettleResolved visits the open positions in map   *)
(* order; one visit is one Settle.                                         *)
(*                                                                         *)
(* Money is a number of units (half a dollar in the runs), a price or a    *)
(* probability a number of cents or of percent.  Divisions round down.     *)
(***************************************************************************)
EXTENDS Integers, FiniteSets

CONSTANTS
    Slugs,          \* market windows, by slug
    NoPosition,     \* no entry in Manager.positions
    NoOrder,        \* the nil *Order
    NoAsk,          \* no book for the token, or an empty ask side
    StartBankroll,  \* cfg.Bankroll
    KellyDivisor,   \* 1 / cfg.FractionalKelly
    MaxPosition,    \* cfg.MaxPosition
    MaxExposure,    \* cfg.MaxExposure
    MinBet,         \* cfg.MinBet
    MinEntryPrice,  \* cfg.MinEntryPrice, in cents
    MaxEntryPrice,  \* cfg.MaxEntryPrice, in cents; 0 is no upper limit
    DrawdownLimit,  \* cfg.DrawdownLimit, in percent of the peak
    HaltCooldown,   \* cfg.HaltCooldown, in ticks; 0 never resumes
    Asks,           \* best asks the book may show
    ModelProbs,     \* probabilities of winning that the model may claim
    MaxBets,        \* bound: positions opened in a behaviour
    MaxRestarts,    \* bound: restarts in a behaviour
    MaxTime         \* bound: the clock

ASSUME SlugsAssumption == IsFiniteSet(Slugs)
ASSUME SizingAssumption ==
    /\ StartBankroll \in Int
    /\ KellyDivisor \in Nat \ {0}
    /\ MaxPosition \in Nat \ {0}
    /\ MaxExposure \in Nat
    /\ MinBet \in Nat \ {0}
    /\ MinEntryPrice \in Nat
    /\ MaxEntryPrice \in Nat
ASSUME BreakerAssumption ==
    /\ DrawdownLimit \in Nat \ {0}
    /\ HaltCooldown \in Nat
ASSUME InputAssumption ==
    /\ Asks \subseteq Int
    /\ ModelProbs \subseteq Int
    /\ NoAsk \notin Int
ASSUME BoundAssumption ==
    /\ MaxBets \in Nat
    /\ MaxRestarts \in Nat
    /\ MaxTime \in Nat

Directions == {"Up", "Down"}

\* What a resolved market says: the winning side, or a string that names
\* neither side (in particular the empty string before it is written).
Outcomes == Directions \cup {"neither"}

Position == [dir : Directions, price : 1..99, cost : 1..MaxPosition]
Order    == [slug : Slugs, dir : Directions, price : 1..99, cost : 1..MaxPosition]

\* The sentinels are not values of the types they stand beside.
ASSUME SentinelAssumption == NoPosition \notin Position /\ NoOrder \notin Order

VARIABLES
    bankroll,       \* Manager.bankroll
    peakBankroll,   \* Manager.peakBankroll
    positions,      \* Manager.positions
    totalPnL,       \* Manager.totalPnL
    wins,           \* Manager.wins
    losses,         \* Manager.losses
    halted,         \* Manager.halted
    haltedAt,       \* Manager.haltedAt
    haltCount,      \* Manager.haltCount
    order,          \* signalLoop's local "order", between Evaluate and OpenPosition
    savedBankroll,  \* what LastBankroll finds if it can read, else cfg.Bankroll
    bets,           \* positions opened so far, over all restarts
    restarts,       \* restarts so far
    now             \* the wall clock

breaker == <<halted, haltedAt, haltCount>>
account == <<bankroll, totalPnL, wins, losses>>
vars == <<bankroll, peakBankroll, positions, totalPnL, wins, losses, halted,
          haltedAt, haltCount, order, savedBankroll, bets, restarts, now>>

-----------------------------------------------------------------------------
(* Sizing                                                                  *)

OpenSlugs(ps) == {m \in Slugs : ps[m] # NoPosition}

\* Every unit of money at stake, one element for each.
Stakes(ps) == UNION {{m} \X (1..ps[m].cost) : m \in OpenSlugs(ps)}

\* currentExposure: the summed cost of the open positions.
Exposure(ps) == Cardinality(Stakes(ps))

\* KellyFraction(p, ask) > 0.
HasEdge(p, ask) == p \in 1..99 /\ ask \in 1..99 /\ p > ask

\* KellyFraction(p, ask) * FractionalKelly * b.
KellyStake(p, ask, b) == ((p - ask) * b) \div ((100 - ask) * KellyDivisor)

Smaller(a, b) == IF a <= b THEN a ELSE b
Larger(a, b) == IF a >= b THEN a ELSE b

EntryPriceOK(ask) ==
    /\ ask \in 1..99
    /\ ask >= MinEntryPrice
    /\ MaxEntryPrice > 0 => ask <= MaxEntryPrice

\* A plausible bug: the exposure cap tests what is open and not the new bet.
CostWithoutClamp(p, ask) ==
    LET bet == Smaller(KellyStake(p, ask, bankroll), MaxPosition)
    IN  IF Exposure(positions) > MaxExposure - MinBet THEN 0 ELSE bet

\* A plausible bug: one position may take all that the exposure cap leaves.
CostWithoutPositionCap(p, ask) ==
    Smaller(KellyStake(p, ask, bankroll), MaxExposure - Exposure(positions))

\* betCost: Kelly, then the position cap, then what the exposure cap leaves.
Cost(p, ask) ==
    Smaller(Smaller(KellyStake(p, ask, bankroll), MaxPosition),
            MaxExposure - Exposure(positions))

-----------------------------------------------------------------------------
(* The methods                                                             *)

CooldownOver == HaltCooldown > 0 /\ now - haltedAt >= HaltCooldown

\* A plausible bug: the cooldown lifts the halt but keeps the old peak.
CheckCooldownKeepPeak ==
    /\ halted' = (halted /\ ~CooldownOver)
    /\ UNCHANGED peakBankroll

\* checkCooldown: resume after the cooldown, measuring the next drawdown
\* from the current bankroll.
CheckCooldown ==
    IF halted /\ CooldownOver
    THEN halted' = FALSE /\ peakBankroll' = bankroll
    ELSE UNCHANGED <<halted, peakBankroll>>

\* A plausible bug: an order is approved although the breaker has tripped.
AcceptsWhileHalted(m, p, ask) ==
    /\ positions[m] = NoPosition
    /\ ask # NoAsk
    /\ EntryPriceOK(ask)
    /\ HasEdge(p, ask)
    /\ Cost(p, ask) >= MinBet

\* A plausible bug: a market with a position is not refused.
AcceptsTwice(m, p, ask) ==
    /\ ~halted'
    /\ ask # NoAsk
    /\ EntryPriceOK(ask)
    /\ HasEdge(p, ask)
    /\ Cost(p, ask) >= MinBet

\* The conditions under which Evaluate returns an order; halted' is the
\* breaker after the cooldown check.
Accepts(m, p, ask) ==
    /\ ~halted'
    /\ positions[m] = NoPosition
    /\ ask # NoAsk
    /\ EntryPriceOK(ask)
    /\ HasEdge(p, ask)
    /\ Cost(p, ask) >= MinBet

\* Evaluate: a decision to buy direction d of market m, whose model gives it
\* p percent and whose book offers it at ask.
Evaluate(m, d, p, ask) ==
    /\ order = NoOrder
    /\ bets < MaxBets
    /\ CheckCooldown
    /\ order' = IF Accepts(m, p, ask)
                THEN [slug |-> m, dir |-> d, price |-> ask, cost |-> Cost(p, ask)]
                ELSE NoOrder
    /\ UNCHANGED <<account, positions, haltedAt, haltCount, savedBankroll,
                   bets, restarts, now>>

\* OpenPosition: overwrites whatever positions holds for the market.
OpenPosition ==
    /\ order # NoOrder
    /\ positions' = [positions EXCEPT ![order.slug] =
                        [dir |-> order.dir, price |-> order.price, cost |-> order.cost]]
    /\ order' = NoOrder
    /\ bets' = bets + 1
    /\ UNCHANGED <<account, peakBankroll, breaker, savedBankroll, restarts, now>>

\* didWin.
DidWin(d, outcome) == d = outcome

\* (1 - Price) * Size when won, where Size = Cost / Price; -Cost when lost.
PnL(pos, won) ==
    IF won THEN (pos.cost * (100 - pos.price)) \div pos.price ELSE -pos.cost

\* drawdown >= DrawdownLimit in floating point: 0/0 is no number and compares
\* false, a loss below a zero peak is an infinite drawdown, and below a
\* negative peak the quotient is negative.
BreakerTrips(b, peak) ==
    \/ peak > 0 /\ 100 * (peak - b) >= DrawdownLimit * peak
    \/ peak = 0 /\ b < 0

\* A plausible bug: the time of the halt is not recorded.
TripBreakerWithoutTime ==
    /\ halted' = (halted \/ BreakerTrips(bankroll', peakBankroll'))
    /\ haltCount' = IF halted' /\ ~halted THEN haltCount + 1 ELSE haltCount
    /\ UNCHANGED haltedAt

\* The breaker's step at the end of a settlement.
TripBreaker ==
    IF ~halted /\ BreakerTrips(bankroll', peakBankroll')
    THEN halted' = TRUE /\ haltedAt' = now /\ haltCount' = haltCount + 1
    ELSE UNCHANGED breaker

\* One visit of SettleResolved, without the row that OnSettle writes.
SettlePosition(m, outcome) ==
    /\ order = NoOrder
    /\ positions[m] # NoPosition
    /\ LET won == DidWin(positions[m].dir, outcome)
           pnl == PnL(positions[m], won)
       IN  /\ bankroll' = bankroll + pnl
           /\ totalPnL' = totalPnL + pnl
           /\ peakBankroll' = Larger(peakBankroll, bankroll + pnl)
           /\ wins' = IF won THEN wins + 1 ELSE wins
           /\ losses' = IF won THEN losses ELSE losses + 1
    /\ positions' = [positions EXCEPT ![m] = NoPosition]
    /\ TripBreaker
    /\ UNCHANGED <<order, bets, restarts, now>>

\* OnSettle persists the new bankroll, unless the write fails or updates no
\* row, which main only logs.
Settle(m, outcome) ==
    /\ SettlePosition(m, outcome)
    /\ savedBankroll' \in {savedBankroll, bankroll + PnL(positions[m],
                                DidWin(positions[m].dir, outcome))}

\* A new process: NewManager, then RestoreBankroll with what LastBankroll
\* finds.  LastBankroll takes any error of its query for a log without
\* settlements, and then the manager keeps cfg.Bankroll.  Positions, halt and
\* peak were only in memory.
NewManager ==
    /\ bankroll' \in {savedBankroll, StartBankroll}
    /\ peakBankroll' = bankroll'
    /\ positions' = [m \in Slugs |-> NoPosition]
    /\ totalPnL' = 0 /\ wins' = 0 /\ losses' = 0
    /\ halted' = FALSE /\ haltedAt' = 0 /\ haltCount' = 0
    /\ order' = NoOrder

Restart ==
    /\ restarts < MaxRestarts
    /\ NewManager
    /\ restarts' = restarts + 1
    /\ UNCHANGED <<savedBankroll, bets, now>>

Tick ==
    /\ now < MaxTime
    /\ now' = now + 1
    /\ UNCHANGED <<account, peakBankroll, positions, breaker, order,
                   savedBankroll, bets, restarts>>

Init ==
    /\ bankroll = StartBankroll
    /\ peakBankroll = StartBankroll
    /\ positions = [m \in Slugs |-> NoPosition]
    /\ totalPnL = 0 /\ wins = 0 /\ losses = 0
    /\ halted = FALSE /\ haltedAt = 0 /\ haltCount = 0
    /\ order = NoOrder
    /\ savedBankroll = StartBankroll
    /\ bets = 0 /\ restarts = 0 /\ now = 0

Next ==
    \/ \E m \in Slugs, d \in Directions, p \in ModelProbs, ask \in Asks \cup {NoAsk} :
          Evaluate(m, d, p, ask)
    \/ OpenPosition
    \/ \E m \in Slugs, outcome \in Outcomes : Settle(m, outcome)
    \/ Restart
    \/ Tick

Spec == Init /\ [][Next]_vars

-----------------------------------------------------------------------------
(* Properties                                                              *)

\* Every field of Manager keeps its type; a stake is a positive number of
\* units no larger than cfg.MaxPosition (manager.go:206).
TypeOK ==
    /\ bankroll \in Int /\ peakBankroll \in Int
    /\ totalPnL \in Int /\ savedBankroll \in Int
    /\ positions \in [Slugs -> Position \cup {NoPosition}]
    /\ order \in Order \cup {NoOrder}
    /\ wins \in Nat /\ losses \in Nat
    /\ halted \in BOOLEAN /\ haltedAt \in Nat /\ haltCount \in Nat
    /\ bets \in Nat /\ restarts \in Nat /\ now \in Nat

\* Money that a pending order is about to put at stake.
PendingCost == IF order = NoOrder THEN 0 ELSE order.cost

Committed == Exposure(positions) + PendingCost

\* The open positions together with an order that Evaluate has approved but
\* the loop has not opened yet never exceed cfg.MaxExposure (manager.go:210),
\* although OpenPosition itself checks nothing.
ExposureWithinLimit == Committed <= MaxExposure

\* While trading is allowed the bankroll is above the drawdown limit of its
\* peak, over any sequence of settlements, cooldowns and restarts
\* (manager.go:310, 349).
DrawdownBreaker ==
    ~halted /\ peakBankroll > 0 =>
        100 * (peakBankroll - bankroll) < DrawdownLimit * peakBankroll

\* The breaker looks at settled losses only, so it can be overshot by the
\* positions that were open when it tripped.  The overshoot is bounded: even
\* if everything at stake is lost, the fall from the peak stays below the
\* drawdown limit plus cfg.MaxExposure.
LossBounded ==
    peakBankroll > 0 =>
        100 * (peakBankroll - bankroll + Committed)
            < DrawdownLimit * peakBankroll + 100 * MaxExposure

\* No step opens a position while the breaker is tripped: the check in
\* Evaluate (manager.go:148) is still true when OpenPosition runs.
NoBetWhileHalted ==
    [][\A m \in Slugs : positions[m] = NoPosition /\ positions'[m] # NoPosition
            => ~halted]_vars

-----------------------------------------------------------------------------
(* The inductive invariant                                                 *)

\* A pending order is for a market without a position, and was approved by a
\* manager that has not halted since.
OrderFresh ==
    order # NoOrder => positions[order.slug] = NoPosition /\ ~halted

PeakIsHighest == bankroll <= peakBankroll

IInv ==
    /\ TypeOK
    /\ OrderFresh
    /\ PeakIsHighest
    /\ ExposureWithinLimit
    /\ DrawdownBreaker
    /\ LossBounded
=============================================================================
