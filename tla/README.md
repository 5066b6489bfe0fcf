# Formal model of go-tec

go-tec is a paper-trading bot for Polymarket's five-minute "BTC up or down" windows. It takes live
prices and order books into memory, decides every five seconds whether to bet on the current window,
sizes the bet, and books the result when the window resolves. This directory holds TLA+ modules
of its parts, the TLC runs that check them on small instances, and TLAPS proofs of their most
important properties for every value of the constants. Paths below are relative to `src/`.

Contents: [1. the system](#1-the-system) · [2. modules](#2-modules-and-their-correspondence-to-the-code) ·
[3. runs](#3-runs) · [4. bounds](#4-bounds) · [5. fairness](#5-fairness) ·
[6. proofs](#6-proofs) · [7. findings](#7-where-the-code-and-its-documents-disagree) ·
[8. limits](#8-what-is-left-out-and-why) · [9. plan](#9-plan) · [10. running it](#10-running-the-checks)

## 1. The system

| component | code | state it keeps | operations |
|---|---|---|---|
| Risk manager | `internal/risk/manager.go`, `kelly.go` | bankroll, peak, positions by slug, totals, halt flag/time/count | `Evaluate`, `OpenPosition`, `SettleResolved`, `SettleExpired`, `RestoreBankroll` |
| Bot loops | `cmd/bot/main.go` | locals of `signalLoop` (decision, order) and `marketRotation` | start-up, signal tick, rotation tick, `OnSettle` callback |
| Hub market table | `internal/hub/hub.go`, `market_state.go` | `markets` by slug: status and winning outcome | `RegisterMarket`, `OnMarketResolved`, `ForceResolve`, `CurrentMarket`, `GetMarketBySlug` |
| Hub market data | `internal/hub/orderbook.go`, `pricebuf.go`, `metrics.go` | one book and one trade ring per token, one price ring | `OnOrderbook`, `OnTrade`, `OnBTCPrice` and the readers |
| Trade log | `internal/store/store.go` | SQLite tables `trades`, `snapshots` | `LogTrade`, `SettleTrade`, `LastBankroll`, queries |
| Discovery | `internal/market/discovery.go` | none | `FindCurrentAndUpcoming`, `CheckResolution` over the Gamma API |
| Live price stream | `internal/stream/rtds.go` | the websocket, `conn`, backoff, one `done` channel a round | reconnect loop, read loop, ping loops, `Close` |
| CLOB streams | `internal/stream/clob_ws.go` | none of its own; the client is a library | five subscriptions, one goroutine each |
| Signal engine | `internal/signal/*.go` | none; reads the hub | `Evaluate`: gates and a weighted score |
| Statistics | `internal/stats/stats.go` | none | one-pass reports over settled trades |
| Status API, alerts, configuration | `internal/api`, `notify`, `config` | none that anything reads | read-only handlers, one message sender, environment reader |

How they interact. `main` starts the stream goroutines, which call the hub's handlers under the hub's
`RWMutex`; `signalLoop` (every 5 s: settle what is resolved, decide, size, open, log) and
`marketRotation` (every 60 s: discover, register, subscribe, settle what has expired by asking
the API); a snapshot ticker (30 s), a statistics ticker (hourly) and an HTTP server that only read.
Locks nest in one order, the manager's around the hub's, so that they cannot wait for each other. The manager has
a mutex of its own and, inside it, calls back into the trade log (`OnSettle`). The trade log is
the only thing a restart keeps; of it, `main` reads back one number, the last bankroll.

What is hard here:

* decide, size, open and log are separate critical sections, with settlement, stream events and the
  rotation loop running between them;
* the hub hands out pointers that are read after its lock is released;
* a resolution may come by event, by API, by both or late, and events may be lost or repeated;
* the process may end between any two steps, and the log may refuse any write;
* the halt, its cooldown and the peak interact over long sequences of settlements;
* one decision of the engine reads the hub six times, each time under a lock of its own, while prices
  and books change;
* a market is registered before it is subscribed, once; requests are slow, any may fail, and a
  subscription that fails or a channel that is closed is not tried again;
* ping loops of old connections share `s.conn` with new ones;
* ring buffers wrap; one-pass loops over trades must equal what their names say.

What makes each part correct:

* risk manager: committed money never exceeds the exposure limit; no bet while halted; the
  drawdown while trading is below the limit; the total fall is bounded;
* loops and hub: one bet a window, before it closes, settled once by the side that won; every
  position settles; a halt lasts for its cooldown;
* trade log: a restart at any time restores the bankroll, if its query works; every open position has its row; a row's
  settlement is that of its own trade;
* engine and price gates: an order follows the model, within the edge the configuration allows, at a
  price that was offered; whatever was mixed, its claim is capped;
* discovery and CLOB streams: the coming windows are known in time; each is subscribed once, its
  events find it known, and none is left without a reader unless a call of its own failed;
* price stream: it recovers and is pinged; no connection leaks; one writer for a connection; old ping loops end;
* buffers: the newest entries in order; the slope has the trend's sign; a time window is complete;
* statistics: drawdown, streaks and calibration equal their definitions over the whole list, and the
  tables of one report account for the same trades and money.

`PROJECT.json` lists the hazards behind these, each at its line, with the properties that cover it.

## 2. Modules and their correspondence to the code

```
   BetLedger  <--implements--  Bot  --INSTANCE-->  RiskManager  <--EXTENDS--  MCRiskManager
                               ^--EXTENDS--  BotProofs  ^-----------EXTENDS--  RiskManagerProofs
                                                 (INSTANCE RiskManagerProofs)
   Engine  <--EXTENDS--  MCEngine                       (Bot leaves its decision free)
      ^-------EXTENDS--  EngineProofs
   Feeds   <--EXTENDS--  FeedsProofs                    (Bot takes its rotation in one step)
   Rtds    <--EXTENDS--  RtdsProofs
   RecentEntries  <--implements--  RingBuffer  <--EXTENDS--  RingBufferProofs
   Stats  <--EXTENDS--  MCStats, StatsProofs
   SumTheorems  <--EXTENDS--  StatsProofs, RingBufferProofs
```

**RiskManager** — one variable for each field of `Manager`, plus `order`, the local of `signalLoop`
that carries an approved order from `Evaluate` to `OpenPosition`; `savedBankroll`, what a restart
would restore; and a clock. Each method holds `Manager.mu` throughout, so each is one action:
`Evaluate` (with `checkCooldown`, which may lift the halt and reset the peak before the gates are
tested), `OpenPosition`, `Settle` (one visit of the loop in `SettleResolved`: profit, peak, counters,
breaker, and the bankroll that `OnSettle` writes, which may fail), `Restart` (with the saved bankroll,
or with the configured one when the query for it fails). `SettlePosition` is
the visit without its row, for use in `Bot`. The drawdown's floating-point corner cases (a zero or
negative peak) are in `BreakerTrips`.

**Bot** — `signalLoop`, `marketRotation`, the hub's market table, the trade log, the stream and the
API around an instance of `RiskManager`. `loop` is where the signal loop is:

| `loop` | code | actions from here |
|---|---|---|
| `idle` | waiting for the ticker, main.go:320 | `SettleBegin` takes the manager's lock |
| `settling` | inside `SettleResolved`, manager.go:261 | `SettleSkip`, `SettleVisit`; then `Decide` or `Hold` |
| `evaluating` | between the engine and `rm.Evaluate`, main.go:342 | `Evaluate` |
| `opening` | order approved, main.go:343 | `OpenPosition` |
| `logging` | position open, row not written, main.go:362 | `LogTrade` |
| `down` | no process | `Boot` |

`rotation` goes `idle` (`Rotate`: discover, register, subscribe) → `collecting` (`CollectExpired`:
the half of `SettleExpired` under the manager's lock) → `checking` (`CheckResolved`,
`CheckUnresolved`, `RotateEnd`: the HTTP half without it). `BeginResolve`/`EndResolve` split the two
assignments of a resolution, which a reader without the lock can come between; with
`UnlockedReads = FALSE` they are one step. `rows` is the `trades` table, `Crash` keeps only it and
what `LastBankroll` reads from it, and that query may fail: the process then starts with the configured
bankroll (store.go:257). A market window is its index; windows do not overlap, as in the
slugs' timestamps. `lost` (the windows of which a write to the log failed), `unsaved` (the saved bankroll may not be the
manager's: the window settled last is in `lost`, or this process was started by a failed query and has
settled nothing) and `tripped` (when the breaker last tripped) are history variables, used by properties only.

**BetLedger** — the promise of one session: at most one bet a market, placed before it closes, paid
once by the side that won. `Bot`'s `Ledger` instance maps the API's result, the side bet on and
the position or its settlement onto it.

**Engine** — one look of the signal loop at one market, from the hub's data to an order, beside the
stream goroutines. Every query of the hub is a step, since the lock is free between two of them:

| `pc` | code | reads |
|---|---|---|
| `idle` → `momentum` | `Begin`: the gates before the signals, engine.go:70 | count and price |
| `momentum` → `edgeSlope` | `ReadMomentum`, momentum.go:25, capped at engine.go:128 | slope |
| `edgeSlope` → `edgeBook` → `flow` | `ReadEdgeSlope`, `ReadEdgeBook`, edge.go:28, 33 | slope, Up's middle price |
| `flow` → `prob` | `ReadFlow`: trade flow, composite, direction, confidence, tradeflow.go:24 | volumes, free |
| `prob` → `mid` → `book` | `ReadProb`, `ReadMid`: edge gates, engine.go:154 | slope, Up's middle price |
| `book` → `ask` → `open` | `GetOrderbook`, `Approve`, `Refuse`, manager.go:179 | the bought token's best ask, without the lock |

The confidence gate stands after the last two readings in the code; the model leaves a decision
without confidence at once, since nothing is traded whatever they are. `BeginUpdate` and
`EndUpdate` are the two assignments of `Orderbook.Update` under the write lock; `AskSeen` is what the
unlocked `BestAsk` can return beside them: the level in place, any of the new ones before the sort, or
a zero of a slice not yet filled, which the price gate refuses. The documented target is ARM64
(`Dockerfile:8`), which may reorder these reads and writes: what a length paired with the other slice's
array can show is among the same levels (section 8). Weights are exact integers (`sum` is in
units of 1/20000), `Tanh` and `Sigmoid` tables of which only the sign and the range are assumed.
`quiet` and `offered` are history.

**Feeds** — the inside of `Bot`'s `Boot` and `Rotate`: discovery reads the clock (`began`), then
makes `Lookahead` requests (`Ask`), registers, makes one call of `SubscribeAssets`, whose five streams are
steps (`Subscribe`, counted by `started`), and settles. `subs` holds each call with its assets and live
readers; a reader may end as soon as its stream is subscribed, also while the call goes on
(`ReaderEnds`). Time passes between any two steps, the process may exit where
`main` does, or crash. `answered` and `impaired` are history.

**Rtds** — `StreamOK` and `StreamFails` are the first subscription; then `runWithReconnect` is `run`, with one action for each place where it can be
overtaken; each round has a ping loop with the steps tick, load `s.conn`, write; `done` is the set of
rounds whose channel is closed. A connection's two directions fail independently.

**RingBuffer** — `PriceBuffer` and `TradeBuffer` have the same representation, so one module stands
for both: `Write` is the body of both `Add`s, `At` the index formula of `at` and `RecentSince`.
`Slope` is kept as its numerator (the denominator depends on the window's length only and is
positive). Timestamps are in the unit that the readers use, do not decrease, or were made zero by `parseTS`.

**RecentEntries** — the newest `Capacity` entries, newest first. `RingBuffer`'s `Recent` maps
`At(0), At(1), ...` onto it.

**Stats** — the reports of one hour: summary, streaks, calibration, the tables by hour, edge and time
left in the window, and the rates by signal. Each is a loop over the same list, so a step takes one
trade through all of them, and every state is what they return for the list so far: checking all
states checks all lists. `totals` is history. `Trade` builds a row as manager and main do, so that
`prob` is already the probability of the side bought; `Opened` keeps to trades that the engine's expiry
gates let through. `Bucket` gives 0.60 and 0.70 what the floating-point quotient gives them, and bucket 0 everything below
0.50, which its label does not say and `CalibrationComplete` allows.

Operators marked "A plausible bug" stand beside the definition they would replace. They are used by
no specification; each shows that some property notices its bug.

## 3. Runs

Passing runs:

| run | module, cfg | question | properties |
|---|---|---|---|
| `risk` | MCRiskManager | Do the manager's limits hold over every order of decisions, settlements, failed saves, cooldowns and a restart, at the default configuration's amounts? | `TypeOK`; `ExposureWithinLimit`: open positions and the approved order together stay within the limit; `DrawdownBreaker`: trading only below the drawdown limit; `LossBounded`: with everything at stake lost the fall is below the drawdown limit plus the exposure limit; `NoBetWhileHalted` |
| `bot_session` | Bot, BotSession.cfg | In one session, with lossy and repeated events and a late API, do the loops keep the ledger's promise? | `LedgerSpec` (refinement of `BetLedger`); `PositionsSettle` (liveness); `HaltLasts` |
| `bot_crash` | Bot, BotCrash.cfg | With a crash between any two steps, failing writes and unlocked reads, what still holds? | `TypeOK`; `BankrollSaved`: a restart whose query works restores the manager's bankroll at every step, unless the write of the last settlement failed or the process itself came from a failed query; `OpenPositionLogged`: an open position has its own row, unless a write of its window failed; `LoneRowSettlesOwnTrade`: a window's only row gets its own profit, and no win that was none, unless a write of its window failed; `RiskManagerSpec`: every step of the loops is one of `RiskManager`'s, so what is proved of it holds in the bot |
| `engine` | MCEngine | With updates between any two readings of a decision, which orders come out? | `TypeOK`; `FollowsModel`: an undisturbed decision bets on the side that the model gives more than a half; `NotOverconfident`: in agreeing books it claims at most `MaxEdge` beyond the ask it pays; `ClaimCapped`, `PriceWasOffered`: for every order, disturbed or not |
| `feeds` | Feeds | With slow and failing requests, failing subscriptions, ending readers and crashes: which windows are known and listened to? | `TypeOK`; `KnownAhead`: a complete discovery covers the next `Lookahead - 1` windows' length, however late it ends; `EventsMatch`; `SubscribedOnce`; `NoneForgotten` |
| `rtds` | Rtds | Over failures in both directions, failed dials and subscriptions, and shutdown: does the stream come back cleanly? | `TypeOK`, `ReadsSubscribed`, `NoLeakedConnection`, `OneWriter`, `HealthyIsPinged`; `OldPingersEnd`, `Recovers` (liveness) |
| `ring` | RingBuffer | Does the buffer remember the newest entries across the wrap, and do its readers read it right? | `TypeOK`, `SlopeFollowsTrend`, `RecentSinceExact`; `RecentSpec` (refinement of `RecentEntries`) |
| `stats` | MCStats | Do the one-pass loops equal definitions over the whole list? | `TypeOK`, `MaxDrawdownExact`, `StreaksExact`, `CalibrationComplete`; `ReportsAgree`: every table accounts for all trades, wins and money of the summary |

Runs that find a violation, each of one property that a document or comment of the repository states,
are described in section 7: `bot_orphan`, `bot_two_rows`, `bot_unlocked`, `stats_calibration`.

`BankrollSaved`, `OpenPositionLogged` and `LoneRowSettlesOwnTrade` say what is left of the log's
correctness beside the findings `bot_orphan` and `bot_two_rows`; their preconditions name the
situations in which the code gives no more. A failed write counts against its window only, and for the
bankroll only until another window is settled: each settlement saves the whole bankroll. That
`LoneRowSettlesOwnTrade` has to exclude it shows at a second price: after a crash the bot bets on the
window again, the insert of the new trade fails, and the settlement writes the new trade's profit into
the old row. `FollowsModel` and `NotOverconfident` are about decisions
during which nothing was written to the hub (`quiet`). The readings of one decision take
microseconds and updates come some times a second, so that nearly all decisions are such; the
code promises nothing of the others beyond `ClaimCapped` and `PriceWasOffered`, which hold of them too.

## 4. Bounds

| run | bounds | why they are enough |
|---|---|---|
| `risk` | 3 markets (symmetric), 6 bets, clock 0..3, 1 restart; a unit is half a dollar: bankroll 100, position cap 20, exposure cap 50, quarter Kelly, drawdown 25 %, cooldown 2 ticks | three stakes of 20 do not fit under 50, so the clamp is reached; three losses trip the breaker with stakes still open; a cooldown passes and a second halt follows within six bets |
| `bot_*` | 2 windows of 2 ticks, 2 bets, clock 0..5, at most 1 restart, grace 0, lookahead 2; one probability, both sides, one ask; `bot_crash` has two asks and a clock up to 4, so that two trades on one window may differ in price and the first window is settled by either loop, and only Up wins there; bankroll 8, stake at most 2, exposure cap 3, drawdown 25 % | a bet in each window, or two in one across a crash; one lost stake trips the breaker; both windows end, expire and are asked about before time runs out; nothing in the code tells the two sides apart, and bets are on either, so that a winner of Up gives won and lost bets in every order (`bot_session` has both winners) |
| `engine` | 7 slopes of both signs with rounded tanh and sigmoid, 5 books (two tight around a half, one wide, one lopsided, one without an ask), volumes 0 or 1; the default thresholds | either signal alone and both together reach or miss the confidence; probabilities at the cap, within and beyond `MaxEdge` of a middle price; asks inside and outside the entry gates; updates of either book at every step |
| `feeds` | clock 0..8 in units of the 60 s between rotations, windows of 3 units (the code: 5), lookahead 3, requests of one rotation take up to one unit longer, 1 failed subscription or closed channel | more than two windows pass; discovery begins and ends in each part of a window and across its end; any subset of requests fails; the one fault is in any stream of any call, before or after a crash |
| `rtds` | 3 connections, 2 failed dials or subscriptions, backoff 1..3 | the backoff doubles and is capped; a ping loop of round 1 can see connections 2 and 3; the last connection stays healthy, so that `Recovers` is about the code and not the network |
| `ring` | 4 slots, values 1..3, timestamps 0..2 | empty, filling, exactly full and wrapped at each head position; a slope needs 2 to 4 entries; unparsed timestamps in every place |
| `stats` | lists of up to 4 trades, of 5 entries, two outcomes and two amounts | two falls from two peaks, runs broken and resumed, buckets at the clamp (0.20), inside, and on an edge (0.70); edges on the ends of the labels, 270, 180, 100, 90 and 29 seconds left, on both sides of an hour |

`CHECK_DEADLOCK FALSE` is set where a bound ends the behaviours (the clock, the number of bets or
trades) and in `Rtds`, which stops after shutdown. `RingBuffer`, `Engine` and `Feeds` (which may always
crash and start again) never stop and are checked for deadlock.

Money is in whole units and divisions round down, where the code has `float64`: the bounds on
exposure and loss do not depend on the direction of rounding, since a loss costs exactly the stake.

## 5. Fairness

`Bot!Fairness`: the loops' tickers keep firing and a loop that was started runs on
(`WF` of `SignalLoop` and `RotationLoop`). `CollectExpired` waits for the manager's lock, which the
signal loop takes again and again; Go's mutex hands the lock to a waiter that has starved for a
millisecond, hence `SF`. A request to the API may fail or show no winner yet; that it works if it is
repeated is an assumption about the service (`SF` of `CheckResolved`), and so is that each window is
decided eventually (`WF` of `Close`). Time passes (`SF` of `Tick`, which `evaluating` and
`opening` interrupt). Nothing is assumed of stream events, of found markets, of decisions or of the
absence of crashes.

`Rtds`: the goroutines run (`WF`); Go's `select` chooses at random among ready channels, so a
closed `done` is not passed over for ever (`SF` of `PingStop`); a server dialled again and again
answers (`SF` of `DialOK`, `SubscribeOK`). Nothing is assumed of the network's failures.

The other specifications have no fairness and state no liveness.

## 6. Proofs

| module | theorem | states |
|---|---|---|
| RiskManagerProofs | `Invariance` | `Spec => []IInv` |
| | `TypeCorrect`, `ExposureSafe`, `BreakerSafe`, `LossSafe` | `Spec => []` of `TypeOK`, `ExposureWithinLimit`, `DrawdownBreaker`, `LossBounded` |
| | `HaltSafe` | `Spec => NoBetWhileHalted` |
| EngineProofs | `Invariant` | `Spec => []IInv` |
| | `EngineTypeCorrect`, `FollowsModelCorrect`, `NotOverconfidentCorrect`, `ClaimCappedCorrect`, `PriceWasOfferedCorrect` | `Spec => []` of `TypeOK`, `FollowsModel`, `NotOverconfident`, `ClaimCapped`, `PriceWasOffered` |
| FeedsProofs | `FeedsInvariant` | `Spec => []IInv` |
| | `FeedsTypeCorrect`, `KnownAheadCorrect`, `EventsMatchCorrect`, `SubscribedOnceCorrect`, `NoneForgottenCorrect` | `Spec => []` of `TypeOK`, `KnownAhead`, `EventsMatch`, `SubscribedOnce`, `NoneForgotten` |
| RtdsProofs | `RtdsInvariant` | `Spec => []IInv` |
| | `RtdsTypeCorrect`, `ReadsSubscribedCorrect`, `NoLeakedConnectionCorrect`, `OneWriterCorrect`, `HealthyIsPingedCorrect` | `Spec => []` of `TypeOK`, `ReadsSubscribed`, `NoLeakedConnection`, `OneWriter`, `HealthyIsPinged` |
| RingBufferProofs | `BufferTypes` | `Spec => []TypeOK` |
| | `RemembersNewest` | `Spec => RecentSpec`: the ring implements `RecentEntries` |
| | `RecentSinceCorrect`, `SlopeCorrect` | `Spec => []` of `RecentSinceExact`, `SlopeFollowsTrend` |
| StatsProofs | `StatsTypeCorrect`, `DrawdownCorrect`, `StreaksCorrect`, `CalibrationCorrect` | `Spec => []` of `TypeOK`, `MaxDrawdownExact`, `StreaksExact`, `CalibrationComplete` |
| | `ReportsCorrect` | `MaxExpiry < WindowLen` implies `Spec => []ReportsAgree` |
| BotProofs | `BotInvariance` | `Spec => []BotInv` |
| | `UsesManagerCorrectly`, `ManagerInvariance` | `Spec => RiskManagerSpec`: the bot implements `RiskManager`; so `Spec => []RM!IInv` |
| | `BotTypeCorrect`, `BankrollSavedCorrect`, `OpenPositionLoggedCorrect`, `LoneRowCorrect` | `Spec => []` of `TypeOK`, `BankrollSaved`, `OpenPositionLogged`, `LoneRowSettlesOwnTrade` |
| | `HaltLastsCorrect` | `MaxRestarts = 0` implies `Spec => HaltLasts` |
| | `SessionInvariance`, `SettledByOutcomeCorrect` | `UnlockedReads = FALSE` implies `Spec => []` of `LedgerInv`, `SettledByOutcome` |
| | `LedgerCorrect` | `MaxRestarts = 0` and `UnlockedReads = FALSE` imply `Spec => LedgerSpec`: the bot implements `BetLedger` |
| SumTheorems | (lemmas) | what `SumFunction` returns when a term is added, changed or negated |

*Risk manager.* Assumed: finitely many markets, the stake limits and the Kelly divisor are natural
numbers, positive where the configuration's are, the drawdown limit is positive, sentinels are not
values. The invariants the runs check are not inductive one by one.
`OpenPosition` checks nothing, so that it neither exceeds the exposure limit nor opens a position
while halted rests on what `Evaluate` has established and what cannot have happened since: `OrderFresh`
(a pending order's market has no position, and the manager has not halted since). `LossBounded`
survives `Evaluate` because an accepted order implies `~halted`, so `DrawdownBreaker` bounds the fall
and `ExposureWithinLimit` the stake; and it survives `Settle` because a loss moves exactly its stake
from what is committed to the fall, or a win makes a new peak. `PeakIsHighest` makes the fall
non-negative. `IInv` is the conjunction. The proof has one lemma for each action, on top of lemmas
about `Exposure` (defined as a cardinality, so that the library's facts on finite sets apply) and
about sizing and profit.

*Engine.* Assumed: tanh and the sigmoid have the sign of the slope (about 0 and a half), the thresholds
are tuned as the code's are (`TuningAssumption`: edge at its largest admissible and trade flow together
do not reach the confidence), the slope exists once there are enough prices. `ReadingsAgree` says that
while nothing is written, the sum, the probability and the direction so far are those that one look
at the hub would give now. A composite that reaches the confidence then has the sign of momentum, since the edge
gate bounds what the edge signal has added, and so the direction is the slope's, which is the side
that the model favours (`ModelSigns`). For `NotOverconfident`: in books that agree, the ask of either side is
no better than the middle price, so what the claim exceeds it by is at most the edge that the gate
let through. `OrderMatches` holds of disturbed decisions too and gives the other two.

*Feeds.* Assumed: positive window length and lookahead; no bound on time or faults is used.
`Progress` says that in an unimpaired call every stream begun so far (`started`) has its reader.
`CompleteCovers` is the arithmetic of `KnownAhead`: whatever second a discovery began in, the next
`Lookahead - 1` window lengths lie in the windows it asked for. `EventsMatch` needs that a call's
windows are known before it has a reader (`SubsKnown`), `NoneForgotten` that a window whose call is in
progress counts as listened to (`Listened`).

*Price stream.* Assumed: at least one connection, any number of failures, a positive backoff below its
limit. The loop's place says what it can rely on: all rounds but the one that is read are done
(`DoneRounds`), `s.conn` is nil from the close of a broken connection to the next subscription
(`NilBetween`), and once the wait is over, the ping loops of earlier rounds have ended or write to a
connection that is neither open nor `s.conn` (`OldSettled`). `OneWriter` needs the last: only the current
ping loop can still load `s.conn`. `HealthyIsPinged` needs that this loop writes to the connection
that is read (`WritesToRead`), so that it does not end over an older connection's failure. That the wait
settles the ping loops is the model's assumption on the clock (`Wait`), not a consequence of it.

*Ring buffer.* Assumed: a positive capacity, integer values. `TypeOK` includes that the head equals
the length until the buffer is full. From it `AddShifts` shows that after an `Add` the new `At(0)` is
the entry and `At(k)` the old `At(k - 1)`, by cases on the wrap (`NextSlot`, `AtSlot` remove the
remainder), which makes each step a `Push`.

`RecentSinceExact` is the walk's own loop: it stops at the first entry that is too old (`StopsAtFirst`,
by `Least`), and in a buffer in order (`Rising`) nothing newer lies behind it. `SlopeFollowsTrend` is an
inequality of Chebyshev: for values that do not fall, `k` times the sum of the products is no less than
the product of the sums. The numerator for one more value is the numerator so far plus a gain
(`NumeratorGains`), and the gain is again a sum of rises (`GainGains`); so both are bounded from below
by induction on the length, by the difference of the last and the first value (`NumeratorOfRise`).
Falling prices are rising ones negated.

*Statistics.* Assumed: the entries and payoffs have their types. `MaxDrawdownExact` alone is not
inductive: the loop forgets all totals but the highest. `DrawdownInv` adds that `cumPnL` is the last
total and `peak` is the largest one; then the largest fall to a new total is the fall from the peak. For
the streaks, `StreaksInv` adds that no maximum is below the current run; the lemma `CurrentRun` says
where the run that the new trade ends or continues began. For the calibration, `CalibrationInv` has the
exact content of each bucket, of which the property gives only bounds, because what belongs on an edge
is a matter of rounding; `BucketFits` places each probability. `ReportsInv` has, for each table, the
three column sums, and `TableAddsUp` that one more trade adds one to one row, also when it makes the row
(`Counted`). `ReportsCorrect` needs `MaxExpiry < WindowLen`: a trade with exactly a window left is in no
slot (`stats.go:487`). `DefaultConfig` has 270 of 300 s (`engine.go:27`).

*Sums.* `SumFunction` is a fold over a chosen function, and the library's induction takes an operator.
Sets do as well: a set of naturals has a least element (`Least`, from `NatLessThanWellFounded` and
`WFMin`, which need no operator), so a set with 0 and all successors is all of them (`Induct`).
`SumTheorems` shows with it that the function that adds up the values exists, is the only one and does
not depend on the order of the terms.

*Bot.* Assumed: windows and the manager's limits as in `RiskManager`; no bound on windows, bets, time,
crashes or failing writes is used. There are three layers.

1. `WInv` is the manager's invariant `RM!IInv`, the types, and `OutcomeTrue`: a torn write may show no
   winner, never the wrong one. Every step of the bot is an operation of the manager, its restart or
   nothing of it (`StepOfManager`), where `Crash` is a restart that begins when the process ends,
   because nothing changes the manager or the saved bankroll before `Boot`, and whether the query fails
   can be chosen then. This is the refinement, and it carries over everything
   proved of the manager.
2. `LogInv` adds that the row about to be written is that of the position just opened (`LoggingOpen`),
   and has the three properties of the log. They need each other: a settlement updates a row, and so
   saves the bankroll and clears `unsaved`, because the position has one (`OpenPositionLogged`); the lone row gets its own
   profit because it is the one that `OpenPositionLogged` names. `HaltLasts` follows from `HaltClock`,
   which relates `tripped` to the manager's own clock of the halt: an order is fresh, so the breaker is
   not tripped when it is opened.
3. `Session` gives the bet ledger: a side wins only after its window's end (`ClosedInTime`), the loop
   never decides on a window that is over (`DecidedInTime`), a resolved market shows its winner
   (`ResolvedRight`), and a settlement is of a closed window without a position (`SettledRight`). So a
   settled window is not bet on again. Every step is then one of `BetLedger`'s or a stutter.

The two assumptions mark where the code keeps less than its promise. With unlocked reads
`SettledByOutcome` is false (run `bot_unlocked`); `SettledByOutcomeCorrect` shows that nothing else can
break it, across any crashes. A restart forgets the halt and the bets, so `HaltLasts` and `LedgerSpec`
are about one process (`MaxRestarts = 0`), as in the run `bot_session`; writes may fail in the proof.

Only model-checked: liveness under fairness (`PositionsSettle`, `OldPingersEnd`, `Recovers`), which,
like `ENABLED`, is out of the prover's reach. Every other property of the passing runs is proved, for
all values of the constants that satisfy the named assumptions.

## 7. Where the code and its documents disagree

* `bot_orphan` / `TradesSettle` — positions live in memory only (`internal/risk/manager.go:101`). A
  crash with an open position leaves its row unsettled for ever, where `docs/ARCHITECTURE.md:358`
  promises that positions always settle.
* `bot_two_rows` / `RowsSettleOwnTrade` — `SettleTrade` updates every unsettled row of a slug
  (`internal/store/store.go:151`). After a crash in mid-window the bot bets on the window again, and
  both rows get the second bet's result and profit.
* `bot_unlocked` / `SettledByOutcome` — `SettleResolved` reads `Status` and `WinningOutcome` through a
  pointer after the hub's lock is released (`manager.go:263`); between the two writes in
  `OnMarketResolved` it sees a resolved market without a winner and books a won bet as lost.
  `hub.go:17` says all access is under the lock. It is a data race, so the choice among
  outcomes is the build's; the run takes the one where the reader comes between the two writes.
* `stats_calibration` / `CalibratesClaim` — the calibration and the Brier score flip the probability of
  bets on Down (`internal/stats/stats.go:130`), which `Evaluate` has flipped already
  (`manager.go:174`). `docs/ITERATIONS.md:60` reports its effect, an average prediction of 0.24 in the
  bucket 0.50-0.60.

Met while modelling, without a run of their own:

* `LastBankroll` takes every error of its query for an empty log (`store.go:257`), also one of the
  database, where the comment at `store.go:250` says that it returns false "if no settled trades exist".
  `main` then trades from `cfg.Bankroll` (`main.go:136`), where `docs/ARCHITECTURE.md:238` says that the
  bankroll is restored "if prior trades exist (v3: survives restarts)", and the next settlement saves the
  wrong one. `Crash` has this path; `BankrollSaved` claims a restored bankroll only of a query that works.
* `docs/ARCHITECTURE.md:611-613` says that there is no reconnection: if a websocket drops, "the bot
  currently loses data until restart". The price stream dials and subscribes again, with a backoff
  (`runWithReconnect`, `rtds.go:99`), and the passing run `rtds` shows that it is read again (`Recovers`).
  The document is out of date.
* The comment at `rtds.go:78` says that the ping loop "closes done channel when connection fails". It
  returns and leaves `done` open (`rtds.go:146`); only the read loop closes it. A connection that can be
  read but not written to therefore stays in its round, without pings, until a read fails;
  `HealthyIsPinged` speaks of writable connections for this reason.
* A restart clears the halt and the peak (`manager.go:131`), so with the service's `Restart=always` the
  ten minutes of `docs/ARCHITECTURE.md:353` end with the process. `HaltLasts` is checked of one session.
* Without a profit at any time the reported maximal drawdown is zero (`stats.go:105`), whatever was
  lost; `docs/ARCHITECTURE.md:397` calls it the worst peak-to-trough loss. `MaxDrawdownExact` is about
  `maxDD`, before that condition.
* `docs/ARCHITECTURE.md:289` lists a momentum above 0.50 as a reason not to trade; the code caps the
  signal and goes on (`engine.go:128`).
* The rates by signal count a won bet for a positive signal on either side (`stats.go:384`), where
  `docs/ARCHITECTURE.md:403` speaks of the correlation with the outcome.
* `docs/ARCHITECTURE.md:233` speaks of the current and the next three windows; the code asks for three
  in all (`main.go:88`, `main.go:228`).
* The bucket labelled 0.50-0.60 takes every probability below 0.50 too (`stats.go:134`), which is how
  its average could be 0.24.
* A failed first subscription leaves the process without prices (`main.go:123`), and a market whose
  subscription failed or whose channel was closed is not subscribed again (`main.go:260`); `Recovers` and
  `NoneForgotten` exclude just these.
* Nothing looks at how old a price or a book is (`engine.go:91`).

## 8. What is left out, and why

* `Bot` and `Engine` are not composed: `Bot` leaves side, probability and ask free, which includes
  whatever the engine decides, and keeps its market and expiry gates because one bet before the close
  depends on them. In the same way `Bot`'s `Rotate` is one step, with a clock that was read up to a tick
  before, and `Feeds` has its inside.
* Of `Engine`: tanh and the sigmoid are tables, the volatility and the hour gate are part of the free
  choice whether a decision begins. On a machine that reorders reads, such as the documented ARM64,
  `BestAsk` may see one slice's length with the other's array. Both arrays exist: a book gets its first
  levels under the lock that creates it (`hub.go:40`), and `clob_ws.go:51` always makes a slice. So the read
  gives one of the two arrays' first levels, or says that there is none, which `AskSeen` has. Beyond it is only a build
  that reads the length a second time for the index: there a decision may end the process, which orders
  nothing; `Bot` has a crash at every step.
* Of `Feeds`: an event of the API holds the market of its window only; a closed channel takes its
  reader for good. That the client library reconnects by itself, and resubscribes, is its affair.
* The Brier score, the Sharpe ratio, averages and quotients in reports: formulas over floats.
* A slug prefix with fewer than two dashes makes `timeToExpiry` fail for every trade; `Stats` has the
  default prefix.
* Status API, alerts, configuration, snapshots, statistics ticker: they read, or write tables that
  nothing reads back.
* Parsing of messages and API answers. A market's winner is taken from the API as it is.
* Time. The clock does not reach the next tick between the engine's decision and `OpenPosition`, where
  the loop does no I/O. In `Rtds` there is no clock, but a backoff of a second or more outlasts the
  time a ping loop takes from being woken to seen `done` (`PingersSettled`); a ping loop that hangs in a
  write to a closed connection is not excluded. `LastBankroll` orders by the time of day written at the
  settlement (`store.go:154`, `store.go:256`); the model orders by the settlements, that is, the system's
  clock is not set back between two of them.
* The unit of the CLOB's trade timestamps. `RecentSince` compares them with `time.Now().Unix()`,
  seconds, and nothing in the repository says what the feed sends; the model assumes that they agree.
* Each `BetLedger` market has one bet a *session*; across a restart the code makes no such promise
  (`bot_two_rows`).

## 9. Plan

Done: all modules and runs above, and a proof of every property of the passing runs that is not
liveness.

What could follow:

1. The composition of `Feeds` and `Bot`: `Rotate` as an abstraction of `Feeds`' discovery, and of `Engine`
   and `Bot`: the free decision as one of `Engine`'s orders.
2. Safety facts beneath the liveness properties: which step each waiting loop is blocked on, as an
   invariant that says that some step of the program can be taken.

## 10. Running the checks

```
tlc -workers 2 -config MCRiskManager.cfg MCRiskManager      # about a minute
tlc -workers 2 -config BotCrash.cfg Bot                     # about a minute
tlc -workers 2 -config Feeds.cfg Feeds
tlapm RiskManagerProofs.tla
```

and so for the other cfg files and proof modules. `PROJECT.json` names every run with its module, cfg
and properties, the code lines that each definition stands for, and the altered definition that
each property notices.
