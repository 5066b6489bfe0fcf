-------------------------------- MODULE Bot --------------------------------
(***************************************************************************)
(* One process of the bot and what surrounds it (cmd/bot/main.go): the     *)
(* signal loop and the rotation loop share the hub's market table          *)
(* (internal/hub/hub.go) and the risk manager (module RiskManager); the    *)
(* trade log (internal/store/store.go) outlives the process; the CLOB      *)
(* stream and the Gamma API tell which side won, the stream only if the    *)
(* market was subscribed, and maybe never.                                 *)
(*                                                                         *)
(* A market window is its index: window m is the interval [Start(m),       *)
(* End(m)).  The fields of a market that never change are left out.        *)
(* The signal engine is reduced to its market and expiry gates; whether it *)
(* decides to trade, the side and the probability are free, and so is the  *)
(* ask that the book shows.  The engine's other gates only forbid more.    *)
(*                                                                         *)
(* Between Decide and OpenPosition the loop does no I/O, so the clock is   *)
(* assumed not to reach the next tick there.                               *)
(***************************************************************************)
EXTENDS Integers, Sequences, FiniteSets

CONSTANTS
    NoPosition, NoOrder, NoAsk,
    StartBankroll, KellyDivisor, MaxPosition, MaxExposure, MinBet,
    MinEntryPrice, MaxEntryPrice, DrawdownLimit, HaltCooldown,
    Asks, ModelProbs,
    MaxBets, MaxRestarts, MaxTime,  \* the constants of RiskManager
    NumWindows,     \* bound: market windows
    WindowLen,      \* length of a window (300 s), in ticks
    MaxExpiry,      \* EngineConfig.MaxExpiry, in ticks
    MinExpiry,      \* EngineConfig.MinExpiry, in ticks
    ExpiryGrace,    \* how long after its end a market is expired (30 s), in ticks
    Lookahead,      \* windows that discovery asks for
    Winners,        \* bound: the sides that may win; the code treats both alike
    UnlockedReads,  \* SettleResolved may read a market while it is written
    DBFails         \* a write to the trade log, or a restart's read, may fail

ASSUME WindowAssumption == NumWindows \in Nat /\ WindowLen \in Nat \ {0}

Slugs == 0 .. NumWindows - 1
Start(m) == m * WindowLen
End(m) == Start(m) + WindowLen

Directions == {"Up", "Down"}

VARIABLES
    bankroll, peakBankroll, positions, totalPnL, wins, losses,
    halted, haltedAt, haltCount, order, savedBankroll, bets, restarts,
    now,            \* the variables of RiskManager
    settlements,    \* Manager.settlements: what was settled, and whether won
    markets,        \* Hub.markets
    resolving,      \* the market whose Status is written and outcome is not yet
    listening,      \* markets whose resolution stream is subscribed
    loop,           \* where the signal loop is
    toVisit,        \* positions that SettleResolved has not visited yet
    decision,       \* signalLoop's local "dec"
    logging,        \* the opened order that LogTrade has yet to write
    rotation,       \* where the rotation loop is
    expired,        \* SettleExpired's local "expired", not yet checked
    rows,           \* the trades table
    lost,           \* history: windows of which a write to the trades table failed
    unsaved,        \* history: the manager's bankroll may differ from the saved one
    tripped,        \* history: when the breaker last tripped, in any process
    truth           \* the side that won each market

manager == <<bankroll, peakBankroll, positions, totalPnL, wins, losses,
             halted, haltedAt, haltCount, order, bets, restarts>>
hub == <<markets, resolving, listening>>
signals == <<loop, toVisit, decision, logging>>
rotator == <<rotation, expired>>
log == <<rows, savedBankroll, lost, unsaved>>
vars == <<manager, now, settlements, hub, signals, rotator, log, tripped, truth>>

RM == INSTANCE RiskManager

\* What RiskManager assumes of the constants they share.
ASSUME ManagerAssumption ==
    /\ RM!SizingAssumption /\ RM!BreakerAssumption /\ RM!InputAssumption
    /\ RM!BoundAssumption /\ RM!SentinelAssumption

NoDecision == [slug |-> -1, dir |-> "Up", p |-> 0]
Unknown == [status |-> "unknown", outcome |-> "neither"]
Trading == [status |-> "trading", outcome |-> "neither"]
Never == -1

-----------------------------------------------------------------------------
(* The outside world                                                       *)

Tick ==
    /\ loop \notin {"evaluating", "opening"}
    /\ now < MaxTime
    /\ now' = now + 1
    /\ UNCHANGED <<manager, settlements, hub, signals, rotator, log, tripped, truth>>

\* The side that won becomes known, at or after the end of the window.
Close(m, side) ==
    /\ side \in Winners
    /\ truth[m] = "open"
    /\ now >= End(m)
    /\ truth' = [truth EXCEPT ![m] = side]
    /\ UNCHANGED <<manager, now, settlements, hub, signals, rotator, log, tripped>>

-----------------------------------------------------------------------------
(* The hub                                                                 *)

\* The write lock is held from the assignment of Status to that of
\* WinningOutcome; only a reader that takes no lock can come between them.
BeginResolve(m) ==
    IF UnlockedReads
    THEN /\ markets' = [markets EXCEPT ![m].status = "resolved"]
         /\ resolving' = {m}
    ELSE /\ markets' = [markets EXCEPT ![m] =
                           [status |-> "resolved", outcome |-> truth[m]]]
         /\ UNCHANGED resolving

EndResolve ==
    /\ \E m \in resolving : markets' = [markets EXCEPT ![m].outcome = truth[m]]
    /\ resolving' = {}
    /\ UNCHANGED <<manager, now, settlements, listening, signals, rotator, log,
                   tripped, truth>>

\* A stream event may come once, more than once, or never, also after
\* ForceResolve; for a market the hub does not know it changes nothing.
OnMarketResolved(m) ==
    /\ loop # "down"
    /\ resolving = {}
    /\ m \in listening
    /\ truth[m] # "open"
    /\ markets[m].status # "unknown"
    /\ BeginResolve(m)
    /\ UNCHANGED <<manager, now, settlements, listening, signals, rotator, log,
                   tripped, truth>>

\* RegisterMarket for each market of ms: an entry is never replaced.
Registered(ms) ==
    [m \in Slugs |-> IF m \in ms /\ markets[m].status = "unknown"
                     THEN Trading ELSE markets[m]]

\* CurrentMarket returns one of these.
CurrentMarkets ==
    {m \in Slugs : markets[m].status = "trading" /\ Start(m) <= now /\ now < End(m)}

-----------------------------------------------------------------------------
(* The trade log                                                           *)

\* A plausible bug: the update forgets "slug = ?".
SettleAllRows(m, won, pnl) ==
    [i \in DOMAIN rows |->
        IF rows[i].status = "open"
        THEN [rows[i] EXCEPT !.status = IF won THEN "won" ELSE "lost", !.pnl = pnl]
        ELSE rows[i]]

\* SettleTrade: every row of the market without a settlement is updated.
SettleRows(m, won, pnl) ==
    [i \in DOMAIN rows |->
        IF rows[i].slug = m /\ rows[i].status = "open"
        THEN [rows[i] EXCEPT !.status = IF won THEN "won" ELSE "lost", !.pnl = pnl]
        ELSE rows[i]]

UnsettledRows(m) == {i \in DOMAIN rows : rows[i].slug = m /\ rows[i].status = "open"}

\* A plausible bug: the callback runs before the bankroll is updated.
OnSettleEarly(m, won, pnl) ==
    /\ \/ /\ rows' = SettleRows(m, won, pnl)
          /\ savedBankroll' = bankroll
          /\ UNCHANGED lost
       \/ DBFails /\ lost' = lost \cup {m} /\ UNCHANGED <<rows, savedBankroll>>
    /\ unsaved' = (m \in lost')

\* A plausible bug: bankroll_after and pnl are swapped in the update.
OnSettleSwapped(m, won, pnl) ==
    /\ rows' = SettleRows(m, won, bankroll')
    /\ savedBankroll' = IF UnsettledRows(m) = {} THEN savedBankroll ELSE pnl
    /\ UNCHANGED <<lost, unsaved>>

\* OnSettle.  LastBankroll returns the bankroll of the update with the latest
\* settled_at: the latest one that changed a row, as the wall clock is assumed
\* not to step back between settlements.
OnSettle(m, won, pnl) ==
    /\ \/ /\ rows' = SettleRows(m, won, pnl)
          /\ savedBankroll' = IF UnsettledRows(m) = {} THEN savedBankroll ELSE bankroll'
          /\ UNCHANGED lost
       \/ DBFails /\ lost' = lost \cup {m} /\ UNCHANGED <<rows, savedBankroll>>
    /\ unsaved' = (m \in lost')

-----------------------------------------------------------------------------
(* The signal loop                                                         *)

OpenPositions == {m \in Slugs : positions[m] # NoPosition}

\* A plausible bug: SettleResolved visits every market of the hub.
SettleBeginAll ==
    /\ loop = "idle"
    /\ loop' = "settling"
    /\ toVisit' = {m \in Slugs : markets[m].status # "unknown"}
    /\ UNCHANGED <<manager, now, settlements, hub, decision, logging, rotator, log,
                   tripped, truth>>

\* The ticker fires; SettleResolved takes the manager's lock.
SettleBegin ==
    /\ loop = "idle"
    /\ loop' = "settling"
    /\ toVisit' = OpenPositions
    /\ UNCHANGED <<manager, now, settlements, hub, decision, logging, rotator, log,
                   tripped, truth>>

\* A position of a market that is not resolved is passed over.
SettleSkip(m) ==
    /\ loop = "settling"
    /\ m \in toVisit
    /\ markets[m].status # "resolved"
    /\ toVisit' = toVisit \ {m}
    /\ UNCHANGED <<manager, now, settlements, hub, loop, decision, logging, rotator,
                   log, tripped, truth>>

\* A position of a resolved market is settled and its rows are updated, all
\* under the manager's lock.
SettleVisit(m) ==
    /\ loop = "settling"
    /\ m \in toVisit
    /\ markets[m].status = "resolved"
    /\ RM!SettlePosition(m, markets[m].outcome)
    /\ LET won == RM!DidWin(positions[m].dir, markets[m].outcome)
       IN  /\ settlements' = Append(settlements,
                                [slug |-> m, dir |-> positions[m].dir, won |-> won])
           /\ OnSettle(m, won, RM!PnL(positions[m], won))
    /\ tripped' = IF halted' /\ ~halted THEN now ELSE tripped
    /\ toVisit' = toVisit \ {m}
    /\ UNCHANGED <<hub, loop, decision, logging, rotator, truth>>

\* The engine finds a market inside its expiry gates and decides to trade.
Decide(m, d, p) ==
    /\ loop = "settling"
    /\ toVisit = {}
    /\ bets < MaxBets
    /\ m \in CurrentMarkets
    /\ End(m) - now \in MinExpiry..MaxExpiry
    /\ decision' = [slug |-> m, dir |-> d, p |-> p]
    /\ loop' = "evaluating"
    /\ UNCHANGED <<manager, now, settlements, hub, toVisit, logging, rotator, log,
                   tripped, truth>>

\* The engine holds.
Hold ==
    /\ loop = "settling"
    /\ toVisit = {}
    /\ loop' = "idle"
    /\ UNCHANGED <<manager, now, settlements, hub, toVisit, decision, logging,
                   rotator, log, tripped, truth>>

Evaluate(ask) ==
    /\ loop = "evaluating"
    /\ RM!Evaluate(decision.slug, decision.dir, decision.p, ask)
    /\ loop' = IF order' = NoOrder THEN "idle" ELSE "opening"
    /\ decision' = NoDecision
    /\ UNCHANGED <<settlements, hub, toVisit, logging, rotator, rows, lost, unsaved,
                   tripped, truth>>

OpenPosition ==
    /\ loop = "opening"
    /\ RM!OpenPosition
    /\ logging' = order
    /\ loop' = "logging"
    /\ UNCHANGED <<settlements, hub, toVisit, decision, rotator, rows, lost, unsaved,
                   tripped, truth>>

\* LogTrade inserts the row, or fails, which the loop only logs.
LogTrade ==
    /\ loop = "logging"
    /\ \/ /\ rows' = Append(rows, [slug |-> logging.slug, dir |-> logging.dir,
                                   price |-> logging.price, cost |-> logging.cost,
                                   status |-> "open", pnl |-> 0])
          /\ UNCHANGED lost
       \/ DBFails /\ lost' = lost \cup {logging.slug} /\ UNCHANGED rows
    /\ logging' = NoOrder
    /\ loop' = "idle"
    /\ UNCHANGED <<manager, now, settlements, hub, toVisit, decision, rotator,
                   savedBankroll, unsaved, tripped, truth>>

-----------------------------------------------------------------------------
(* The rotation loop                                                       *)

\* The windows FindCurrentAndUpcoming asked the Gamma API for, from a clock
\* that it read up to a tick ago, before its requests; each request may fail,
\* which only leaves its window out.
Discoverable ==
    {m \in Slugs : (now - 1) \div WindowLen <= m /\ m < now \div WindowLen + Lookahead}

Known == {m \in Slugs : markets[m].status # "unknown"}

\* Register what is new and subscribe it once.  SubscribeAssets fails as a
\* whole for the resolution stream, and a known market is not tried again.
Rotate(found) ==
    /\ loop # "down"
    /\ rotation = "idle"
    /\ resolving = {}
    /\ markets' = Registered(found \ Known)
    /\ listening' \in {listening, listening \cup (found \ Known)}
    /\ rotation' = "collecting"
    /\ UNCHANGED <<manager, now, settlements, resolving, signals, expired, log,
                   tripped, truth>>

\* A plausible bug: the fallback trusts the stream for subscribed markets.
ExpiredUnlessListening ==
    {m \in OpenPositions \ listening : /\ markets[m].status # "resolved"
                                      /\ now - End(m) > ExpiryGrace}

\* Positions whose window has passed without a resolution.
ExpiredPositions ==
    {m \in OpenPositions : /\ markets[m].status # "resolved"
                           /\ now - End(m) > ExpiryGrace}

\* The first half of SettleExpired, under the manager's lock.
CollectExpired ==
    /\ rotation = "collecting"
    /\ loop # "settling"
    /\ expired' = ExpiredPositions
    /\ rotation' = "checking"
    /\ UNCHANGED <<manager, now, settlements, hub, signals, log, tripped, truth>>

\* CheckResolution finds the market closed on the API; ForceResolve leaves a
\* market that the stream has resolved in the meantime alone.
CheckResolved(m) ==
    /\ rotation = "checking"
    /\ resolving = {}
    /\ m \in expired
    /\ truth[m] # "open"
    /\ IF markets[m].status # "resolved" THEN BeginResolve(m)
       ELSE UNCHANGED <<markets, resolving>>
    /\ expired' = expired \ {m}
    /\ UNCHANGED <<manager, now, settlements, listening, signals, rotation,
                   log, tripped, truth>>

\* The request fails, or the API does not show a winner yet.
CheckUnresolved(m) ==
    /\ rotation = "checking"
    /\ m \in expired
    /\ expired' = expired \ {m}
    /\ UNCHANGED <<manager, now, settlements, hub, signals, rotation, log, tripped,
                   truth>>

RotateEnd ==
    /\ rotation = "checking"
    /\ expired = {}
    /\ rotation' = "idle"
    /\ UNCHANGED <<manager, now, settlements, hub, signals, expired, log, tripped,
                   truth>>

-----------------------------------------------------------------------------
(* Crash and restart                                                       *)

\* The process ends between any two steps; only the trades table is left.
\* The manager gets its next state here: nothing reads it before Boot.  If
\* the query for the last bankroll fails, it is that of a first start.
Crash ==
    /\ loop # "down"
    /\ restarts < MaxRestarts
    /\ RM!NewManager
    /\ \/ bankroll' = savedBankroll /\ unsaved' = FALSE
       \/ DBFails /\ bankroll' = StartBankroll /\ unsaved' = TRUE
    /\ restarts' = restarts + 1
    /\ settlements' = <<>>
    /\ markets' = [m \in Slugs |-> Unknown]
    /\ resolving' = {} /\ listening' = {}
    /\ loop' = "down" /\ toVisit' = {} /\ decision' = NoDecision /\ logging' = NoOrder
    /\ rotation' = "idle" /\ expired' = {}
    /\ UNCHANGED <<bets, now, rows, savedBankroll, lost, tripped, truth>>

\* main: it exits again unless discovery finds a market; a failed
\* subscription is only logged.
Boot(found) ==
    /\ loop = "down"
    /\ found # {}
    /\ markets' = Registered(found)
    /\ listening' \in {{}, found}
    /\ loop' = "idle"
    /\ UNCHANGED <<manager, now, settlements, resolving, toVisit, decision, logging,
                   rotator, log, tripped, truth>>

-----------------------------------------------------------------------------

Init ==
    /\ RM!Init
    /\ settlements = <<>>
    /\ markets = [m \in Slugs |-> Unknown]
    /\ resolving = {} /\ listening = {}
    /\ loop = "down" /\ toVisit = {} /\ decision = NoDecision /\ logging = NoOrder
    /\ rotation = "idle" /\ expired = {}
    /\ rows = <<>> /\ lost = {} /\ unsaved = FALSE
    /\ tripped = Never
    /\ truth = [m \in Slugs |-> "open"]

SignalLoop ==
    \/ SettleBegin
    \/ \E m \in Slugs : SettleSkip(m) \/ SettleVisit(m)
    \/ \E m \in Slugs, d \in Directions, p \in ModelProbs : Decide(m, d, p)
    \/ Hold
    \/ \E ask \in Asks \cup {NoAsk} : Evaluate(ask)
    \/ OpenPosition
    \/ LogTrade

RotationLoop ==
    \/ \E found \in SUBSET Discoverable : Rotate(found)
    \/ CollectExpired
    \/ \E m \in Slugs : CheckResolved(m) \/ CheckUnresolved(m)
    \/ RotateEnd

Stream == EndResolve \/ \E m \in Slugs : OnMarketResolved(m)

Environment ==
    \/ Tick
    \/ \E m \in Slugs, side \in Directions : Close(m, side)

Next ==
    \/ SignalLoop
    \/ RotationLoop
    \/ Stream
    \/ Environment
    \/ Crash
    \/ \E found \in SUBSET Discoverable : Boot(found)

Spec == Init /\ [][Next]_vars

\* The two tickers keep firing and their loops keep running; a waiting
\* goroutine eventually gets the manager's lock (sync.Mutex does not starve
\* it); time passes; every market is eventually decided; and a market that
\* the API is asked about again and again eventually shows its winner.
Fairness ==
    /\ WF_vars(SignalLoop)
    /\ WF_vars(RotationLoop)
    /\ SF_vars(CollectExpired)
    /\ \A m \in Slugs : SF_vars(CheckResolved(m))
    /\ WF_vars(EndResolve)
    /\ SF_vars(Tick)
    /\ \A m \in Slugs : WF_vars(\E side \in Directions : Close(m, side))
    /\ WF_vars(\E found \in SUBSET Discoverable : Boot(found))

FairSpec == Spec /\ Fairness

-----------------------------------------------------------------------------
(* Properties                                                              *)

\* The hub, the loops and their locals keep their types, and the loops are where
\* their locals say.
TypeOK ==
    /\ markets \in [Slugs -> [status : {"unknown", "trading", "resolved"},
                              outcome : RM!Outcomes]]
    /\ resolving \in SUBSET Slugs /\ Cardinality(resolving) <= 1
    /\ listening \subseteq Slugs /\ toVisit \subseteq OpenPositions
    /\ loop \in {"down", "idle", "settling", "evaluating", "opening", "logging"}
    /\ rotation \in {"idle", "collecting", "checking"}
    /\ expired \subseteq Slugs
    /\ loop = "opening" <=> order # NoOrder
    /\ loop = "logging" <=> logging # NoOrder
    /\ truth \in [Slugs -> Directions \cup {"open"}]

\* The bets of a session, as BetLedger sees them.
SettledAs(m, w) == \E i \in DOMAIN settlements :
                      settlements[i].slug = m /\ settlements[i].won = w

Standing(m) ==
    CASE positions[m] # NoPosition -> "open"
      [] positions[m] = NoPosition /\ SettledAs(m, TRUE) -> "won"
      [] positions[m] = NoPosition /\ ~SettledAs(m, TRUE) /\ SettledAs(m, FALSE) -> "lost"
      [] OTHER -> "none"

BetOn(m) ==
    IF positions[m] # NoPosition THEN positions[m].dir
    ELSE LET sides == {settlements[i].dir : i \in {j \in DOMAIN settlements :
                                                    settlements[j].slug = m}}
         IN  IF sides = {} THEN "none" ELSE CHOOSE side \in sides : TRUE

Ledger == INSTANCE BetLedger WITH
            Markets <- Slugs,
            result <- truth,
            bet <- [m \in Slugs |-> BetOn(m)],
            standing <- [m \in Slugs |-> Standing(m)]

\* In one session the bot bets on a window at most once, before the window
\* closes, and settles the bet once, by the side that won (hub.go:211,
\* manager.go:156, 261).
LedgerSpec == Ledger!Spec

\* The loops use the risk manager as its module allows: no settlement while
\* an order is pending, each order opened once, and a restart that takes
\* what LastBankroll returns, or cfg.Bankroll (main.go:136, 342).
RiskManagerSpec == RM!Spec

\* Every open position is eventually settled, by the stream's event or by
\* the API fallback (main.go:267, 329).
PositionsSettle == \A m \in Slugs : positions[m] # NoPosition ~> positions[m] = NoPosition

\* A restart at any moment restores exactly the bankroll the manager has if
\* its query succeeds, unless a write of the window settled last failed or
\* this process was itself started by a query that failed and has settled
\* nothing since (store.go:251, main.go:136).
BankrollSaved == ~unsaved => savedBankroll = bankroll

\* As long as no write of its window failed, an open position has an unsettled
\* row with its side, price and stake, from the moment the loop has logged it
\* (main.go:362).
OpenPositionLogged ==
    \A m \in OpenPositions \ lost :
        \/ loop = "logging" /\ logging.slug = m
        \/ \E i \in UnsettledRows(m) :
              /\ rows[i].dir = positions[m].dir
              /\ rows[i].price = positions[m].price
              /\ rows[i].cost = positions[m].cost

\* The only row of a window of which no write failed is settled with the
\* profit of its own price and stake, and as won only if its side won, across
\* crashes and torn reads of the outcome (store.go:152, manager.go:307).  If
\* the insertion of a later trade on the window failed, the earlier row gets
\* that trade's profit.
LoneRowSettlesOwnTrade ==
    \A i \in DOMAIN rows :
        /\ rows[i].status # "open" /\ rows[i].slug \notin lost
        /\ \A j \in DOMAIN rows \ {i} : rows[j].slug # rows[i].slug
        => /\ rows[i].pnl = RM!PnL(rows[i], rows[i].status = "won")
           /\ rows[i].status = "won" => rows[i].dir = truth[rows[i].slug]

\* A position is opened only when the cooldown has passed since the breaker
\* last tripped (manager.go:353).
HaltLasts ==
    [][\A m \in Slugs : positions[m] = NoPosition /\ positions'[m] # NoPosition
         => tripped = Never \/ now - tripped >= HaltCooldown]_vars

\* A position is settled as won exactly if its side won (manager.go:267).
SettledByOutcome ==
    \A i \in DOMAIN settlements :
        settlements[i].won <=> settlements[i].dir = truth[settlements[i].slug]

\* A row's settlement is that of its own trade: its result and its profit
\* are those of the side and stake it records.
RowsSettleOwnTrade ==
    \A i \in DOMAIN rows : rows[i].status # "open" =>
        /\ rows[i].status = (IF rows[i].dir = truth[rows[i].slug] THEN "won" ELSE "lost")
        /\ rows[i].pnl = RM!PnL(rows[i], rows[i].status = "won")

\* Every trade that was logged is eventually settled, if the process keeps
\* coming back.
TradesSettle ==
    []<>(loop = "idle") => \A i \in 1..MaxBets :
        (i \in DOMAIN rows /\ rows[i].status = "open")
            ~> (i \in DOMAIN rows /\ rows[i].status # "open")
=============================================================================
