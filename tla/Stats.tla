------------------------------- MODULE Stats -------------------------------
(***************************************************************************)
(* The hourly reports over settled trades (internal/stats/stats.go): the   *)
(* summary, the streaks, the calibration, the tables by hour, edge and time *)
(* left in the window, and the win rates by signal.  Each is a loop over   *)
(* the same list, so one step takes one trade through every loop; every    *)
(* state is what they return for the trades so far.  A quotient is kept as *)
(* its parts, a probability or an edge is a number of percent, money is a  *)
(* number of units, and a time is a number of seconds since midnight UTC.  *)
(***************************************************************************)
EXTENDS Integers, Sequences, FiniteSets, Functions

CONSTANTS
    Entries,    \* what is known of a trade when it is opened: a set of Entry
    Payoffs,    \* what a trade wins or loses
    MinEntryPrice,  \* cfg.MinEntryPrice, in percent: a claim is above the price
    MinExpiry,  \* the engine's cfg.MinExpiry: the seconds a window must have left
    MaxExpiry,  \* its cfg.MaxExpiry: the seconds it may have left
    MaxTrades   \* bound: settled trades

Directions == {"BUY_UP", "BUY_DOWN"}
SignalNames == {"momentum", "imbalance", "edge", "tradeflow"}
WindowLen == 300

\* The side, the model's probability of Up, the edge, the sign of each signal,
\* the start of the window that the slug names, and when the trade was logged.
Entry == [dir : Directions, up : 1..99, edge : 0..99,
          signals : [SignalNames -> -1..1], start : Nat, opened : Nat]

ASSUME EntryAssumption == Entries \subseteq Entry
ASSUME PayoffAssumption == Payoffs \subseteq Nat \ {0}
ASSUME LimitsAssumption ==
    MinEntryPrice \in Nat /\ MinExpiry \in Nat /\ MaxExpiry \in Nat /\ MaxTrades \in Nat

VARIABLES
    trades,     \* the settled trades that were passed, in order of settlement
    summary,    \* ComputeSummary's wins and losses: how many and how much
    cumPnL,     \* its cumPnL, which is TotalPnL too
    peak,       \* its peak
    maxDD,      \* its maxDD
    current,    \* ComputeStreaks' current: wins, or minus losses, in a row
    maxWin,     \* MaxWinStreak
    maxLoss,    \* MaxLossStreak
    buckets,    \* ComputeCalibration's buckets
    hours,      \* ComputeHourlyPnL's hours
    edges,      \* ComputeEdgeBuckets's buckets, by the lower end of the label
    slots,      \* ComputeTimeInWindow's accs, by minSec
    rates,      \* ComputeSignalWinRates's results
    totals      \* history: cumPnL before the first trade and after each

vars == <<trades, summary, cumPnL, peak, maxDD, current, maxWin, maxLoss,
          buckets, hours, edges, slots, rates, totals>>

Larger(a, b) == IF a >= b THEN a ELSE b

-----------------------------------------------------------------------------
(* The trades                                                              *)

\* The probability of winning that the model gave to the side bought.
Claim(dir, up) == IF dir = "BUY_UP" THEN up ELSE 100 - up

\* A settled row: Order.ModelProb, and so model_prob, is the claim already.
Trade(e, won, payoff) ==
    [entry |-> e, dir |-> e.dir, prob |-> Claim(e.dir, e.up), won |-> won,
     pnl |-> IF won THEN payoff ELSE -payoff]

\* The seconds the window had left when the trade was logged.
Remaining(e) == LET left == e.start + WindowLen - e.opened
                IN  IF left < 0 THEN 0 ELSE IF left > WindowLen THEN WindowLen ELSE left

\* The entry passed the engine's gates; the row is logged within the second.
Opened(e) ==
    /\ e.start % WindowLen = 0
    /\ Claim(e.dir, e.up) > MinEntryPrice
    /\ Remaining(e) >= MinExpiry - 1
    /\ Remaining(e) <= MaxExpiry

-----------------------------------------------------------------------------
(* The summary                                                             *)

\* A plausible bug: the peak follows every win.
SummarizeLastPeak(t) ==
    /\ cumPnL' = cumPnL + t.pnl
    /\ peak' = IF t.won THEN Larger(0, cumPnL') ELSE peak
    /\ maxDD' = Larger(maxDD, peak' - cumPnL')

Summarize(t) ==
    /\ cumPnL' = cumPnL + t.pnl
    /\ peak' = Larger(peak, cumPnL')
    /\ maxDD' = Larger(maxDD, peak' - cumPnL')

\* Wins, Losses, GrossWins and GrossLosses.
CountOutcome(t) ==
    summary' = IF t.won
               THEN [summary EXCEPT !.wins = @ + 1, !.grossWins = @ + t.pnl]
               ELSE [summary EXCEPT !.losses = @ + 1, !.grossLosses = @ - t.pnl]

-----------------------------------------------------------------------------
(* The streaks                                                             *)

\* A plausible bug: a win does not end a losing streak but shortens it.
StreakShortened(t) ==
    /\ current' = IF t.won THEN current + 1 ELSE IF current < 0 THEN current - 1 ELSE -1
    /\ maxWin' = Larger(maxWin, current')
    /\ maxLoss' = Larger(maxLoss, -current')

Streak(t) ==
    /\ current' = IF t.won THEN IF current > 0 THEN current + 1 ELSE 1
                  ELSE IF current < 0 THEN current - 1 ELSE -1
    /\ maxWin' = Larger(maxWin, current')
    /\ maxLoss' = Larger(maxLoss, -current')

-----------------------------------------------------------------------------
(* The calibration                                                         *)

\* The probability that the loop compares with the outcome.
Normalized(t) == IF t.dir = "BUY_DOWN" THEN 100 - t.prob ELSE t.prob

\* A plausible bug: a probability below a half is dropped, not clamped.
BucketBelowHalf(p) == IF p < 50 THEN -1 ELSE (p - 50) \div 10

\* int((p - 0.50) / 0.10), clamped to the five buckets.  In floating point
\* the quotients of 0.60 and 0.70 come out just below 1 and 2.
Bucket(p) ==
    IF p < 60 THEN 0
    ELSE IF p \in {60, 70} THEN (p - 50) \div 10 - 1
    ELSE (p - 50) \div 10

\* A plausible bug: total counts the losses only, as if wins were apart.
CalibrateLosses(t) ==
    buckets' = [b \in 0..4 |->
        IF b = Bucket(Normalized(t))
        THEN [sumProb |-> buckets[b].sumProb + Normalized(t),
              wins |-> IF t.won THEN buckets[b].wins + 1 ELSE buckets[b].wins,
              total |-> IF t.won THEN buckets[b].total ELSE buckets[b].total + 1]
        ELSE buckets[b]]

Calibrate(t) ==
    buckets' = [b \in 0..4 |->
        IF b = Bucket(Normalized(t))
        THEN [sumProb |-> buckets[b].sumProb + Normalized(t),
              wins |-> IF t.won THEN buckets[b].wins + 1 ELSE buckets[b].wins,
              total |-> buckets[b].total + 1]
        ELSE buckets[b]]

-----------------------------------------------------------------------------
(* The tables: a group appears with its first trade                        *)

NoTrades == [trades |-> 0, wins |-> 0, pnl |-> 0]

\* The table with one more trade in group g.
Counted(table, g, t) ==
    LET old == IF g \in DOMAIN table THEN table[g] ELSE NoTrades
        new == [trades |-> old.trades + 1,
                wins |-> IF t.won THEN old.wins + 1 ELSE old.wins,
                pnl |-> old.pnl + t.pnl]
    IN  [k \in DOMAIN table \cup {g} |-> IF k = g THEN new ELSE table[k]]

Hour(e) == (e.opened \div 3600) % 24

\* The lower end of an edge's label.
EdgeBucket(edge) == IF edge < 5 THEN 0 ELSE IF edge < 10 THEN 5 ELSE IF edge < 20 THEN 10 ELSE 20

\* The slots of the window, by minSec, and their maxSec.
MaxSec == [m \in {0, 90, 180} |-> IF m = 180 THEN WindowLen ELSE m + 90]

\* A plausible bug: neither end of a slot belongs to it.
SlotsStrict(left) == {m \in DOMAIN MaxSec : m < left /\ left < MaxSec[m]}

Slots(left) == {m \in DOMAIN MaxSec : m <= left /\ left < MaxSec[m]}

Tabulate(t) ==
    /\ hours' = Counted(hours, Hour(t.entry), t)
    /\ edges' = Counted(edges, EdgeBucket(t.entry.edge), t)
    /\ slots' = LET found == Slots(Remaining(t.entry))
                IN  IF found = {} THEN slots
                    ELSE Counted(slots, CHOOSE m \in found : TRUE, t)

-----------------------------------------------------------------------------
(* The win rates by the sign of a signal                                   *)

OneMore(rate, t) == [wins |-> IF t.won THEN rate.wins + 1 ELSE rate.wins,
                     total |-> rate.total + 1]

Rate(t) ==
    rates' = [s \in SignalNames |->
        IF t.entry.signals[s] > 0
        THEN [rates[s] EXCEPT !.positive = OneMore(@, t)]
        ELSE IF t.entry.signals[s] < 0
        THEN [rates[s] EXCEPT !.negative = OneMore(@, t)]
        ELSE rates[s]]

-----------------------------------------------------------------------------

Init ==
    /\ trades = <<>>
    /\ summary = [wins |-> 0, losses |-> 0, grossWins |-> 0, grossLosses |-> 0]
    /\ cumPnL = 0 /\ peak = 0 /\ maxDD = 0
    /\ current = 0 /\ maxWin = 0 /\ maxLoss = 0
    /\ buckets = [b \in 0..4 |-> [sumProb |-> 0, wins |-> 0, total |-> 0]]
    /\ hours = <<>> /\ edges = <<>> /\ slots = <<>>
    /\ rates = [s \in SignalNames |-> [positive |-> [wins |-> 0, total |-> 0],
                                       negative |-> [wins |-> 0, total |-> 0]]]
    /\ totals = <<0>>

Take(t) ==
    /\ trades' = Append(trades, t)
    /\ Summarize(t)
    /\ CountOutcome(t)
    /\ Streak(t)
    /\ Calibrate(t)
    /\ Tabulate(t)
    /\ Rate(t)
    /\ totals' = Append(totals, cumPnL + t.pnl)

Next ==
    /\ Len(trades) < MaxTrades
    /\ \E e \in Entries, won \in BOOLEAN, payoff \in Payoffs :
          /\ Opened(e)
          /\ Take(Trade(e, won, payoff))

Spec == Init /\ [][Next]_vars

-----------------------------------------------------------------------------
(* Properties                                                              *)

\* Every variable keeps its type; no bucket has more wins than trades.
TypeOK ==
    /\ trades \in Seq([entry : Entries, dir : Directions, prob : 1..99,
                      won : BOOLEAN, pnl : Int])
    /\ summary \in [wins : Nat, losses : Nat, grossWins : Nat, grossLosses : Nat]
    /\ totals \in Seq(Int) /\ Len(totals) = Len(trades) + 1
    /\ cumPnL \in Int /\ peak \in Nat /\ maxDD \in Nat
    /\ current \in Int /\ maxWin \in Nat /\ maxLoss \in Nat
    /\ DOMAIN buckets = 0..4
    /\ \A b \in 0..4 : /\ buckets[b].total \in Nat
                       /\ buckets[b].wins \in 0 .. buckets[b].total
    /\ DOMAIN hours \subseteq 0..23
    /\ DOMAIN edges \subseteq {0, 5, 10, 20} /\ DOMAIN slots \subseteq DOMAIN MaxSec
    /\ \A table \in {hours, edges, slots} : \A g \in DOMAIN table :
          /\ table[g].trades \in Nat \ {0} /\ table[g].pnl \in Int
          /\ table[g].wins \in 0 .. table[g].trades
    /\ rates \in [SignalNames -> [positive : [wins : Nat, total : Nat],
                                  negative : [wins : Nat, total : Nat]]]

\* maxDD is the largest fall of the total from any earlier total, the start
\* included, although the loop keeps only the highest (stats.go:85).
MaxDrawdownExact ==
    /\ \A i, j \in DOMAIN totals : i <= j => totals[i] - totals[j] <= maxDD
    /\ \E i, j \in DOMAIN totals : i <= j /\ totals[i] - totals[j] = maxDD

\* trades[i..j] ended the same way.
RunOf(won, i, j) == \A k \in i..j : trades[k].won = won

\* The longest run of wins and of losses is what was counted, and the current
\* streak is the whole run that ends the list (stats.go:261).
StreaksExact ==
    /\ \A i, j \in DOMAIN trades :
          i <= j => /\ RunOf(TRUE, i, j) => j - i + 1 <= maxWin
                    /\ RunOf(FALSE, i, j) => j - i + 1 <= maxLoss
    /\ maxWin > 0 => \E i \in DOMAIN trades :
          i + maxWin - 1 \in DOMAIN trades /\ RunOf(TRUE, i, i + maxWin - 1)
    /\ maxLoss > 0 => \E i \in DOMAIN trades :
          i + maxLoss - 1 \in DOMAIN trades /\ RunOf(FALSE, i, i + maxLoss - 1)
    /\ trades # <<>> =>
          \E i \in DOMAIN trades :
              /\ current = (IF trades[i].won THEN 1 ELSE -1) * (Len(trades) - i + 1)
              /\ RunOf(trades[i].won, i, Len(trades))
              /\ i > 1 => trades[i - 1].won # trades[i].won

\* The trades with a probability strictly inside bucket b's label, and those
\* on its edges too; the outer buckets take what lies beyond them, so that
\* bucket 0, labelled 0.50-0.60, has all that is below 0.50 as well.
Inside(b) == {i \in DOMAIN trades : LET p == Normalized(trades[i])
                                   IN  /\ b = 0 \/ p > 50 + 10 * b
                                       /\ b = 4 \/ p < 60 + 10 * b}
Touching(b) == {i \in DOMAIN trades : LET p == Normalized(trades[i])
                                     IN  /\ b = 0 \/ p >= 50 + 10 * b
                                         /\ b = 4 \/ p <= 60 + 10 * b}

Won(found) == {i \in found : trades[i].won}

\* Every trade is counted once, with its win: in the bucket whose label its
\* normalized probability falls under, on an edge in either one, and outside
\* all labels in the nearest (stats.go:134).  That the label of bucket 0 does
\* not say so is not counted against the code here.
CalibrationComplete ==
    /\ SumFunction([b \in 0..4 |-> buckets[b].total]) = Len(trades)
    /\ SumFunction([b \in 0..4 |-> buckets[b].wins]) = Cardinality(Won(DOMAIN trades))
    /\ \A b \in 0..4 :
          /\ buckets[b].total \in Cardinality(Inside(b)) .. Cardinality(Touching(b))
          /\ buckets[b].wins \in Cardinality(Won(Inside(b))) .. Cardinality(Won(Touching(b)))

\* A table accounts for the whole list: its groups' trades, wins and profits
\* add up to the summary's.
Accounts(table) ==
    LET Column(f(_)) == SumFunction([g \in DOMAIN table |-> f(table[g])])
    IN  /\ Column(LAMBDA row : row.trades) = Len(trades)
        /\ Column(LAMBDA row : row.wins) = summary.wins
        /\ Column(LAMBDA row : row.pnl) = cumPnL

\* The reports of one hour agree: wins, losses and their sums give the total,
\* no table leaves a trade out, not even one opened on the edge of a slot of
\* the window, and no signal's rates count a trade twice (stats.go:487).
ReportsAgree ==
    /\ summary.wins + summary.losses = Len(trades)
    /\ summary.grossWins - summary.grossLosses = cumPnL
    /\ Accounts(hours) /\ Accounts(edges) /\ Accounts(slots)
    /\ \A s \in SignalNames :
          LET Signed(sign) == {i \in DOMAIN trades : trades[i].entry.signals[s] = sign}
              r == rates[s]
          IN  /\ r.positive.total + r.negative.total + Cardinality(Signed(0)) = Len(trades)
              /\ r.positive.wins + r.negative.wins + Cardinality(Won(Signed(0))) = summary.wins

\* The calibration compares with the outcome what the model claimed of the
\* side bought (stats.go:127).
CalibratesClaim ==
    \A i \in DOMAIN trades : Normalized(trades[i]) = Claim(trades[i].dir, trades[i].entry.up)
=============================================================================
