---------------------------- MODULE StatsProofs -----------------------------
(***************************************************************************)
(* Proofs about module Stats, for lists of any length: the loops over the  *)
(* settled trades report what a definition over the whole list would.      *)
(***************************************************************************)
EXTENDS Stats, SumTheorems, SequenceTheorems, TLAPS

SettledTrade == [entry : Entries, dir : Directions, prob : 1..99, won : BOOLEAN, pnl : Int]

\* A trade that Next may take.
Settles(t) ==
    /\ t \in SettledTrade
    /\ t.won => t.pnl \in Nat
    /\ ~t.won => -t.pnl \in Nat
    /\ Opened(t.entry)

LEMMA NextTakes ==
    ASSUME Next
    PROVE  \E t : Settles(t) /\ Take(t)
<1>1. PICK e \in Entries, won \in BOOLEAN, payoff \in Payoffs :
          Opened(e) /\ Take(Trade(e, won, payoff))
    BY DEF Next
<1>2. e \in Entry /\ payoff \in Nat
    BY EntryAssumption, PayoffAssumption
<1>3. Claim(e.dir, e.up) \in 1..99
    BY <1>2 DEF Claim, Entry
<1>4. Settles(Trade(e, won, payoff))
    BY <1>1, <1>2, <1>3 DEF Settles, SettledTrade, Trade, Entry
<1> QED BY <1>1, <1>4

\* The list grows by one trade.
LEMMA TakeAppends ==
    ASSUME TypeOK, NEW t, Settles(t), Take(t)
    PROVE  /\ Len(trades) \in Nat /\ DOMAIN trades = 1..Len(trades)
           /\ trades' \in Seq(SettledTrade) /\ Len(trades') = Len(trades) + 1
           /\ DOMAIN trades' = 1 .. (Len(trades) + 1)
           /\ trades'[Len(trades) + 1] = t
           /\ \A i \in 1..Len(trades) : trades'[i] = trades[i] /\ trades[i] \in SettledTrade
<1>1. trades \in Seq(SettledTrade) /\ t \in SettledTrade
    BY DEF TypeOK, SettledTrade, Settles
<1>2. trades' = Append(trades, t)
    BY DEF Take
<1> QED BY <1>1, <1>2, AppendProperties, ElementOfSeq

-----------------------------------------------------------------------------
(* Types                                                                   *)

Summary == [wins : Nat, losses : Nat, grossWins : Nat, grossLosses : Nat]

\* What CountOutcome does to the summary.
LEMMA OutcomeCounted ==
    ASSUME summary \in Summary, NEW t, Settles(t), CountOutcome(t)
    PROVE  /\ summary' \in Summary
           /\ t.won => summary' = [wins |-> summary.wins + 1, losses |-> summary.losses,
                                   grossWins |-> summary.grossWins + t.pnl,
                                   grossLosses |-> summary.grossLosses]
           /\ ~t.won => summary' = [wins |-> summary.wins, losses |-> summary.losses + 1,
                                    grossWins |-> summary.grossWins,
                                    grossLosses |-> summary.grossLosses - t.pnl]
<1>1. t.won \in BOOLEAN /\ t.pnl \in Int
    BY DEF Settles, SettledTrade
<1>2. CASE t.won
    <2>1. summary' = [summary EXCEPT !.wins = summary.wins + 1,
                                     !.grossWins = summary.grossWins + t.pnl]
        BY <1>2, Zenon DEF CountOutcome
    <2>2. summary' = [wins |-> summary.wins + 1, losses |-> summary.losses,
                      grossWins |-> summary.grossWins + t.pnl,
                      grossLosses |-> summary.grossLosses]
        BY <2>1 DEF Summary
    <2> QED BY <1>1, <1>2, <2>2 DEF Summary, Settles
<1>3. CASE ~t.won
    <2>1. summary' = [summary EXCEPT !.losses = summary.losses + 1,
                                     !.grossLosses = summary.grossLosses - t.pnl]
        BY <1>3, Zenon DEF CountOutcome
    <2>2. summary' = [wins |-> summary.wins, losses |-> summary.losses + 1,
                      grossWins |-> summary.grossWins,
                      grossLosses |-> summary.grossLosses - t.pnl]
        BY <2>1 DEF Summary
    <2> QED BY <1>1, <1>3, <2>2 DEF Summary, Settles
<1> QED BY <1>2, <1>3

Rates == [positive : [wins : Nat, total : Nat], negative : [wins : Nat, total : Nat]]

\* What Rate does to the rates of one signal.
LEMMA RateCounted ==
    ASSUME rates \in [SignalNames -> Rates], NEW t, Settles(t), Rate(t), NEW s \in SignalNames
    PROVE  /\ t.entry.signals[s] > 0 =>
                 rates'[s] = [positive |-> OneMore(rates[s].positive, t),
                              negative |-> rates[s].negative]
           /\ t.entry.signals[s] < 0 =>
                 rates'[s] = [positive |-> rates[s].positive,
                              negative |-> OneMore(rates[s].negative, t)]
           /\ t.entry.signals[s] = 0 => rates'[s] = rates[s]
           /\ t.entry.signals[s] \in -1..1
           /\ rates'[s] \in Rates
<1>1. t.entry.signals[s] \in -1..1
    BY EntryAssumption DEF Settles, SettledTrade, Entry
<1>2. rates[s] \in Rates
    OBVIOUS
<1>3. OneMore(rates[s].positive, t) \in [wins : Nat, total : Nat]
      /\ OneMore(rates[s].negative, t) \in [wins : Nat, total : Nat]
    BY <1>2 DEF OneMore, Rates
<1>4. CASE t.entry.signals[s] > 0
    <2>1. rates'[s] = [rates[s] EXCEPT !.positive = OneMore(rates[s].positive, t)]
        BY <1>4, Zenon DEF Rate
    <2>2. rates'[s] = [positive |-> OneMore(rates[s].positive, t),
                       negative |-> rates[s].negative]
        BY <1>2, <2>1 DEF Rates
    <2> QED BY <1>1, <1>2, <1>3, <1>4, <2>2 DEF Rates
<1>5. CASE t.entry.signals[s] < 0
    <2>1. ~(t.entry.signals[s] > 0)
        BY <1>1, <1>5
    <2>2. rates'[s] = [rates[s] EXCEPT !.negative = OneMore(rates[s].negative, t)]
        BY <1>5, <2>1, Zenon DEF Rate
    <2>3. rates'[s] = [positive |-> rates[s].positive,
                       negative |-> OneMore(rates[s].negative, t)]
        BY <1>2, <2>2 DEF Rates
    <2> QED BY <1>1, <1>2, <1>3, <1>5, <2>3 DEF Rates
<1>6. CASE t.entry.signals[s] = 0
    <2>1. ~(t.entry.signals[s] > 0) /\ ~(t.entry.signals[s] < 0)
        BY <1>6
    <2>2. rates'[s] = rates[s]
        BY <2>1, Zenon DEF Rate
    <2> QED BY <1>1, <1>2, <1>6, <2>2
<1> QED BY <1>1, <1>4, <1>5, <1>6

\* The larger of two numbers is one of them and no less than either.
LEMMA LargerIsMaximum ==
    ASSUME NEW a \in Int, NEW b \in Int
    PROVE  /\ Larger(a, b) \in Int
           /\ Larger(a, b) >= a /\ Larger(a, b) >= b
           /\ Larger(a, b) = a \/ Larger(a, b) = b
BY DEF Larger

\* A table of groups: what TypeOK says of each.
RowsOK(table) ==
    \A g \in DOMAIN table : /\ table[g].trades \in Nat \ {0} /\ table[g].pnl \in Int
                            /\ table[g].wins \in 0 .. table[g].trades

\* The row of group g, which is empty before the group's first trade.
Row(table, g) == IF g \in DOMAIN table THEN table[g] ELSE NoTrades

LEMMA RowTypes ==
    ASSUME NEW table, RowsOK(table), NEW g
    PROVE  /\ Row(table, g).trades \in Nat /\ Row(table, g).pnl \in Int
           /\ Row(table, g).wins \in 0 .. Row(table, g).trades
BY DEF Row, RowsOK, NoTrades

\* What one more trade does to a table.
LEMMA TableCounted ==
    ASSUME NEW table, RowsOK(table), NEW g, NEW t, Settles(t)
    PROVE  /\ \A k \in DOMAIN table \ {g} : Counted(table, g, t)[k] = table[k]
           /\ Counted(table, g, t)[g].trades = Row(table, g).trades + 1
           /\ t.won => Counted(table, g, t)[g].wins = Row(table, g).wins + 1
           /\ ~t.won => Counted(table, g, t)[g].wins = Row(table, g).wins
           /\ Counted(table, g, t)[g].pnl = Row(table, g).pnl + t.pnl
<1> DEFINE old == Row(table, g)
           row == [trades |-> old.trades + 1,
                   wins |-> IF t.won THEN old.wins + 1 ELSE old.wins,
                   pnl |-> old.pnl + t.pnl]
           new == Counted(table, g, t)
<1>1. new = [k \in DOMAIN table \cup {g} |-> IF k = g THEN row ELSE table[k]]
    BY DEF Counted, Row
<1>2. old.trades \in Nat /\ old.wins \in 0 .. old.trades /\ old.pnl \in Int
    BY RowTypes
<1> HIDE DEF old, new
<1>3. /\ row.trades = old.trades + 1 /\ row.pnl = old.pnl + t.pnl
      /\ t.won => row.wins = old.wins + 1
      /\ ~t.won => row.wins = old.wins
    BY <1>2 DEF Settles, SettledTrade
<1> HIDE DEF row
<1>4. DOMAIN new = DOMAIN table \cup {g} /\ new[g] = row
      /\ \A k \in DOMAIN table \ {g} : new[k] = table[k]
    BY <1>1
<1> QED BY <1>2, <1>3, <1>4 DEF old, new

LEMMA TableGrows ==
    ASSUME NEW table, RowsOK(table), NEW g, NEW t, Settles(t)
    PROVE  /\ DOMAIN Counted(table, g, t) = DOMAIN table \cup {g}
           /\ RowsOK(Counted(table, g, t))
<1>1. PICK new, old : new = Counted(table, g, t) /\ old = Row(table, g)
    OBVIOUS
<1>2. /\ \A k \in DOMAIN table \ {g} : new[k] = table[k]
      /\ new[g].trades = old.trades + 1
      /\ t.won => new[g].wins = old.wins + 1
      /\ ~t.won => new[g].wins = old.wins
      /\ new[g].pnl = old.pnl + t.pnl
      /\ old.trades \in Nat /\ old.pnl \in Int /\ old.wins \in 0 .. old.trades
    BY <1>1, TableCounted, RowTypes
<1>3. DOMAIN new = DOMAIN table \cup {g}
    BY <1>1 DEF Counted
<1>4. /\ new[g].trades \in Nat \ {0} /\ new[g].pnl \in Int
      /\ new[g].wins \in 0 .. new[g].trades
    BY <1>2 DEF Settles, SettledTrade
<1>5. RowsOK(new)
    BY <1>2, <1>3, <1>4 DEF RowsOK
<1> QED BY <1>1, <1>3, <1>5

LEMMA StatsInit == Init => TypeOK
BY DEF Init, TypeOK, MaxSec

LEMMA TakeTypes ==
    ASSUME TypeOK, NEW t, Settles(t), Take(t)
    PROVE  TypeOK'
<1>1. /\ trades \in Seq(SettledTrade) /\ totals \in Seq(Int)
      /\ Len(totals) = Len(trades) + 1
      /\ cumPnL \in Int /\ peak \in Nat /\ maxDD \in Nat
      /\ current \in Int /\ maxWin \in Nat /\ maxLoss \in Nat
    BY DEF TypeOK, SettledTrade
<1>2. RowsOK(hours) /\ RowsOK(edges) /\ RowsOK(slots)
    BY DEF TypeOK, RowsOK
<1>3. t.won \in BOOLEAN /\ t.pnl \in Int /\ t.entry \in Entry
    BY EntryAssumption DEF Settles, SettledTrade
<1>4. /\ Summarize(t) /\ CountOutcome(t) /\ Streak(t) /\ Calibrate(t) /\ Rate(t)
      /\ totals' = Append(totals, cumPnL + t.pnl)
      /\ hours' = Counted(hours, Hour(t.entry), t)
      /\ edges' = Counted(edges, EdgeBucket(t.entry.edge), t)
    BY DEF Take, Tabulate
<1>5. trades' \in Seq(SettledTrade) /\ Len(trades') = Len(trades) + 1 /\ Len(trades) \in Nat
    BY TakeAppends
<1>6. totals' \in Seq(Int) /\ Len(totals') = Len(trades') + 1
    <2>1. cumPnL + t.pnl \in Int
        BY <1>1, <1>3
    <2> QED BY <1>1, <1>4, <1>5, <2>1, AppendProperties
<1>7. summary' \in [wins : Nat, losses : Nat, grossWins : Nat, grossLosses : Nat]
    <2>1. summary \in Summary
        BY DEF TypeOK, Summary
    <2> QED BY <1>4, <2>1, OutcomeCounted DEF Summary
<1>8. cumPnL' \in Int /\ peak' \in Nat /\ maxDD' \in Nat
    <2>0. peak \in Int /\ maxDD \in Int
        BY <1>1
    <2>1. cumPnL' = cumPnL + t.pnl /\ peak' = Larger(peak, cumPnL')
          /\ maxDD' = Larger(maxDD, peak' - cumPnL')
        BY <1>4 DEF Summarize
    <2>2. cumPnL' \in Int
        BY <1>1, <1>3, <2>1
    <2>3. peak' \in Int /\ peak' >= peak
        BY <1>1, <2>1, <2>2, <2>0, LargerIsMaximum
    <2>4. peak' - cumPnL' \in Int
        BY <2>2, <2>3
    <2>5. maxDD' \in Int /\ maxDD' >= maxDD
        BY <1>1, <2>1, <2>4, LargerIsMaximum
    <2> QED BY <1>1, <2>2, <2>3, <2>5
<1>9. current' \in Int /\ maxWin' \in Nat /\ maxLoss' \in Nat
    <2>1. current' \in Int /\ -current' \in Int
        BY <1>1, <1>4 DEF Streak
    <2>2. maxWin' = Larger(maxWin, current') /\ maxLoss' = Larger(maxLoss, -current')
        BY <1>4 DEF Streak
    <2>3. maxWin' \in Int /\ maxWin' >= maxWin
        BY <1>1, <2>1, <2>2, LargerIsMaximum
    <2>4. maxLoss' \in Int /\ maxLoss' >= maxLoss
        BY <1>1, <2>1, <2>2, LargerIsMaximum
    <2> QED BY <1>1, <2>1, <2>3, <2>4
<1>10. DOMAIN buckets' = 0..4
       /\ \A b \in 0..4 : /\ buckets'[b].total \in Nat
                          /\ buckets'[b].wins \in 0 .. buckets'[b].total
    <2>1. \A b \in 0..4 : /\ buckets[b].total \in Nat
                          /\ buckets[b].wins \in 0 .. buckets[b].total
        BY DEF TypeOK
    <2> SUFFICES ASSUME NEW b \in 0..4
                 PROVE  /\ buckets'[b].total \in Nat
                        /\ buckets'[b].wins \in 0 .. buckets'[b].total
        BY <1>4 DEF Calibrate
    <2>2. CASE b = Bucket(Normalized(t))
        <3>1. /\ buckets'[b].total = buckets[b].total + 1
              /\ buckets'[b].wins = IF t.won THEN buckets[b].wins + 1 ELSE buckets[b].wins
            BY <1>4, <2>2 DEF Calibrate
        <3> QED BY <1>3, <2>1, <3>1
    <2>3. CASE b # Bucket(Normalized(t))
        BY <1>4, <2>1, <2>3 DEF Calibrate
    <2> QED BY <2>2, <2>3
<1>11. DOMAIN hours' \subseteq 0..23 /\ RowsOK(hours')
    <2>1. Hour(t.entry) \in 0..23
        <3>1. t.entry.opened \div 3600 \in Nat
            BY <1>3 DEF Entry
        <3> QED BY <3>1 DEF Hour
    <2>2. DOMAIN hours \subseteq 0..23
        BY DEF TypeOK
    <2>3. DOMAIN hours' = DOMAIN hours \cup {Hour(t.entry)} /\ RowsOK(hours')
        BY <1>2, <1>4, TableGrows
    <2> QED BY <2>1, <2>2, <2>3
<1>12. DOMAIN edges' \subseteq {0, 5, 10, 20} /\ RowsOK(edges')
    <2>1. EdgeBucket(t.entry.edge) \in {0, 5, 10, 20}
        BY DEF EdgeBucket
    <2>2. DOMAIN edges \subseteq {0, 5, 10, 20}
        BY DEF TypeOK
    <2>3. DOMAIN edges' = DOMAIN edges \cup {EdgeBucket(t.entry.edge)} /\ RowsOK(edges')
        BY <1>2, <1>4, TableGrows
    <2> QED BY <2>1, <2>2, <2>3
<1>13. DOMAIN slots' \subseteq DOMAIN MaxSec /\ RowsOK(slots')
    <2>1. DOMAIN slots \subseteq DOMAIN MaxSec
        BY DEF TypeOK
    <2>2. \/ slots' = slots
          \/ \E m \in DOMAIN MaxSec : slots' = Counted(slots, m, t)
        BY DEF Take, Tabulate, Slots
    <2>3. ASSUME NEW m \in DOMAIN MaxSec, slots' = Counted(slots, m, t)
          PROVE  DOMAIN slots' = DOMAIN slots \cup {m} /\ RowsOK(slots')
        BY <1>2, <2>3, TableGrows
    <2> QED BY <1>2, <2>1, <2>2, <2>3
<1>14. rates' \in [SignalNames -> [positive : [wins : Nat, total : Nat],
                                  negative : [wins : Nat, total : Nat]]]
    <2>1. rates \in [SignalNames -> Rates]
        BY DEF TypeOK, Rates
    <2>2. \A s \in SignalNames : rates'[s] \in Rates
        BY <1>4, <2>1, RateCounted
    <2>3. rates' = [s \in SignalNames |-> rates'[s]]
        BY <1>4 DEF Rate
    <2> QED BY <2>2, <2>3 DEF Rates
<1> QED
    BY <1>5, <1>6, <1>7, <1>8, <1>9, <1>10, <1>11, <1>12, <1>13, <1>14
    DEF TypeOK, RowsOK, SettledTrade

\* Every variable of the reports keeps its type, and no bucket and no group
\* has more wins than trades, for lists of any length (stats.go:127, 320).
THEOREM StatsTypeCorrect == Spec => []TypeOK
<1>1. TypeOK /\ [Next]_vars => TypeOK'
    <2> SUFFICES ASSUME TypeOK, [Next]_vars PROVE TypeOK'
        OBVIOUS
    <2>1. CASE Next
        BY <2>1, NextTakes, TakeTypes
    <2>2. CASE UNCHANGED vars
        BY <2>2 DEF vars, TypeOK
    <2> QED BY <2>1, <2>2
<1> QED BY StatsInit, <1>1, PTL DEF Spec

-----------------------------------------------------------------------------
(* The drawdown                                                            *)

\* What the drawdown loop maintains: it is at the last total, its peak is
\* the highest total so far, and maxDD is the largest fall so far.
DrawdownTypes ==
    /\ totals \in Seq(Int) /\ totals # <<>>
    /\ cumPnL \in Int /\ peak \in Int /\ maxDD \in Int

PeakIsMaximum ==
    /\ \A i \in DOMAIN totals : totals[i] <= peak
    /\ \E i \in DOMAIN totals : totals[i] = peak

DrawdownInv ==
    /\ DrawdownTypes
    /\ totals[Len(totals)] = cumPnL
    /\ PeakIsMaximum
    /\ MaxDrawdownExact

LEMMA DrawdownInit == Init => DrawdownInv
BY DEF Init, DrawdownInv, DrawdownTypes, PeakIsMaximum, MaxDrawdownExact

LEMMA DrawdownStep ==
    ASSUME DrawdownInv, NEW t, t.pnl \in Int, Take(t)
    PROVE  DrawdownInv'
<1> DEFINE n == Len(totals)
<1>1. n \in Nat /\ n >= 1 /\ DOMAIN totals = 1..n
    BY DEF DrawdownInv, DrawdownTypes
<1>2. /\ cumPnL' = cumPnL + t.pnl /\ cumPnL' \in Int
      /\ peak' = Larger(peak, cumPnL')
      /\ maxDD' = Larger(maxDD, peak' - cumPnL')
    BY DEF DrawdownInv, DrawdownTypes, Take, Summarize
<1>3. /\ peak' \in Int /\ peak' >= peak /\ peak' >= cumPnL'
      /\ peak' = peak \/ peak' = cumPnL'
    BY <1>2, LargerIsMaximum DEF DrawdownInv, DrawdownTypes
<1>4. peak' - cumPnL' \in Int /\ maxDD \in Int
    BY <1>2, <1>3 DEF DrawdownInv, DrawdownTypes
<1>5. /\ maxDD' \in Int /\ maxDD' >= maxDD /\ maxDD' >= peak' - cumPnL'
      /\ maxDD' = maxDD \/ maxDD' = peak' - cumPnL'
    BY <1>2, <1>4, LargerIsMaximum
<1>6. /\ totals' \in Seq(Int) /\ DOMAIN totals' = 1 .. n + 1 /\ Len(totals') = n + 1
      /\ \A i \in 1..n : totals'[i] = totals[i] /\ totals[i] \in Int
      /\ totals'[n + 1] = cumPnL'
    BY <1>1, <1>2 DEF DrawdownInv, DrawdownTypes, Take
<1>7. PeakIsMaximum'
    <2>1. ASSUME NEW i \in 1 .. n + 1
          PROVE  totals'[i] <= peak'
        <3>1. CASE i <= n
            <4>1. i \in 1..n /\ totals[i] <= peak
                BY <1>1, <3>1 DEF DrawdownInv, PeakIsMaximum
            <4> QED BY <1>3, <1>6, <1>4, <4>1 DEF DrawdownInv, DrawdownTypes
        <3>2. CASE i = n + 1
            BY <1>3, <1>6, <3>2
        <3> QED BY <1>1, <3>1, <3>2
    <2>2. \E i \in 1 .. n + 1 : totals'[i] = peak'
        BY <1>1, <1>3, <1>6 DEF DrawdownInv, PeakIsMaximum
    <2> QED BY <1>6, <2>1, <2>2 DEF PeakIsMaximum
<1>8. MaxDrawdownExact'
    <2>1. ASSUME NEW i \in 1 .. n + 1, NEW j \in 1 .. n + 1, i <= j
          PROVE  totals'[i] - totals'[j] <= maxDD'
        <3>1. CASE j <= n
            <4>1. totals[i] - totals[j] <= maxDD
                BY <1>1, <2>1, <3>1 DEF DrawdownInv, MaxDrawdownExact
            <4> QED BY <1>1, <1>5, <1>6, <2>1, <3>1, <4>1 DEF DrawdownInv, DrawdownTypes
        <3>2. CASE j = n + 1
            <4>1. totals'[i] <= peak' /\ totals'[i] \in Int
                BY <1>2, <1>6, <1>7 DEF PeakIsMaximum
            <4> QED BY <1>2, <1>3, <1>5, <1>6, <3>2, <4>1
        <3> QED BY <1>1, <3>1, <3>2
    <2>2. \E i, j \in 1 .. n + 1 : i <= j /\ totals'[i] - totals'[j] = maxDD'
        <3>1. CASE maxDD' = maxDD
            <4>1. PICK i \in 1..n, j \in 1..n : i <= j /\ totals[i] - totals[j] = maxDD
                BY <1>1 DEF DrawdownInv, MaxDrawdownExact
            <4> QED BY <1>1, <1>6, <3>1, <4>1
        <3>2. CASE maxDD' = peak' - cumPnL'
            <4>1. PICK i \in 1 .. n + 1 : totals'[i] = peak'
                BY <1>6, <1>7 DEF PeakIsMaximum
            <4> QED BY <1>1, <1>6, <3>2, <4>1
        <3> QED BY <1>5, <3>1, <3>2
    <2> QED BY <1>6, <2>1, <2>2 DEF MaxDrawdownExact
<1> QED
    BY <1>2, <1>3, <1>5, <1>6, <1>7, <1>8 DEF DrawdownInv, DrawdownTypes

\* The reported fall is the largest between any two totals, for lists of any
\* length and any profits and losses (stats.go:85).
THEOREM DrawdownCorrect == Spec => []MaxDrawdownExact
<1>1. DrawdownInv /\ [Next]_vars => DrawdownInv'
    <2> SUFFICES ASSUME DrawdownInv, [Next]_vars
                 PROVE  DrawdownInv'
        OBVIOUS
    <2>1. CASE Next
        BY <2>1, NextTakes, DrawdownStep DEF Settles, SettledTrade
    <2>2. CASE UNCHANGED vars
        BY <2>2 DEF vars, DrawdownInv, DrawdownTypes, PeakIsMaximum, MaxDrawdownExact
    <2> QED BY <2>1, <2>2
<1>2. DrawdownInv => MaxDrawdownExact
    BY DEF DrawdownInv
<1> QED BY DrawdownInit, <1>1, <1>2, PTL DEF Spec

-----------------------------------------------------------------------------
(* The streaks                                                             *)

\* trades[i .. Len(trades)] is the whole run that ends the list.
LastRun(i) ==
    /\ i \in DOMAIN trades
    /\ current = (IF trades[i].won THEN 1 ELSE -1) * (Len(trades) - i + 1)
    /\ RunOf(trades[i].won, i, Len(trades))
    /\ i > 1 => trades[i - 1].won # trades[i].won

\* The records are at least as long as the current streak, so that the next
\* trade can only break the record of its own kind.
StreaksInv ==
    /\ StreaksExact
    /\ trades = <<>> => current = 0
    /\ current <= maxWin /\ -current <= maxLoss

LEMMA StreaksInit == Init => StreaksInv
BY DEF Init, StreaksInv, StreaksExact

\* Where the current run begins once the trade is taken, and its length.
LEMMA CurrentRun ==
    ASSUME TypeOK, StreaksInv, NEW t, Settles(t), Take(t)
    PROVE  \E i \in 1 .. (Len(trades) + 1) :
              /\ LastRun(i)'
              /\ trades'[i].won = t.won
              /\ current' = (IF t.won THEN 1 ELSE -1) * (Len(trades) - i + 2)
<1>0. PICK n \in Nat : n = Len(trades)
    BY TakeAppends
<1>1. /\ n \in Nat /\ DOMAIN trades = 1..n /\ DOMAIN trades' = 1 .. (n + 1)
      /\ Len(trades') = n + 1 /\ trades'[n + 1] = t
      /\ \A i \in 1..n : trades'[i] = trades[i] /\ trades[i] \in SettledTrade
      /\ t.won \in BOOLEAN
    BY <1>0, TakeAppends DEF Settles, SettledTrade
<1>2. current' = IF t.won THEN IF current > 0 THEN current + 1 ELSE 1
                 ELSE IF current < 0 THEN current - 1 ELSE -1
    BY DEF Take, Streak
<1>3. CASE n = 0
    <2>1. trades = <<>>
        <3>1. trades \in Seq(SettledTrade)
            BY DEF TypeOK, SettledTrade
        <3> QED BY <1>0, <1>3, <3>1, EmptySeq
    <2>2. current' = IF t.won THEN 1 ELSE -1
        BY <1>2, <2>1 DEF StreaksInv
    <2>3. trades'[1] = t /\ DOMAIN trades' = 1..1 /\ Len(trades') = 1
        BY <1>1, <1>3
    <2>4. current' = (IF t.won THEN 1 ELSE -1) * (1 - 1 + 1)
          /\ \A k \in 1..1 : trades'[k].won = t.won
        BY <1>1, <2>2, <2>3
    <2>5. LastRun(1)'
        BY <2>3, <2>4 DEF LastRun, RunOf
    <2> QED BY <1>0, <1>1, <1>3, <2>2, <2>3, <2>5
<1>4. CASE n > 0
    <2>1. trades # <<>>
        BY <1>0, <1>1, <1>4
    <2>2. PICK i \in 1..n : LastRun(i)
        BY <1>1, <2>1 DEF StreaksInv, StreaksExact, LastRun
    <2>3. /\ current = (IF trades[i].won THEN 1 ELSE -1) * (n - i + 1)
          /\ \A k \in i..n : trades[k].won = trades[i].won
          /\ i > 1 => trades[i - 1].won # trades[i].won
          /\ trades[i].won \in BOOLEAN
        BY <1>0, <1>1, <2>2 DEF LastRun, RunOf, SettledTrade
    <2>4. n - i + 1 >= 1
        BY <1>1
    <2>5. CASE trades[i].won = t.won
        <3>1. current' = (IF t.won THEN 1 ELSE -1) * (n - i + 2)
            BY <1>1, <1>2, <2>3, <2>4, <2>5
        <3>2. i \in DOMAIN trades' /\ trades'[i] = trades[i]
            BY <1>1
        <3>3. \A k \in i .. (n + 1) : trades'[k].won = trades'[i].won
            <4> SUFFICES ASSUME NEW k \in i .. (n + 1) PROVE trades'[k].won = trades'[i].won
                OBVIOUS
            <4>1. CASE k = n + 1
                BY <1>1, <2>5, <3>2, <4>1
            <4>2. CASE k \in i..n
                BY <1>1, <2>3, <3>2, <4>2
            <4> QED BY <1>1, <4>1, <4>2
        <3>4. i > 1 => trades'[i - 1].won # trades'[i].won
            <4>1. i > 1 => i - 1 \in 1..n
                BY <1>1
            <4> QED BY <1>1, <2>3, <3>2, <4>1
        <3>5. n + 1 - i + 1 = n - i + 2
            BY <1>1
        <3>6. LastRun(i)'
            BY <1>1, <2>5, <3>1, <3>2, <3>3, <3>4, <3>5 DEF LastRun, RunOf
        <3> QED BY <1>0, <1>1, <2>5, <3>1, <3>2, <3>6
    <2>6. CASE trades[i].won # t.won
        <3>1. current' = IF t.won THEN 1 ELSE -1
            BY <1>1, <1>2, <2>3, <2>4, <2>6
        <3>2. n + 1 \in DOMAIN trades' /\ (n + 1) - 1 = n /\ n \in 1..n
            BY <1>1, <1>4
        <3>3. trades'[(n + 1) - 1].won # trades'[n + 1].won
            BY <1>1, <2>3, <2>6, <3>2
        <3>4. /\ current' = (IF t.won THEN 1 ELSE -1) * ((n + 1) - (n + 1) + 1)
              /\ \A k \in (n + 1) .. (n + 1) : trades'[k].won = t.won
            <4>1. (n + 1) - (n + 1) + 1 = 1 /\ \A k \in (n + 1) .. (n + 1) : k = n + 1
                OBVIOUS
            <4>2. current' = (IF t.won THEN 1 ELSE -1) * 1
                BY <3>1
            <4> QED BY <1>1, <4>1, <4>2
        <3>5. LastRun(n + 1)'
            BY <1>1, <3>2, <3>3, <3>4 DEF LastRun, RunOf
        <3>6. current' = (IF t.won THEN 1 ELSE -1) * (n - (n + 1) + 2)
            <4>1. n - (n + 1) + 2 = 1
                OBVIOUS
            <4>2. current' = (IF t.won THEN 1 ELSE -1) * 1
                BY <3>1
            <4> QED BY <4>1, <4>2
        <3> QED BY <1>0, <1>1, <3>2, <3>5, <3>6
    <2> QED BY <2>5, <2>6
<1>5. n = 0 \/ n > 0
    OBVIOUS
<1> QED BY <1>3, <1>4, <1>5

LEMMA TakeStreaks ==
    ASSUME TypeOK, StreaksInv, NEW t, Settles(t), Take(t)
    PROVE  StreaksInv'
<1>0. PICK n \in Nat : n = Len(trades)
    BY TakeAppends
<1>1. /\ n \in Nat /\ DOMAIN trades = 1..n /\ DOMAIN trades' = 1 .. (n + 1)
      /\ Len(trades') = n + 1 /\ trades'[n + 1] = t
      /\ \A i \in 1..n : trades'[i] = trades[i]
      /\ t.won \in BOOLEAN
    BY <1>0, TakeAppends DEF Settles, SettledTrade
<1>2. PICK b \in 1 .. (n + 1) :
          /\ LastRun(b)'
          /\ trades'[b].won = t.won
          /\ current' = (IF t.won THEN 1 ELSE -1) * (n - b + 2)
    BY <1>0, CurrentRun
<1>3. /\ current' \in Int /\ -current' \in Int /\ maxWin \in Nat /\ maxLoss \in Nat
      /\ maxWin' \in Int /\ maxWin' >= maxWin /\ maxWin' >= current'
      /\ maxWin' = maxWin \/ maxWin' = current'
      /\ maxLoss' \in Int /\ maxLoss' >= maxLoss /\ maxLoss' >= -current'
      /\ maxLoss' = maxLoss \/ maxLoss' = -current'
    <2>1. TypeOK'
        BY TakeTypes
    <2>2. current' \in Int /\ -current' \in Int /\ maxWin \in Int /\ maxLoss \in Int
          /\ maxWin \in Nat /\ maxLoss \in Nat
        BY <2>1 DEF TypeOK
    <2> QED BY <2>2, LargerIsMaximum DEF Take, Streak
<1>4. /\ \A k \in b .. (n + 1) : trades'[k].won = t.won
      /\ b > 1 => trades'[b - 1].won # t.won
    BY <1>1, <1>2 DEF LastRun, RunOf
<1>12. /\ n - b + 2 \in Nat
       /\ t.won => current' = n - b + 2
       /\ ~t.won => -current' = n - b + 2 /\ current' = -(n - b + 2)
    BY <1>1, <1>2
<1>13. n - b + 2 >= 1 /\ n - b + 2 <= (IF t.won THEN maxWin' ELSE maxLoss')
    <2>1. CASE t.won
        BY <1>3, <1>12, <2>1
    <2>2. CASE ~t.won
        <3>1. PICK x \in Int, y \in Int : x = -current' /\ y = maxLoss'
            BY <1>3
        <3>2. x = n - b + 2 /\ x <= y
            BY <1>3, <1>12, <2>2, <3>1
        <3> QED BY <2>2, <3>1, <3>2
    <2>3. n - b + 2 >= 1
        OBVIOUS
    <2> QED BY <1>1, <2>1, <2>2, <2>3
<1>5. \A i, j \in 1..n : i <= j =>
          /\ (\A k \in i..j : trades[k].won = TRUE) => j - i + 1 <= maxWin
          /\ (\A k \in i..j : trades[k].won = FALSE) => j - i + 1 <= maxLoss
    BY <1>1 DEF StreaksInv, StreaksExact, RunOf
<1>6. ASSUME NEW i \in 1 .. (n + 1), NEW j \in 1 .. (n + 1), i <= j, NEW won \in BOOLEAN,
             \A k \in i..j : trades'[k].won = won
      PROVE  j - i + 1 <= (IF won THEN maxWin' ELSE maxLoss')
    <2>1. CASE j <= n
        <3>1. \A k \in i..j : trades[k].won = won
            BY <1>1, <1>6, <2>1
        <3>2. j - i + 1 <= (IF won THEN maxWin ELSE maxLoss)
            BY <1>1, <1>5, <1>6, <2>1, <3>1
        <3> QED BY <1>1, <1>3, <3>2
    <2>2. CASE j = n + 1
        <3>1. won = t.won
            BY <1>1, <1>6, <2>2
        <3>2. i >= b
            <4> SUFFICES ASSUME i < b PROVE FALSE
                BY <1>1
            <4>1. b - 1 \in i..j /\ b > 1
                BY <1>1, <2>2
            <4> QED BY <1>4, <1>6, <3>1, <4>1
        <3>4. j - i + 1 <= n - b + 2
            BY <1>1, <2>2, <3>2
        <3>5. PICK x \in Int, y \in Int, z \in Int :
                  x = j - i + 1 /\ y = n - b + 2 /\ z = IF t.won THEN maxWin' ELSE maxLoss'
            BY <1>1, <1>3
        <3>6. x <= y /\ y <= z
            BY <1>13, <3>4, <3>5
        <3>7. x <= z
            BY <3>6
        <3> QED BY <3>1, <3>5, <3>7
    <2> QED BY <1>1, <2>1, <2>2
<1>7. ASSUME maxWin' > 0
      PROVE  \E i \in DOMAIN trades' : i + maxWin' - 1 \in DOMAIN trades'
                                       /\ RunOf(TRUE, i, i + maxWin - 1)'
    <2>1. CASE maxWin' = maxWin
        <3>1. PICK i \in 1..n : i + maxWin - 1 \in 1..n
                                /\ \A k \in i .. (i + maxWin - 1) : trades[k].won = TRUE
            BY <1>1, <1>7, <2>1 DEF StreaksInv, StreaksExact, RunOf
        <3>2. \A k \in i .. (i + maxWin - 1) : trades'[k].won = TRUE
            BY <1>1, <1>3, <3>1
        <3>3. i \in 1 .. (n + 1) /\ i + maxWin - 1 \in 1 .. (n + 1)
            BY <1>1, <3>1
        <3> QED BY <1>1, <2>1, <3>2, <3>3 DEF RunOf
    <2>2. CASE maxWin' = current'
        <3>1. t.won /\ maxWin' = n - b + 2
            BY <1>1, <1>7, <1>12, <2>2
        <3>2. b + maxWin' - 1 = n + 1
            BY <1>1, <3>1
        <3>3. \A k \in b .. (b + maxWin' - 1) : trades'[k].won = TRUE
            BY <1>1, <1>4, <3>1, <3>2
        <3>4. b \in 1 .. (n + 1) /\ b + maxWin' - 1 \in 1 .. (n + 1)
            BY <1>1, <3>2
        <3> QED BY <1>1, <3>3, <3>4 DEF RunOf
    <2> QED BY <1>3, <2>1, <2>2
<1>8. ASSUME maxLoss' > 0
      PROVE  \E i \in DOMAIN trades' : i + maxLoss' - 1 \in DOMAIN trades'
                                       /\ RunOf(FALSE, i, i + maxLoss - 1)'
    <2>1. CASE maxLoss' = maxLoss
        <3>1. PICK i \in 1..n : i + maxLoss - 1 \in 1..n
                                /\ \A k \in i .. (i + maxLoss - 1) : trades[k].won = FALSE
            BY <1>1, <1>8, <2>1 DEF StreaksInv, StreaksExact, RunOf
        <3>2. \A k \in i .. (i + maxLoss - 1) : trades'[k].won = FALSE
            BY <1>1, <1>3, <3>1
        <3>3. i \in 1 .. (n + 1) /\ i + maxLoss - 1 \in 1 .. (n + 1)
            BY <1>1, <3>1
        <3> QED BY <1>1, <2>1, <3>2, <3>3 DEF RunOf
    <2>2. CASE maxLoss' = -current'
        <3>1. ~t.won /\ maxLoss' = n - b + 2
            <4>1. PICK x \in Int, y \in Int : x = current' /\ y = n - b + 2
                BY <1>3
            <4>2. ~(x > 0)
                <5>1. PICK z \in Int : z = maxLoss'
                    BY <1>3
                <5>2. z = -x /\ z > 0
                    BY <1>8, <2>2, <4>1, <5>1
                <5> QED BY <5>2
            <4>3. ~t.won
                BY <1>12, <1>13, <4>1, <4>2
            <4> QED BY <1>12, <2>2, <4>3
        <3>2. b + maxLoss' - 1 = n + 1
            BY <1>1, <3>1
        <3>3. \A k \in b .. (b + maxLoss' - 1) : trades'[k].won = FALSE
            BY <1>1, <1>4, <3>1, <3>2
        <3>4. b \in 1 .. (n + 1) /\ b + maxLoss' - 1 \in 1 .. (n + 1)
            BY <1>1, <3>2
        <3> QED BY <1>1, <3>3, <3>4 DEF RunOf
    <2> QED BY <1>3, <2>1, <2>2
<1>9. trades' # <<>> =>
          \E i \in DOMAIN trades' :
              /\ current' = (IF trades'[i].won THEN 1 ELSE -1) * (Len(trades') - i + 1)
              /\ RunOf(trades[i].won, i, Len(trades))'
              /\ i > 1 => trades'[i - 1].won # trades'[i].won
    BY <1>2 DEF LastRun
<1>10. StreaksExact'
    <2>1. \A i, j \in DOMAIN trades' :
              i <= j => /\ RunOf(TRUE, i, j)' => j - i + 1 <= maxWin'
                        /\ RunOf(FALSE, i, j)' => j - i + 1 <= maxLoss'
        BY <1>1, <1>6 DEF RunOf
    <2> QED BY <1>7, <1>8, <1>9, <2>1 DEF StreaksExact
<1>11. trades' # <<>>
    BY <1>1
<1> QED BY <1>3, <1>10, <1>11 DEF StreaksInv

\* The streaks that are reported are the longest runs of wins and of losses and
\* the run that ends the list, for lists of any length (stats.go:261).
THEOREM StreaksCorrect == Spec => []StreaksExact
<1>1. TypeOK /\ StreaksInv /\ [Next]_vars => StreaksInv'
    <2> SUFFICES ASSUME TypeOK, StreaksInv, [Next]_vars PROVE StreaksInv'
        OBVIOUS
    <2>1. CASE Next
        BY <2>1, NextTakes, TakeStreaks
    <2>2. CASE UNCHANGED vars
        BY <2>2 DEF vars, StreaksInv, StreaksExact, RunOf
    <2> QED BY <2>1, <2>2
<1>2. TypeOK /\ StreaksInv => StreaksExact
    BY DEF StreaksInv
<1> QED BY StreaksInit, StatsTypeCorrect, <1>1, <1>2, PTL DEF Spec

-----------------------------------------------------------------------------
(* The calibration                                                         *)

\* The trades that the loop puts into bucket b.
InBucket(b) == {i \in DOMAIN trades : Bucket(Normalized(trades[i])) = b}

CalibrationInv ==
    /\ SumFunction([b \in 0..4 |-> buckets[b].total]) = Len(trades)
    /\ SumFunction([b \in 0..4 |-> buckets[b].wins]) = Cardinality(Won(DOMAIN trades))
    /\ \A b \in 0..4 : /\ buckets[b].total = Cardinality(InBucket(b))
                       /\ buckets[b].wins = Cardinality(Won(InBucket(b)))

\* A probability strictly inside a label is put into that bucket, and one
\* that is put there lies inside the label or on its edge.
LEMMA BucketFits ==
    ASSUME NEW p \in 1..99
    PROVE  /\ Bucket(p) \in 0..4
           /\ \A b \in 0..4 :
                 /\ (b = 0 \/ p > 50 + 10 * b) /\ (b = 4 \/ p < 60 + 10 * b) => Bucket(p) = b
                 /\ Bucket(p) = b => (b = 0 \/ p >= 50 + 10 * b) /\ (b = 4 \/ p <= 60 + 10 * b)
<1>1. CASE p <= 60
    <2>1. Bucket(p) = 0
        BY <1>1 DEF Bucket
    <2> QED BY <1>1, <2>1
<1>2. CASE p > 60 /\ p <= 70
    <2>1. Bucket(p) = 1
        BY <1>2 DEF Bucket
    <2> QED BY <1>2, <2>1
<1>3. CASE p > 70 /\ p < 80
    <2>1. Bucket(p) = 2
        BY <1>3 DEF Bucket
    <2> QED BY <1>3, <2>1
<1>4. CASE p >= 80 /\ p < 90
    <2>1. Bucket(p) = 3
        BY <1>4 DEF Bucket
    <2> QED BY <1>4, <2>1
<1>5. CASE p >= 90
    <2>1. Bucket(p) = 4
        BY <1>5 DEF Bucket
    <2> QED BY <1>5, <2>1
<1> QED BY <1>1, <1>2, <1>3, <1>4, <1>5

\* Indices, buckets and hours are finite sets.
LEMMA Interval ==
    ASSUME NEW a \in Int, NEW z \in Int, NEW A \in SUBSET (a..z)
    PROVE  IsFiniteSet(A) /\ Cardinality(A) \in Nat
<1>1. IsFiniteSet(a..z)
    BY FS_Interval
<1>2. IsFiniteSet(A)
    BY <1>1, FS_Subset
<1> QED BY <1>2, FS_CardinalityType

LEMMA Buckets == IsFiniteSet(0..4)
<1>1. 0..4 \in SUBSET (0..4) /\ 0 \in Int /\ 4 \in Int
    OBVIOUS
<1> QED BY <1>1, Interval

\* A set of indices that gains the index of the new trade, or does not.
LEMMA OneMoreIndex ==
    ASSUME NEW n \in Nat, NEW A \in SUBSET (1..n), NEW gains \in BOOLEAN,
           NEW B, B = A \cup (IF gains THEN {n + 1} ELSE {})
    PROVE  /\ Cardinality(A) \in Nat
           /\ Cardinality(B) = Cardinality(A) + (IF gains THEN 1 ELSE 0)
<1>1. IsFiniteSet(A) /\ Cardinality(A) \in Nat
    <2>1. 1 \in Int /\ n \in Int
        OBVIOUS
    <2> QED BY <2>1, Interval
<1>2. n + 1 \notin A
    OBVIOUS
<1>3. gains => Cardinality(B) = Cardinality(A) + 1
    BY <1>1, <1>2, FS_AddElement
<1>4. ~gains => B = A
    OBVIOUS
<1> QED BY <1>1, <1>3, <1>4

LEMMA Normalizes ==
    ASSUME NEW t \in SettledTrade
    PROVE  Normalized(t) \in 1..99
BY DEF Normalized, SettledTrade

LEMMA CalibrationInit == Init => CalibrationInv
<1> SUFFICES ASSUME Init PROVE CalibrationInv
    OBVIOUS
<1>1. DOMAIN trades = {} /\ Len(trades) = 0
    BY DEF Init
<1>2. \A b \in 0..4 : buckets[b].total = 0 /\ buckets[b].wins = 0
    BY DEF Init
<1>3. /\ [b \in 0..4 |-> buckets[b].total] \in [0..4 -> {0}]
      /\ [b \in 0..4 |-> buckets[b].wins] \in [0..4 -> {0}]
    BY <1>2
<1>4. /\ SumFunction([b \in 0..4 |-> buckets[b].total]) = 0
      /\ SumFunction([b \in 0..4 |-> buckets[b].wins]) = 0
    BY <1>3, SumZero, Buckets
<1>5. Won(DOMAIN trades) = {} /\ \A b \in 0..4 : InBucket(b) = {} /\ Won(InBucket(b)) = {}
    BY <1>1 DEF Won, InBucket
<1> QED BY <1>1, <1>2, <1>4, <1>5, FS_EmptySet DEF CalibrationInv

LEMMA TakeCalibrates ==
    ASSUME TypeOK, CalibrationInv, NEW t, Settles(t), Take(t)
    PROVE  CalibrationInv'
<1>0. PICK n \in Nat : n = Len(trades)
    BY TakeAppends
<1>1. /\ DOMAIN trades = 1..n /\ DOMAIN trades' = 1 .. (n + 1)
      /\ Len(trades') = n + 1 /\ trades'[n + 1] = t
      /\ \A i \in 1..n : trades'[i] = trades[i]
      /\ t.won \in BOOLEAN
    BY <1>0, TakeAppends DEF Settles, SettledTrade
<1>2. PICK x \in 0..4 : x = Bucket(Normalized(t))
    BY Normalizes, BucketFits DEF Settles
<1>3. \A b \in 0..4 : buckets[b].total \in Nat /\ buckets[b].wins \in Nat
    <2>1. \A b \in 0..4 : /\ buckets[b].total \in Nat
                          /\ buckets[b].wins \in 0 .. buckets[b].total
        BY DEF TypeOK
    <2> QED BY <2>1
<1>4. PICK d \in {0, 1} : d = (IF t.won THEN 1 ELSE 0)
    OBVIOUS
<1>5. /\ \A b \in (0..4) \ {x} : buckets'[b] = buckets[b]
      /\ buckets'[x].total = buckets[x].total + 1
      /\ buckets'[x].wins = buckets[x].wins + d
    <2>1. Calibrate(t)
        BY DEF Take
    <2>2. /\ \A b \in (0..4) \ {x} : buckets'[b] = buckets[b]
          /\ buckets'[x].total = buckets[x].total + 1
          /\ buckets'[x].wins = IF t.won THEN buckets[x].wins + 1 ELSE buckets[x].wins
        BY <1>2, <2>1 DEF Calibrate
    <2> QED BY <1>3, <1>4, <2>2
<1>6. \A b \in 0..4 : buckets'[b].total \in Nat /\ buckets'[b].wins \in Nat
    BY <1>3, <1>5
<1>8. SumFunction([b \in 0..4 |-> buckets'[b].total])
        = SumFunction([b \in 0..4 |-> buckets[b].total]) + 1
    <2> DEFINE f == [b \in 0..4 |-> buckets[b].total]
               g == [b \in 0..4 |-> buckets'[b].total]
    <2>1. f \in [0..4 -> Int] /\ g \in [0..4 -> Int]
          /\ (\A y \in (0..4) \ {x} : g[y] = f[y]) /\ g[x] - f[x] = 1
        BY <1>3, <1>5, <1>6
    <2> HIDE DEF f, g
    <2>2. SumFunction(g) = SumFunction(f) + (g[x] - f[x])
        BY <2>1, SumUpdate, Buckets, Zenon
    <2> QED BY <2>1, <2>2 DEF f, g
<1>9. SumFunction([b \in 0..4 |-> buckets'[b].wins])
        = SumFunction([b \in 0..4 |-> buckets[b].wins]) + d
    <2> DEFINE f == [b \in 0..4 |-> buckets[b].wins]
               g == [b \in 0..4 |-> buckets'[b].wins]
    <2>1. f \in [0..4 -> Int] /\ g \in [0..4 -> Int]
          /\ (\A y \in (0..4) \ {x} : g[y] = f[y]) /\ g[x] - f[x] = d
        BY <1>3, <1>5, <1>6
    <2> HIDE DEF f, g
    <2>2. SumFunction(g) = SumFunction(f) + (g[x] - f[x])
        BY <2>1, SumUpdate, Buckets, Zenon
    <2> QED BY <2>1, <2>2 DEF f, g
<1>10. Cardinality(Won(DOMAIN trades)') = Cardinality(Won(DOMAIN trades)) + d
    <2>1. Won(DOMAIN trades) \in SUBSET (1..n)
          /\ Won(DOMAIN trades)' = Won(DOMAIN trades) \cup (IF t.won THEN {n + 1} ELSE {})
        BY <1>1 DEF Won
    <2> QED BY <1>1, <1>4, <2>1, OneMoreIndex
<1>11. ASSUME NEW b \in 0..4
       PROVE  /\ buckets'[b].total = Cardinality(InBucket(b)')
              /\ buckets'[b].wins = Cardinality(Won(InBucket(b))')
    <2>1. InBucket(b) \in SUBSET (1..n)
          /\ InBucket(b)' = InBucket(b) \cup (IF b = x THEN {n + 1} ELSE {})
        BY <1>1, <1>2 DEF InBucket
    <2>2. Won(InBucket(b)) \in SUBSET (1..n)
          /\ Won(InBucket(b))' = Won(InBucket(b)) \cup (IF b = x /\ t.won THEN {n + 1} ELSE {})
        BY <1>1, <2>1 DEF Won
    <2>3. /\ Cardinality(InBucket(b)') = Cardinality(InBucket(b)) + (IF b = x THEN 1 ELSE 0)
          /\ Cardinality(InBucket(b)) \in Nat
        BY <2>1, OneMoreIndex
    <2>4. /\ Cardinality(Won(InBucket(b))')
                = Cardinality(Won(InBucket(b))) + (IF b = x /\ t.won THEN 1 ELSE 0)
          /\ Cardinality(Won(InBucket(b))) \in Nat
        <3>1. PICK gains \in BOOLEAN : gains = (b = x /\ t.won)
            OBVIOUS
        <3> QED BY <2>2, <3>1, OneMoreIndex
    <2>5. /\ buckets[b].total = Cardinality(InBucket(b))
          /\ buckets[b].wins = Cardinality(Won(InBucket(b)))
        BY DEF CalibrationInv
    <2>6. CASE b = x
        BY <1>4, <1>5, <2>3, <2>4, <2>5, <2>6
    <2>7. CASE b # x
        BY <1>5, <2>3, <2>4, <2>5, <2>7
    <2> QED BY <2>6, <2>7
<1> QED BY <1>0, <1>1, <1>8, <1>9, <1>10, <1>11 DEF CalibrationInv

\* Each bucket holds what its label promises.
LEMMA CalibrationHolds ==
    ASSUME TypeOK, CalibrationInv
    PROVE  CalibrationComplete
<1>1. PICK n \in Nat : DOMAIN trades = 1..n /\ \A i \in 1..n : trades[i] \in SettledTrade
    <2>1. trades \in Seq(SettledTrade)
        BY DEF TypeOK, SettledTrade
    <2>2. Len(trades) \in Nat /\ DOMAIN trades = 1..Len(trades)
        BY <2>1
    <2> QED BY <2>1, <2>2, ElementOfSeq
<1>2. ASSUME NEW b \in 0..4
      PROVE  /\ Inside(b) \subseteq InBucket(b) /\ InBucket(b) \subseteq Touching(b)
             /\ Touching(b) \subseteq 1..n
    <2>1. \A i \in 1..n : Normalized(trades[i]) \in 1..99
        BY <1>1, Normalizes
    <2> QED BY <1>1, <2>1, BucketFits DEF Inside, InBucket, Touching
<1>3. ASSUME NEW A, NEW B, A \subseteq B, B \subseteq 1..n
      PROVE  Cardinality(A) <= Cardinality(B) /\ Cardinality(A) \in Nat /\ Cardinality(B) \in Nat
    <2>1. IsFiniteSet(B) /\ Cardinality(A) \in Nat /\ Cardinality(B) \in Nat
        <3>1. 1 \in Int /\ n \in Int /\ A \in SUBSET (1..n) /\ B \in SUBSET (1..n)
            BY <1>3
        <3> QED BY <3>1, Interval
    <2> QED BY <1>3, <2>1, FS_Subset
<1>4. ASSUME NEW b \in 0..4
      PROVE  /\ buckets[b].total \in Cardinality(Inside(b)) .. Cardinality(Touching(b))
             /\ buckets[b].wins \in Cardinality(Won(Inside(b))) .. Cardinality(Won(Touching(b)))
    <2>1. /\ Won(Inside(b)) \subseteq Won(InBucket(b))
          /\ Won(InBucket(b)) \subseteq Won(Touching(b)) /\ Won(Touching(b)) \subseteq 1..n
        BY <1>2 DEF Won
    <2>2. Cardinality(InBucket(b)) \in Cardinality(Inside(b)) .. Cardinality(Touching(b))
        BY <1>2, <1>3
    <2>3. Cardinality(Won(InBucket(b)))
              \in Cardinality(Won(Inside(b))) .. Cardinality(Won(Touching(b)))
        BY <1>3, <2>1
    <2> QED BY <2>2, <2>3 DEF CalibrationInv
<1> QED BY <1>4 DEF CalibrationInv, CalibrationComplete

\* Every trade is counted once, with its win, in the bucket whose label its
\* probability falls under or is nearest to, for lists of any length
\* (stats.go:134).
THEOREM CalibrationCorrect == Spec => []CalibrationComplete
<1>1. TypeOK /\ CalibrationInv /\ [Next]_vars => CalibrationInv'
    <2> SUFFICES ASSUME TypeOK, CalibrationInv, [Next]_vars PROVE CalibrationInv'
        OBVIOUS
    <2>1. CASE Next
        BY <2>1, NextTakes, TakeCalibrates
    <2>2. CASE UNCHANGED vars
        BY <2>2 DEF vars, CalibrationInv, InBucket, Won
    <2> QED BY <2>1, <2>2
<1>2. TypeOK /\ CalibrationInv => CalibrationComplete
    BY CalibrationHolds
<1> QED BY CalibrationInit, StatsTypeCorrect, <1>1, <1>2, PTL DEF Spec

-----------------------------------------------------------------------------
(* The reports agree                                                       *)

\* The rows of a table add up to n trades, w wins and a profit of p.
AddsUp(table, n, w, p) ==
    /\ SumFunction([g \in DOMAIN table |-> table[g].trades]) = n
    /\ SumFunction([g \in DOMAIN table |-> table[g].wins]) = w
    /\ SumFunction([g \in DOMAIN table |-> table[g].pnl]) = p

\* The trades on which signal s had the given sign.
Signed(s, sign) == {i \in DOMAIN trades : trades[i].entry.signals[s] = sign}

\* The rates of signal s cover every trade on which it had a sign.
RatesCover(s) ==
    /\ rates[s].positive.total + rates[s].negative.total
         + Cardinality(Signed(s, 0)) = Len(trades)
    /\ rates[s].positive.wins + rates[s].negative.wins
         + Cardinality(Won(Signed(s, 0))) = summary.wins

ReportsInv ==
    /\ summary.wins + summary.losses = Len(trades)
    /\ summary.grossWins - summary.grossLosses = cumPnL
    /\ AddsUp(hours, Len(trades), summary.wins, cumPnL)
    /\ AddsUp(edges, Len(trades), summary.wins, cumPnL)
    /\ AddsUp(slots, Len(trades), summary.wins, cumPnL)
    /\ \A s \in SignalNames : RatesCover(s)

LEMMA ReportsHold == ReportsInv => ReportsAgree
BY DEF ReportsInv, ReportsAgree, AddsUp, Accounts, RatesCover, Signed

\* One more trade in a group adds one trade, its win and its profit.
LEMMA TableAddsUp ==
    ASSUME NEW table, RowsOK(table), IsFiniteSet(DOMAIN table), NEW g, NEW t, Settles(t),
           NEW n \in Int, NEW w \in Int, NEW p \in Int, AddsUp(table, n, w, p)
    PROVE  AddsUp(Counted(table, g, t), n + 1, w + (IF t.won THEN 1 ELSE 0), p + t.pnl)
<1>1. PICK S : S = DOMAIN table /\ IsFiniteSet(S)
    OBVIOUS
<1>2. PICK new, old : new = Counted(table, g, t) /\ old = Row(table, g)
    OBVIOUS
<1>3. PICK d \in Int, one \in Int, pnl \in Int :
          d = (IF t.won THEN 1 ELSE 0) /\ one = 1 /\ pnl = t.pnl
    BY DEF Settles, SettledTrade
<1>4. /\ DOMAIN new = S \cup {g} /\ \A k \in S \ {g} : new[k] = table[k]
      /\ new[g].trades = old.trades + one /\ new[g].wins = old.wins + d
      /\ new[g].pnl = old.pnl + pnl /\ RowsOK(new)
    <2>1. /\ Counted(table, g, t)[g].trades = Row(table, g).trades + 1
          /\ t.won => Counted(table, g, t)[g].wins = Row(table, g).wins + 1
          /\ ~t.won => Counted(table, g, t)[g].wins = Row(table, g).wins
          /\ Counted(table, g, t)[g].pnl = Row(table, g).pnl + t.pnl
        BY TableCounted
    <2>2. /\ DOMAIN Counted(table, g, t) = DOMAIN table \cup {g}
          /\ RowsOK(Counted(table, g, t))
        BY TableGrows
    <2>3. \A k \in DOMAIN table \ {g} : Counted(table, g, t)[k] = table[k]
        BY TableCounted
    <2>4. (\A k \in S \ {g} : new[k] = table[k]) /\ RowsOK(new) /\ DOMAIN new = S \cup {g}
        BY <1>1, <1>2, <2>2, <2>3
    <2>5. /\ new[g].trades = old.trades + one /\ new[g].pnl = old.pnl + pnl
          /\ t.won => new[g].wins = old.wins + 1
          /\ ~t.won => new[g].wins = old.wins
        BY <1>2, <1>3, <2>1
    <2>6. old.wins \in Nat
        BY <1>2, RowTypes
    <2>7. new[g].wins = old.wins + d
        BY <1>3, <2>5, <2>6
    <2> QED BY <2>4, <2>5, <2>7
<1>5. /\ \A k \in S : table[k].trades \in Int /\ table[k].wins \in Int /\ table[k].pnl \in Int
      /\ \A k \in S \cup {g} : new[k].trades \in Int /\ new[k].wins \in Int /\ new[k].pnl \in Int
    BY <1>1, <1>4 DEF RowsOK
<1>6. /\ old.trades = IF g \in S THEN table[g].trades ELSE 0
      /\ old.wins = IF g \in S THEN table[g].wins ELSE 0
      /\ old.pnl = IF g \in S THEN table[g].pnl ELSE 0
    BY <1>1, <1>2 DEF Row, NoTrades
<1>7. SumFunction([k \in S \cup {g} |-> new[k].trades])
        = SumFunction([k \in S |-> table[k].trades]) + one
    <2> DEFINE f == [k \in S |-> table[k].trades]
               h == [k \in S \cup {g} |-> new[k].trades]
    <2>1. f \in [S -> Int] /\ h \in [S \cup {g} -> Int]
          /\ (\A y \in S \ {g} : h[y] = f[y]) /\ h[g] = (IF g \in S THEN f[g] ELSE 0) + one
        BY <1>4, <1>5, <1>6
    <2> HIDE DEF f, h
    <2>2. SumFunction(h) = SumFunction(f) + one
        BY <1>1, <2>1, SumAdd
    <2> QED BY <2>2 DEF f, h
<1>8. SumFunction([k \in S \cup {g} |-> new[k].wins])
        = SumFunction([k \in S |-> table[k].wins]) + d
    <2> DEFINE f == [k \in S |-> table[k].wins]
               h == [k \in S \cup {g} |-> new[k].wins]
    <2>1. f \in [S -> Int] /\ h \in [S \cup {g} -> Int]
          /\ (\A y \in S \ {g} : h[y] = f[y]) /\ h[g] = (IF g \in S THEN f[g] ELSE 0) + d
        BY <1>4, <1>5, <1>6
    <2> HIDE DEF f, h
    <2>2. SumFunction(h) = SumFunction(f) + d
        BY <1>1, <2>1, SumAdd
    <2> QED BY <2>2 DEF f, h
<1>9. SumFunction([k \in S \cup {g} |-> new[k].pnl])
        = SumFunction([k \in S |-> table[k].pnl]) + pnl
    <2> DEFINE f == [k \in S |-> table[k].pnl]
               h == [k \in S \cup {g} |-> new[k].pnl]
    <2>1. f \in [S -> Int] /\ h \in [S \cup {g} -> Int]
          /\ (\A y \in S \ {g} : h[y] = f[y]) /\ h[g] = (IF g \in S THEN f[g] ELSE 0) + pnl
        BY <1>4, <1>5, <1>6
    <2> HIDE DEF f, h
    <2>2. PICK F \in [S -> Int] : F = f
        BY <2>1
    <2>3. PICK H \in [S \cup {g} -> Int] : H = h
        BY <2>1
    <2>4. (\A y \in S \ {g} : H[y] = F[y]) /\ H[g] = (IF g \in S THEN F[g] ELSE 0) + pnl
        BY <2>1, <2>2, <2>3
    <2>5. SumFunction(H) = SumFunction(F) + pnl
        BY <1>1, <2>4, SumAdd
    <2> QED BY <2>2, <2>3, <2>5 DEF f, h
<1>10. /\ SumFunction([k \in S |-> table[k].trades]) = n
       /\ SumFunction([k \in S |-> table[k].wins]) = w
       /\ SumFunction([k \in S |-> table[k].pnl]) = p
    BY <1>1 DEF AddsUp
<1>11. AddsUp(new, n + 1, w + d, p + t.pnl)
    BY <1>3, <1>4, <1>7, <1>8, <1>9, <1>10 DEF AddsUp
<1> QED BY <1>2, <1>3, <1>11

LEMMA ReportsInit == Init => ReportsInv
<1> SUFFICES ASSUME Init PROVE ReportsInv
    OBVIOUS
<1>1. /\ DOMAIN trades = {} /\ Len(trades) = 0 /\ cumPnL = 0
      /\ summary = [wins |-> 0, losses |-> 0, grossWins |-> 0, grossLosses |-> 0]
      /\ hours = <<>> /\ edges = <<>> /\ slots = <<>>
    BY DEF Init
<1>2. AddsUp(<<>>, 0, 0, 0)
    <2>1. DOMAIN <<>> = {}
        OBVIOUS
    <2>2. \A f \in [{} -> {0}] : SumFunction(f) = 0
        BY SumZero, FS_EmptySet
    <2>3. /\ [g \in {} |-> <<>>[g].trades] \in [{} -> {0}]
          /\ [g \in {} |-> <<>>[g].wins] \in [{} -> {0}]
          /\ [g \in {} |-> <<>>[g].pnl] \in [{} -> {0}]
        OBVIOUS
    <2> QED BY <2>1, <2>2, <2>3, Zenon DEF AddsUp
<1>3. ASSUME NEW s \in SignalNames PROVE RatesCover(s)
    <2>1. rates[s] = [positive |-> [wins |-> 0, total |-> 0],
                      negative |-> [wins |-> 0, total |-> 0]]
        BY DEF Init
    <2>2. Signed(s, 0) = {} /\ Won(Signed(s, 0)) = {}
        BY <1>1 DEF Signed, Won
    <2>3. /\ rates[s].positive.total = 0 /\ rates[s].negative.total = 0
          /\ rates[s].positive.wins = 0 /\ rates[s].negative.wins = 0
        BY <2>1
    <2>4. summary.wins = 0
        BY <1>1
    <2>5. Cardinality(Signed(s, 0)) = 0 /\ Cardinality(Won(Signed(s, 0))) = 0
        BY <2>2, FS_EmptySet
    <2> QED BY <1>1, <2>3, <2>4, <2>5 DEF RatesCover
<1> QED BY <1>1, <1>2, <1>3 DEF ReportsInv

\* The slots cover the window, but for its first second.
LEMMA SlotFound ==
    ASSUME MaxExpiry < WindowLen, NEW t, Settles(t)
    PROVE  Slots(Remaining(t.entry)) # {}
<1>1. t.entry \in Entry /\ Opened(t.entry)
    BY EntryAssumption DEF Settles, SettledTrade
<1>2. PICK left \in Int : left = Remaining(t.entry)
    BY <1>1 DEF Remaining, Entry, WindowLen
<1>3. 0 <= left /\ left < WindowLen
    BY <1>1, <1>2, LimitsAssumption DEF Remaining, Entry, Opened, WindowLen
<1>4. DOMAIN MaxSec = {0, 90, 180} /\ MaxSec[0] = 90 /\ MaxSec[90] = 180 /\ MaxSec[180] = 300
    BY DEF MaxSec, WindowLen
<1>5. \E m \in {0, 90, 180} : m <= left /\ left < MaxSec[m]
    BY <1>3, <1>4 DEF WindowLen
<1> QED BY <1>2, <1>4, <1>5 DEF Slots

LEMMA TakeReports ==
    ASSUME MaxExpiry < WindowLen, TypeOK, ReportsInv, NEW t, Settles(t), Take(t)
    PROVE  ReportsInv'
<1>0. PICK n \in Nat : n = Len(trades)
    BY TakeAppends
<1>1. /\ DOMAIN trades = 1..n /\ DOMAIN trades' = 1 .. (n + 1)
      /\ Len(trades') = n + 1 /\ trades'[n + 1] = t
      /\ \A i \in 1..n : trades'[i] = trades[i]
    BY <1>0, TakeAppends
<1>2. t.won \in BOOLEAN /\ t.pnl \in Int
    BY DEF Settles, SettledTrade
<1>3. PICK d \in {0, 1} : d = (IF t.won THEN 1 ELSE 0)
    OBVIOUS
<1>4. /\ summary'.wins = summary.wins + d /\ summary'.wins \in Nat /\ summary.wins \in Nat
      /\ summary'.wins + summary'.losses = summary.wins + summary.losses + 1
      /\ summary'.grossWins - summary'.grossLosses
            = summary.grossWins - summary.grossLosses + t.pnl
    <2>1. summary \in Summary
        BY DEF TypeOK, Summary
    <2>2. summary.wins \in Nat /\ summary.losses \in Nat /\ summary.grossWins \in Nat
          /\ summary.grossLosses \in Nat
        BY <2>1 DEF Summary
    <2>3. CountOutcome(t)
        BY DEF Take
    <2>4. CASE t.won
        <3>1. summary' = [wins |-> summary.wins + 1, losses |-> summary.losses,
                          grossWins |-> summary.grossWins + t.pnl,
                          grossLosses |-> summary.grossLosses]
            BY <2>1, <2>3, <2>4, OutcomeCounted
        <3> QED BY <1>2, <1>3, <2>2, <2>4, <3>1
    <2>5. CASE ~t.won
        <3>1. summary' = [wins |-> summary.wins, losses |-> summary.losses + 1,
                          grossWins |-> summary.grossWins,
                          grossLosses |-> summary.grossLosses - t.pnl]
            BY <2>1, <2>3, <2>5, OutcomeCounted
        <3> QED BY <1>2, <1>3, <2>2, <2>5, <3>1, OutcomeCounted DEF Settles
    <2> QED BY <2>4, <2>5
<1>5. cumPnL' = cumPnL + t.pnl /\ cumPnL \in Int
    BY DEF Take, Summarize, TypeOK
<1>6. ASSUME NEW table, RowsOK(table), IsFiniteSet(DOMAIN table), NEW g,
             AddsUp(table, n, summary.wins, cumPnL)
      PROVE  AddsUp(Counted(table, g, t), n + 1, summary'.wins, cumPnL')
    <2>1. AddsUp(Counted(table, g, t), n + 1, summary.wins + (IF t.won THEN 1 ELSE 0),
                 cumPnL + t.pnl)
        BY <1>4, <1>5, <1>6, TableAddsUp
    <2> QED BY <1>3, <1>4, <1>5, <2>1
<1>7. RowsOK(hours) /\ RowsOK(edges) /\ RowsOK(slots)
    BY DEF TypeOK, RowsOK
<1>8. IsFiniteSet(DOMAIN hours) /\ IsFiniteSet(DOMAIN edges) /\ IsFiniteSet(DOMAIN slots)
    <2>1. DOMAIN hours \subseteq 0..23 /\ DOMAIN edges \subseteq {0, 5, 10, 20}
          /\ DOMAIN slots \subseteq DOMAIN MaxSec
        BY DEF TypeOK
    <2>2. DOMAIN edges \subseteq 0..20 /\ DOMAIN slots \subseteq 0..180
        BY <2>1 DEF MaxSec
    <2>3. 0 \in Int /\ 20 \in Int /\ 23 \in Int /\ 180 \in Int
        OBVIOUS
    <2>4. IsFiniteSet(DOMAIN hours)
        BY <2>1, <2>3, Interval
    <2>5. IsFiniteSet(DOMAIN edges)
        BY <2>2, <2>3, Interval
    <2>6. IsFiniteSet(DOMAIN slots)
        BY <2>2, <2>3, Interval
    <2> QED BY <2>4, <2>5, <2>6
<1>9. AddsUp(hours', n + 1, summary'.wins, cumPnL')
    <2>1. hours' = Counted(hours, Hour(t.entry), t)
        BY DEF Take, Tabulate
    <2> QED BY <1>0, <1>6, <1>7, <1>8, <2>1 DEF ReportsInv
<1>10. AddsUp(edges', n + 1, summary'.wins, cumPnL')
    <2>1. edges' = Counted(edges, EdgeBucket(t.entry.edge), t)
        BY DEF Take, Tabulate
    <2> QED BY <1>0, <1>6, <1>7, <1>8, <2>1 DEF ReportsInv
<1>11. AddsUp(slots', n + 1, summary'.wins, cumPnL')
    <2>1. PICK m : slots' = Counted(slots, m, t)
        BY SlotFound DEF Take, Tabulate
    <2> QED BY <1>0, <1>6, <1>7, <1>8, <2>1 DEF ReportsInv
<1>12. ASSUME NEW s \in SignalNames PROVE RatesCover(s)'
    <2>1. PICK sign \in -1..1 : sign = t.entry.signals[s]
        BY EntryAssumption DEF Settles, SettledTrade, Entry
    <2>2. rates \in [SignalNames -> Rates] /\ Rate(t)
        BY DEF TypeOK, Rates, Take
    <2>3. PICK r \in Rates : r = rates[s]
        BY <2>2
    <2>4. PICK q \in Rates : q = rates'[s]
        BY <2>2, RateCounted
    <2>5. /\ r.positive.total \in Nat /\ r.negative.total \in Nat
          /\ r.positive.wins \in Nat /\ r.negative.wins \in Nat
        BY DEF Rates
    <2>6. /\ q.positive.total + q.negative.total
               = r.positive.total + r.negative.total + (IF sign = 0 THEN 0 ELSE 1)
          /\ q.positive.wins + q.negative.wins
               = r.positive.wins + r.negative.wins + (IF sign = 0 THEN 0 ELSE d)
        <3>1. CASE sign > 0
            <4>1. q = [positive |-> OneMore(r.positive, t), negative |-> r.negative]
                BY <2>1, <2>2, <2>3, <2>4, <3>1, RateCounted
            <4> QED BY <1>3, <2>5, <3>1, <4>1 DEF OneMore
        <3>2. CASE sign < 0
            <4>1. q = [positive |-> r.positive, negative |-> OneMore(r.negative, t)]
                BY <2>1, <2>2, <2>3, <2>4, <3>2, RateCounted
            <4> QED BY <1>3, <2>5, <3>2, <4>1 DEF OneMore
        <3>3. CASE sign = 0
            <4>1. q = r
                BY <2>1, <2>2, <2>3, <2>4, <3>3, RateCounted
            <4> QED BY <2>5, <3>3, <4>1
        <3> QED BY <3>1, <3>2, <3>3
    <2>7. Signed(s, 0) \in SUBSET (1..n)
          /\ Signed(s, 0)' = Signed(s, 0) \cup (IF sign = 0 THEN {n + 1} ELSE {})
        BY <1>1, <2>1 DEF Signed
    <2>8. Won(Signed(s, 0)) \in SUBSET (1..n)
          /\ Won(Signed(s, 0))'
               = Won(Signed(s, 0)) \cup (IF sign = 0 /\ t.won THEN {n + 1} ELSE {})
        BY <1>1, <2>7 DEF Won
    <2>9. /\ Cardinality(Signed(s, 0)')
               = Cardinality(Signed(s, 0)) + (IF sign = 0 THEN 1 ELSE 0)
          /\ Cardinality(Signed(s, 0)) \in Nat
        BY <2>7, OneMoreIndex
    <2>10. /\ Cardinality(Won(Signed(s, 0))')
                = Cardinality(Won(Signed(s, 0))) + (IF sign = 0 THEN d ELSE 0)
           /\ Cardinality(Won(Signed(s, 0))) \in Nat
        <3>1. PICK gains \in BOOLEAN : gains = (sign = 0 /\ t.won)
            OBVIOUS
        <3>2. /\ Cardinality(Won(Signed(s, 0))')
                   = Cardinality(Won(Signed(s, 0))) + (IF gains THEN 1 ELSE 0)
              /\ Cardinality(Won(Signed(s, 0))) \in Nat
            BY <2>8, <3>1, OneMoreIndex
        <3>3. (IF gains THEN 1 ELSE 0) = (IF sign = 0 THEN d ELSE 0)
            BY <1>2, <1>3, <3>1
        <3> QED BY <3>2, <3>3
    <2>11. /\ r.positive.total + r.negative.total + Cardinality(Signed(s, 0)) = n
           /\ r.positive.wins + r.negative.wins + Cardinality(Won(Signed(s, 0))) = summary.wins
        BY <1>0, <2>3 DEF ReportsInv, RatesCover
    <2>12. q.positive.total + q.negative.total + Cardinality(Signed(s, 0)') = n + 1
        BY <2>5, <2>6, <2>9, <2>11
    <2>13. q.positive.wins + q.negative.wins + Cardinality(Won(Signed(s, 0))') = summary'.wins
        BY <1>4, <2>5, <2>6, <2>10, <2>11
    <2> QED BY <1>1, <2>4, <2>12, <2>13 DEF RatesCover
<1>13. summary'.wins + summary'.losses = n + 1
       /\ summary'.grossWins - summary'.grossLosses = cumPnL'
    BY <1>0, <1>4, <1>5 DEF ReportsInv
<1> QED BY <1>1, <1>9, <1>10, <1>11, <1>12, <1>13 DEF ReportsInv

\* The reports of one hour agree, for lists of any length, as long as the engine
\* lets no trade through in the first second of a window, which is in no slot;
\* its MaxExpiry is 270 s (stats.go:487, engine.go:27).
THEOREM ReportsCorrect ==
    ASSUME MaxExpiry < WindowLen
    PROVE  Spec => []ReportsAgree
<1>1. TypeOK /\ ReportsInv /\ [Next]_vars => ReportsInv'
    <2> SUFFICES ASSUME TypeOK, ReportsInv, [Next]_vars PROVE ReportsInv'
        OBVIOUS
    <2>1. CASE Next
        BY <2>1, NextTakes, TakeReports
    <2>2. CASE UNCHANGED vars
        BY <2>2 DEF vars, ReportsInv, AddsUp, RatesCover, Signed, Won
    <2> QED BY <2>1, <2>2
<1>2. TypeOK /\ ReportsInv => ReportsAgree
    BY ReportsHold
<1> QED BY ReportsInit, StatsTypeCorrect, <1>1, <1>2, PTL DEF Spec
=============================================================================
