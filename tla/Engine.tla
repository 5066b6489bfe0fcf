------------------------------- MODULE Engine -------------------------------
(***************************************************************************)
(* One market's way from the hub's data to an order: Engine.Evaluate       *)
(* (internal/signal/) and the price gates of Manager.Evaluate              *)
(* (internal/risk/manager.go), beside the stream goroutines that write the *)
(* hub (internal/hub/hub.go, orderbook.go).                                *)
(*                                                                         *)
(* Every query of the hub takes the read lock for itself, so that prices   *)
(* and books may change between any two readings of one decision; the best *)
(* ask is even read through a pointer, without the lock.                   *)
(*                                                                         *)
(* Prices, probabilities and scores are in percent.  A middle price is     *)
(* kept doubled, and so is all that is compared with it.  tanh and the     *)
(* sigmoid are tables.  The gates on market, expiry, hour and volatility   *)
(* decide only whether the readings begin, and are left out.               *)
(***************************************************************************)
EXTENDS Integers

CONSTANTS
    Slopes,         \* values of PriceBuffer.Slope
    Tanh,           \* tanh(slope), in percent
    Sigmoid,        \* sigmoid(slope), in percent
    Books,          \* books that the feed may send: [bids, asks], sets of prices
    Volumes,        \* traded volumes in TradeFlow's window
    NoWrite,        \* no OnOrderbook is in progress
    NoOrder,        \* the nil *Order
    MinDataPoints, MaxMomentum, MinConfidence, MinEdge,
    MaxEdge,        \* fields of EngineConfig
    MaxModelProb,   \* Edge.MaxModelProb
    MinEntryPrice, MaxEntryPrice    \* fields of ManagerConfig

Prices == 1..99
Book == [bids : SUBSET Prices, asks : SUBSET Prices]
Sides == {"Up", "Down"}

ASSUME ShapeAssumption ==
    /\ Slopes \subseteq Int /\ Slopes # {}
    /\ Tanh \in [Slopes -> -100..100] /\ Sigmoid \in [Slopes -> 0..100]
    /\ \A s \in Slopes : /\ s > 0 <=> Tanh[s] > 0
                         /\ s < 0 <=> Tanh[s] < 0
                         /\ s > 0 <=> Sigmoid[s] > 50
                         /\ s < 0 <=> Sigmoid[s] < 50
ASSUME InputAssumption ==
    /\ Books \subseteq Book /\ Volumes \subseteq Nat
    /\ NoWrite \notin [side : Sides, asks : SUBSET Prices]
ASSUME OrderAssumption == NoOrder \notin [side : Sides, claim : Prices, price : Prices]
ASSUME ConfigAssumption ==
    /\ MinDataPoints \in Nat /\ MinDataPoints >= 2    \* then the slope exists
    /\ MaxMomentum \in 1..100 /\ MaxModelProb \in 51..99
    /\ MinConfidence \in Nat /\ MinEdge \in Nat /\ MaxEdge \in Nat
    /\ MinEntryPrice \in Nat /\ MaxEntryPrice \in Nat
\* The thresholds as tuned: without momentum, the other two signals do not
\* reach the confidence that a trade needs.
ASSUME TuningAssumption ==
    MinEdge > 0 /\ MaxEdge > 0 /\ 100 * MinConfidence > 30 * MaxEdge + 10 * 100

VARIABLES
    ticks,      \* PriceBuffer.Len, counted up to MinDataPoints
    slope,      \* what PriceBuffer.Slope returns
    book,       \* Hub.orderbooks of the market's tokens; no entry is an empty book
    writing,    \* the OnOrderbook call that has not yet assigned Asks
    pc,         \* what the signal loop reads next
    sum,        \* Engine.Evaluate's weightedSum, in units of 1/20000
    prob,       \* the probability of Up last computed from the slope
    dir,        \* dec.Dir
    order,      \* what Manager.Evaluate returned
    offered,    \* history: asks of the bought token during Manager.Evaluate
    quiet       \* history: nothing was written since the decision began

hub == <<ticks, slope, book, writing>>
decision == <<sum, prob, dir>>
vars == <<hub, pc, decision, order, offered, quiet>>

Abs(x) == IF x < 0 THEN -x ELSE x
Clamp(v, lo, hi) == IF v < lo THEN lo ELSE IF v > hi THEN hi ELSE v

-----------------------------------------------------------------------------
(* The hub                                                                 *)

\* The first level of each side, if there is one: Update has sorted them.
BestBid(side) == {b \in book[side].bids : \A c \in book[side].bids : b >= c}
BestAsk(side) == {a \in book[side].asks : \A c \in book[side].asks : a <= c}

\* MidPrice, doubled, if both sides have a level.
Mid(side) == {b + a : b \in BestBid(side), a \in BestAsk(side)}

\* The read lock is to be had.
Unlocked == writing = NoWrite

OnBTCPrice(s) ==
    /\ Unlocked
    /\ ticks' = IF ticks < MinDataPoints THEN ticks + 1 ELSE ticks
    /\ slope' = s
    /\ quiet' = FALSE
    /\ UNCHANGED <<book, writing, pc, decision, order, offered>>

\* OnOrderbook up to the assignment of Bids, under the write lock.
BeginUpdate(side, new) ==
    /\ Unlocked
    /\ book' = [book EXCEPT ![side].bids = new.bids]
    /\ writing' = [side |-> side, asks |-> new.asks]
    /\ quiet' = FALSE
    /\ offered' = IF pc = "ask" /\ side = dir THEN offered \cup new.asks ELSE offered
    /\ UNCHANGED <<ticks, slope, pc, decision, order>>

EndUpdate ==
    /\ ~Unlocked
    /\ book' = [book EXCEPT ![writing.side].asks = writing.asks]
    /\ writing' = NoWrite
    /\ UNCHANGED <<ticks, slope, pc, decision, order, offered, quiet>>

\* What BestAsk may return without the lock: the level that is in place, or,
\* beside a write, any of the new levels (the sort may become visible after
\* the slice) or the zeroes of a slice that is not filled yet.  Hardware that
\* reorders reads and writes may also pair one slice's length with the other's
\* array; both arrays exist (hub.go:40, clob_ws.go:51), so that this shows one
\* of the same levels, or the call gives up.  Should a build read the length
\* twice, the second read may end the process, which orders nothing.
AskSeen(side) ==
    BestAsk(side) \cup (IF ~Unlocked /\ writing.side = side THEN writing.asks \cup {0} ELSE {})

-----------------------------------------------------------------------------
(* Engine.Evaluate                                                         *)

\* A plausible bug: the probability is capped above only.
ModelProbabilityCappedAbove == Clamp(Sigmoid[slope], 0, MaxModelProb)

ModelProbability == Clamp(Sigmoid[slope], 100 - MaxModelProb, MaxModelProb)

\* The call returns without an order, or the loop is done with it.
Return ==
    /\ pc' = "idle"
    /\ prob' = 0 /\ dir' = "Up" /\ offered' = {}

\* The gates before the signals; count and price grow only.
Begin ==
    /\ pc = "idle" /\ Unlocked
    /\ ticks >= MinDataPoints
    /\ pc' = "momentum"
    /\ quiet' = TRUE
    /\ UNCHANGED <<hub, decision, order, offered>>

\* Momentum.Evaluate, capped by the engine.
MomentumScore == Clamp(Tanh[slope], -MaxMomentum, MaxMomentum)

ReadMomentum ==
    /\ pc = "momentum" /\ Unlocked
    /\ sum' = 120 * MomentumScore
    /\ pc' = "edgeSlope"
    /\ UNCHANGED <<hub, prob, dir, order, offered, quiet>>

\* How far Up's probability p is above the middle price, doubled; 0 without one.
EdgeScores(p) == IF Mid("Up") = {} THEN {0} ELSE {2 * p - mid : mid \in Mid("Up")}

\* Edge.Evaluate reads the slope and then the book.
ReadEdgeSlope ==
    /\ pc = "edgeSlope" /\ Unlocked
    /\ prob' = ModelProbability
    /\ pc' = "edgeBook"
    /\ UNCHANGED <<hub, sum, dir, order, offered, quiet>>

ReadEdgeBook ==
    /\ pc = "edgeBook" /\ Unlocked
    /\ sum' \in {sum + 30 * e : e \in EdgeScores(prob)}
    /\ prob' = 0
    /\ pc' = "flow"
    /\ UNCHANGED <<hub, dir, order, offered, quiet>>

\* TradeFlow.Evaluate: -((up / total - 0.5) * 2).
TradeFlow(up, down) == IF up + down = 0 THEN 0 ELSE (100 * (down - up)) \div (up + down)

\* A plausible bug: any composite score is enough.
NotConfident(composite) == composite # 0

Confident(composite) == composite # 0 /\ Abs(composite) >= 200 * MinConfidence

\* The last signal completes the composite score, which gives the direction.
\* Without confidence nothing is traded, whatever is read after it.
ReadFlow(up, down) ==
    /\ pc = "flow" /\ Unlocked
    /\ LET composite == sum + 20 * TradeFlow(up, down)
       IN  \/ /\ Confident(composite)
              /\ dir' = IF composite > 0 THEN "Up" ELSE "Down"
              /\ pc' = "prob"
              /\ UNCHANGED <<prob, offered>>
           \/ ~Confident(composite) /\ Return
    /\ sum' = 0
    /\ UNCHANGED <<hub, order, quiet>>

\* Edge.ModelProbability, from a slope read once more.
ReadProb ==
    /\ pc = "prob" /\ Unlocked
    /\ prob' = ModelProbability
    /\ pc' = "mid"
    /\ UNCHANGED <<hub, sum, dir, order, offered, quiet>>

\* A plausible bug: no edge is too good to be true.
EdgeAtLeast(edge) == edge >= 2 * MinEdge

EdgeInRange(edge) == edge >= 2 * MinEdge /\ (MaxEdge > 0 => edge <= 2 * MaxEdge)

\* ImpliedProbability and the gates; without a middle price Edge stays 0.
ReadMid ==
    /\ pc = "mid" /\ Unlocked
    /\ \E e \in EdgeScores(prob) :
          \/ EdgeInRange(Abs(e)) /\ pc' = "book" /\ UNCHANGED <<prob, dir, offered>>
          \/ ~EdgeInRange(Abs(e)) /\ Return
    /\ UNCHANGED <<hub, sum, order, quiet>>

-----------------------------------------------------------------------------
(* Manager.Evaluate                                                        *)

\* The model's probability that the bought side wins.
Claim == IF dir = "Up" THEN prob ELSE 100 - prob

\* A plausible bug: the token of the other side is looked up.
OtherToken == IF dir = "Up" THEN "Down" ELSE "Up"

\* The token of the bought side: tokenID.
Token == dir

GetOrderbook ==
    /\ pc = "book" /\ Unlocked
    /\ offered' = book[dir].asks
    /\ pc' = "ask"
    /\ UNCHANGED <<hub, decision, order, quiet>>

\* A plausible bug: only the claim is compared with the ask.
PriceBelowClaim(ask) == Claim > ask

\* The entry price gates, and KellyFraction > 0.
PriceOK(ask) ==
    /\ ask \in Prices
    /\ ask >= MinEntryPrice
    /\ MaxEntryPrice > 0 => ask <= MaxEntryPrice
    /\ Claim \in Prices
    /\ Claim > ask

Approve ==
    /\ pc = "ask"
    /\ \E ask \in AskSeen(Token) :
          /\ PriceOK(ask)
          /\ order' = [side |-> dir, claim |-> Claim, price |-> ask]
    /\ pc' = "open"
    /\ UNCHANGED <<hub, decision, offered, quiet>>

\* No ask, a price that fails the gates, or one of the manager's other
\* conditions (breaker, position, stake), which module RiskManager has.
Refuse ==
    /\ pc = "ask"
    /\ Return
    /\ UNCHANGED <<hub, sum, order, quiet>>

\* The loop opens the position and waits for its next tick.
Open ==
    /\ pc = "open"
    /\ order' = NoOrder
    /\ Return
    /\ UNCHANGED <<hub, sum, quiet>>

-----------------------------------------------------------------------------

Init ==
    /\ ticks = 0 /\ slope \in Slopes
    /\ book = [side \in Sides |-> [bids |-> {}, asks |-> {}]]
    /\ writing = NoWrite
    /\ pc = "idle" /\ sum = 0 /\ prob = 0 /\ dir = "Up"
    /\ order = NoOrder /\ offered = {} /\ quiet = TRUE

Streams ==
    \/ \E s \in Slopes : OnBTCPrice(s)
    \/ \E side \in Sides, new \in Books : BeginUpdate(side, new)
    \/ EndUpdate

SignalLoop ==
    \/ Begin \/ ReadMomentum \/ ReadEdgeSlope \/ ReadEdgeBook
    \/ \E up, down \in Volumes : ReadFlow(up, down)
    \/ ReadProb \/ ReadMid
    \/ GetOrderbook \/ Approve \/ Refuse \/ Open

Next == Streams \/ SignalLoop

Spec == Init /\ [][Next]_vars

-----------------------------------------------------------------------------
(* Properties                                                              *)

\* Every variable keeps its type.
TypeOK ==
    /\ ticks \in 0..MinDataPoints /\ slope \in Slopes
    /\ book \in [Sides -> Book]
    /\ writing \in [side : Sides, asks : SUBSET Prices] \cup {NoWrite}
    /\ pc \in {"idle", "momentum", "edgeSlope", "edgeBook", "flow", "prob", "mid",
               "book", "ask", "open"}
    /\ sum \in Int /\ prob \in 0..100 /\ dir \in Sides
    /\ order \in [side : Sides, claim : Prices, price : Prices] \cup {NoOrder}
    /\ pc = "open" <=> order # NoOrder
    /\ offered \subseteq Prices /\ quiet \in BOOLEAN

\* A decision that was not overtaken by an update never bets against the
\* model: the side bought is the one the price moves to, and the model gives
\* it more than a half.  The score could have come from the other signals;
\* that it did not follows from weights and gates together (engine.go:57,
\* 131, 163).
FollowsModel ==
    quiet /\ order # NoOrder =>
        /\ order.claim > 50
        /\ order.side = (IF slope > 0 THEN "Up" ELSE "Down")

\* The tokens' books are two views of one market: Down is offered at what Up
\* is bid, and the best bid is below the best ask.
OneMarket ==
    \A b \in BestBid("Up"), a \in BestAsk("Up") :
        b < a /\ BestAsk("Down") = {100 - b}

\* Such a decision, in a market whose books agree, is never overconfident
\* about the price it pays either: what the model claims beyond the ask is at
\* most MaxEdge, although the engine compares with Up's middle price only,
\* without regard to the side (engine.go:159, manager.go:179).
NotOverconfident ==
    quiet /\ OneMarket /\ order # NoOrder => order.claim - order.price <= MaxEdge

\* Whatever readings are mixed, the claim that sizes an order stays under the
\* model's cap for either side, which also bounds the Kelly fraction
\* (edge.go:46, manager.go:174).
ClaimCapped == order # NoOrder => order.claim \in MinEntryPrice .. MaxModelProb

\* The price of an order was an ask of the bought token during the call, even
\* if the book was replaced between BestAsk's two reads (orderbook.go:34).
PriceWasOffered == order # NoOrder => order.price \in offered

-----------------------------------------------------------------------------
(* The inductive invariant                                                 *)

Deciding == {"mid", "book", "ask", "open"}

\* What has been read so far is what one look at the hub would show now.
ReadingsAgree ==
    /\ Unlocked
    /\ pc = "edgeSlope" => sum = 120 * MomentumScore
    /\ pc = "edgeBook" => sum = 120 * MomentumScore /\ prob = ModelProbability
    /\ pc = "flow" =>
          sum \in {120 * MomentumScore + 30 * e : e \in EdgeScores(ModelProbability)}
    /\ pc \in {"prob"} \cup Deciding =>
          \E e \in EdgeScores(ModelProbability), f \in -100..100 :
             /\ Confident(120 * MomentumScore + 30 * e + 20 * f)
             /\ dir = IF 120 * MomentumScore + 30 * e + 20 * f > 0 THEN "Up" ELSE "Down"
    /\ pc \in Deciding => prob = ModelProbability
    /\ pc \in {"book", "ask", "open"} => \E e \in EdgeScores(prob) : EdgeInRange(Abs(e))
    /\ pc = "open" => order.price \in BestAsk(dir)

\* An order is for the side decided on, at an ask of its book.
OrderMatches ==
    /\ pc \in Deciding => prob \in (100 - MaxModelProb) .. MaxModelProb
    /\ pc = "ask" => /\ book[dir].asks \subseteq offered
                     /\ ~Unlocked /\ writing.side = dir => writing.asks \subseteq offered
    /\ pc = "open" => /\ order.side = dir /\ order.claim = Claim
                      /\ PriceOK(order.price) /\ order.price \in offered

IInv ==
    /\ TypeOK
    /\ quiet /\ pc # "idle" => ReadingsAgree
    /\ OrderMatches
=============================================================================
