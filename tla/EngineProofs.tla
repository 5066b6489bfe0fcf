---------------------------- MODULE EngineProofs ----------------------------
(***************************************************************************)
(* Proofs about a decision, for every table of tanh and sigmoid with the   *)
(* right signs, every feed of books and trades and every tuning that       *)
(* TuningAssumption allows.                                                *)
(*                                                                         *)
(* IInv says of each place in the decision what has been read so far; its  *)
(* third conjunct holds of every decision, the second of those that no     *)
(* update overtook.  FollowsModel and NotOverconfident are then arithmetic *)
(* about one look at the hub.                                              *)
(***************************************************************************)
EXTENDS Engine, TLAPS

-----------------------------------------------------------------------------
(* Signals                                                                 *)

\* There is at most one middle price, and so exactly one edge score.
LEMMA OneEdgeScore ==
    ASSUME TypeOK, NEW p \in 0..100
    PROVE  /\ EdgeScores(p) \subseteq -200..200
           /\ \A e, f \in EdgeScores(p) : e = f
<1>1. \A b, c \in BestBid("Up") : b \in Prices /\ b = c
  BY DEF TypeOK, BestBid, Book, Sides, Prices
<1>2. \A a, c \in BestAsk("Up") : a \in Prices /\ a = c
  BY DEF TypeOK, BestAsk, Book, Sides, Prices
<1>3. \A m, n \in Mid("Up") : m \in 2..198 /\ m = n
  BY <1>1, <1>2 DEF Mid, Prices
<1>4. QED
  BY <1>3 DEF EdgeScores

\* The trade flow is a percentage, whatever was traded.
LEMMA FlowIsPercentage ==
    ASSUME NEW up \in Nat, NEW down \in Nat
    PROVE  TradeFlow(up, down) \in -100..100
<1>1. CASE up + down = 0
  BY <1>1 DEF TradeFlow
<1>2. CASE up + down # 0
  <2> DEFINE t == up + down
             x == 100 * (down - up)
             q == x \div t
  <2>1. t \in Nat \ {0} /\ x \in Int /\ x <= 100 * t /\ x >= -100 * t
    BY <1>2
  <2> HIDE DEF t, x
  <2>2. q \in Int /\ t * q <= x /\ x < t * q + t
    BY <2>1
  <2> HIDE DEF q
  <2>3. q <= 100
    <3> SUFFICES ASSUME q >= 101 PROVE FALSE
      BY <2>2
    <3>1. t * q >= t * 101
      BY <2>1, <2>2
    <3>2. QED
      BY <2>1, <2>2, <3>1
  <2>4. q >= -100
    <3> SUFFICES ASSUME q + 1 <= -100 PROVE FALSE
      BY <2>2
    <3>1. t * (q + 1) <= t * (-100)
      BY <2>1, <2>2
    <3>2. t * (q + 1) = t * q + t
      BY <2>1, <2>2
    <3>3. QED
      BY <2>1, <2>2, <3>1, <3>2
  <2>5. QED
    BY <1>2, <2>2, <2>3, <2>4 DEF TradeFlow, q, x, t
<1>3. QED
  BY <1>1, <1>2

\* The model's probability keeps to its cap and agrees with the slope's sign;
\* so does the momentum score.
LEMMA ModelSigns ==
    ASSUME TypeOK
    PROVE  /\ ModelProbability \in (100 - MaxModelProb) .. MaxModelProb
           /\ MaxModelProb \in 51..99
           /\ MomentumScore \in -100..100
           /\ slope > 0 => ModelProbability > 50 /\ MomentumScore > 0
           /\ slope < 0 => ModelProbability < 50 /\ MomentumScore < 0
           /\ slope = 0 => MomentumScore = 0
<1>1. /\ slope \in Int /\ slope \in Slopes
      /\ Tanh[slope] \in -100..100 /\ Sigmoid[slope] \in 0..100
  BY ShapeAssumption DEF TypeOK
<1>2. /\ slope > 0 <=> Tanh[slope] > 0
      /\ slope < 0 <=> Tanh[slope] < 0
      /\ slope > 0 <=> Sigmoid[slope] > 50
      /\ slope < 0 <=> Sigmoid[slope] < 50
  BY <1>1, ShapeAssumption
<1>3. QED
  BY <1>1, <1>2, ConfigAssumption DEF ModelProbability, MomentumScore, Clamp

\* As long as nothing is written, every reading repeats.
LEMMA SameReadings ==
    ASSUME UNCHANGED hub
    PROVE  /\ Mid("Up")' = Mid("Up")
           /\ \A side : BestAsk(side)' = BestAsk(side)
           /\ \A p : EdgeScores(p)' = EdgeScores(p)
           /\ ModelProbability' = ModelProbability
           /\ MomentumScore' = MomentumScore
           /\ Unlocked' = Unlocked
BY DEF hub, Mid, BestBid, BestAsk, EdgeScores, ModelProbability, MomentumScore, Unlocked

-----------------------------------------------------------------------------
(* IInv is inductive: the streams                                          *)

LEMMA InitIInv == Init => IInv
<1> SUFFICES ASSUME Init PROVE IInv
  OBVIOUS
<1>1. TypeOK
  BY ConfigAssumption DEF Init, TypeOK, Book, Sides
<1>2. OrderMatches
  BY DEF Init, OrderMatches, Deciding
<1>3. QED
  BY <1>1, <1>2 DEF Init, IInv

LEMMA OnBTCPriceIInv ==
    ASSUME IInv, NEW s \in Slopes, OnBTCPrice(s)
    PROVE  IInv'
<1>1. TypeOK'
  <2>1. quiet' \in BOOLEAN
    BY Zenon DEF OnBTCPrice
  <2>2. QED
    BY <2>1, ConfigAssumption DEF IInv, TypeOK, OnBTCPrice, decision
<1>2. OrderMatches'
  <2>1. UNCHANGED <<book, writing, pc, prob, dir, order, offered>>
    BY DEF OnBTCPrice, decision
  <2>2. OrderMatches
    BY DEF IInv
  <2>3. QED
    BY <2>1, <2>2 DEF OrderMatches, Unlocked, Deciding, Claim, PriceOK
<1>3. QED
  BY <1>1, <1>2 DEF IInv, OnBTCPrice

LEMMA BeginUpdateIInv ==
    ASSUME IInv, NEW side \in Sides, NEW new \in Books, BeginUpdate(side, new)
    PROVE  IInv'
<1>1. new \in Book /\ new.bids \in SUBSET Prices /\ new.asks \in SUBSET Prices
  BY InputAssumption DEF Book
<1>2. TypeOK'
  <2>1. book' \in [Sides -> Book]
    BY <1>1 DEF IInv, TypeOK, BeginUpdate, Book
  <2>2. writing' \in [side : Sides, asks : SUBSET Prices]
    BY <1>1 DEF BeginUpdate
  <2>3. offered' \subseteq Prices
    BY <1>1 DEF IInv, TypeOK, BeginUpdate
  <2>4. quiet' \in BOOLEAN
    BY Zenon DEF BeginUpdate
  <2>5. QED
    BY <2>1, <2>2, <2>3, <2>4 DEF IInv, TypeOK, BeginUpdate, decision
<1>3. OrderMatches'
  <2>1. book'[dir].asks = book[dir].asks
    BY <1>1 DEF IInv, TypeOK, BeginUpdate, Book
  <2>2. pc' = "ask" => /\ book'[dir].asks \subseteq offered'
                       /\ writing'.side = dir => writing'.asks \subseteq offered'
    BY <2>1 DEF IInv, OrderMatches, BeginUpdate
  <2>3. UNCHANGED <<pc, prob, dir, order>> /\ offered \subseteq offered'
    BY DEF BeginUpdate, decision
  <2>4. OrderMatches
    BY DEF IInv
  <2>5. QED
    BY <2>2, <2>3, <2>4 DEF OrderMatches, Deciding, Claim, PriceOK
<1>4. QED
  BY <1>2, <1>3 DEF IInv, BeginUpdate

LEMMA EndUpdateIInv ==
    ASSUME IInv, EndUpdate
    PROVE  IInv'
<1>1. writing.side \in Sides /\ writing.asks \subseteq Prices
  BY DEF IInv, TypeOK, EndUpdate, Unlocked
<1>2. TypeOK'
  <2>1. book' \in [Sides -> Book]
    BY <1>1 DEF IInv, TypeOK, EndUpdate, Book
  <2>2. quiet' \in BOOLEAN
    BY Zenon DEF EndUpdate, IInv, TypeOK
  <2>3. QED
    BY <2>1, <2>2 DEF IInv, TypeOK, EndUpdate, decision
<1>3. quiet => pc = "idle"
  BY DEF IInv, ReadingsAgree, EndUpdate
<1>4. OrderMatches'
  <2>1. book'[dir].asks = IF writing.side = dir THEN writing.asks ELSE book[dir].asks
    BY <1>1 DEF IInv, TypeOK, EndUpdate, Book
  <2>2. pc' = "ask" => book'[dir].asks \subseteq offered'
    BY <2>1 DEF IInv, OrderMatches, EndUpdate
  <2>3. UNCHANGED <<pc, prob, dir, order, offered>> /\ writing' = NoWrite
    BY DEF EndUpdate, decision
  <2>4. OrderMatches
    BY DEF IInv
  <2>5. QED
    BY <2>2, <2>3, <2>4 DEF OrderMatches, Unlocked, Deciding, Claim, PriceOK
<1>5. QED
  BY <1>2, <1>3, <1>4 DEF IInv, EndUpdate

-----------------------------------------------------------------------------
(* IInv is inductive: the signal loop                                      *)

\* The steps before an order exists change nothing that the streams write.
LEMMA StepTypeOK ==
    ASSUME TypeOK, UNCHANGED <<hub, order, quiet>>, pc # "open",
           pc' \in {"idle", "momentum", "edgeSlope", "edgeBook", "flow", "prob", "mid",
                    "book", "ask"},
           sum' \in Int, prob' \in 0..100, dir' \in Sides, offered' \subseteq Prices
    PROVE  TypeOK'
<1>1. quiet' \in BOOLEAN
  BY Zenon DEF TypeOK
<1>2. QED
  BY <1>1 DEF TypeOK, hub

\* A call that returns leaves nothing to be shown.
LEMMA ReturnMatches ==
    ASSUME Return
    PROVE  OrderMatches' /\ (quiet' /\ pc' # "idle" => ReadingsAgree')
BY DEF Return, OrderMatches, Deciding

LEMMA BeginIInv ==
    ASSUME IInv, Begin
    PROVE  IInv'
<1>1. TypeOK'
  <2>1. quiet' \in BOOLEAN
    BY Zenon DEF Begin
  <2>2. QED
    BY <2>1 DEF IInv, TypeOK, Begin, hub, decision
<1>2. ReadingsAgree'
  BY DEF Begin, hub, ReadingsAgree, Unlocked, Deciding
<1>3. OrderMatches'
  BY DEF Begin, OrderMatches, Deciding
<1>4. QED
  BY <1>1, <1>2, <1>3 DEF IInv

LEMMA ReadMomentumIInv ==
    ASSUME IInv, ReadMomentum
    PROVE  IInv'
<1>1. MomentumScore \in -100..100
  BY ModelSigns DEF IInv
<1>2. TypeOK'
  BY <1>1, StepTypeOK DEF ReadMomentum, IInv, TypeOK
<1>3. ReadingsAgree'
  BY SameReadings DEF ReadMomentum, ReadingsAgree, Deciding
<1>4. OrderMatches'
  BY DEF ReadMomentum, OrderMatches, Deciding
<1>5. QED
  BY <1>2, <1>3, <1>4 DEF IInv

LEMMA ReadEdgeSlopeIInv ==
    ASSUME IInv, ReadEdgeSlope
    PROVE  IInv'
<1>1. ModelProbability \in 0..100
  BY ModelSigns DEF IInv
<1>2. TypeOK'
  BY <1>1, StepTypeOK DEF ReadEdgeSlope, IInv, TypeOK
<1>3. quiet' => ReadingsAgree'
  BY SameReadings DEF ReadEdgeSlope, IInv, ReadingsAgree, Deciding
<1>4. OrderMatches'
  BY DEF ReadEdgeSlope, OrderMatches, Deciding
<1>5. QED
  BY <1>2, <1>3, <1>4 DEF IInv

LEMMA ReadEdgeBookIInv ==
    ASSUME IInv, ReadEdgeBook
    PROVE  IInv'
<1>1. PICK e \in EdgeScores(prob) : sum' = sum + 30 * e
  BY DEF ReadEdgeBook
<1>2. e \in Int /\ sum \in Int
  BY OneEdgeScore DEF IInv, TypeOK
<1>3. TypeOK'
  BY <1>1, <1>2, StepTypeOK DEF ReadEdgeBook, IInv, TypeOK
<1>4. quiet' => ReadingsAgree'
  <2> SUFFICES ASSUME quiet PROVE ReadingsAgree'
    BY DEF ReadEdgeBook
  <2>1. sum' = 120 * MomentumScore' + 30 * e /\ e \in EdgeScores(ModelProbability)
    BY <1>1, SameReadings DEF ReadEdgeBook, IInv, ReadingsAgree
  <2>2. e \in EdgeScores(ModelProbability)'
    BY <2>1, SameReadings DEF ReadEdgeBook, hub, EdgeScores, Mid, BestBid, BestAsk,
                              ModelProbability
  <2>3. QED
    BY <2>1, <2>2 DEF ReadEdgeBook, hub, ReadingsAgree, Unlocked, Deciding
<1>5. OrderMatches'
  BY DEF ReadEdgeBook, OrderMatches, Deciding
<1>6. QED
  BY <1>3, <1>4, <1>5 DEF IInv

LEMMA ReadFlowIInv ==
    ASSUME IInv, NEW up \in Volumes, NEW down \in Volumes, ReadFlow(up, down)
    PROVE  IInv'
<1> DEFINE f == TradeFlow(up, down)
           composite == sum + 20 * f
<1>1. f \in -100..100
  BY FlowIsPercentage, InputAssumption
<1>2. CASE ~Confident(composite) /\ Return
  BY <1>2, StepTypeOK, ReturnMatches DEF ReadFlow, Return, IInv, TypeOK, Sides
<1>3. CASE /\ Confident(composite)
           /\ dir' = IF composite > 0 THEN "Up" ELSE "Down"
           /\ pc' = "prob"
           /\ UNCHANGED <<prob, offered>>
  <2>1. TypeOK'
    BY <1>3, StepTypeOK DEF ReadFlow, IInv, TypeOK, Sides
  <2>2. OrderMatches'
    BY <1>3 DEF OrderMatches, Deciding
  <2>3. quiet => ReadingsAgree'
    <3> SUFFICES ASSUME quiet PROVE ReadingsAgree'
      OBVIOUS
    <3>1. PICK e \in EdgeScores(ModelProbability) : sum = 120 * MomentumScore + 30 * e
      BY DEF ReadFlow, IInv, ReadingsAgree
    <3>2. composite = 120 * MomentumScore' + 30 * e + 20 * f
      BY <3>1, SameReadings DEF ReadFlow
    <3>3. e \in EdgeScores(ModelProbability)'
      BY <3>1 DEF ReadFlow, hub, EdgeScores, Mid, BestBid, BestAsk, ModelProbability
    <3> HIDE DEF f
    <3>4. QED
      BY <1>1, <1>3, <3>2, <3>3 DEF ReadFlow, hub, ReadingsAgree, Unlocked, Deciding
  <2>4. QED
    BY <2>1, <2>2, <2>3 DEF IInv, ReadFlow
<1>4. QED
  BY <1>2, <1>3 DEF ReadFlow

LEMMA ReadProbIInv ==
    ASSUME IInv, ReadProb
    PROVE  IInv'
<1>1. /\ ModelProbability \in (100 - MaxModelProb) .. MaxModelProb
      /\ ModelProbability \in 0..100
  BY ModelSigns DEF IInv
<1>2. TypeOK'
  BY <1>1, StepTypeOK DEF ReadProb, IInv, TypeOK
<1>3. OrderMatches'
  BY <1>1 DEF ReadProb, OrderMatches, Deciding
<1>4. quiet' => ReadingsAgree'
  <2> SUFFICES ASSUME quiet PROVE ReadingsAgree'
    BY DEF ReadProb
  <2>1. UNCHANGED <<Unlocked, MomentumScore, ModelProbability, EdgeScores(ModelProbability), dir>>
    BY DEF ReadProb, hub, EdgeScores, Mid, BestBid, BestAsk, ModelProbability, MomentumScore,
           Unlocked
  <2>2. ReadingsAgree /\ pc = "prob" /\ pc' = "mid" /\ prob' = ModelProbability
    BY DEF ReadProb, IInv
  <2>3. QED
    BY <2>1, <2>2 DEF ReadingsAgree, Deciding
<1>5. QED
  BY <1>2, <1>3, <1>4 DEF IInv

LEMMA ReadMidIInv ==
    ASSUME IInv, ReadMid
    PROVE  IInv'
<1>1. PICK e \in EdgeScores(prob) :
          \/ EdgeInRange(Abs(e)) /\ pc' = "book" /\ UNCHANGED <<prob, dir, offered>>
          \/ ~EdgeInRange(Abs(e)) /\ Return
  BY DEF ReadMid
<1>2. CASE ~EdgeInRange(Abs(e)) /\ Return
  BY <1>2, StepTypeOK, ReturnMatches DEF ReadMid, Return, IInv, TypeOK, Sides
<1>3. CASE EdgeInRange(Abs(e)) /\ pc' = "book" /\ UNCHANGED <<prob, dir, offered>>
  <2>1. TypeOK'
    BY <1>3, StepTypeOK DEF ReadMid, IInv, TypeOK
  <2>2. OrderMatches'
    BY <1>3 DEF ReadMid, IInv, OrderMatches, Deciding
  <2>3. quiet => ReadingsAgree'
    <3> SUFFICES ASSUME quiet PROVE ReadingsAgree'
      OBVIOUS
    <3>1. /\ UNCHANGED <<Unlocked, MomentumScore, ModelProbability,
                         EdgeScores(ModelProbability)>>
          /\ EdgeScores(prob)' = EdgeScores(prob)
      BY <1>3 DEF ReadMid, hub, EdgeScores, Mid, BestBid, BestAsk, ModelProbability,
                  MomentumScore, Unlocked
    <3>2. ReadingsAgree /\ pc = "mid"
      BY DEF ReadMid, IInv
    <3>3. QED
      BY <1>1, <1>3, <3>1, <3>2 DEF ReadingsAgree, Deciding
  <2>4. QED
    BY <2>1, <2>2, <2>3 DEF IInv, ReadMid
<1>4. QED
  BY <1>1, <1>2, <1>3

LEMMA GetOrderbookIInv ==
    ASSUME IInv, GetOrderbook
    PROVE  IInv'
<1>1. book[dir].asks \subseteq Prices
  BY DEF IInv, TypeOK, Book
<1>2. TypeOK'
  BY <1>1, StepTypeOK DEF GetOrderbook, IInv, TypeOK, decision
<1>3. OrderMatches'
  BY DEF GetOrderbook, IInv, OrderMatches, Deciding, hub, decision, Unlocked
<1>4. quiet' => ReadingsAgree'
  <2> SUFFICES ASSUME quiet PROVE ReadingsAgree'
    BY DEF GetOrderbook
  <2>1. /\ UNCHANGED <<Unlocked, MomentumScore, ModelProbability,
                       EdgeScores(ModelProbability), dir, prob>>
        /\ EdgeScores(prob)' = EdgeScores(prob)
    BY DEF GetOrderbook, hub, decision, EdgeScores, Mid, BestBid, BestAsk, ModelProbability,
           MomentumScore, Unlocked
  <2>2. ReadingsAgree /\ pc = "book" /\ pc' = "ask"
    BY DEF GetOrderbook, IInv
  <2>3. QED
    BY <2>1, <2>2 DEF ReadingsAgree, Deciding
<1>5. QED
  BY <1>2, <1>3, <1>4 DEF IInv

LEMMA ApproveIInv ==
    ASSUME IInv, Approve
    PROVE  IInv'
<1>1. PICK ask \in AskSeen(dir) :
          PriceOK(ask) /\ order' = [side |-> dir, claim |-> Claim, price |-> ask]
  BY DEF Approve, Token
<1>2. TypeOK'
  <2>1. quiet' \in BOOLEAN
    BY Zenon DEF Approve, IInv, TypeOK
  <2>2. order' \in [side : Sides, claim : Prices, price : Prices]
    BY <1>1 DEF PriceOK, IInv, TypeOK
  <2>3. order' # NoOrder
    BY <1>1, <2>2, OrderAssumption
  <2>4. QED
    BY <2>1, <2>2, <2>3 DEF Approve, IInv, TypeOK, hub, decision
<1>3. ask \in offered
  <2>1. ask # 0
    BY <1>1 DEF PriceOK, Prices
  <2>2. QED
    BY <1>1, <2>1 DEF AskSeen, BestAsk, Approve, IInv, OrderMatches
<1>4. OrderMatches'
  BY <1>1, <1>3 DEF Approve, IInv, OrderMatches, Deciding, Claim, PriceOK, decision
<1>5. quiet' => ReadingsAgree'
  <2> SUFFICES ASSUME quiet PROVE ReadingsAgree'
    BY DEF Approve
  <2>1. /\ UNCHANGED <<Unlocked, MomentumScore, ModelProbability,
                       EdgeScores(ModelProbability), dir, prob, BestAsk(dir)>>
        /\ EdgeScores(prob)' = EdgeScores(prob)
    BY DEF Approve, hub, decision, EdgeScores, Mid, BestBid, BestAsk, ModelProbability,
           MomentumScore, Unlocked
  <2>2. ReadingsAgree /\ pc = "ask" /\ pc' = "open"
    BY DEF Approve, IInv
  <2>3. ask \in BestAsk(dir) /\ order'.price = ask
    BY <1>1, <2>2 DEF AskSeen, ReadingsAgree
  <2>4. QED
    BY <2>1, <2>2, <2>3 DEF ReadingsAgree, Deciding
<1>6. QED
  BY <1>2, <1>4, <1>5 DEF IInv

LEMMA RefuseIInv ==
    ASSUME IInv, Refuse
    PROVE  IInv'
BY StepTypeOK, ReturnMatches DEF Refuse, Return, IInv, TypeOK, Sides

LEMMA OpenIInv ==
    ASSUME IInv, Open
    PROVE  IInv'
<1>1. TypeOK'
  <2>1. quiet' \in BOOLEAN
    BY Zenon DEF Open, IInv, TypeOK
  <2>2. QED
    BY <2>1 DEF Open, Return, IInv, TypeOK, hub, Sides
<1>2. QED
  BY <1>1, ReturnMatches DEF IInv, Open, Return

\* A step that leaves every variable alone.
LEMMA StutterIInv ==
    ASSUME IInv, UNCHANGED vars
    PROVE  IInv'
<1>1. TypeOK'
  <2>1. quiet' \in BOOLEAN
    BY Zenon DEF vars, IInv, TypeOK
  <2>2. QED
    BY <2>1 DEF vars, hub, decision, IInv, TypeOK
<1>2. OrderMatches'
  BY DEF vars, hub, decision, IInv, OrderMatches, Unlocked, Claim, PriceOK
<1>3. quiet' /\ pc' # "idle" => ReadingsAgree'
  <2> SUFFICES ASSUME quiet, pc # "idle" PROVE ReadingsAgree'
    BY DEF vars
  <2>1. /\ UNCHANGED <<Unlocked, MomentumScore, ModelProbability,
                       EdgeScores(ModelProbability), BestAsk(dir)>>
        /\ EdgeScores(prob)' = EdgeScores(prob)
    BY DEF vars, hub, decision, EdgeScores, Mid, BestBid, BestAsk, ModelProbability,
           MomentumScore, Unlocked
  <2>2. ReadingsAgree /\ UNCHANGED <<pc, sum, prob, dir, order>>
    BY DEF vars, hub, decision, IInv
  <2>3. QED
    BY <2>1, <2>2 DEF ReadingsAgree
<1>4. QED
  BY <1>1, <1>2, <1>3 DEF IInv

LEMMA NextIInv == IInv /\ [Next]_vars => IInv'
<1> SUFFICES ASSUME IInv, [Next]_vars PROVE IInv'
  OBVIOUS
<1>1. CASE Streams
  BY <1>1, OnBTCPriceIInv, BeginUpdateIInv, EndUpdateIInv DEF Streams
<1>2. CASE SignalLoop
  BY <1>2, BeginIInv, ReadMomentumIInv, ReadEdgeSlopeIInv, ReadEdgeBookIInv, ReadFlowIInv,
     ReadProbIInv, ReadMidIInv, GetOrderbookIInv, ApproveIInv, RefuseIInv, OpenIInv
     DEF SignalLoop
<1>3. CASE UNCHANGED vars
  BY <1>3, StutterIInv
<1>4. QED
  BY <1>1, <1>2, <1>3 DEF Next

\* The invariant holds in every reachable state.
THEOREM Invariant == Spec => []IInv
BY InitIInv, NextIInv, PTL DEF Spec

-----------------------------------------------------------------------------
(* What an order promises                                                  *)

\* A decision that reached an order without being overtaken was taken on one
\* edge score within the limits, and then only momentum can have had the
\* weight that confidence asks for.
LEMMA OneLook ==
    ASSUME IInv, quiet, order # NoOrder
    PROVE  /\ pc = "open" /\ prob = ModelProbability
           /\ \E e \in EdgeScores(prob) : EdgeInRange(Abs(e))
           /\ dir = "Up" => MomentumScore > 0
           /\ dir = "Down" => MomentumScore < 0
           /\ dir \in Sides
<1>1. pc = "open" /\ ReadingsAgree /\ TypeOK
  BY DEF IInv, TypeOK
<1>2. prob = ModelProbability /\ prob \in 0..100
  BY <1>1 DEF ReadingsAgree, Deciding, TypeOK
<1>3. PICK d \in EdgeScores(prob) : EdgeInRange(Abs(d))
  BY <1>1 DEF ReadingsAgree
<1>4. PICK e \in EdgeScores(ModelProbability), f \in -100..100 :
          /\ Confident(120 * MomentumScore + 30 * e + 20 * f)
          /\ dir = IF 120 * MomentumScore + 30 * e + 20 * f > 0 THEN "Up" ELSE "Down"
  BY <1>1 DEF ReadingsAgree, Deciding
<1>5. e = d /\ d \in -200..200 /\ MomentumScore \in -100..100
  BY <1>1, <1>2, <1>4, OneEdgeScore, ModelSigns
<1>6. e <= 2 * MaxEdge /\ e >= -2 * MaxEdge
  BY <1>3, <1>5, TuningAssumption, ConfigAssumption DEF EdgeInRange, Abs
<1>7. 30 * e + 20 * f < 200 * MinConfidence /\ 30 * e + 20 * f > -200 * MinConfidence
  BY <1>5, <1>6, TuningAssumption, ConfigAssumption
<1>8. /\ dir = "Up" => MomentumScore > 0
      /\ dir = "Down" => MomentumScore < 0
  BY <1>4, <1>5, <1>7, ConfigAssumption DEF Confident, Abs
<1>9. QED
  BY <1>1, <1>2, <1>3, <1>8 DEF TypeOK

LEMMA OrderFollowsModel == IInv => FollowsModel
<1> SUFFICES ASSUME IInv, quiet, order # NoOrder
             PROVE  /\ order.claim > 50
                    /\ order.side = (IF slope > 0 THEN "Up" ELSE "Down")
  BY DEF FollowsModel
<1>1. TypeOK /\ slope \in Int
  BY ShapeAssumption DEF IInv, TypeOK
<1>2. order.side = dir /\ order.claim = Claim
  BY OneLook DEF IInv, OrderMatches
<1>3. CASE dir = "Up"
  <2>1. slope > 0 /\ prob > 50
    BY <1>1, <1>3, OneLook, ModelSigns
  <2>2. QED
    BY <1>2, <1>3, <2>1 DEF Claim
<1>4. CASE dir = "Down"
  <2>1. slope < 0 /\ prob < 50 /\ prob \in 0..100
    BY <1>1, <1>4, OneLook, ModelSigns DEF TypeOK
  <2>2. QED
    BY <1>1, <1>2, <1>4, <2>1 DEF Claim
<1>5. QED
  BY <1>3, <1>4, OneLook DEF Sides

LEMMA OrderNotOverconfident == IInv => NotOverconfident
<1> SUFFICES ASSUME IInv, quiet, OneMarket, order # NoOrder
             PROVE  order.claim - order.price <= MaxEdge
  BY DEF NotOverconfident
<1>1. TypeOK /\ prob \in 0..100 /\ dir \in Sides
  BY DEF IInv, TypeOK
<1>2. order.side = dir /\ order.claim = Claim /\ order.price \in BestAsk(dir)
  BY OneLook DEF IInv, OrderMatches, ReadingsAgree
<1>3. PICK e \in EdgeScores(prob) : EdgeInRange(Abs(e))
  BY OneLook
<1>4. e \in -200..200
  BY <1>1, OneEdgeScore
<1>5. PICK b \in BestBid("Up"), a \in BestAsk("Up") : e = 2 * prob - (b + a)
  <2>1. e # 0
    BY <1>3, TuningAssumption, ConfigAssumption DEF EdgeInRange, Abs
  <2>2. QED
    BY <1>3, <2>1 DEF EdgeScores, Mid
<1>6. b \in Prices /\ a \in Prices /\ b < a /\ BestAsk("Down") = {100 - b}
  BY <1>1, <1>5 DEF OneMarket, TypeOK, BestBid, BestAsk, Book, Sides
<1>7. e <= 2 * MaxEdge /\ e >= -2 * MaxEdge
  BY <1>3, <1>4, TuningAssumption, ConfigAssumption DEF EdgeInRange, Abs
<1>8. CASE dir = "Up"
  <2>1. order.price = a
    BY <1>1, <1>2, <1>5, <1>8 DEF BestAsk, TypeOK, Book, Sides, Prices
  <2>2. QED
    BY <1>1, <1>2, <1>5, <1>6, <1>7, <1>8, <2>1, ConfigAssumption DEF Claim, Prices
<1>9. CASE dir = "Down"
  BY <1>1, <1>2, <1>5, <1>6, <1>7, <1>9, ConfigAssumption DEF Claim, Prices
<1>10. QED
  BY <1>1, <1>8, <1>9 DEF Sides

LEMMA OrderClaimCapped == IInv => ClaimCapped
<1> SUFFICES ASSUME IInv, order # NoOrder
             PROVE  order.claim \in MinEntryPrice .. MaxModelProb
  BY DEF ClaimCapped
<1>1. /\ order.claim = Claim /\ PriceOK(order.price)
      /\ prob \in (100 - MaxModelProb) .. MaxModelProb
  BY DEF IInv, TypeOK, OrderMatches, Deciding
<1>2. QED
  BY <1>1, ConfigAssumption DEF Claim, PriceOK, Prices

LEMMA OrderPriceWasOffered == IInv => PriceWasOffered
BY DEF IInv, TypeOK, OrderMatches, PriceWasOffered

\* An order follows the model (engine.go:153).
THEOREM FollowsModelCorrect == Spec => []FollowsModel
BY Invariant, OrderFollowsModel, PTL

\* An order does not claim more than MaxEdge beyond its price (engine.go:159).
THEOREM NotOverconfidentCorrect == Spec => []NotOverconfident
BY Invariant, OrderNotOverconfident, PTL

\* The claim behind an order keeps to the model's cap (edge.go:46).
THEOREM ClaimCappedCorrect == Spec => []ClaimCapped
BY Invariant, OrderClaimCapped, PTL

\* The price of an order was offered during the call (orderbook.go:34).
THEOREM PriceWasOfferedCorrect == Spec => []PriceWasOffered
BY Invariant, OrderPriceWasOffered, PTL

\* Every variable keeps its type.
THEOREM EngineTypeCorrect == Spec => []TypeOK
<1>1. IInv => TypeOK
  BY DEF IInv
<1>2. QED
  BY <1>1, Invariant, PTL

=============================================================================
