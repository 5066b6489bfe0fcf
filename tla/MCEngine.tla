------------------------------ MODULE MCEngine ------------------------------
(* Values of the tables and the feed for model checking Engine.            *)
EXTENDS Engine

\* Slopes of -2 to 2 dollars a tick, in tenths of a dollar.
MCSlopes == {-20, -5, -1, 0, 1, 5, 20}
MCTanh == [s \in MCSlopes |->
    CASE s = -20 -> -96 [] s = -5 -> -46 [] s = -1 -> -10 [] s = 0 -> 0
      [] s = 1 -> 10 [] s = 5 -> 46 [] s = 20 -> 96]
MCSigmoid == [s \in MCSlopes |->
    CASE s = -20 -> 12 [] s = -5 -> 38 [] s = -1 -> 47 [] s = 0 -> 50
      [] s = 1 -> 53 [] s = 5 -> 62 [] s = 20 -> 88]

\* Two books with a narrow spread around a half, one with a wide spread, one
\* far from a half, and one without an ask.
MCBooks == {[bids |-> {53}, asks |-> {55, 57}], [bids |-> {45}, asks |-> {47}],
            [bids |-> {37, 39}, asks |-> {45}], [bids |-> {5}, asks |-> {9}],
            [bids |-> {45}, asks |-> {}]}
=============================================================================
