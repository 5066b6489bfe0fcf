------------------------------ MODULE MCStats ------------------------------
(* Five entries for the reports: both sides, probabilities on and between   *)
(* the edges of the calibration's buckets, edges below and on the ends of   *)
(* the labels, and times on the edges of the slots, of an hour and of what  *)
(* the engine's gates let through.                                          *)
EXTENDS Stats

\* The signs of momentum, edge and trade flow; the imbalance is never logged.
MCSigns(momentum, edge, flow) ==
    [s \in SignalNames |-> CASE s = "momentum" -> momentum [] s = "edge" -> edge
                             [] s = "tradeflow" -> flow [] OTHER -> 0]

MCEntry(dir, up, edge, signals, left) ==
    [dir |-> dir, up |-> up, edge |-> edge, signals |-> signals,
     start |-> 3300, opened |-> 3600 - left]

MCEntries ==
    { MCEntry("BUY_UP", 55, 4, MCSigns(1, 1, 0), 270),
      MCEntry("BUY_UP", 70, 10, MCSigns(1, 1, -1), 180),
      MCEntry("BUY_UP", 80, 20, MCSigns(0, 1, 1), 90),
      MCEntry("BUY_DOWN", 20, 5, MCSigns(-1, -1, -1), 29),
      [MCEntry("BUY_DOWN", 40, 19, MCSigns(-1, -1, 1), 100) EXCEPT
          !.start = 3600, !.opened = 3800] }
=============================================================================
