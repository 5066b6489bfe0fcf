--------------------------- MODULE MCRiskManager ---------------------------
(* The risk manager at the amounts of DefaultManagerConfig (manager.go:28), *)
(* with half a dollar as the unit.  The markets are interchangeable.        *)
EXTENDS RiskManager, TLC

MarketSymmetry == Permutations(Slugs)
=============================================================================
