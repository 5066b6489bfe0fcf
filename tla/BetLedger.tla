----------------------------- MODULE BetLedger -----------------------------
(***************************************************************************)
(* What one session of the bot promises about its bets: at most one bet on *)
(* a market window, placed before the window closes, and settled once, by  *)
(* the side that won the window.                                           *)
(***************************************************************************)
EXTENDS Naturals

CONSTANTS Markets

Sides == {"Up", "Down"}

VARIABLES
    result,     \* the side that won each market, "open" until it is known
    bet,        \* the side bet on in each market, "none" without a bet
    standing    \* of each market's bet: "none", "open", "won" or "lost"

vars == <<result, bet, standing>>

Init ==
    /\ result = [m \in Markets |-> "open"]
    /\ bet = [m \in Markets |-> "none"]
    /\ standing = [m \in Markets |-> "none"]

Place(m, side) ==
    /\ result[m] = "open"
    /\ standing[m] = "none"
    /\ bet' = [bet EXCEPT ![m] = side]
    /\ standing' = [standing EXCEPT ![m] = "open"]
    /\ UNCHANGED result

Close(m, side) ==
    /\ result[m] = "open"
    /\ result' = [result EXCEPT ![m] = side]
    /\ UNCHANGED <<bet, standing>>

Pay(m) ==
    /\ standing[m] = "open"
    /\ result[m] # "open"
    /\ standing' = [standing EXCEPT ![m] = IF bet[m] = result[m] THEN "won" ELSE "lost"]
    /\ UNCHANGED <<result, bet>>

Next ==
    \E m \in Markets :
        \/ \E side \in Sides : Place(m, side) \/ Close(m, side)
        \/ Pay(m)

Spec == Init /\ [][Next]_vars
=============================================================================
