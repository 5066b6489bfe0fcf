----------------------------- MODULE RingBuffer -----------------------------
(***************************************************************************)
(* The ring buffers of the hub: PriceBuffer (internal/hub/pricebuf.go) and *)
(* TradeBuffer (internal/hub/metrics.go), which keep their entries in the  *)
(* same way.  The hub's lock makes each call one step.                     *)
(*                                                                         *)
(* An entry is a value (the price of a tick, the size of a trade) and a    *)
(* timestamp.  The server's timestamps do not decrease, but parseTS turns  *)
(* one that it cannot parse into 0.  A slope is kept as its numerator: its *)
(* denominator is positive.                                                *)
(***************************************************************************)
EXTENDS Integers, Sequences, Functions

CONSTANTS
    Cap,        \* the buffer's cap: 600 prices, 200 trades
    Values,     \* prices or sizes
    MaxStamp    \* bound: the largest timestamp

ASSUME CapAssumption == Cap \in Nat \ {0}
ASSUME EntryAssumption == Values \subseteq Int /\ MaxStamp \in Nat

Entries == [value : Values, ts : 0..MaxStamp]

\* What make leaves in a slot.
ZeroEntry == [value |-> 0, ts |-> 0]

VARIABLES
    data,   \* data
    head,   \* head: the slot that is written next
    len,    \* len
    clock   \* the server's latest timestamp

vars == <<data, head, len, clock>>

Slots == 0 .. Cap - 1

-----------------------------------------------------------------------------

\* A plausible bug: the length is not capped.
WriteUncapped(e) ==
    /\ data' = [data EXCEPT ![head] = e]
    /\ head' = (head + 1) % Cap
    /\ len' = len + 1

\* A plausible bug: the head stops at the last slot instead of wrapping.
WriteStuck(e) ==
    /\ data' = [data EXCEPT ![head] = e]
    /\ head' = IF head < Cap - 1 THEN head + 1 ELSE head
    /\ len' = IF len < Cap THEN len + 1 ELSE len

Write(e) ==
    /\ data' = [data EXCEPT ![head] = e]
    /\ head' = (head + 1) % Cap
    /\ len' = IF len < Cap THEN len + 1 ELSE len

\* Add, with a timestamp that is the server's next one or was not parsed.
Add(e) ==
    /\ Write(e)
    /\ \/ e.ts = 0 /\ UNCHANGED clock
       \/ e.ts \in clock .. clock + 1 /\ clock' = e.ts

\* at(i): the i-th entry from the newest, which is at(0).
At(i) == data[(head - 1 - i + 2 * Cap) % Cap]

\* A plausible bug: the newest value comes first.
WindowNewestFirst(n) == [x \in 0 .. n - 1 |-> At(x).value]

\* The newest n values, the oldest first.
Window(n) == [x \in 0 .. n - 1 |-> At(n - 1 - x).value]

\* Slope's nf*sumXY - sumX*sumY over the newest n entries.
Slope(n) ==
    LET y == Window(n)
    IN  n * SumFunction([x \in 0 .. n - 1 |-> x * y[x]])
            - SumFunction([x \in 0 .. n - 1 |-> x]) * SumFunction(y)

\* A plausible bug: an entry of exactly sinceUnix is left out.
RecentSinceAfter(since) ==
    LET Stops == {i \in 0 .. len - 1 : At(i).ts <= since}
        n == IF Stops = {} THEN len ELSE CHOOSE i \in Stops : \A j \in Stops : i <= j
    IN  [i \in 1..n |-> At(i - 1)]

\* RecentSince: from the newest entry to the one before the first older one.
RecentSince(since) ==
    LET Stops == {i \in 0 .. len - 1 : At(i).ts < since}
        n == IF Stops = {} THEN len ELSE CHOOSE i \in Stops : \A j \in Stops : i <= j
    IN  [i \in 1..n |-> At(i - 1)]

Init ==
    /\ data = [i \in Slots |-> ZeroEntry]
    /\ head = 0
    /\ len = 0
    /\ clock = 0

Next == \E e \in Entries : Add(e)

Spec == Init /\ [][Next]_vars

-----------------------------------------------------------------------------
(* Properties                                                              *)

\* Every variable keeps its type; the buffer is filled from slot 0 up before
\* it wraps, so that no slot that make left is ever counted.
TypeOK ==
    /\ data \in [Slots -> Entries \cup {ZeroEntry}]
    /\ head \in Slots
    /\ len \in 0..Cap
    /\ clock \in 0..MaxStamp
    /\ len < Cap => head = len

Recent == INSTANCE RecentEntries WITH
            Capacity <- Cap,
            recent <- [k \in 1..len |-> At(k - 1)]

\* The buffer remembers its newest Cap entries in order, before, at and after
\* the wrap (pricebuf.go:26, 45 and metrics.go:31, 45).
RecentSpec == Recent!Spec

\* Prices that only rise have a positive slope and prices that only fall a
\* negative one, in every window that Slope is asked for (pricebuf.go:73).
SlopeFollowsTrend ==
    \A n \in 2..len :
        LET Newer(R(_, _)) == /\ \A i \in 1 .. n - 1 : R(At(i - 1).value, At(i).value)
                              /\ At(0).value # At(n - 1).value
        IN  /\ Newer(LAMBDA a, b : a >= b) => Slope(n) > 0
            /\ Newer(LAMBDA a, b : a <= b) => Slope(n) < 0

\* RecentSince returns every remembered entry that is not older, and no
\* other, as long as the timestamps it walks through are in order
\* (metrics.go:46); an unparsed one hides what lies behind it.
RecentSinceExact ==
    (\A i \in 1 .. len - 1 : At(i).ts <= At(i - 1).ts) =>
        \A since \in 0..MaxStamp :
            LET found == RecentSince(since)
            IN  \A i \in 0 .. len - 1 :
                    IF At(i).ts >= since
                    THEN i + 1 \in DOMAIN found /\ found[i + 1] = At(i)
                    ELSE i + 1 \notin DOMAIN found
=============================================================================
