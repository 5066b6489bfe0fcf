------------------------------- MODULE Feeds -------------------------------
(***************************************************************************)
(* How the bot learns of market windows and listens to them:               *)
(* FindCurrentAndUpcoming (internal/market/discovery.go), registration and *)
(* rotation (cmd/bot/main.go), SubscribeAssets and its reader goroutines   *)
(* (internal/stream/clob_ws.go).  Module Bot takes a whole rotation for    *)
(* one step; here time passes, readers end and the process may crash       *)
(* between its requests and subscriptions.                                 *)
(*                                                                         *)
(* A window is its index; an event of the API is taken to hold the one     *)
(* market of its window.  The clock counts rotation intervals, so that the *)
(* ticker fires once a tick.  main and, after it, the rotation goroutine   *)
(* run discovery and subscription; "pc" follows the one that is running.   *)
(***************************************************************************)
EXTENDS Integers, Sequences

CONSTANTS
    WindowLen,      \* length of a window (300 s), in ticks
    Lookahead,      \* windows that discovery asks for
    MaxLate,        \* ticks that requests of one rotation may take together
    MaxTime,        \* bound: clock
    MaxFaults       \* bound: failed subscriptions and closed channels

ASSUME TimeAssumption ==
    /\ WindowLen \in Nat \ {0} /\ Lookahead \in Nat \ {0}
    /\ MaxLate \in Nat /\ MaxTime \in Nat /\ MaxFaults \in Nat

VARIABLES
    now,
    pc,         \* where main or the rotation goroutine is
    booting,    \* it is main
    fired,      \* the ticker's channel holds a tick
    late,       \* ticks since the rotation began
    began,      \* when discovery read the clock
    asked,      \* windows it has asked for
    found,      \* markets it has found: "results"
    markets,    \* Hub.markets, by window
    subs,       \* calls of SubscribeAssets: their assets and their live readers
    started,    \* streams that the call in progress has subscribed
    answered,   \* history: when the last discovery began in which all requests succeeded
    impaired,   \* history: calls that failed or lost a reader
    faults      \* their number

clock == <<now, fired, late>>
discovery == <<began, asked, found>>
streams == <<subs, started, impaired, faults>>
vars == <<clock, pc, booting, discovery, markets, answered, streams>>

Never == -1

\* The streams, in the order in which SubscribeAssets starts them.
StreamOrder == <<"orderbook", "last_trade", "best_bid_ask", "resolution", "new_market">>
Streams == {StreamOrder[i] : i \in 1..5}

-----------------------------------------------------------------------------
(* Time                                                                    *)

\* A goroutine that is ready runs before the next tick.
Tick ==
    /\ now < MaxTime
    /\ pc = "idle" => ~fired
    /\ pc \notin {"idle", "down"} => late < MaxLate
    /\ now' = now + 1
    /\ fired' = (pc # "down" /\ ~booting)
    /\ late' = IF pc \in {"idle", "down"} THEN 0 ELSE late + 1
    /\ UNCHANGED <<pc, booting, discovery, markets, answered, streams>>

-----------------------------------------------------------------------------
(* FindCurrentAndUpcoming                                                  *)

Discover ==
    /\ pc' = "discover"
    /\ late' = 0
    /\ began' = now /\ asked' = 0 /\ found' = {}

Boot ==
    /\ pc = "down"
    /\ Discover
    /\ booting' = TRUE
    /\ UNCHANGED <<now, fired, markets, answered, streams>>

Rotate ==
    /\ pc = "idle" /\ fired
    /\ Discover
    /\ fired' = FALSE
    /\ UNCHANGED <<now, booting, markets, answered, streams>>

\* A plausible bug: the base is rounded up to the next window.
BaseRoundedUp == (began + WindowLen - 1) \div WindowLen

\* baseTS, from the clock as it was before the first request.
Base == began \div WindowLen

\* One request.  If it fails, or the event has no usable market, its window is
\* left out and the next one is asked for.
Ask(ok) ==
    /\ pc = "discover"
    /\ asked < Lookahead
    /\ asked' = asked + 1
    /\ found' = IF ok THEN found \cup {Base + asked} ELSE found
    /\ UNCHANGED <<clock, pc, booting, began, markets, answered, streams>>

-----------------------------------------------------------------------------
(* registerMarkets and the rotation's loop over the results                *)

\* A plausible bug: the known windows are not passed over.
NewKnownToo == found

\* Windows that the hub does not know.
New == found \ markets

\* A plausible bug: a window that has not begun is not registered.
RegisteredCurrent == markets \cup {m \in found : m * WindowLen <= now}

\* RegisterMarket for each result; an entry that is there stays.
Registered == markets \cup found

\* A plausible bug: SubscribeAssets is called without assets, too.
ListenAlways == pc' = "subscribe" /\ subs' = Append(subs, [ids |-> New, live |-> {}])

\* A plausible bug: newIDs is assigned in the loop, not appended to.
ListenLast ==
    \/ New = {} /\ pc' = "settle" /\ UNCHANGED subs
    \/ \E m \in New : /\ \A k \in New : k <= m
                     /\ pc' = "subscribe"
                     /\ subs' = Append(subs, [ids |-> {m}, live |-> {}])

\* What is new makes newIDs, for a call of SubscribeAssets.
Listen ==
    \/ New = {} /\ pc' = "settle" /\ UNCHANGED subs
    \/ New # {} /\ pc' = "subscribe" /\ subs' = Append(subs, [ids |-> New, live |-> {}])

\* The locals of a discovery are gone.
Forget == began' = 0 /\ asked' = 0 /\ found' = {}

\* All requests are done; main goes on only with a market.
Register ==
    /\ pc = "discover" /\ asked = Lookahead
    /\ booting => found # {}
    /\ markets' = Registered
    /\ Listen
    /\ answered' = IF found = Base .. Base + Lookahead - 1 THEN began ELSE answered
    /\ Forget
    /\ UNCHANGED <<clock, booting, started, impaired, faults>>

\* The process ends, and with it all of its memory.
Down ==
    /\ pc' = "down" /\ booting' = FALSE /\ fired' = FALSE /\ late' = 0
    /\ Forget
    /\ markets' = {} /\ answered' = Never
    /\ subs' = <<>> /\ started' = 0 /\ impaired' = {}
    /\ UNCHANGED <<now, faults>>

\* main exits: no market was found, or NewCLOBStream or NewRTDSStream failed.
Exit ==
    /\ booting
    /\ (pc = "discover" /\ asked = Lookahead /\ found = {}) \/ pc \in {"subscribe", "settle"}
    /\ Down

Crash == pc # "down" /\ Down

-----------------------------------------------------------------------------
(* SubscribeAssets and the readers                                         *)

Last == Len(subs)

\* The next stream is subscribed and its reader started.
Subscribe(s) ==
    /\ pc = "subscribe"
    /\ s = StreamOrder[started + 1]
    /\ subs' = [subs EXCEPT ![Last].live = @ \cup {s}]
    /\ \/ started < 4 /\ started' = started + 1 /\ UNCHANGED pc
       \/ started = 4 /\ started' = 0 /\ pc' = "settle"
    /\ UNCHANGED <<clock, booting, discovery, markets, answered, impaired, faults>>

\* The first error ends the call; it is logged, and the windows stay known.
SubscribeFails ==
    /\ pc = "subscribe"
    /\ faults < MaxFaults
    /\ faults' = faults + 1
    /\ impaired' = impaired \cup {Last}
    /\ pc' = "settle" /\ started' = 0
    /\ UNCHANGED <<clock, booting, discovery, markets, answered, subs>>

\* The library closes a channel: its reader returns and nobody subscribes
\* again.  It may do so while the reader's call is still in progress.
ReaderEnds(i, s) ==
    /\ faults < MaxFaults
    /\ s \in subs[i].live
    /\ subs' = [subs EXCEPT ![i].live = @ \ {s}]
    /\ impaired' = impaired \cup {i}
    /\ faults' = faults + 1
    /\ UNCHANGED <<clock, pc, booting, discovery, markets, answered, started>>

\* SettleExpired has returned, or main has started the rotation goroutine.
EndRotation ==
    /\ pc = "settle"
    /\ pc' = "idle"
    /\ booting' = FALSE
    /\ UNCHANGED <<clock, discovery, markets, answered, streams>>

-----------------------------------------------------------------------------

Init ==
    /\ now \in 0 .. (WindowLen - 1) /\ fired = FALSE /\ late = 0
    /\ pc = "down" /\ booting = FALSE
    /\ began = 0 /\ asked = 0 /\ found = {}
    /\ markets = {} /\ answered = Never
    /\ subs = <<>> /\ started = 0 /\ impaired = {} /\ faults = 0

Next ==
    \/ Tick
    \/ Boot \/ Rotate
    \/ \E ok \in BOOLEAN : Ask(ok)
    \/ Register
    \/ \E s \in Streams : Subscribe(s)
    \/ SubscribeFails
    \/ EndRotation
    \/ \E i \in DOMAIN subs, s \in Streams : ReaderEnds(i, s)
    \/ Exit \/ Crash

Spec == Init /\ [][Next]_vars

-----------------------------------------------------------------------------
(* Properties                                                              *)

\* Every variable keeps its type; a rotation is never behind by more than
\* MaxLate.
TypeOK ==
    /\ now \in Nat /\ fired \in BOOLEAN /\ booting \in BOOLEAN /\ late \in 0..MaxLate
    /\ pc \in {"down", "discover", "subscribe", "settle", "idle"}
    /\ began \in 0..now /\ asked \in 0..Lookahead
    /\ found \subseteq Base .. Base + asked - 1
    /\ markets \subseteq Nat /\ answered \in {Never} \cup 0..now
    /\ subs \in Seq([ids : (SUBSET Nat) \ {{}}, live : SUBSET Streams])
    /\ pc = "subscribe" => subs # <<>>
    /\ started \in 0..4 /\ (pc # "subscribe" => started = 0)
    /\ impaired \subseteq DOMAIN subs /\ faults \in Nat

\* The bot rides out a silent API: from a complete discovery on, the windows
\* of the next Lookahead - 1 window lengths are known, at whatever place in a
\* window it began and however long its requests took (discovery.go:77).
KnownAhead ==
    answered # Never =>
        \A t \in answered .. answered + (Lookahead - 1) * WindowLen :
            t \div WindowLen \in markets

\* A reader is never there before its markets: whatever event comes, the hub
\* knows the window that it is for (main.go:244, 260).
EventsMatch ==
    \A i \in DOMAIN subs : subs[i].live # {} => subs[i].ids \subseteq markets

\* No asset is subscribed twice in one process, or each of its trades would
\* be in the trade buffer twice and count double (main.go:235, clob_ws.go:188).
SubscribedOnce ==
    \A i, j \in DOMAIN subs : i # j => subs[i].ids \cap subs[j].ids = {}

\* A known window without all of its readers lost them to a failed
\* subscription or to a closed channel; none is forgotten (main.go:237).
NoneForgotten ==
    pc \in {"settle", "idle"} =>
        \A m \in markets : \E i \in DOMAIN subs :
            m \in subs[i].ids /\ (subs[i].live = Streams \/ i \in impaired)
=============================================================================
