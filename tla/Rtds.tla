-------------------------------- MODULE Rtds --------------------------------
(***************************************************************************)
(* The live price stream (internal/stream/rtds.go).  runWithReconnect      *)
(* works in rounds: each starts a ping loop of its own, reads until the    *)
(* connection fails, closes it, waits for the backoff and dials again.     *)
(* The ping loops share s.conn with the reader and are told to stop only   *)
(* by their round's done channel.                                          *)
(*                                                                         *)
(* A connection is the number of the dial that made it.  Either direction  *)
(* of a connection may fail without the other.  Messages are left out:     *)
(* they change the hub, not the stream.                                    *)
(*                                                                         *)
(* The clock is left out, but for one consequence of the backoff: it lasts *)
(* a second or more, and by then the round's ping loop has seen that done  *)
(* is closed, unless it is still writing to the closed connection.         *)
(***************************************************************************)
EXTENDS Naturals, FiniteSets

CONSTANTS
    NoConn,         \* s.conn == nil
    MinBackoff,     \* rtdsMinBackoff, in seconds
    MaxBackoff,     \* rtdsMaxBackoff, in seconds
    MaxConns,       \* bound: successful dials
    MaxFailures     \* bound: failed dials and subscriptions

ASSUME ConnAssumption == MaxConns \in Nat \ {0} /\ NoConn \notin Nat
ASSUME BackoffAssumption ==
    /\ MinBackoff \in Nat \ {0} /\ MaxBackoff \in Nat
    /\ MinBackoff <= MaxBackoff /\ MaxFailures \in Nat

Conns == 1..MaxConns
Rounds == 1..(MaxConns + MaxFailures)

VARIABLES
    conn,       \* RTDSStream.conn
    dialed,     \* connections made so far; the last is runWithReconnect's local "conn"
    open,       \* connections that this side has not closed
    subscribed, \* connections on which the subscription was sent
    readable,   \* connections on which reading still works
    writable,   \* connections on which writing still works
    run,        \* where StreamBTCPrice and then runWithReconnect are
    round,      \* its iteration
    backoff,    \* its local "backoff"
    failures,   \* failed dials and subscriptions so far
    done,       \* rounds whose done channel is closed
    pinger,     \* where the ping loop of each round is
    target,     \* the ping loop's local "conn"
    cancelled   \* ctx is cancelled

runner == <<run, round, backoff, failures, done>>
sockets == <<conn, dialed, open, subscribed>>
network == <<readable, writable>>
pings == <<pinger, target>>
vars == <<runner, sockets, network, pings, cancelled>>

-----------------------------------------------------------------------------
(* The reconnect loop                                                      *)

\* StreamBTCPrice subscribes and starts the loop.
StreamOK ==
    /\ run = "dialed"
    /\ subscribed' = {conn}
    /\ run' = "starting"
    /\ UNCHANGED <<round, backoff, failures, done, conn, dialed, open, network, pings,
                   cancelled>>

\* The subscription fails before there is a loop that could reconnect; main
\* logs the error and goes on without prices.
StreamFails ==
    /\ run = "dialed"
    /\ run' = "failed"
    /\ UNCHANGED <<round, backoff, failures, done, sockets, network, pings, cancelled>>

\* A plausible bug: the ping loop is started once, before the first round.
StartRoundPingOnce ==
    /\ run = "starting"
    /\ round' = round + 1
    /\ pinger' = IF round = 0 THEN [pinger EXCEPT ![1] = "waiting"] ELSE pinger
    /\ run' = "reading"
    /\ UNCHANGED <<backoff, failures, done, sockets, network, target, cancelled>>

\* A new done channel and a new ping loop; then the read loop starts.
StartRound ==
    /\ run = "starting"
    /\ round' = round + 1
    /\ pinger' = [pinger EXCEPT ![round + 1] = "waiting"]
    /\ run' = "reading"
    /\ UNCHANGED <<backoff, failures, done, sockets, network, target, cancelled>>

CanRead == conn # NoConn /\ conn \in open \cap readable

\* A plausible bug: only a read error closes done, not a nil connection.
EndReadOnError ==
    /\ run = "reading"
    /\ ~CanRead \/ cancelled
    /\ done' = IF conn = NoConn THEN done ELSE done \cup {round}
    /\ run' = IF cancelled THEN "stopped" ELSE "closing"
    /\ UNCHANGED <<round, backoff, failures, sockets, network, pings, cancelled>>

\* readLoop returns: no connection, a read error, or a message after the
\* context was cancelled.  Its deferred close(done) runs in every case.
EndRead ==
    /\ run = "reading"
    /\ ~CanRead \/ cancelled
    /\ done' = done \cup {round}
    /\ run' = IF cancelled THEN "stopped" ELSE "closing"
    /\ UNCHANGED <<round, backoff, failures, sockets, network, pings, cancelled>>

CloseBroken ==
    /\ run = "closing"
    /\ open' = open \ {conn}
    /\ conn' = NoConn
    /\ run' = "waiting"
    /\ UNCHANGED <<round, backoff, failures, done, dialed, subscribed, network, pings,
                   cancelled>>

\* The ping loops that are told to stop have, or write to a closed connection.
PingersSettled ==
    \A r \in done : pinger[r] = "ended" \/ (pinger[r] = "writing" /\ target[r] \notin open)

\* A plausible bug: the first dial follows the failure without a wait.
WaitNot ==
    /\ run = "waiting"
    /\ run' = IF cancelled THEN "stopped" ELSE "dialing"
    /\ UNCHANGED <<round, backoff, failures, done, sockets, network, pings, cancelled>>

\* The select between the context and the timer.
Wait ==
    /\ run = "waiting"
    /\ \/ cancelled /\ run' = "stopped"
       \/ PingersSettled /\ run' = "dialing"
    /\ UNCHANGED <<round, backoff, failures, done, sockets, network, pings, cancelled>>

\* A plausible bug: the backoff grows without limit.
DoubledUncapped == 2 * backoff

Doubled == IF 2 * backoff <= MaxBackoff THEN 2 * backoff ELSE MaxBackoff

\* A plausible bug: the connection is published before it is subscribed.
DialOKPublishes ==
    /\ run = "dialing"
    /\ dialed < MaxConns
    /\ dialed' = dialed + 1
    /\ conn' = dialed + 1
    /\ open' = open \cup {dialed + 1}
    /\ run' = "subscribing"
    /\ UNCHANGED <<round, backoff, failures, done, subscribed, network, pings, cancelled>>

DialOK ==
    /\ run = "dialing"
    /\ dialed < MaxConns
    /\ dialed' = dialed + 1
    /\ open' = open \cup {dialed + 1}
    /\ run' = "subscribing"
    /\ UNCHANGED <<round, backoff, failures, done, conn, subscribed, network, pings,
                   cancelled>>

\* A plausible bug: a failed dial ends the goroutine.
DialFailsForGood ==
    /\ run = "dialing"
    /\ failures < MaxFailures
    /\ failures' = failures + 1
    /\ run' = "stopped"
    /\ UNCHANGED <<round, backoff, done, sockets, network, pings, cancelled>>

\* The next round starts without a connection, so that it fails at once and
\* waits for the doubled backoff.
DialFails ==
    /\ run = "dialing"
    /\ failures < MaxFailures
    /\ failures' = failures + 1
    /\ backoff' = Doubled
    /\ run' = "starting"
    /\ UNCHANGED <<round, done, sockets, network, pings, cancelled>>

\* The connection becomes s.conn only when it is subscribed.
SubscribeOK ==
    /\ run = "subscribing"
    /\ subscribed' = subscribed \cup {dialed}
    /\ conn' = dialed
    /\ backoff' = MinBackoff
    /\ run' = "starting"
    /\ UNCHANGED <<round, failures, done, dialed, open, network, pings, cancelled>>

\* A plausible bug: the connection is not closed when the subscription fails.
SubscribeFailsOpen ==
    /\ run = "subscribing"
    /\ failures < MaxFailures /\ dialed < MaxConns
    /\ failures' = failures + 1
    /\ backoff' = Doubled
    /\ run' = "starting"
    /\ UNCHANGED <<round, done, sockets, network, pings, cancelled>>

\* The connection is closed; the last one of the bound does not fail here.
SubscribeFails ==
    /\ run = "subscribing"
    /\ failures < MaxFailures /\ dialed < MaxConns
    /\ failures' = failures + 1
    /\ open' = open \ {dialed}
    /\ backoff' = Doubled
    /\ run' = "starting"
    /\ UNCHANGED <<round, done, conn, dialed, subscribed, network, pings, cancelled>>

-----------------------------------------------------------------------------
(* The ping loops                                                          *)

\* select chooses among the channels that are ready: the ticker may win over
\* a closed done channel.
PingTick(r) ==
    /\ pinger[r] = "waiting"
    /\ pinger' = [pinger EXCEPT ![r] = "woken"]
    /\ UNCHANGED <<runner, sockets, network, target, cancelled>>

PingStop(r) ==
    /\ pinger[r] = "waiting"
    /\ r \in done \/ cancelled
    /\ pinger' = [pinger EXCEPT ![r] = "ended"]
    /\ UNCHANGED <<runner, sockets, network, target, cancelled>>

\* The loop reads s.conn, which may belong to a later round by now.
PingLoad(r) ==
    /\ pinger[r] = "woken"
    /\ pinger' = [pinger EXCEPT ![r] = IF conn = NoConn THEN "ended" ELSE "writing"]
    /\ target' = [target EXCEPT ![r] = conn]
    /\ UNCHANGED <<runner, sockets, network, cancelled>>

\* A failed write ends the loop; done stays as it is.
PingWrite(r) ==
    /\ pinger[r] = "writing"
    /\ IF target[r] \in open \cap writable
       THEN pinger' = [pinger EXCEPT ![r] = "waiting"]
       ELSE pinger' = [pinger EXCEPT ![r] = "ended"]
    /\ target' = [target EXCEPT ![r] = NoConn]
    /\ UNCHANGED <<runner, sockets, network, cancelled>>

-----------------------------------------------------------------------------
(* The network and the rest of the program                                 *)

\* The last connection of the bound stays healthy.
BreakReads(c) ==
    /\ c \in readable /\ c <= dialed /\ c < MaxConns
    /\ readable' = readable \ {c}
    /\ UNCHANGED <<runner, sockets, writable, pings, cancelled>>

BreakWrites(c) ==
    /\ c \in writable /\ c <= dialed /\ c < MaxConns
    /\ writable' = writable \ {c}
    /\ UNCHANGED <<runner, sockets, readable, pings, cancelled>>

Cancel ==
    /\ ~cancelled
    /\ cancelled' = TRUE
    /\ UNCHANGED <<runner, sockets, network, pings>>

\* main's deferred Close.
Close ==
    /\ cancelled
    /\ conn \in open
    /\ open' = open \ {conn}
    /\ UNCHANGED <<runner, conn, dialed, subscribed, network, pings, cancelled>>

-----------------------------------------------------------------------------

\* After NewRTDSStream.
Init ==
    /\ conn = 1 /\ dialed = 1 /\ open = {1} /\ subscribed = {}
    /\ readable = Conns /\ writable = Conns
    /\ run = "dialed" /\ round = 0 /\ backoff = MinBackoff /\ failures = 0
    /\ done = {}
    /\ pinger = [r \in Rounds |-> "none"]
    /\ target = [r \in Rounds |-> NoConn]
    /\ cancelled = FALSE

Runner ==
    \/ StreamOK \/ StreamFails
    \/ StartRound \/ EndRead \/ CloseBroken \/ Wait
    \/ DialOK \/ DialFails \/ SubscribeOK \/ SubscribeFails

Ping(r) == PingTick(r) \/ PingStop(r) \/ PingLoad(r) \/ PingWrite(r)

Next ==
    \/ Runner
    \/ \E r \in Rounds : Ping(r)
    \/ \E c \in Conns : BreakReads(c) \/ BreakWrites(c)
    \/ Cancel
    \/ Close

\* The goroutines run; a select does not pass over a ready channel for ever;
\* a server that is dialed again and again eventually answers.  Nothing is
\* assumed about failures of the network.
Spec ==
    /\ Init /\ [][Next]_vars
    /\ WF_vars(Runner) /\ SF_vars(DialOK) /\ SF_vars(SubscribeOK)
    /\ \A r \in Rounds : WF_vars(Ping(r)) /\ SF_vars(PingStop(r))

-----------------------------------------------------------------------------
(* Properties                                                              *)

\* Every variable keeps its type; the backoff stays between its limits.
TypeOK ==
    /\ conn \in Conns \cup {NoConn} /\ dialed \in Conns
    /\ open \subseteq 1..dialed /\ subscribed \subseteq 1..dialed
    /\ backoff \in MinBackoff..MaxBackoff
    /\ round \in 0..(MaxConns + MaxFailures) /\ done \subseteq 1..round
    /\ \A r \in Rounds : pinger[r] = "none" <=> r > round
    /\ \A r \in Rounds : pinger[r] = "writing" <=> target[r] # NoConn

\* The connection that the read loop uses is subscribed, so that a quiet
\* stream is never a forgotten subscription (rtds.go:114, 121).
ReadsSubscribed ==
    conn # NoConn /\ run \notin {"dialed", "failed"} => conn \in subscribed

\* Every open connection is s.conn or the one being subscribed: none is
\* leaked over any sequence of failures (rtds.go:92, 116).
NoLeakedConnection ==
    \A c \in open : c = conn \/ (c = dialed /\ run = "subscribing")

\* Two ping loops never write to one connection at the same time, which the
\* websocket library forbids: an old round's loop does not outlive the
\* backoff (rtds.go:103, 146).
OneWriter ==
    \A r, q \in Rounds :
        r # q /\ pinger[r] = "writing" /\ pinger[q] = "writing" => target[r] # target[q]

\* The ping loop of a finished round ends, also when the round never had a
\* connection (rtds.go:137, 155).
OldPingersEnd == \A r \in Rounds : r < round ~> pinger[r] = "ended"

\* A connection that is read, and can be written to, is kept alive: the ping
\* loop of its round still runs, whatever connections came before it
\* (rtds.go:79, 146).  Of a connection that cannot be written to it says
\* nothing: its ping loop ends and leaves done open (rtds.go:146).
HealthyIsPinged ==
    run = "reading" /\ ~cancelled /\ conn \in open \cap writable =>
        pinger[round] \in {"waiting", "woken", "writing"}

\* After any failures the stream is read again, unless the bot shuts down, or
\* the first subscription had failed (rtds.go:61, 99).  ARCHITECTURE.md:611
\* says that there is no reconnection; the code has it.
Recovers == <>(cancelled \/ run = "failed") \/ []<>(run = "reading" /\ CanRead)
=============================================================================
