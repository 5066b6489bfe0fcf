----------------------------- MODULE RtdsProofs -----------------------------
(***************************************************************************)
(* Proofs about the price stream, for any number of connections and        *)
(* failures.                                                               *)
(*                                                                         *)
(* The invariants rest on what the reconnect loop knows where it is: which *)
(* rounds are done (DoneRounds), that it holds no connection while it gets *)
(* a new one (NilBetween), and that by then the ping loops of all earlier  *)
(* rounds have ended or write to a connection that is closed (OldSettled). *)
(***************************************************************************)
EXTENDS Rtds, TLAPS

Types ==
    /\ run \in {"dialed", "failed", "starting", "reading", "closing", "waiting",
                "dialing", "subscribing", "stopped"}
    /\ failures \in 0..MaxFailures
    /\ pinger \in [Rounds -> {"none", "waiting", "woken", "writing", "ended"}]
    /\ target \in [Rounds -> (1..dialed) \cup {NoConn}]
    /\ conn \in (1..dialed) \cup {NoConn}

\* A round beyond the first was preceded by a dial or a failure.
RoundsCounted ==
    /\ round <= dialed + failures
    /\ run \in {"dialed", "starting", "subscribing"} => round + 1 <= dialed + failures

DoneRounds == /\ run = "reading" => round >= 1 /\ done = 1 .. (round - 1)
              /\ run # "reading" => done = 1..round

FirstDial == run = "dialed" => round = 0 /\ conn = dialed

NilBetween == run \in {"waiting", "dialing", "subscribing"} => conn = NoConn

\* The loop of round r is to be over: a later round has begun, or is about to.
Old(r) == r < round \/ (r = round /\ run \in {"dialing", "subscribing", "starting"})

OldSettled ==
    \A r \in Rounds : Old(r) =>
        \/ pinger[r] = "ended"
        \/ /\ pinger[r] = "writing" /\ target[r] \notin open /\ target[r] # conn
           /\ run = "subscribing" => target[r] # dialed

\* The current ping loop writes to the connection that is read.
WritesToRead ==
    run = "reading" /\ pinger[round] = "writing" => target[round] = conn

IInv ==
    /\ TypeOK /\ Types
    /\ RoundsCounted /\ DoneRounds /\ FirstDial /\ NilBetween
    /\ OldSettled /\ WritesToRead
    /\ ReadsSubscribed /\ NoLeakedConnection /\ OneWriter /\ HealthyIsPinged

-----------------------------------------------------------------------------
(* The initial states and the steps of each action                         *)

\* The first subscription is sent: the connection is the one dialed.
LEMMA StreamOKIInv ==
  ASSUME IInv, StreamOK
  PROVE IInv'
<1>1. TypeOK'
  BY ConnAssumption DEF IInv, TypeOK, FirstDial, Conns, Rounds, StreamOK,
     network, pings
<1>2. OldSettled'
  BY ConnAssumption DEF IInv, FirstDial, OldSettled, Old, Conns, Rounds,
     StreamOK, network, pings
<1>3. Types' /\ RoundsCounted' /\ DoneRounds' /\ FirstDial' /\ NilBetween'
      /\ WritesToRead' /\ ReadsSubscribed' /\ NoLeakedConnection' /\ OneWriter'
      /\ HealthyIsPinged'
  BY ConnAssumption DEF IInv, Types, RoundsCounted, DoneRounds, FirstDial,
     NilBetween, WritesToRead, ReadsSubscribed, NoLeakedConnection, OneWriter,
     HealthyIsPinged, Conns, Rounds, StreamOK, network, pings
<1> QED BY <1>1, <1>2, <1>3 DEF IInv

\* The first subscription fails: the loop never starts.
LEMMA StreamFailsIInv ==
  ASSUME IInv, StreamFails
  PROVE IInv'
  BY ConnAssumption DEF IInv, TypeOK, Types, RoundsCounted, DoneRounds,
     FirstDial, NilBetween, OldSettled, WritesToRead, ReadsSubscribed,
     NoLeakedConnection, OneWriter, HealthyIsPinged, Old, Conns, Rounds,
     StreamFails, sockets, network, pings

\* A round starts with a ping loop that was not there before.
LEMMA StartRoundIInv ==
  ASSUME IInv, StartRound
  PROVE IInv'
<1>1. TypeOK'
  BY ConnAssumption, BackoffAssumption DEF IInv, TypeOK, Types, RoundsCounted,
     Conns, Rounds, StartRound, sockets, network
<1>2. Types'
  BY ConnAssumption, BackoffAssumption DEF IInv, TypeOK, Types, RoundsCounted,
     Conns, Rounds, StartRound, sockets, network
<1>3. DoneRounds'
  BY ConnAssumption, BackoffAssumption DEF IInv, TypeOK, Types, DoneRounds,
     Conns, Rounds, StartRound, sockets, network
<1>4. OldSettled'
  BY ConnAssumption, BackoffAssumption DEF IInv, TypeOK, Types, OldSettled, Old,
     Conns, Rounds, StartRound, sockets, network
<1>5. WritesToRead'
  BY ConnAssumption, BackoffAssumption DEF IInv, TypeOK, Types, RoundsCounted,
     WritesToRead, Conns, Rounds, StartRound, sockets, network
<1>6. HealthyIsPinged'
  BY ConnAssumption, BackoffAssumption DEF IInv, TypeOK, Types, RoundsCounted,
     HealthyIsPinged, Conns, Rounds, StartRound, sockets, network
<1>7. RoundsCounted' /\ FirstDial' /\ NilBetween' /\ ReadsSubscribed'
      /\ NoLeakedConnection' /\ OneWriter'
  BY ConnAssumption, BackoffAssumption DEF IInv, RoundsCounted, FirstDial,
     NilBetween, ReadsSubscribed, NoLeakedConnection, OneWriter, Conns, Rounds,
     StartRound, sockets, network
<1> QED BY <1>1, <1>2, <1>3, <1>4, <1>5, <1>6, <1>7 DEF IInv

\* The read loop returns and closes the round's done channel.
LEMMA EndReadIInv ==
  ASSUME IInv, EndRead
  PROVE IInv'
<1>1. TypeOK'
  BY ConnAssumption DEF IInv, TypeOK, DoneRounds, Conns, Rounds, EndRead,
     sockets, network, pings, CanRead
<1>2. DoneRounds'
  BY ConnAssumption DEF IInv, TypeOK, Types, DoneRounds, Conns, Rounds, EndRead,
     sockets, network, pings, CanRead
<1>3. Types' /\ RoundsCounted' /\ FirstDial' /\ NilBetween' /\ OldSettled'
      /\ WritesToRead' /\ ReadsSubscribed' /\ NoLeakedConnection' /\ OneWriter'
      /\ HealthyIsPinged'
  BY ConnAssumption DEF IInv, Types, RoundsCounted, FirstDial, NilBetween,
     OldSettled, WritesToRead, ReadsSubscribed, NoLeakedConnection, OneWriter,
     HealthyIsPinged, Old, Conns, Rounds, EndRead, sockets, network, pings,
     CanRead
<1> QED BY <1>1, <1>2, <1>3 DEF IInv

\* Whatever still writes to the connection writes to a closed one.
LEMMA CloseBrokenIInv ==
  ASSUME IInv, CloseBroken
  PROVE IInv'
<1>1. OldSettled'
  BY ConnAssumption DEF IInv, TypeOK, Types, OldSettled, Old, Conns, Rounds,
     CloseBroken, network, pings
<1>2. TypeOK' /\ Types' /\ RoundsCounted' /\ DoneRounds' /\ FirstDial' /\ NilBetween'
      /\ WritesToRead' /\ ReadsSubscribed' /\ NoLeakedConnection' /\ OneWriter'
      /\ HealthyIsPinged'
  BY ConnAssumption DEF IInv, TypeOK, Types, RoundsCounted, DoneRounds,
     FirstDial, NilBetween, WritesToRead, ReadsSubscribed, NoLeakedConnection,
     OneWriter, HealthyIsPinged, Conns, Rounds, CloseBroken, network, pings
<1> QED BY <1>1, <1>2 DEF IInv

\* The wait is what settles the ping loops of the rounds that are done.
LEMMA WaitIInv ==
  ASSUME IInv, Wait
  PROVE IInv'
<1>1. OldSettled'
  BY ConnAssumption DEF IInv, TypeOK, Types, DoneRounds, NilBetween, OldSettled,
     Old, Conns, Rounds, Wait, sockets, network, pings, PingersSettled
<1>2. TypeOK' /\ Types' /\ RoundsCounted' /\ DoneRounds' /\ FirstDial' /\ NilBetween'
      /\ WritesToRead' /\ ReadsSubscribed' /\ NoLeakedConnection' /\ OneWriter'
      /\ HealthyIsPinged'
  BY ConnAssumption DEF IInv, TypeOK, Types, RoundsCounted, DoneRounds,
     FirstDial, NilBetween, WritesToRead, ReadsSubscribed, NoLeakedConnection,
     OneWriter, HealthyIsPinged, Conns, Rounds, Wait, sockets, network, pings,
     PingersSettled
<1> QED BY <1>1, <1>2 DEF IInv

\* The new connection is none that a ping loop writes to.
LEMMA DialOKIInv ==
  ASSUME IInv, DialOK
  PROVE IInv'
<1>1. Types'
  BY ConnAssumption DEF IInv, TypeOK, Types, Conns, Rounds, DialOK, network,
     pings
<1>2. RoundsCounted'
  BY ConnAssumption DEF IInv, TypeOK, Types, RoundsCounted, Conns, Rounds,
     DialOK, network, pings
<1>3. OldSettled'
  BY ConnAssumption DEF IInv, TypeOK, Types, OldSettled, Old, Conns, Rounds,
     DialOK, network, pings
<1>4. TypeOK' /\ DoneRounds' /\ FirstDial' /\ NilBetween' /\ WritesToRead'
      /\ ReadsSubscribed' /\ NoLeakedConnection' /\ OneWriter' /\ HealthyIsPinged'
  BY ConnAssumption DEF IInv, TypeOK, DoneRounds, FirstDial, NilBetween,
     WritesToRead, ReadsSubscribed, NoLeakedConnection, OneWriter,
     HealthyIsPinged, Conns, Rounds, DialOK, network, pings
<1> QED BY <1>1, <1>2, <1>3, <1>4 DEF IInv

\* The next round starts without a connection.
LEMMA DialFailsIInv ==
  ASSUME IInv, DialFails
  PROVE IInv'
<1>1. RoundsCounted'
  BY ConnAssumption, BackoffAssumption DEF IInv, TypeOK, Types, RoundsCounted,
     Conns, Rounds, DialFails, sockets, network, pings, Doubled
<1>2. TypeOK' /\ Types' /\ DoneRounds' /\ FirstDial' /\ NilBetween' /\ OldSettled'
      /\ WritesToRead' /\ ReadsSubscribed' /\ NoLeakedConnection' /\ OneWriter'
      /\ HealthyIsPinged'
  BY ConnAssumption, BackoffAssumption DEF IInv, TypeOK, Types, DoneRounds,
     FirstDial, NilBetween, OldSettled, WritesToRead, ReadsSubscribed,
     NoLeakedConnection, OneWriter, HealthyIsPinged, Old, Conns, Rounds,
     DialFails, sockets, network, pings, Doubled
<1> QED BY <1>1, <1>2 DEF IInv

\* The connection becomes s.conn, which was nil.
LEMMA SubscribeOKIInv ==
  ASSUME IInv, SubscribeOK
  PROVE IInv'
<1>1. Types'
  BY ConnAssumption, BackoffAssumption DEF IInv, TypeOK, Types, Conns, Rounds,
     SubscribeOK, network, pings
<1>2. NoLeakedConnection'
  BY ConnAssumption, BackoffAssumption DEF IInv, TypeOK, Types, NilBetween,
     NoLeakedConnection, Conns, Rounds, SubscribeOK, network, pings
<1>3. TypeOK' /\ RoundsCounted' /\ DoneRounds' /\ FirstDial' /\ NilBetween'
      /\ OldSettled' /\ WritesToRead' /\ ReadsSubscribed' /\ OneWriter' /\ HealthyIsPinged'
  BY ConnAssumption, BackoffAssumption DEF IInv, TypeOK, RoundsCounted,
     DoneRounds, FirstDial, NilBetween, OldSettled, WritesToRead,
     ReadsSubscribed, OneWriter, HealthyIsPinged, Old, Conns, Rounds,
     SubscribeOK, network, pings
<1> QED BY <1>1, <1>2, <1>3 DEF IInv

\* The new connection is closed again; nobody wrote to it.
LEMMA SubscribeFailsIInv ==
  ASSUME IInv, SubscribeFails
  PROVE IInv'
<1>1. RoundsCounted'
  BY ConnAssumption, BackoffAssumption DEF IInv, TypeOK, Types, RoundsCounted,
     Conns, Rounds, SubscribeFails, network, pings, Doubled
<1>2. TypeOK' /\ Types' /\ DoneRounds' /\ FirstDial' /\ NilBetween' /\ OldSettled'
      /\ WritesToRead' /\ ReadsSubscribed' /\ NoLeakedConnection' /\ OneWriter'
      /\ HealthyIsPinged'
  BY ConnAssumption, BackoffAssumption DEF IInv, TypeOK, Types, DoneRounds,
     FirstDial, NilBetween, OldSettled, WritesToRead, ReadsSubscribed,
     NoLeakedConnection, OneWriter, HealthyIsPinged, Old, Conns, Rounds,
     SubscribeFails, network, pings, Doubled
<1> QED BY <1>1, <1>2 DEF IInv

\* The ticker wakes a ping loop.
LEMMA PingTickIInv ==
  ASSUME IInv, NEW r \in Rounds, PingTick(r)
  PROVE IInv'
  BY ConnAssumption DEF IInv, TypeOK, Types, RoundsCounted, DoneRounds,
     FirstDial, NilBetween, OldSettled, WritesToRead, ReadsSubscribed,
     NoLeakedConnection, OneWriter, HealthyIsPinged, Old, Conns, Rounds,
     PingTick, runner, sockets, network

\* A ping loop that stops is one of a done round, or the context is cancelled.
LEMMA PingStopIInv ==
  ASSUME IInv, NEW r \in Rounds, PingStop(r)
  PROVE IInv'
<1>1. HealthyIsPinged'
  BY ConnAssumption DEF IInv, DoneRounds, HealthyIsPinged, Conns, Rounds,
     PingStop, runner, sockets, network
<1>2. TypeOK' /\ Types' /\ RoundsCounted' /\ DoneRounds' /\ FirstDial' /\ NilBetween'
      /\ OldSettled' /\ WritesToRead' /\ ReadsSubscribed' /\ NoLeakedConnection'
      /\ OneWriter'
  BY ConnAssumption DEF IInv, TypeOK, Types, RoundsCounted, DoneRounds,
     FirstDial, NilBetween, OldSettled, WritesToRead, ReadsSubscribed,
     NoLeakedConnection, OneWriter, Old, Conns, Rounds, PingStop, runner,
     sockets, network
<1> QED BY <1>1, <1>2 DEF IInv

\* An old ping loop does not get here, so that only the current one takes s.conn.
LEMMA PingLoadIInv ==
  ASSUME IInv, NEW r \in Rounds, PingLoad(r)
  PROVE IInv'
<1>1. TypeOK'
  BY ConnAssumption DEF IInv, TypeOK, Types, Conns, Rounds, PingLoad, runner,
     sockets, network
<1>2. WritesToRead'
  BY ConnAssumption DEF IInv, Types, WritesToRead, Conns, Rounds, PingLoad,
     runner, sockets, network
<1>3. OneWriter'
  BY ConnAssumption DEF IInv, TypeOK, Types, OldSettled, OneWriter, Old, Conns,
     Rounds, PingLoad, runner, sockets, network
<1>4. HealthyIsPinged'
  BY ConnAssumption DEF IInv, TypeOK, Types, HealthyIsPinged, Conns, Rounds,
     PingLoad, runner, sockets, network
<1>5. Types' /\ RoundsCounted' /\ DoneRounds' /\ FirstDial' /\ NilBetween' /\ OldSettled'
      /\ ReadsSubscribed' /\ NoLeakedConnection'
  BY ConnAssumption DEF IInv, Types, RoundsCounted, DoneRounds, FirstDial,
     NilBetween, OldSettled, ReadsSubscribed, NoLeakedConnection, Old, Conns,
     Rounds, PingLoad, runner, sockets, network
<1> QED BY <1>1, <1>2, <1>3, <1>4, <1>5 DEF IInv

\* The current ping loop writes to the connection that is read.
LEMMA PingWriteIInv ==
  ASSUME IInv, NEW r \in Rounds, PingWrite(r)
  PROVE IInv'
<1>1. TypeOK'
  BY ConnAssumption, BackoffAssumption DEF IInv, TypeOK, Types, Conns, Rounds,
     PingWrite, runner, sockets, network
<1>2. OldSettled'
  BY ConnAssumption, BackoffAssumption DEF IInv, Types, OldSettled, Old, Conns,
     Rounds, PingWrite, runner, sockets, network
<1>3. WritesToRead'
  BY ConnAssumption, BackoffAssumption DEF IInv, TypeOK, Types, WritesToRead,
     Conns, Rounds, PingWrite, runner, sockets, network
<1>4. OneWriter'
  BY ConnAssumption, BackoffAssumption DEF IInv, Types, OneWriter, Conns,
     Rounds, PingWrite, runner, sockets, network
<1>5. HealthyIsPinged'
  BY ConnAssumption, BackoffAssumption DEF IInv, TypeOK, Types, WritesToRead,
     HealthyIsPinged, Conns, Rounds, PingWrite, runner, sockets, network
<1>6. Types' /\ RoundsCounted' /\ DoneRounds' /\ FirstDial' /\ NilBetween'
      /\ ReadsSubscribed' /\ NoLeakedConnection'
  BY ConnAssumption, BackoffAssumption DEF IInv, Types, RoundsCounted,
     DoneRounds, FirstDial, NilBetween, ReadsSubscribed, NoLeakedConnection,
     Conns, Rounds, PingWrite, runner, sockets, network
<1> QED BY <1>1, <1>2, <1>3, <1>4, <1>5, <1>6 DEF IInv

\* A connection can no longer be read.
LEMMA BreakReadsIInv ==
  ASSUME IInv, NEW c \in Conns, BreakReads(c)
  PROVE IInv'
  BY ConnAssumption DEF IInv, TypeOK, Types, RoundsCounted, DoneRounds,
     FirstDial, NilBetween, OldSettled, WritesToRead, ReadsSubscribed,
     NoLeakedConnection, OneWriter, HealthyIsPinged, Old, Conns, Rounds,
     BreakReads, runner, sockets, pings

\* A connection can no longer be written to.
LEMMA BreakWritesIInv ==
  ASSUME IInv, NEW c \in Conns, BreakWrites(c)
  PROVE IInv'
  BY ConnAssumption DEF IInv, TypeOK, Types, RoundsCounted, DoneRounds,
     FirstDial, NilBetween, OldSettled, WritesToRead, ReadsSubscribed,
     NoLeakedConnection, OneWriter, HealthyIsPinged, Old, Conns, Rounds,
     BreakWrites, runner, sockets, pings

\* The context is cancelled.
LEMMA CancelIInv ==
  ASSUME IInv, Cancel
  PROVE IInv'
  BY ConnAssumption DEF IInv, TypeOK, Types, RoundsCounted, DoneRounds,
     FirstDial, NilBetween, OldSettled, WritesToRead, ReadsSubscribed,
     NoLeakedConnection, OneWriter, HealthyIsPinged, Old, Conns, Rounds, Cancel,
     runner, sockets, network, pings

\* main closes s.conn.
LEMMA CloseIInv ==
  ASSUME IInv, Close
  PROVE IInv'
  BY ConnAssumption DEF IInv, TypeOK, Types, RoundsCounted, DoneRounds,
     FirstDial, NilBetween, OldSettled, WritesToRead, ReadsSubscribed,
     NoLeakedConnection, OneWriter, HealthyIsPinged, Old, Conns, Rounds, Close,
     runner, network, pings

LEMMA InitIInv == Init => IInv
<1> SUFFICES ASSUME Init PROVE IInv
  OBVIOUS
<1>1. TypeOK /\ Types
  BY ConnAssumption, BackoffAssumption DEF Init, TypeOK, Types, Conns, Rounds
<1>2. RoundsCounted /\ DoneRounds /\ FirstDial /\ NilBetween /\ OldSettled /\ WritesToRead
  BY ConnAssumption, BackoffAssumption
  DEF Init, RoundsCounted, DoneRounds, FirstDial, NilBetween, OldSettled, Old,
      WritesToRead, Conns, Rounds
<1>3. ReadsSubscribed /\ NoLeakedConnection /\ OneWriter /\ HealthyIsPinged
  BY ConnAssumption
  DEF Init, ReadsSubscribed, NoLeakedConnection, OneWriter, HealthyIsPinged, Rounds
<1> QED
  BY <1>1, <1>2, <1>3 DEF IInv

LEMMA NextIInv == IInv /\ [Next]_vars => IInv'
<1> SUFFICES ASSUME IInv, [Next]_vars PROVE IInv'
  OBVIOUS
<1>1. CASE Runner
  BY <1>1, StreamOKIInv, StreamFailsIInv, StartRoundIInv, EndReadIInv, CloseBrokenIInv,
     WaitIInv, DialOKIInv, DialFailsIInv, SubscribeOKIInv, SubscribeFailsIInv DEF Runner
<1>2. ASSUME NEW r \in Rounds, Ping(r) PROVE IInv'
  BY <1>2, PingTickIInv, PingStopIInv, PingLoadIInv, PingWriteIInv DEF Ping
<1>3. ASSUME NEW c \in Conns, BreakReads(c) \/ BreakWrites(c) PROVE IInv'
  BY <1>3, BreakReadsIInv, BreakWritesIInv
<1>4. CASE Cancel
  BY <1>4, CancelIInv
<1>5. CASE Close
  BY <1>5, CloseIInv
<1>6. CASE UNCHANGED vars
  BY <1>6
  DEF IInv, TypeOK, Types, RoundsCounted, DoneRounds, FirstDial, NilBetween, OldSettled,
      Old, WritesToRead, ReadsSubscribed, NoLeakedConnection, OneWriter, HealthyIsPinged,
      vars, runner, sockets, network, pings
<1> QED
  BY <1>1, <1>2, <1>3, <1>4, <1>5, <1>6 DEF Next

-----------------------------------------------------------------------------
(* The theorems                                                            *)

\* IInv holds in every reachable state: the round bookkeeping of
\* runWithReconnect and what has become of every ping loop (rtds.go:68).
THEOREM RtdsInvariant == Spec => []IInv
  BY InitIInv, NextIInv, PTL DEF Spec

\* The stream's fields and locals keep their types, the backoff stays between
\* its limits, and there is one ping loop for each round begun (rtds.go:68).
THEOREM RtdsTypeCorrect == Spec => []TypeOK
  BY RtdsInvariant, PTL DEF IInv

\* The read loop never uses a connection that is not subscribed, after any
\* number of failed dials and subscriptions (rtds.go:114, 121).
THEOREM ReadsSubscribedCorrect == Spec => []ReadsSubscribed
  BY RtdsInvariant, PTL DEF IInv

\* No sequence of failures leaves a connection open that nobody will close
\* (rtds.go:92, 116).
THEOREM NoLeakedConnectionCorrect == Spec => []NoLeakedConnection
  BY RtdsInvariant, PTL DEF IInv

\* However many rounds there are, no two ping loops write to one connection at
\* the same time (rtds.go:103, 146).
THEOREM OneWriterCorrect == Spec => []OneWriter
  BY RtdsInvariant, PTL DEF IInv

\* A connection that is read and can be written to has a ping loop, in every
\* round (rtds.go:78, 146).
THEOREM HealthyIsPingedCorrect == Spec => []HealthyIsPinged
  BY RtdsInvariant, PTL DEF IInv
=============================================================================
