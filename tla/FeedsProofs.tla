---------------------------- MODULE FeedsProofs ----------------------------
(***************************************************************************)
(* Proofs about discovery and subscription, for windows and lookaheads of  *)
(* any length, without a bound on time or faults.                          *)
(*                                                                         *)
(* EventsMatch and NoneForgotten are not inductive: that the readers'      *)
(* windows are known must hold of a call before its first reader is there  *)
(* (SubsKnown), a window of the call in progress is not forgotten either   *)
(* (Listened), and this call has the readers it has started so far, unless *)
(* it lost one (Progress).  IInv is their conjunction with the others.     *)
(***************************************************************************)
EXTENDS Feeds, TLAPS

SubsKnown == \A i \in DOMAIN subs : subs[i].ids \subseteq markets

Listened ==
    \A m \in markets : \E i \in DOMAIN subs :
        /\ m \in subs[i].ids
        /\ subs[i].live = Streams \/ i \in impaired \/ (pc = "subscribe" /\ i = Last)

Progress ==
    pc = "subscribe" /\ Last \notin impaired =>
        \A j \in 1..started : StreamOrder[j] \in subs[Last].live

IInv == TypeOK /\ KnownAhead /\ SubsKnown /\ SubscribedOnce /\ Listened /\ Progress

-----------------------------------------------------------------------------
(* Helpers                                                                 *)

\* What a discovery that answers every request makes known.
LEMMA CompleteCovers ==
    ASSUME NEW b \in Nat, NEW t \in b .. b + (Lookahead - 1) * WindowLen
    PROVE  t \div WindowLen \in (b \div WindowLen) .. (b \div WindowLen) + Lookahead - 1
<1> DEFINE W == WindowLen
           q == b \div W
           d == (Lookahead - 1) * W
<1>1. W \in Nat \ {0} /\ Lookahead \in Nat /\ Lookahead - 1 \in Nat
  BY TimeAssumption
<1>2. d \in Nat /\ t \in Nat /\ b <= t /\ t <= b + d
  BY <1>1
<1>3. q \in Nat /\ q * W <= b /\ b < q * W + W
  BY <1>1
<1>4. t \div W \in Nat /\ (t \div W) * W <= t /\ t < (t \div W) * W + W
  BY <1>1, <1>2
<1> DEFINE r == t \div W
<1> HIDE DEF q, r, W, d
<1>5. r >= q
  <2> SUFFICES ASSUME r + 1 <= q PROVE FALSE
    BY <1>3, <1>4 DEF r
  <2>1. (r + 1) * W <= q * W
    BY <1>1, <1>3, <1>4 DEF r
  <2>2. (r + 1) * W = r * W + W
    BY <1>1, <1>4 DEF r
  <2>3. QED
    BY <1>2, <1>3, <1>4, <2>1, <2>2, <1>1 DEF r
<1>6. r <= q + Lookahead - 1
  <2> SUFFICES ASSUME r >= q + Lookahead PROVE FALSE
    BY <1>1, <1>3, <1>4 DEF r
  <2>1. r * W >= (q + Lookahead) * W
    BY <1>1, <1>3, <1>4 DEF r
  <2>2. (q + Lookahead) * W = q * W + d + W
    <3> DEFINE k == Lookahead - 1
    <3>1. k \in Nat /\ Lookahead = k + 1
      BY <1>1
    <3> HIDE DEF k
    <3>2. (q + (k + 1)) * W = q * W + k * W + W
      BY <1>1, <1>3, <3>1 DEF q
    <3>3. QED
      BY <3>1, <3>2 DEF d, k
  <2>3. q * W \in Nat /\ r * W \in Nat
    BY <1>1, <1>3, <1>4 DEF r
  <2>4. QED
    BY <1>1, <1>2, <1>3, <1>4, <2>1, <2>2, <2>3 DEF r
<1>7. QED
  BY <1>1, <1>3, <1>4, <1>5, <1>6 DEF q, r, W

\* The end of the process leaves nothing to be shown.
LEMMA DownIInv ==
    ASSUME IInv, Down
    PROVE  IInv'
<1>1. TypeOK'
  <2>1. booting' \in BOOLEAN /\ fired' \in BOOLEAN
    BY Zenon DEF Down
  <2>2. found' \subseteq (Base .. Base + asked - 1)'
    BY DEF Down, Forget
  <2>3. QED
    BY <2>1, <2>2, TimeAssumption DEF Down, Forget, IInv, TypeOK
<1>2. QED
  BY <1>1 DEF Down, IInv, KnownAhead, SubsKnown, SubscribedOnce, Listened, Progress

\* The steps that touch neither the markets nor the streams.
LEMMA FrameIInv ==
    ASSUME IInv, TypeOK', UNCHANGED <<markets, answered, streams>>,
           pc = "subscribe" <=> pc' = "subscribe"
    PROVE  IInv'
<1>1. SubsKnown' /\ SubscribedOnce' /\ KnownAhead'
  BY DEF IInv, SubsKnown, SubscribedOnce, KnownAhead, streams
<1>2. Listened' /\ Progress'
  BY DEF IInv, Listened, Progress, streams, Last
<1>3. QED
  BY <1>1, <1>2 DEF IInv

Call == [ids : (SUBSET Nat) \ {{}}, live : SUBSET Streams]

\* A call of which only the readers change.
LEMMA ReadersChange ==
    ASSUME IInv, NEW i \in DOMAIN subs, NEW live, live \subseteq Streams,
           subs' = [subs EXCEPT ![i].live = live]
    PROVE  /\ subs' \in Seq(Call) /\ DOMAIN subs' = DOMAIN subs /\ Len(subs') = Len(subs)
           /\ \A j \in DOMAIN subs : subs'[j].ids = subs[j].ids
           /\ \A j \in DOMAIN subs : j # i => subs'[j] = subs[j]
           /\ subs'[i].live = live
<1>1. subs \in Seq(Call)
  BY Zenon DEF IInv, TypeOK, Call
<1>2. subs[i] \in Call
  BY <1>1
<1> DEFINE c == [ids |-> subs[i].ids, live |-> live]
<1>3. c = [subs[i] EXCEPT !.live = live] /\ c \in Call
  BY <1>2 DEF Call
<1>4. c.ids = subs[i].ids /\ c.live = live
  OBVIOUS
<1>5. subs' = [subs EXCEPT ![i] = c]
  BY <1>3
<1> HIDE DEF c
<1>6. subs' \in Seq(Call) /\ DOMAIN subs' = DOMAIN subs /\ Len(subs') = Len(subs)
  BY <1>1, <1>3, <1>5
<1>7. subs'[i] = c /\ \A j \in DOMAIN subs : j # i => subs'[j] = subs[j]
  BY <1>1, <1>5
<1>8. QED
  BY <1>4, <1>6, <1>7

\* Readers are those of Streams.
LEMMA LiveReaders ==
    ASSUME IInv, NEW i \in DOMAIN subs
    PROVE  subs[i].live \subseteq Streams
<1>1. subs \in Seq(Call)
  BY Zenon DEF IInv, TypeOK, Call
<1>2. subs[i] \in Call
  BY <1>1
<1>3. QED
  BY <1>2 DEF Call

-----------------------------------------------------------------------------
(* IInv is inductive                                                       *)

LEMMA InitIInv == Init => IInv
<1> SUFFICES ASSUME Init PROVE IInv
  OBVIOUS
<1>1. TypeOK
  <2>1. booting \in BOOLEAN /\ fired \in BOOLEAN
    BY Zenon DEF Init
  <2>2. QED
    BY <2>1, TimeAssumption DEF Init, TypeOK
<1>2. QED
  BY <1>1 DEF Init, IInv, KnownAhead, SubsKnown, SubscribedOnce, Listened, Progress

LEMMA TickIInv ==
    ASSUME IInv, Tick
    PROVE  IInv'
<1>1. fired' \in BOOLEAN /\ booting' \in BOOLEAN
  <2>1. fired' \in BOOLEAN
    BY DEF Tick
  <2>2. booting' \in BOOLEAN
    BY Zenon DEF Tick, IInv, TypeOK
  <2>3. QED
    BY <2>1, <2>2
<1>2. late' \in 0..MaxLate
  BY TimeAssumption DEF Tick, IInv, TypeOK
<1>3. TypeOK'
  BY <1>1, <1>2 DEF Tick, IInv, TypeOK, discovery, streams, Base
<1>4. QED
  BY <1>3, FrameIInv DEF Tick

LEMMA DiscoverIInv ==
    ASSUME IInv, Boot \/ Rotate
    PROVE  IInv'
<1>1. fired' \in BOOLEAN /\ booting' \in BOOLEAN
  BY Zenon DEF Boot, Rotate, IInv, TypeOK
<1>2. Discover /\ UNCHANGED <<now, markets, answered, streams>> /\ pc # "subscribe"
  BY DEF Boot, Rotate
<1>3. TypeOK'
  BY <1>1, <1>2, TimeAssumption DEF Discover, IInv, TypeOK, streams
<1>4. QED
  BY <1>2, <1>3, FrameIInv DEF Discover

LEMMA AskIInv ==
    ASSUME IInv, NEW ok \in BOOLEAN, Ask(ok)
    PROVE  IInv'
<1>1. fired' \in BOOLEAN /\ booting' \in BOOLEAN
  BY Zenon DEF Ask, clock, IInv, TypeOK
<1>2. Base \in Nat /\ Base' = Base
  <2>1. began \in Nat /\ began' = began
    BY DEF Ask, IInv, TypeOK
  <2>2. QED
    BY <2>1, TimeAssumption DEF Base
<1>3. asked' \in 0..Lookahead /\ found' \subseteq Base' .. Base' + asked' - 1
  BY <1>2, TimeAssumption DEF Ask, IInv, TypeOK
<1>4. TypeOK'
  BY <1>1, <1>3 DEF Ask, clock, IInv, TypeOK, streams
<1>5. QED
  BY <1>4, FrameIInv DEF Ask

LEMMA RegisterIInv ==
    ASSUME IInv, Register
    PROVE  IInv'
<1>1. fired' \in BOOLEAN /\ booting' \in BOOLEAN
  BY Zenon DEF Register, clock, IInv, TypeOK
<1>2. began \in Nat /\ Base \in Nat /\ found \subseteq Nat
  <2>1. began \in Nat
    BY DEF IInv, TypeOK
  <2>2. Base \in Nat
    BY <2>1, TimeAssumption DEF Base
  <2>3. QED
    BY <2>1, <2>2 DEF IInv, TypeOK
<1>3. markets' = markets \cup found /\ New \cap markets = {} /\ markets' = markets \cup New
  BY DEF Register, Registered, New
<1>4. CASE New = {} /\ pc' = "settle" /\ UNCHANGED subs
  <2>1. TypeOK'
    BY <1>1, <1>2, <1>3, <1>4, TimeAssumption DEF Register, Forget, clock, IInv, TypeOK
  <2>2. SubsKnown' /\ SubscribedOnce'
    BY <1>3, <1>4 DEF IInv, SubsKnown, SubscribedOnce
  <2>3. Listened'
    BY <1>3, <1>4 DEF Register, IInv, Listened
  <2>4. KnownAhead'
    <3>1. CASE answered' = answered
      BY <1>3, <3>1 DEF IInv, KnownAhead
    <3>2. CASE found = Base .. Base + Lookahead - 1 /\ answered' = began
      BY <1>2, <1>3, <3>2, CompleteCovers DEF KnownAhead, Base
    <3>3. QED
      BY <3>1, <3>2 DEF Register
  <2>5. Progress'
    BY <1>4 DEF Progress
  <2>6. QED
    BY <2>1, <2>2, <2>3, <2>4, <2>5 DEF IInv
<1>5. CASE New # {} /\ pc' = "subscribe" /\ subs' = Append(subs, [ids |-> New, live |-> {}])
  <2> DEFINE call == [ids |-> New, live |-> {}]
             n == Len(subs)
  <2>1. New \in (SUBSET Nat) \ {{}} /\ call \in [ids : (SUBSET Nat) \ {{}}, live : SUBSET Streams]
    BY <1>2, <1>5 DEF New
  <2>2. /\ n \in Nat /\ DOMAIN subs = 1..n /\ DOMAIN subs' = 1..(n + 1) /\ Len(subs') = n + 1
        /\ subs'[n + 1] = call /\ \A i \in 1..n : subs'[i] = subs[i]
        /\ subs' \in Seq([ids : (SUBSET Nat) \ {{}}, live : SUBSET Streams])
    BY <1>5, <2>1 DEF IInv, TypeOK
  <2> HIDE DEF n
  <2>3. TypeOK'
    <3>1. impaired' \subseteq DOMAIN subs' /\ subs' # <<>>
      BY <2>2 DEF Register, IInv, TypeOK
    <3>2. QED
      BY <1>1, <1>2, <1>3, <1>5, <2>2, <3>1, TimeAssumption
         DEF Register, Forget, clock, IInv, TypeOK
  <2>4. SubsKnown'
    BY <1>3, <2>2 DEF IInv, SubsKnown
  <2>5. SubscribedOnce'
    <3>1. \A i \in 1..n : subs'[i].ids \cap subs'[n + 1].ids = {}
      BY <1>3, <2>2 DEF IInv, SubsKnown
    <3>2. \A i, j \in 1..n : i # j => subs'[i].ids \cap subs'[j].ids = {}
      BY <2>2 DEF IInv, SubscribedOnce
    <3>3. QED
      BY <2>2, <3>1, <3>2 DEF SubscribedOnce
  <2>6. Listened'
    <3>1. ASSUME NEW m \in markets
          PROVE  \E i \in 1..n : m \in subs'[i].ids /\ (subs'[i].live = Streams \/ i \in impaired')
      BY <2>2 DEF Register, IInv, Listened
    <3>2. \A m \in New : m \in subs'[n + 1].ids /\ n + 1 = Last'
      BY <2>2 DEF Last
    <3>3. QED
      BY <1>3, <1>5, <2>2, <3>1, <3>2 DEF Listened
  <2>7. KnownAhead'
    <3>1. CASE answered' = answered
      BY <1>3, <3>1 DEF IInv, KnownAhead
    <3>2. CASE found = Base .. Base + Lookahead - 1 /\ answered' = began
      BY <1>2, <1>3, <3>2, CompleteCovers DEF KnownAhead, Base
    <3>3. QED
      BY <3>1, <3>2 DEF Register
  <2>8. Progress'
    <3>1. started' = 0
      BY DEF Register, IInv, TypeOK
    <3>2. QED
      BY <3>1 DEF Progress
  <2>9. QED
    BY <2>3, <2>4, <2>5, <2>6, <2>7, <2>8 DEF IInv
<1>6. QED
  BY <1>4, <1>5 DEF Register, Listen

LEMMA SubscribeIInv ==
    ASSUME IInv, NEW s \in Streams, Subscribe(s)
    PROVE  IInv'
<1> DEFINE n == Len(subs)
<1>1. fired' \in BOOLEAN /\ booting' \in BOOLEAN
  BY Zenon DEF Subscribe, clock, IInv, TypeOK
<1>2. n \in Nat \ {0} /\ DOMAIN subs = 1..n /\ Last = n
  BY DEF Subscribe, IInv, TypeOK, Last
<1>3. /\ DOMAIN subs' = 1..n /\ Len(subs') = n
      /\ \A i \in 1..n : subs'[i].ids = subs[i].ids
      /\ \A i \in 1..n : i # n => subs'[i] = subs[i]
      /\ subs'[n].live = subs[n].live \cup {s}
      /\ subs' \in Seq(Call)
  <2>1. n \in DOMAIN subs
    BY <1>2
  <2>2. subs[n].live \cup {s} \subseteq Streams
    BY <2>1, LiveReaders
  <2>3. subs' = [subs EXCEPT ![n].live = subs[n].live \cup {s}]
    BY <1>2 DEF Subscribe
  <2>4. QED
    BY <1>2, <2>1, <2>2, <2>3, ReadersChange
<1> HIDE DEF n
<1>4. TypeOK'
  BY <1>1, <1>2, <1>3 DEF Subscribe, clock, discovery, Base, IInv, TypeOK, Call
<1>5. SubsKnown' /\ SubscribedOnce' /\ KnownAhead'
  BY <1>2, <1>3 DEF Subscribe, IInv, SubsKnown, SubscribedOnce, KnownAhead
<1>6. n \notin impaired => \A j \in 1..(started + 1) : StreamOrder[j] \in subs'[n].live
  BY <1>2, <1>3 DEF Subscribe, IInv, TypeOK, Progress
<1>7. Progress'
  BY <1>2, <1>3, <1>6 DEF Subscribe, Progress, Last
<1>8. pc' = "settle" => n \in impaired \/ subs'[n].live = Streams
  <2> SUFFICES ASSUME pc' = "settle", n \notin impaired PROVE subs'[n].live = Streams
    OBVIOUS
  <2>1. \A j \in 1..5 : StreamOrder[j] \in subs'[n].live
    BY <1>6 DEF Subscribe
  <2>2. subs'[n].live \subseteq Streams
    <3>1. subs'[n] \in Call
      BY <1>2, <1>3
    <3>2. QED
      BY <3>1 DEF Call
  <2>3. QED
    BY <2>1, <2>2 DEF Streams
<1>9. Listened'
  <2>1. ASSUME NEW m \in markets, NEW i \in 1..n, m \in subs[i].ids,
               subs[i].live = Streams \/ i \in impaired \/ (pc = "subscribe" /\ i = Last)
        PROVE  subs'[i].live = Streams \/ i \in impaired' \/ (pc' = "subscribe" /\ i = Last')
    <3>1. CASE i # n
      BY <1>2, <1>3, <2>1, <3>1 DEF Subscribe
    <3>2. CASE i = n
      BY <1>3, <1>8, <3>2 DEF Subscribe, Last
    <3>3. QED
      BY <3>1, <3>2
  <2>2. QED
    BY <1>2, <1>3, <2>1 DEF Subscribe, IInv, Listened
<1>10. QED
  BY <1>4, <1>5, <1>7, <1>9 DEF IInv

LEMMA SubscribeFailsIInv ==
    ASSUME IInv, SubscribeFails
    PROVE  IInv'
<1>1. fired' \in BOOLEAN /\ booting' \in BOOLEAN
  BY Zenon DEF SubscribeFails, clock, IInv, TypeOK
<1>2. Last \in DOMAIN subs
  BY DEF SubscribeFails, IInv, TypeOK, Last
<1>3. TypeOK'
  BY <1>1, <1>2 DEF SubscribeFails, clock, discovery, Base, IInv, TypeOK
<1>4. SubsKnown' /\ SubscribedOnce' /\ KnownAhead'
  BY DEF SubscribeFails, IInv, SubsKnown, SubscribedOnce, KnownAhead
<1>5. Listened' /\ Progress'
  BY DEF SubscribeFails, IInv, Listened, Progress
<1>6. QED
  BY <1>3, <1>4, <1>5 DEF IInv

LEMMA ReaderEndsIInv ==
    ASSUME IInv, NEW i \in DOMAIN subs, NEW s \in Streams, ReaderEnds(i, s)
    PROVE  IInv'
<1> DEFINE n == Len(subs)
<1>1. fired' \in BOOLEAN /\ booting' \in BOOLEAN
  BY Zenon DEF ReaderEnds, clock, IInv, TypeOK
<1>2. n \in Nat /\ DOMAIN subs = 1..n
  BY DEF IInv, TypeOK
<1>3. /\ DOMAIN subs' = 1..n /\ Len(subs') = n
      /\ \A j \in 1..n : subs'[j].ids = subs[j].ids
      /\ \A j \in 1..n : j # i => subs'[j] = subs[j]
      /\ subs' \in Seq(Call)
  <2>1. subs[i].live \ {s} \subseteq Streams
    BY LiveReaders
  <2>2. subs' = [subs EXCEPT ![i].live = subs[i].live \ {s}]
    BY DEF ReaderEnds
  <2>3. QED
    BY <1>2, <2>1, <2>2, ReadersChange
<1> HIDE DEF n
<1>4. TypeOK'
  <2>1. pc = "subscribe" => subs' # <<>>
    BY <1>2, <1>3 DEF IInv, TypeOK, n
  <2>2. subs' \in Seq([ids : (SUBSET Nat) \ {{}}, live : SUBSET Streams])
    BY <1>3, Zenon DEF Call
  <2>3. impaired' \subseteq DOMAIN subs' /\ faults' \in Nat
    BY <1>2, <1>3 DEF ReaderEnds, IInv, TypeOK
  <2>4. UNCHANGED <<now, late, pc, began, asked, found, markets, answered, started, Base>>
    BY DEF ReaderEnds, clock, discovery, Base
  <2>5. QED
    BY <1>1, <2>1, <2>2, <2>3, <2>4 DEF IInv, TypeOK
<1>5. SubsKnown' /\ SubscribedOnce' /\ KnownAhead'
  BY <1>2, <1>3 DEF ReaderEnds, IInv, SubsKnown, SubscribedOnce, KnownAhead
<1>6. Listened' /\ Progress'
  <2>1. /\ Last' = Last /\ impaired' = impaired \cup {i}
        /\ UNCHANGED <<pc, markets, started>>
    BY <1>2, <1>3 DEF ReaderEnds, Last, n
  <2>2. Listened'
    BY <1>2, <1>3, <2>1 DEF IInv, Listened
  <2>3. ASSUME pc = "subscribe", Last \notin impaired, Last # i
        PROVE  subs'[Last] = subs[Last]
    BY <1>2, <1>3, <2>3 DEF IInv, TypeOK, Last, n
  <2>4. Progress'
    BY <2>1, <2>3 DEF IInv, Progress
  <2>5. QED
    BY <2>2, <2>4
<1>7. QED
  BY <1>4, <1>5, <1>6 DEF IInv

LEMMA EndRotationIInv ==
    ASSUME IInv, EndRotation
    PROVE  IInv'
<1>1. fired' \in BOOLEAN /\ booting' \in BOOLEAN
  BY Zenon DEF EndRotation, clock, IInv, TypeOK
<1>2. TypeOK'
  BY <1>1 DEF EndRotation, clock, discovery, streams, Base, IInv, TypeOK
<1>3. QED
  BY <1>2, FrameIInv DEF EndRotation

LEMMA NextIInv == IInv /\ [Next]_vars => IInv'
<1> SUFFICES ASSUME IInv, [Next]_vars PROVE IInv'
  OBVIOUS
<1>1. CASE UNCHANGED vars
  <2>1. fired' \in BOOLEAN /\ booting' \in BOOLEAN
    BY <1>1, Zenon DEF vars, clock, IInv, TypeOK
  <2>2. TypeOK'
    BY <1>1, <2>1 DEF vars, clock, discovery, streams, Base, IInv, TypeOK
  <2>3. QED
    BY <1>1, <2>2, FrameIInv DEF vars
<1>2. CASE Exit \/ Crash
  BY <1>2, DownIInv DEF Exit, Crash
<1>3. QED
  BY <1>1, <1>2, TickIInv, DiscoverIInv, AskIInv, RegisterIInv, SubscribeIInv,
     SubscribeFailsIInv, ReaderEndsIInv, EndRotationIInv DEF Next

-----------------------------------------------------------------------------
(* Theorems                                                                *)

\* The strengthened invariant holds in every reachable state.
THEOREM FeedsInvariant == Spec => []IInv
BY InitIInv, NextIInv, PTL DEF Spec

\* Every variable keeps its type, and a rotation is never too late.
THEOREM FeedsTypeCorrect == Spec => []TypeOK
<1>1. IInv => TypeOK
  BY DEF IInv
<1>2. QED
  BY <1>1, FeedsInvariant, PTL

\* A complete discovery lasts for Lookahead - 1 windows (discovery.go:77).
THEOREM KnownAheadCorrect == Spec => []KnownAhead
<1>1. IInv => KnownAhead
  BY DEF IInv
<1>2. QED
  BY <1>1, FeedsInvariant, PTL

\* Every event that is read is for a known window (main.go:244, 260).
THEOREM EventsMatchCorrect == Spec => []EventsMatch
<1>1. IInv => EventsMatch
  BY DEF IInv, SubsKnown, EventsMatch
<1>2. QED
  BY <1>1, FeedsInvariant, PTL

\* No asset is subscribed twice (main.go:235).
THEOREM SubscribedOnceCorrect == Spec => []SubscribedOnce
<1>1. IInv => SubscribedOnce
  BY DEF IInv
<1>2. QED
  BY <1>1, FeedsInvariant, PTL

\* No known window is left without readers but by a fault (main.go:237).
THEOREM NoneForgottenCorrect == Spec => []NoneForgotten
<1>1. IInv => NoneForgotten
  BY DEF IInv, Listened, NoneForgotten
<1>2. QED
  BY <1>1, FeedsInvariant, PTL

=============================================================================
