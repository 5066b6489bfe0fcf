-------------------------- MODULE RingBufferProofs --------------------------
(***************************************************************************)
(* Proofs about module RingBuffer, for every capacity: its types, that it  *)
(* implements RecentEntries, what RecentSince returns, and the sign of the *)
(* slope.                                                                  *)
(***************************************************************************)
EXTENDS RingBuffer, SumTheorems, TLAPS

\* A remainder below three times the divisor, without division.
LEMMA Remainder ==
    ASSUME NEW x \in Nat, x < 3 * Cap
    PROVE  x % Cap = IF x < Cap THEN x
                     ELSE IF x < 2 * Cap THEN x - Cap
                     ELSE x - 2 * Cap
<1>1. CASE x < Cap
    BY <1>1, CapAssumption
<1>2. CASE x >= Cap /\ x < 2 * Cap
    BY <1>2, CapAssumption
<1>3. CASE x >= 2 * Cap
    BY <1>3, CapAssumption
<1> QED BY <1>1, <1>2, <1>3, CapAssumption

\* The slot after h.
LEMMA NextSlot ==
    ASSUME NEW h \in Slots
    PROVE  (h + 1) % Cap = IF h = Cap - 1 THEN 0 ELSE h + 1
<1>1. h + 1 \in Nat /\ h + 1 < 3 * Cap /\ h + 1 <= Cap
    BY CapAssumption DEF Slots
<1> QED BY <1>1, Remainder, CapAssumption DEF Slots

\* The slot that at(i) reads when the head is h.
LEMMA AtSlot ==
    ASSUME NEW h \in Slots, NEW i \in Slots
    PROVE  (h - 1 - i + 2 * Cap) % Cap = IF i < h THEN h - 1 - i ELSE h - 1 - i + Cap
<1>1. h - 1 - i + 2 * Cap \in Nat /\ h - 1 - i + 2 * Cap < 3 * Cap
    BY CapAssumption DEF Slots
<1>2. CASE i < h
    <2>1. h - 1 - i + 2 * Cap >= 2 * Cap
        BY <1>2, CapAssumption DEF Slots
    <2> QED BY <1>1, <1>2, <2>1, Remainder, CapAssumption DEF Slots
<1>3. CASE i >= h
    <2>1. h - 1 - i + 2 * Cap >= Cap /\ h - 1 - i + 2 * Cap < 2 * Cap
        BY <1>3, CapAssumption DEF Slots
    <2> QED BY <1>1, <1>3, <2>1, Remainder, CapAssumption DEF Slots
<1> QED BY <1>2, <1>3, CapAssumption DEF Slots

-----------------------------------------------------------------------------
(* Types                                                                   *)

LEMMA InitTypes == Init => TypeOK
BY CapAssumption, EntryAssumption DEF Init, TypeOK, Slots

LEMMA AddTypes ==
    ASSUME TypeOK, NEW e \in Entries, Add(e)
    PROVE  TypeOK'
<1> USE DEF Add, Write
<1>1. head' = IF head = Cap - 1 THEN 0 ELSE head + 1
    BY NextSlot DEF TypeOK
<1>2. data' \in [Slots -> Entries \cup {ZeroEntry}]
    BY DEF TypeOK
<1>3. head' \in Slots /\ len' \in 0..Cap /\ (len' < Cap => head' = len')
    BY <1>1, CapAssumption DEF TypeOK, Slots
<1>4. clock' \in 0..MaxStamp
    BY EntryAssumption DEF TypeOK, Entries
<1> QED BY <1>2, <1>3, <1>4 DEF TypeOK

\* Every variable keeps its type, and no slot that make left is counted, for
\* every capacity (pricebuf.go:26, metrics.go:31).
THEOREM BufferTypes == Spec => []TypeOK
<1>1. TypeOK /\ [Next]_vars => TypeOK'
    BY AddTypes DEF Next, vars, TypeOK
<1> QED BY InitTypes, <1>1, PTL DEF Spec

-----------------------------------------------------------------------------
(* The refinement                                                          *)

remembered == [k \in 1..len |-> At(k - 1)]

\* After an entry is added it is the newest, and every other entry that is
\* still remembered is one place older.
LEMMA AddShifts ==
    ASSUME TypeOK, NEW e \in Entries, Add(e), NEW i \in Slots
    PROVE  At(i)' = IF i = 0 THEN e ELSE At(i - 1)
<1> DEFINE Slot(h, j) == IF j < h THEN h - 1 - j ELSE h - 1 - j + Cap
<1> USE CapAssumption DEF Slots
<1>1. head \in Slots /\ data \in [Slots -> Entries \cup {ZeroEntry}]
    BY DEF TypeOK
<1>2. head' \in Slots /\ head' = IF head = Cap - 1 THEN 0 ELSE head + 1
    BY <1>1, NextSlot DEF Add, Write
<1>3. data' = [data EXCEPT ![head] = e]
    BY DEF Add, Write
<1>4. At(i)' = data'[Slot(head', i)]
    BY <1>2, AtSlot DEF At
<1>5. CASE i = 0
    BY <1>1, <1>2, <1>3, <1>4, <1>5
<1>6. CASE i > 0
    <2>1. i - 1 \in Slots
        BY <1>6
    <2>2. At(i - 1) = data[Slot(head, i - 1)]
        BY <1>1, <2>1, AtSlot DEF At
    <2>3. Slot(head', i) = Slot(head, i - 1)
        BY <1>1, <1>2, <1>6
    <2>4. Slot(head, i - 1) \in Slots /\ Slot(head, i - 1) # head
        BY <1>1, <1>6
    <2> QED BY <1>1, <1>3, <1>4, <1>6, <2>2, <2>3, <2>4
<1> QED BY <1>5, <1>6

LEMMA AddPushes ==
    ASSUME TypeOK, NEW e \in Entries, Add(e)
    PROVE  Recent!Push(e)
<1> USE CapAssumption
<1>1. len \in 0..Cap /\ len \in Nat
    BY DEF TypeOK
<1>2. Len(remembered) = len
    BY <1>1 DEF remembered
<1>3. len' = IF len < Cap THEN len + 1 ELSE Cap
    BY <1>1 DEF Add, Write
<1>4. \A k \in 1..len' : At(k - 1)' = IF k = 1 THEN e ELSE remembered[k - 1]
    <2> TAKE k \in 1..len'
    <2>1. k - 1 \in Slots
        BY <1>1, <1>3 DEF Slots
    <2>2. At(k - 1)' = IF k - 1 = 0 THEN e ELSE At(k - 1 - 1)
        BY <2>1, AddShifts
    <2>3. k # 1 => remembered[k - 1] = At(k - 1 - 1)
        BY <1>1, <1>3 DEF remembered
    <2> QED BY <2>2, <2>3
<1>5. [k \in 1..len' |-> At(k - 1)'] =
        [k \in 1 .. (IF Len(remembered) < Cap THEN Len(remembered) + 1 ELSE Cap) |->
            IF k = 1 THEN e ELSE remembered[k - 1]]
    BY <1>2, <1>3, <1>4
<1> QED BY <1>5 DEF Recent!Push, remembered

\* The ring buffer implements the memory of the newest Cap entries, for
\* every capacity and every set of values (pricebuf.go:26, metrics.go:31).
THEOREM RemembersNewest == Spec => RecentSpec
<1>1. Init => Recent!Init
    BY DEF Init, Recent!Init
<1>2. TypeOK /\ [Next]_vars => [Recent!Next]_remembered
    <2> SUFFICES ASSUME TypeOK, [Next]_vars
                 PROVE  [Recent!Next]_remembered
        OBVIOUS
    <2>1. CASE Next
        BY <2>1, AddPushes DEF Next, Recent!Next
    <2>2. CASE UNCHANGED vars
        BY <2>2 DEF vars, remembered, At
    <2> QED BY <2>1, <2>2
<1> QED BY <1>1, <1>2, BufferTypes, PTL DEF Spec, RecentSpec, Recent!Spec, remembered

-----------------------------------------------------------------------------
(* RecentSince                                                             *)

\* A list that never falls from one place to the next never falls.
LEMMA Rising ==
    ASSUME NEW n \in Nat, NEW f \in [0..n -> Int],
           \A m \in 1..n : f[m - 1] <= f[m]
    PROVE  \A i, j \in 0..n : i <= j => f[i] <= f[j]
<1> DEFINE T == {d \in Nat : \A i \in 0..n : i + d <= n => f[i] <= f[i + d]}
<1>1. 0 \in T
    OBVIOUS
<1>2. ASSUME NEW d \in Nat, d \in T PROVE d + 1 \in T
    <2> SUFFICES ASSUME NEW i \in 0..n, i + (d + 1) <= n
                 PROVE  f[i] <= f[i + (d + 1)]
        OBVIOUS
    <2>1. PICK m \in 1..n : m = i + (d + 1)
        OBVIOUS
    <2>2. m - 1 = i + d /\ m - 1 \in 0..n /\ i + d <= n
        BY <2>1
    <2>3. f[i] <= f[m - 1]
        BY <1>2, <2>2
    <2>4. f[m - 1] <= f[m]
        OBVIOUS
    <2>5. PICK a \in Int, b \in Int, c \in Int : a = f[i] /\ b = f[m - 1] /\ c = f[m]
        BY <2>2
    <2> QED BY <2>1, <2>3, <2>4, <2>5
<1>3. Nat \subseteq T
    <2>1. \A d \in Nat : d \in T => d + 1 \in T
        BY <1>2
    <2> HIDE DEF T
    <2> QED BY <1>1, <2>1, Induct
<1> SUFFICES ASSUME NEW i \in 0..n, NEW j \in 0..n, i <= j PROVE f[i] <= f[j]
    OBVIOUS
<1>4. PICK d \in Nat : d = j - i /\ i + d = j
    OBVIOUS
<1>5. d \in T
    BY <1>3
<1>6. f[i] <= f[i + d]
    BY <1>4, <1>5
<1> QED BY <1>4, <1>6

\* What at(i) returns.
LEMMA AtTypes ==
    ASSUME TypeOK, NEW i \in 0 .. len - 1
    PROVE  At(i).value \in Int /\ At(i).ts \in Nat
<1>1. i \in Slots /\ head \in Slots
    BY CapAssumption DEF TypeOK, Slots
<1>2. At(i) = data[IF i < head THEN head - 1 - i ELSE head - 1 - i + Cap]
    BY <1>1, AtSlot DEF At
<1>3. (IF i < head THEN head - 1 - i ELSE head - 1 - i + Cap) \in Slots
    BY <1>1, CapAssumption DEF Slots
<1>4. At(i) \in Entries \cup {ZeroEntry}
    BY <1>2, <1>3 DEF TypeOK
<1>5. \A e \in Entries : e.value \in Int /\ e.ts \in Nat
    <2> SUFFICES ASSUME NEW e \in Entries PROVE e.value \in Int /\ e.ts \in Nat
        OBVIOUS
    <2>1. e.value \in Values /\ e.ts \in 0..MaxStamp
        BY DEF Entries
    <2>2. Values \subseteq Int /\ 0..MaxStamp \subseteq Nat
        BY EntryAssumption
    <2> QED BY <2>1, <2>2, Zenon
<1>6. ZeroEntry.value \in Int /\ ZeroEntry.ts \in Nat
    BY DEF ZeroEntry
<1> QED BY <1>4, <1>5, <1>6

\* Where the walk stops: at the newest entry that is too old, or at the end.
LEMMA StopsAtFirst ==
    ASSUME TypeOK, NEW since
    PROVE  \E n \in 0..len :
              /\ RecentSince(since) = [i \in 1..n |-> At(i - 1)]
              /\ \A i \in 0 .. n - 1 : ~(At(i).ts < since)
              /\ n < len => At(n).ts < since
<1> DEFINE Stops == {i \in 0 .. len - 1 : At(i).ts < since}
<1>0. len \in Nat
    BY CapAssumption DEF TypeOK
<1>1. CASE Stops = {}
    BY <1>0, <1>1 DEF RecentSince
<1>2. CASE Stops # {}
    <2>1. PICK n : n = CHOOSE i \in Stops : \A j \in Stops : i <= j
        OBVIOUS
    <2>2. \E i \in Stops : \A j \in Stops : i <= j
        <3>1. Stops \subseteq Nat
            BY <1>0
        <3> HIDE DEF Stops
        <3> QED BY <1>2, <3>1, Least
    <2>3. n \in Stops /\ \A j \in Stops : n <= j
        BY <2>1, <2>2
    <2>4. RecentSince(since) = [i \in 1..n |-> At(i - 1)]
        BY <1>2, <2>1 DEF RecentSince
    <2>5. n \in 0..len /\ \A i \in 0 .. n - 1 : i \in 0 .. len - 1 /\ ~(n <= i)
        BY <1>0, <2>3
    <2> QED BY <2>3, <2>4, <2>5
<1> QED BY <1>1, <1>2

LEMMA RecentSinceHolds == TypeOK => RecentSinceExact
<1> SUFFICES ASSUME TypeOK, \A i \in 1 .. len - 1 : At(i).ts <= At(i - 1).ts,
                    NEW since \in 0..MaxStamp
             PROVE  \A i \in 0 .. len - 1 :
                       IF At(i).ts >= since
                       THEN /\ i + 1 \in DOMAIN RecentSince(since)
                            /\ RecentSince(since)[i + 1] = At(i)
                       ELSE i + 1 \notin DOMAIN RecentSince(since)
    BY DEF RecentSinceExact
<1>1. PICK n \in 0..len :
          /\ RecentSince(since) = [i \in 1..n |-> At(i - 1)]
          /\ \A i \in 0 .. n - 1 : ~(At(i).ts < since)
          /\ n < len => At(n).ts < since
    BY StopsAtFirst
<1>2. len \in Nat /\ since \in Int
    BY CapAssumption, EntryAssumption DEF TypeOK
<1>3. ASSUME NEW i \in 0 .. len - 1, NEW j \in 0 .. len - 1, i <= j
      PROVE  At(j).ts <= At(i).ts
    <2> DEFINE f == [k \in 0 .. len - 1 |-> -At(k).ts]
    <2>1. f \in [0 .. len - 1 -> Int] /\ len - 1 \in Nat
        BY <1>2, AtTypes
    <2>2. \A m \in 1 .. len - 1 : f[m - 1] <= f[m]
        BY <1>2, AtTypes
    <2>3. f[i] <= f[j]
        <3> HIDE DEF f
        <3> QED BY <1>3, <2>1, <2>2, Rising
    <2>4. PICK a \in Int, b \in Int : a = At(i).ts /\ b = At(j).ts
        BY AtTypes
    <2>5. -a <= -b
        BY <2>3, <2>4
    <2> QED BY <2>4, <2>5
<1> SUFFICES ASSUME NEW i \in 0 .. len - 1
             PROVE  IF At(i).ts >= since
                    THEN /\ i + 1 \in DOMAIN RecentSince(since)
                         /\ RecentSince(since)[i + 1] = At(i)
                    ELSE i + 1 \notin DOMAIN RecentSince(since)
    OBVIOUS
<1>4. PICK ts \in Int : ts = At(i).ts
    BY AtTypes
<1>5. CASE i < n
    <2>1. ~(ts < since)
        BY <1>1, <1>4, <1>5
    <2>2. i + 1 \in 1..n /\ (i + 1) - 1 = i
        BY <1>5
    <2> QED BY <1>1, <1>2, <1>4, <2>1, <2>2
<1>6. CASE i >= n
    <2>1. n \in 0 .. len - 1 /\ i + 1 \notin 1..n
        BY <1>2, <1>6
    <2>2. PICK u \in Int : u = At(n).ts
        BY <2>1, AtTypes
    <2>3. ts <= u /\ u < since
        BY <1>1, <1>2, <1>3, <1>4, <1>6, <2>1, <2>2
    <2>4. ~(ts >= since)
        BY <1>2, <2>3
    <2> QED BY <1>1, <1>4, <2>1, <2>4
<1> QED BY <1>2, <1>5, <1>6

\* RecentSince returns the entries that are not older, and no others, for
\* every capacity and any timestamps in order (metrics.go:46).
THEOREM RecentSinceCorrect == Spec => []RecentSinceExact
BY BufferTypes, RecentSinceHolds, PTL

-----------------------------------------------------------------------------
(* Slope                                                                   *)

\* One more value v: what the numerator of the slope gains.
LEMMA NumeratorGains ==
    ASSUME NEW m \in Int, NEW a \in Int, NEW b \in Int, NEW s \in Int, NEW v \in Int
    PROVE  (m + 1) * (b + m * v) - (s + m) * (a + v)
             = (m * b - s * a) + (b - m * a + (m * m - s) * v)
OBVIOUS

\* The next value is v + d: what that gain, and the gain's own, gain in turn.
LEMMA GainGains ==
    ASSUME NEW m \in Int, NEW a \in Int, NEW b \in Int, NEW s \in Int, NEW v \in Int, NEW d \in Int
    PROVE  /\ (b + m * v) - (m + 1) * (a + v) + ((m + 1) * (m + 1) - (s + m)) * (v + d)
                = (b - m * a + (m * m - s) * v) + (m * v - a) + ((m + 1) * (m + 1) - (s + m)) * d
           /\ (m + 1) * (m + 1) - (s + m) = (m * m - s) + m + 1
           /\ (m + 1) * (v + d) - (a + v) = (m * v - a) + (m + 1) * d
OBVIOUS

LEMMA AtLeastOnce ==
    ASSUME NEW k \in Int, NEW d \in Int, k >= 1, d >= 0
    PROVE  k * d >= d
OBVIOUS

\* What holds of the sums over the first m values, when the first of them is
\* u, the last is v and the next is w: the numerator has gained at least the
\* rise so far, and it and its gain are about to gain at least as much.
Sums(m, a, b, s, u, v, w) ==
    /\ m * m - s >= 1
    /\ m * b - s * a >= v - u
    /\ m * w - a >= w - u
    /\ b - m * a + (m * m - s) * w >= w - u

LEMMA SumsOfOne ==
    ASSUME NEW u \in Int, NEW w \in Int
    PROVE  Sums(1, u, 0, 0, u, u, w)
BY DEF Sums

LEMMA SumsOfOneMore ==
    ASSUME NEW m \in Int, m >= 1, NEW a \in Int, NEW b \in Int, NEW s \in Int,
           NEW u \in Int, NEW t \in Int, NEW v \in Int, NEW w \in Int,
           u <= t, t <= v, v <= w, Sums(m, a, b, s, u, t, v)
    PROVE  Sums(m + 1, a + v, b + m * v, s + m, u, v, w)
<1>1. PICK d \in Int : d = w - v
    OBVIOUS
<1>2. w = v + d /\ d >= 0
    BY <1>1
<1>3. PICK c \in Int, g \in Int, h \in Int, z \in Int :
          /\ c = (m + 1) * (m + 1) - (s + m) /\ z = m * b - s * a
          /\ g = b - m * a + (m * m - s) * v /\ h = m * v - a
    OBVIOUS
<1>4. z >= 0 /\ h >= v - u /\ g >= v - u /\ c >= 1
    <2>1. z >= t - u /\ h >= v - u /\ g >= v - u /\ m * m - s >= 1
        BY <1>3 DEF Sums
    <2>2. c = (m * m - s) + m + 1
        BY <1>3, GainGains
    <2> QED BY <2>1, <2>2
<1>5. c * d \in Int /\ c * d >= d /\ (m + 1) * d \in Int /\ (m + 1) * d >= d
    <2>1. m + 1 \in Int /\ m + 1 >= 1
        OBVIOUS
    <2> QED BY <1>2, <1>4, <2>1, AtLeastOnce
<1>6. /\ (m + 1) * (b + m * v) - (s + m) * (a + v) = z + g
      /\ (m + 1) * (v + d) - (a + v) = h + (m + 1) * d
      /\ (b + m * v) - (m + 1) * (a + v) + c * (v + d) = g + h + c * d
    BY <1>3, NumeratorGains, GainGains
<1>7. PICK p \in Int, q \in Int : p = c * d /\ q = (m + 1) * d
    BY <1>5
<1>8. z + g >= v - u /\ h + q >= (v + d) - u /\ g + h + p >= (v + d) - u
    <2>1. h >= 0 /\ p >= d /\ q >= d
        BY <1>4, <1>5, <1>7
    <2> QED BY <1>4, <2>1
<1> QED BY <1>2, <1>3, <1>4, <1>6, <1>7, <1>8 DEF Sums

\* A, B and S are the sums of y[x], of x * y[x] and of x over the first places.
Recurrences(k, y, A, B, S) ==
    /\ A[0] = 0 /\ B[0] = 0 /\ S[0] = 0
    /\ \A m \in 0..k : /\ A[m + 1] = A[m] + y[m]
                       /\ B[m + 1] = B[m] + m * y[m]
                       /\ S[m + 1] = S[m] + m

\* Of values that never fall, n times the sum of x * y[x] exceeds the sum of
\* the x times the sum of the y[x] by at least their whole rise: Chebyshev's
\* sum inequality.
LEMMA Chebyshev ==
    ASSUME NEW k \in Nat, NEW y \in [0..k -> Int],
           NEW A \in [0 .. k + 1 -> Int], NEW B \in [0 .. k + 1 -> Int],
           NEW S \in [0 .. k + 1 -> Int],
           Recurrences(k, y, A, B, S),
           \A m \in 1..k : y[m - 1] <= y[m]
    PROVE  (k + 1) * B[k + 1] - S[k + 1] * A[k + 1] >= y[k] - y[0]
<1> DEFINE After(m) == IF m < k THEN y[m + 1] ELSE y[m]
           T == {m \in Nat : m <= k =>
                   Sums(m + 1, A[m + 1], B[m + 1], S[m + 1], y[0], y[m], After(m))}
<1>0. \A i, j \in 0..k : i <= j => y[i] <= y[j]
    BY Rising
<1>1. ASSUME NEW m \in 0..k
      PROVE  /\ y[m] \in Int /\ After(m) \in Int
             /\ y[0] <= y[m] /\ y[m] <= After(m)
             /\ A[m + 1] \in Int /\ B[m + 1] \in Int /\ S[m + 1] \in Int
    <2>1. y[m] \in Int /\ 0 \in 0..k /\ y[0] <= y[m]
        BY <1>0
    <2>2. m < k => m + 1 \in 0..k
        OBVIOUS
    <2>3. m < k => y[m + 1] \in Int /\ y[m] <= y[m + 1]
        BY <1>0, <2>2
    <2>4. m + 1 \in 0 .. k + 1
        OBVIOUS
    <2>5. y[m] <= y[m]
        BY <2>1
    <2> QED BY <2>1, <2>3, <2>4, <2>5
<1>2. 0 \in T
    <2>1. 0 \in 0..k /\ 0 + 1 = 1
        OBVIOUS
    <2>2. PICK u \in Int, w \in Int : u = y[0] /\ w = After(0)
        BY <1>1, <2>1
    <2>3. A[0 + 1] = A[0] + y[0] /\ B[0 + 1] = B[0] + 0 * y[0] /\ S[0 + 1] = S[0] + 0
          /\ A[0] = 0 /\ B[0] = 0 /\ S[0] = 0
        BY <2>1 DEF Recurrences
    <2>4. A[1] = u /\ B[1] = 0 /\ S[1] = 0
        BY <2>2, <2>3
    <2>5. Sums(0 + 1, A[0 + 1], B[0 + 1], S[0 + 1], y[0], y[0], After(0))
        BY <2>1, <2>2, <2>4, SumsOfOne
    <2> HIDE DEF After
    <2> QED BY <2>5
<1>3. ASSUME NEW l \in Nat, l \in T PROVE l + 1 \in T
    <2> SUFFICES ASSUME l + 1 <= k
                 PROVE  Sums(l + 1 + 1, A[l + 1 + 1], B[l + 1 + 1], S[l + 1 + 1],
                             y[0], y[l + 1], After(l + 1))
        OBVIOUS
    <2>1. PICK m \in 1..k : m = l + 1
        OBVIOUS
    <2>2. l \in 0..k /\ m \in 0..k /\ l < k /\ l <= k
        BY <2>1
    <2>3. PICK a \in Int, b \in Int, s \in Int, u \in Int, t \in Int, v \in Int, w \in Int :
              /\ a = A[m] /\ b = B[m] /\ s = S[m] /\ u = y[0] /\ t = y[l] /\ v = y[m]
              /\ w = After(m)
        <3>1. m \in 0 .. k + 1 /\ 0 \in 0..k
            OBVIOUS
        <3>2. A[m] \in Int /\ B[m] \in Int /\ S[m] \in Int /\ y[0] \in Int
              /\ y[l] \in Int /\ y[m] \in Int
            BY <2>2, <3>1
        <3>3. After(m) \in Int
            BY <1>1, <2>2
        <3> HIDE DEF After
        <3> QED BY <3>2, <3>3
    <2>4. v = After(l)
        BY <2>1, <2>2, <2>3
    <2>5. u <= t /\ t <= v /\ v <= w
        BY <1>1, <2>2, <2>3, <2>4
    <2>6. Sums(l + 1, A[l + 1], B[l + 1], S[l + 1], y[0], y[l], After(l))
        BY <1>3, <2>2
    <2> HIDE DEF After
    <2>7. Sums(m, a, b, s, u, t, v)
        BY <2>1, <2>3, <2>4, <2>6
    <2>8. Sums(m + 1, a + v, b + m * v, s + m, u, v, w)
        BY <2>5, <2>7, SumsOfOneMore
    <2>9. A[m + 1] = a + v /\ B[m + 1] = b + m * v /\ S[m + 1] = s + m
        BY <2>2, <2>3 DEF Recurrences
    <2> QED BY <2>1, <2>3, <2>8, <2>9
<1>4. k \in T
    <2>1. \A m \in Nat : m \in T => m + 1 \in T
        BY <1>3
    <2>2. Nat \subseteq T
        <3> HIDE DEF T
        <3> QED BY <1>2, <2>1, Induct
    <2> QED BY <2>2
<1>5. Sums(k + 1, A[k + 1], B[k + 1], S[k + 1], y[0], y[k], After(k))
    BY <1>4
<1> QED BY <1>5 DEF Sums

\* The numerator of the slope of values that never fall.
LEMMA NumeratorOfRise ==
    ASSUME NEW k \in Nat, NEW y \in [0..k -> Int], \A m \in 1..k : y[m - 1] <= y[m]
    PROVE  (k + 1) * SumFunction([x \in 0..k |-> x * y[x]])
             - SumFunction([x \in 0..k |-> x]) * SumFunction(y) >= y[k] - y[0]
<1> DEFINE xy == [x \in 0..k |-> x * y[x]]
           xs == [x \in 0..k |-> x]
<1>1. xy \in [0..k -> Int] /\ xs \in [0..k -> Int]
    OBVIOUS
<1>2. (\A m \in 0..k : xy[m] = m * y[m]) /\ (\A m \in 0..k : xs[m] = m)
    OBVIOUS
<1> HIDE DEF xy, xs
<1>3. PICK A \in [0 .. k + 1 -> Int] :
          A[0] = 0 /\ (\A m \in 0..k : A[m + 1] = A[m] + y[m]) /\ A[k + 1] = SumFunction(y)
    BY PrefixSums
<1>4. PICK B \in [0 .. k + 1 -> Int] :
          B[0] = 0 /\ (\A m \in 0..k : B[m + 1] = B[m] + xy[m]) /\ B[k + 1] = SumFunction(xy)
    BY <1>1, PrefixSums
<1>5. PICK S \in [0 .. k + 1 -> Int] :
          S[0] = 0 /\ (\A m \in 0..k : S[m + 1] = S[m] + xs[m]) /\ S[k + 1] = SumFunction(xs)
    BY <1>1, PrefixSums
<1>6. Recurrences(k, y, A, B, S)
    BY <1>2, <1>3, <1>4, <1>5 DEF Recurrences
<1>7. (k + 1) * B[k + 1] - S[k + 1] * A[k + 1] >= y[k] - y[0]
    BY <1>6, Chebyshev
<1> QED BY <1>3, <1>4, <1>5, <1>7 DEF xy, xs

LEMMA Negated ==
    ASSUME NEW n \in Int, NEW a \in Int, NEW b \in Int, NEW s \in Int
    PROVE  n * (-b) - s * (-a) = -(n * b - s * a)
OBVIOUS

\* The numerator of the slope of values that never rise.
LEMMA NumeratorOfFall ==
    ASSUME NEW k \in Nat, NEW y \in [0..k -> Int], \A m \in 1..k : y[m] <= y[m - 1]
    PROVE  (k + 1) * SumFunction([x \in 0..k |-> x * y[x]])
             - SumFunction([x \in 0..k |-> x]) * SumFunction(y) <= y[k] - y[0]
<1> DEFINE z == [x \in 0..k |-> -y[x]]
           xy == [x \in 0..k |-> x * y[x]]
           xz == [x \in 0..k |-> x * z[x]]
           xs == [x \in 0..k |-> x]
<1>1. /\ z \in [0..k -> Int] /\ (\A m \in 0..k : z[m] = -y[m] /\ y[m] \in Int)
      /\ xy \in [0..k -> Int] /\ xs \in [0..k -> Int]
    OBVIOUS
<1>2. xz = [x \in 0..k |-> -xy[x]]
    <2> SUFFICES ASSUME NEW x \in 0..k PROVE x * z[x] = -(x * y[x])
        OBVIOUS
    <2>1. PICK v \in Int : v = y[x] /\ z[x] = -v
        BY <1>1
    <2>2. x * (-v) = -(x * v)
        OBVIOUS
    <2> QED BY <2>1, <2>2
<1>3. \A m \in 1..k : z[m - 1] <= z[m]
    <2> SUFFICES ASSUME NEW m \in 1..k PROVE z[m - 1] <= z[m]
        OBVIOUS
    <2>1. m \in 0..k /\ m - 1 \in 0..k
        OBVIOUS
    <2>2. PICK a \in Int, b \in Int : a = y[m - 1] /\ b = y[m] /\ b <= a
        BY <1>1, <2>1
    <2>3. z[m - 1] = -a /\ z[m] = -b
        BY <1>1, <2>1, <2>2
    <2> QED BY <2>2, <2>3
<1>4. (k + 1) * SumFunction(xz) - SumFunction(xs) * SumFunction(z) >= z[k] - z[0]
    <2>1. z \in [0..k -> Int]
        BY <1>1
    <2> HIDE DEF z
    <2> QED BY <1>3, <2>1, NumeratorOfRise
<1>5. /\ SumFunction(y) \in Int /\ SumFunction(z) = -SumFunction(y)
      /\ SumFunction(xy) \in Int /\ SumFunction(xz) = -SumFunction(xy)
      /\ SumFunction(xs) \in Int
    <2>1. SumFunction(y) \in Int /\ SumFunction(z) = -SumFunction(y)
        BY SumNegated
    <2>2. SumFunction(xy) \in Int /\ SumFunction([x \in 0..k |-> -xy[x]]) = -SumFunction(xy)
        <3>1. xy \in [0..k -> Int]
            BY <1>1
        <3> HIDE DEF xy
        <3> QED BY <3>1, SumNegated
    <2>3. SumFunction(xs) \in Int
        <3>1. xs \in [0..k -> Int]
            BY <1>1
        <3> HIDE DEF xs
        <3> QED BY <3>1, SumNegated
    <2> HIDE DEF xz, xy, xs, z
    <2> QED BY <1>2, <2>1, <2>2, <2>3
<1>6. 0 \in 0..k /\ k \in 0..k
    OBVIOUS
<1>7. z[k] = -y[k] /\ z[0] = -y[0] /\ y[k] \in Int /\ y[0] \in Int
    BY <1>1, <1>6
<1> HIDE DEF xz, xy, xs, z
<1>8. PICK a \in Int, b \in Int, s \in Int, v \in Int, u \in Int :
          a = SumFunction(y) /\ b = SumFunction(xy) /\ s = SumFunction(xs)
          /\ v = y[k] /\ u = y[0]
    BY <1>5, <1>7
<1>9. (k + 1) * (-b) - s * (-a) >= (-v) - (-u)
    BY <1>4, <1>5, <1>7, <1>8
<1>10. (k + 1) * (-b) - s * (-a) = -((k + 1) * b - s * a)
    BY Negated
<1>11. PICK d \in Int : d = (k + 1) * b - s * a
    OBVIOUS
<1>12. d <= v - u
    <2>1. -d >= (-v) - (-u)
        BY <1>9, <1>10, <1>11
    <2> QED BY <2>1
<1> QED BY <1>8, <1>11, <1>12 DEF xy, xs

\* The values of a window and their slope.
LEMMA WindowValues ==
    ASSUME TypeOK, NEW k \in Nat, k + 1 <= len
    PROVE  /\ Window(k + 1) \in [0..k -> Int]
           /\ \A x \in 0..k : Window(k + 1)[x] = At(k - x).value
<1>1. (k + 1) - 1 = k
    OBVIOUS
<1>2. Window(k + 1) = [x \in 0..k |-> At(k - x).value]
    BY <1>1 DEF Window
<1>3. len \in Int
    BY CapAssumption DEF TypeOK
<1>4. \A x \in 0..k : k - x \in 0 .. len - 1
    BY <1>3
<1>5. \A x \in 0..k : At(k - x).value \in Int
    BY <1>4, AtTypes
<1> QED BY <1>2, <1>5

\* The numerator in terms of the values of the window.
LEMMA SlopeOfWindow ==
    ASSUME NEW k \in Nat, NEW y \in [0..k -> Int], y = Window(k + 1)
    PROVE  /\ Slope(k + 1) = (k + 1) * SumFunction([x \in 0..k |-> x * y[x]])
                               - SumFunction([x \in 0..k |-> x]) * SumFunction(y)
           /\ Slope(k + 1) \in Int
<1>1. (k + 1) - 1 = k
    OBVIOUS
<1>2. Slope(k + 1) = (k + 1) * SumFunction([x \in 0..k |-> x * y[x]])
                       - SumFunction([x \in 0..k |-> x]) * SumFunction(y)
    BY <1>1, Zenon DEF Slope
<1>3. /\ SumFunction([x \in 0..k |-> x * y[x]]) \in Int
      /\ SumFunction([x \in 0..k |-> x]) \in Int /\ SumFunction(y) \in Int
    <2>1. \A f \in [0..k -> Int] : SumFunction(f) \in Int
        BY SumNegated
    <2>2. [x \in 0..k |-> x * y[x]] \in [0..k -> Int] /\ [x \in 0..k |-> x] \in [0..k -> Int]
        OBVIOUS
    <2> QED BY <2>1, <2>2
<1>4. Slope(k + 1) \in Int
    <2>1. PICK a \in Int, b \in Int, c \in Int :
              /\ a = SumFunction([x \in 0..k |-> x * y[x]])
              /\ b = SumFunction([x \in 0..k |-> x]) /\ c = SumFunction(y)
        BY <1>3
    <2>2. Slope(k + 1) = (k + 1) * a - b * c
        BY <1>2, <2>1
    <2> QED BY <2>2
<1> QED BY <1>2, <1>4

LEMMA SlopeHolds == TypeOK => SlopeFollowsTrend
<1> SUFFICES ASSUME TypeOK, NEW n \in 2..len, At(0).value # At(n - 1).value
             PROVE  /\ (\A i \in 1 .. n - 1 : At(i - 1).value >= At(i).value) => Slope(n) > 0
                    /\ (\A i \in 1 .. n - 1 : At(i - 1).value <= At(i).value) => Slope(n) < 0
    BY DEF SlopeFollowsTrend
<1>1. PICK k \in Nat : n = k + 1 /\ n - 1 = k /\ k + 1 <= len
    <2>1. n - 1 \in Nat /\ n = (n - 1) + 1 /\ n <= len
        BY CapAssumption DEF TypeOK
    <2> QED BY <2>1
<1>2. PICK y \in [0..k -> Int] : y = Window(k + 1)
    BY <1>1, WindowValues
<1>3. /\ Slope(k + 1) = (k + 1) * SumFunction([x \in 0..k |-> x * y[x]])
                           - SumFunction([x \in 0..k |-> x]) * SumFunction(y)
      /\ Slope(k + 1) \in Int
    BY <1>2, SlopeOfWindow
<1>4. /\ y \in [0..k -> Int]
      /\ \A x \in 0..k : y[x] = At(k - x).value
      /\ y[0] = At(k).value /\ y[k] = At(0).value
    <2>1. \A x \in 0..k : y[x] = At(k - x).value
        BY <1>1, <1>2, WindowValues
    <2>2. k - 0 = k /\ k - k = 0 /\ 0 \in 0..k /\ k \in 0..k
        OBVIOUS
    <2> QED BY <1>2, <2>1, <2>2
<1>5. 0 \in 0..k /\ k \in 0..k /\ y[0] \in Int /\ y[k] \in Int /\ y[0] # y[k]
    <2>1. 0 \in 0..k /\ k \in 0..k
        OBVIOUS
    <2> QED BY <1>1, <1>4, <2>1
<1>6. ASSUME NEW m \in 1..k
      PROVE  /\ k - m + 1 \in 1..k /\ m - 1 \in 0..k /\ m \in 0..k
             /\ y[m - 1] = At(k - m + 1).value /\ y[m] = At((k - m + 1) - 1).value
             /\ y[m - 1] \in Int /\ y[m] \in Int
    <2>1. /\ k - m + 1 \in 1..k /\ m - 1 \in 0..k /\ m \in 0..k
          /\ k - (m - 1) = k - m + 1 /\ k - m = (k - m + 1) - 1
        OBVIOUS
    <2> QED BY <1>4, <2>1
<1>7. ASSUME \A i \in 1 .. n - 1 : At(i - 1).value >= At(i).value
      PROVE  Slope(n) > 0
    <2>1. \A m \in 1..k : y[m - 1] <= y[m]
        BY <1>1, <1>6, <1>7
    <2>2. \A i, j \in 0..k : i <= j => y[i] <= y[j]
        BY <1>4, <2>1, Rising
    <2>3. Slope(k + 1) >= y[k] - y[0]
        BY <1>3, <1>4, <2>1, NumeratorOfRise
    <2>4. y[0] <= y[k]
        BY <1>5, <2>2
    <2> QED BY <1>1, <1>3, <1>5, <2>3, <2>4
<1>8. ASSUME \A i \in 1 .. n - 1 : At(i - 1).value <= At(i).value
      PROVE  Slope(n) < 0
    <2>1. \A m \in 1..k : y[m] <= y[m - 1]
        BY <1>1, <1>6, <1>8
    <2>2. y[k] <= y[0]
        <3> DEFINE z == [x \in 0..k |-> -y[x]]
        <3>1. z \in [0..k -> Int] /\ \A m \in 0..k : z[m] = -y[m] /\ y[m] \in Int
            BY <1>4
        <3> HIDE DEF z
        <3>2. \A m \in 1..k : z[m - 1] <= z[m]
            <4> SUFFICES ASSUME NEW m \in 1..k PROVE z[m - 1] <= z[m]
                OBVIOUS
            <4>1. PICK a \in Int, b \in Int : a = y[m - 1] /\ b = y[m]
                BY <1>6
            <4>2. b <= a /\ z[m - 1] = -a /\ z[m] = -b
                BY <1>6, <2>1, <3>1, <4>1
            <4> QED BY <4>2
        <3>3. \A i, j \in 0..k : i <= j => z[i] <= z[j]
            BY <3>1, <3>2, Rising
        <3>4. z[0] <= z[k] /\ z[0] = -y[0] /\ z[k] = -y[k]
            BY <1>5, <3>1, <3>3
        <3> QED BY <1>5, <3>4
    <2>3. Slope(k + 1) <= y[k] - y[0]
        BY <1>3, <1>4, <2>1, NumeratorOfFall
    <2> QED BY <1>1, <1>3, <1>5, <2>2, <2>3
<1> QED BY <1>7, <1>8

\* Slope has the sign of the trend, for every capacity, every window and any
\* prices (pricebuf.go:73).
THEOREM SlopeCorrect == Spec => []SlopeFollowsTrend
BY BufferTypes, SlopeHolds, PTL
=============================================================================
