----------------------------- MODULE ClockProofs -----------------------------
(***************************************************************************)
(* The RTC and the blinking that its ticks drive.  For every pair of       *)
(* frequencies and every sequence of opens, writes and interrupts: the     *)
(* counter of rtc.c stays below the period in force, and no tick is handed *)
(* out twice.  For every number of structures and cells, every period and  *)
(* every order of calls: the list of blink.S holds exactly the structures  *)
(* taken, and each counts down within its phase and shows it.  The walk of *)
(* the list is a recursive function; what it computes is shown by taking   *)
(* the least length at which it would fail.                                *)
(***************************************************************************)
EXTENDS Rtc, Blink, TLAPS, WellFoundedInduction, FiniteSetTheorems

\* A higher frequency has a shorter period, and none has a period of zero.
LEMMA PeriodBounds ==
    ASSUME NEW m \in Nat, NEW b \in Nat, NEW f \in Nat, 1 <= b, b <= f, f <= m
    PROVE  m \div f \in 1..(m \div b)
<1>1. m \div f \in Nat /\ m \div b \in Nat
  OBVIOUS
<1> DEFINE p == m \div f
           q == m \div b
<1>2. p * f <= m /\ m < (p + 1) * f /\ q * b <= m /\ m < (q + 1) * b
  OBVIOUS
<1>3. p >= 1
  BY <1>1, <1>2
<1>4. p <= q
  BY <1>1, <1>2
<1> QED
  BY <1>1, <1>3, <1>4

\* The period of the base frequency is the longest.
LEMMA BasePeriod == RTC_MAX_FREQ \div RTC_BASE_FREQ \in 1..(RTC_MAX_FREQ \div RTC_BASE_FREQ)
  BY RtcAssumption, PeriodBounds

\* The invariant: rtc_open leaves the counter running and lengthens the period to that of
\* the base frequency, so the counter is safe only because no period is longer.
RtcInv ==
    /\ rtc_counter \in Nat
    /\ rtc_max_count \in 1..(RTC_MAX_FREQ \div RTC_BASE_FREQ)
    /\ CounterBelowMax

\* The initial period is that of the base frequency.
LEMMA RtcInit == Init => RtcInv
  BY BasePeriod, RtcAssumption DEF Init, RtcInv, CounterBelowMax

\* Every call, interrupt and step of a read preserves it.
LEMMA RtcNext == RtcInv /\ [Next]_vars => RtcInv'
<1> SUFFICES ASSUME RtcInv, [Next]_vars PROVE RtcInv'
  OBVIOUS
<1> USE DEF RtcInv, CounterBelowMax
<1>1. CASE rtc_init
  BY <1>1, BasePeriod, RtcAssumption DEF rtc_init
<1>2. CASE \E freq \in Freqs, nbytes \in {3, 4} : rtc_write(freq, nbytes)
  <2>1. PICK freq \in Freqs, nbytes \in {3, 4} : rtc_write(freq, nbytes)
    BY <1>2
  <2>2. CASE nbytes = 4 /\ Accepted(freq)
    <3>1. RTC_MAX_FREQ \div freq \in 1..(RTC_MAX_FREQ \div RTC_BASE_FREQ)
      BY <2>2, RtcAssumption, PeriodBounds, Zenon DEF Accepted
    <3>2. rtc_max_count' = RTC_MAX_FREQ \div freq /\ rtc_counter' = 0
      BY <2>1, <2>2 DEF rtc_write, SetFreq
    <3> QED
      BY <3>1, <3>2
  <2>3. CASE ~(nbytes = 4 /\ Accepted(freq))
    BY <2>1, <2>3 DEF rtc_write
  <2> QED
    BY <2>2, <2>3
<1>3. CASE rtc_open
  BY <1>3, BasePeriod, RtcAssumption DEF rtc_open
<1>4. CASE ReadEnter \/ ReadSteps
  BY <1>4 DEF ReadEnter, ReadSteps, ReadSti, ReadWait, ReadClear
<1>5. CASE Raise
  BY <1>5 DEF Raise
<1>6. CASE rtc_handler
  BY <1>6 DEF rtc_handler, Due, Acknowledge
<1>7. CASE UNCHANGED vars
  BY <1>7 DEF vars
<1> QED
  BY <1>1, <1>2, <1>3, <1>4, <1>5, <1>6, <1>7 DEF Next

\* For all frequencies: rtc_counter never reaches rtc_max_count between interrupts, so the
\* next tick rtc_read waits for is at most one period of the current rate away.
THEOREM NextTickWithinPeriod == Spec => []CounterBelowMax
<1>1. RtcInv => CounterBelowMax
  BY DEF RtcInv
<1> QED
  BY <1>1, RtcInit, RtcNext, PTL DEF Spec

-------------------------------------------------------------------------------
\* A step other than the interrupt handler sets neither the flag nor, without having seen
\* it, the place behind the wait loop; the handler sets the flag on a new tick only.
LEMMA TickNext == OneReadPerTick /\ [Next]_vars => OneReadPerTick'
<1> SUFFICES ASSUME OneReadPerTick, [Next]_vars PROVE OneReadPerTick'
  OBVIOUS
<1> USE DEF OneReadPerTick
<1>1. CASE rtc_init
  BY <1>1, Zenon DEF rtc_init
<1>2. CASE \E freq \in Freqs, nbytes \in {3, 4} : rtc_write(freq, nbytes)
  BY <1>2 DEF rtc_write
<1>3. CASE rtc_open
  BY <1>3 DEF rtc_open
<1>4. CASE ReadEnter
  BY <1>4, Zenon DEF ReadEnter
<1>5. CASE ReadSteps
  BY <1>5 DEF ReadSteps, ReadSti, ReadWait, ReadClear
<1>6. CASE Raise
  BY <1>6, Zenon DEF Raise
<1>7. CASE rtc_handler
  BY <1>7, Zenon DEF rtc_handler
<1>8. CASE UNCHANGED vars
  BY <1>8, Zenon DEF vars
<1> QED
  BY <1>1, <1>2, <1>3, <1>4, <1>5, <1>6, <1>7, <1>8 DEF Next

\* Between two reads that return there is a tick of the divided clock, wherever the
\* interrupt falls between the wait loop of rtc_read and the clearing of its flag.
THEOREM TickUsedOnce == Spec => []OneReadPerTick
<1>1. Init => OneReadPerTick
  BY DEF Init, OneReadPerTick
<1> QED
  BY <1>1, TickNext, PTL DEF Spec

-------------------------------------------------------------------------------
\* A nonempty set of naturals has a least element.
LEMMA LeastElement ==
    ASSUME NEW T, T \subseteq Nat, T # {}
    PROVE  \E x \in T : \A y \in T : x <= y
<1>1. PICK x \in T : \A y \in T : ~(<<y, x>> \in OpToRel(<, Nat))
  BY NatLessThanWellFounded, WFMin, Zenon
<1>2. \A y \in T : x <= y
  <2> TAKE y \in T
  <2>1. <<y, x>> \in Nat \X Nat /\ <<y, x>>[1] = y /\ <<y, x>>[2] = x
    OBVIOUS
  <2>2. y < x => <<y, x>> \in OpToRel(<, Nat)
    BY <2>1 DEF OpToRel
  <2>3. ~(y < x)
    BY <1>1, <2>2, Zenon
  <2>4. x \in Nat /\ y \in Nat
    OBVIOUS
  <2> QED
    BY <2>3, <2>4
<1> QED
  BY <1>2

\* A prefix of a sequence, element by element.
LEMMA PrefixIs ==
    ASSUME NEW S, NEW s \in Seq(S), NEW k \in Nat, k <= Len(s)
    PROVE  /\ SubSeq(s, 1, k) \in Seq(S) /\ Len(SubSeq(s, 1, k)) = k
           /\ \A j \in 1..k : SubSeq(s, 1, k)[j] = s[j]
<1>1. Len(s) \in Nat /\ \A j \in 1..Len(s) : s[j] \in S
  OBVIOUS
<1>2. SubSeq(s, 1, k) = [j \in 1..k |-> s[j]]
  BY <1>1
<1>3. [j \in 1..k |-> s[j]] \in Seq(S)
  BY <1>1
<1>4. Len([j \in 1..k |-> s[j]]) = k
  OBVIOUS
<1> QED
  BY <1>2, <1>3, <1>4

\* Sequences of one length with the same elements are equal.
LEMMA SameSequence ==
    ASSUME NEW S, NEW s \in Seq(S), NEW t \in Seq(S), Len(s) = Len(t),
           \A j \in 1..Len(s) : s[j] = t[j]
    PROVE  s = t
  OBVIOUS

\* The structure a walk w comes to next, and whether it ends there.
NextOf(arr, head, w) == IF w = <<>> THEN head ELSE arr[w[Len(w)]].next
Ends(arr, head, w) == NextOf(arr, head, w) = Null \/ Len(w) > SLOTS
Links(arr, head) ==
    /\ head \in Slots \cup {Null}
    /\ \A s \in Slots : arr[s].next \in Slots \cup {Null}

\* v is the walk w gone on with until it ends.
GoesOnTo(arr, head, w, v) ==
    /\ Len(w) <= Len(v)
    /\ \A j \in 1..Len(w) : v[j] = w[j]
    /\ \A j \in Len(w)..(Len(v) - 1) :
          /\ ~Ends(arr, head, SubSeq(v, 1, j))
          /\ v[j + 1] = NextOf(arr, head, SubSeq(v, 1, j))
    /\ Ends(arr, head, v)

\* A walk that ends goes on to itself only.
LEMMA EndedWalk ==
    ASSUME NEW arr, NEW head, NEW w \in Seq(Slots), NEW v \in Seq(Slots), Ends(arr, head, w)
    PROVE  GoesOnTo(arr, head, w, v) <=> v = w
<1>1. ASSUME GoesOnTo(arr, head, w, v) PROVE v = w
  <2>1. /\ Len(w) <= Len(v) /\ \A j \in 1..Len(w) : v[j] = w[j]
        /\ \A j \in Len(w)..(Len(v) - 1) : ~Ends(arr, head, SubSeq(v, 1, j))
    BY <1>1 DEF GoesOnTo
  <2>2. SubSeq(v, 1, Len(w)) = w
    <3>1. /\ SubSeq(v, 1, Len(w)) \in Seq(Slots) /\ Len(SubSeq(v, 1, Len(w))) = Len(w)
          /\ \A j \in 1..Len(w) : SubSeq(v, 1, Len(w))[j] = v[j]
      BY <2>1, PrefixIs
    <3> QED
      BY <2>1, <3>1, SameSequence
  <2>3. Len(v) = Len(w)
    <3>1. Len(w) \notin Len(w)..(Len(v) - 1)
      BY <2>1, <2>2
    <3> QED
      BY <2>1, <3>1
  <2> QED
    BY <2>1, <2>3, SameSequence
<1>2. GoesOnTo(arr, head, w, w)
  BY DEF GoesOnTo
<1> QED
  BY <1>1, <1>2

\* A walk that does not end goes on as its next step does.
LEMMA StepOfWalk ==
    ASSUME NEW arr, NEW head, NEW w \in Seq(Slots), NEW v \in Seq(Slots),
           ~Ends(arr, head, w), NextOf(arr, head, w) \in Slots
    PROVE  GoesOnTo(arr, head, w, v) <=> GoesOnTo(arr, head, Append(w, NextOf(arr, head, w)), v)
<1> DEFINE p == NextOf(arr, head, w)
           u == Append(w, p)
           n == Len(w)
<1>1. /\ u \in Seq(Slots) /\ Len(u) = n + 1 /\ u[n + 1] = p /\ n \in Nat /\ Len(v) \in Nat
      /\ \A j \in 1..n : u[j] = w[j]
  OBVIOUS
<1> HIDE DEF p, u, n
<1>2. ASSUME \A j \in 1..n : v[j] = w[j], n <= Len(v) PROVE SubSeq(v, 1, n) = w
  <2>1. /\ SubSeq(v, 1, n) \in Seq(Slots) /\ Len(SubSeq(v, 1, n)) = n
        /\ \A j \in 1..n : SubSeq(v, 1, n)[j] = v[j]
    BY <1>1, <1>2, PrefixIs
  <2> QED
    BY <1>2, <2>1, SameSequence DEF n
<1>3. ASSUME GoesOnTo(arr, head, w, v) PROVE GoesOnTo(arr, head, u, v)
  <2>1. /\ n <= Len(v) /\ \A j \in 1..n : v[j] = w[j]
        /\ \A j \in n..(Len(v) - 1) :
              /\ ~Ends(arr, head, SubSeq(v, 1, j))
              /\ v[j + 1] = NextOf(arr, head, SubSeq(v, 1, j))
        /\ Ends(arr, head, v)
    BY <1>3 DEF GoesOnTo, n
  <2>2. SubSeq(v, 1, n) = w
    BY <1>2, <2>1
  <2>3. v # w
    BY <2>1
  <2>4. Len(v) # n
    BY <1>1, <2>1, <2>3, SameSequence DEF n
  <2>5. n \in n..(Len(v) - 1) /\ n + 1 <= Len(v)
    BY <1>1, <2>1, <2>4
  <2>6. v[n + 1] = p
    BY <2>1, <2>2, <2>5 DEF p
  <2>7. \A j \in 1..(n + 1) : v[j] = u[j]
    BY <1>1, <2>1, <2>6
  <2>8. \A j \in (n + 1)..(Len(v) - 1) : j \in n..(Len(v) - 1)
    BY <1>1
  <2> QED
    BY <1>1, <2>1, <2>5, <2>7, <2>8 DEF GoesOnTo
<1>4. ASSUME GoesOnTo(arr, head, u, v) PROVE GoesOnTo(arr, head, w, v)
  <2>1. /\ n + 1 <= Len(v) /\ \A j \in 1..(n + 1) : v[j] = u[j]
        /\ \A j \in (n + 1)..(Len(v) - 1) :
              /\ ~Ends(arr, head, SubSeq(v, 1, j))
              /\ v[j + 1] = NextOf(arr, head, SubSeq(v, 1, j))
        /\ Ends(arr, head, v)
    BY <1>1, <1>4 DEF GoesOnTo
  <2>2. \A j \in 1..n : v[j] = w[j]
    BY <1>1, <2>1
  <2>3. SubSeq(v, 1, n) = w
    BY <1>1, <1>2, <2>1, <2>2
  <2>4. v[n + 1] = NextOf(arr, head, SubSeq(v, 1, n)) /\ ~Ends(arr, head, SubSeq(v, 1, n))
    <3>1. v[n + 1] = u[n + 1]
      BY <1>1, <2>1
    <3> QED
      BY <1>1, <2>3, <3>1 DEF p
  <2>5. \A j \in n..(Len(v) - 1) : j = n \/ j \in (n + 1)..(Len(v) - 1)
    BY <1>1
  <2>6. \A j \in n..(Len(v) - 1) :
              /\ ~Ends(arr, head, SubSeq(v, 1, j))
              /\ v[j + 1] = NextOf(arr, head, SubSeq(v, 1, j))
    BY <2>1, <2>4, <2>5
  <2> QED
    BY <1>1, <2>1, <2>2, <2>6 DEF GoesOnTo, n
<1> QED
  BY <1>3, <1>4 DEF u, p

\* The function Walk is defined with exists, and obeys its recursion.
LEMMA WalkRecursion ==
    ASSUME NEW arr, NEW head, Links(arr, head)
    PROVE  \E F : /\ Walk(arr, head) = F[<<>>]
                  /\ \A w \in Seq(Slots) :
                        F[w] = IF Ends(arr, head, w) THEN w
                               ELSE F[Append(w, NextOf(arr, head, w))]
<1> DEFINE Body(F) ==
             [w \in Seq(Slots) |->
                LET p == IF w = <<>> THEN head ELSE arr[w[Len(w)]].next
                IN  IF p = Null \/ Len(w) > SLOTS THEN w ELSE F[Append(w, p)]]
           from == CHOOSE F : F = Body(F)
<1>1. Walk(arr, head) = from[<<>>]
  BY Zenon DEF Walk
<1>2. \A F : Body(F) = [w \in Seq(Slots) |-> IF Ends(arr, head, w) THEN w
                                             ELSE F[Append(w, NextOf(arr, head, w))]]
  BY Zenon DEF Ends, NextOf
<1> HIDE DEF Body
<1> DEFINE G == [w \in Seq(Slots) |-> CHOOSE v \in Seq(Slots) : GoesOnTo(arr, head, w, v)]
<1>3. ASSUME NEW w \in Seq(Slots)
      PROVE  G[w] = IF Ends(arr, head, w) THEN w ELSE G[Append(w, NextOf(arr, head, w))]
  <2>1. CASE Ends(arr, head, w)
    <3>1. \A v \in Seq(Slots) : GoesOnTo(arr, head, w, v) <=> v = w
      BY <2>1, EndedWalk, Zenon
    <3>2. (CHOOSE v \in Seq(Slots) : GoesOnTo(arr, head, w, v)) = w
      BY <3>1
    <3> QED
      BY <2>1, <3>2, Zenon
  <2>2. CASE ~Ends(arr, head, w)
    <3> DEFINE u == Append(w, NextOf(arr, head, w))
    <3>1. NextOf(arr, head, w) \in Slots
      <4>1. NextOf(arr, head, w) \in Slots \cup {Null}
        BY DEF NextOf, Links
      <4> QED
        BY <2>2, <4>1 DEF Ends
    <3>2. u \in Seq(Slots)
      BY <3>1
    <3>3. \A v \in Seq(Slots) : GoesOnTo(arr, head, w, v) <=> GoesOnTo(arr, head, u, v)
      BY <2>2, <3>1, StepOfWalk, Zenon
    <3>4. (CHOOSE v \in Seq(Slots) : GoesOnTo(arr, head, w, v))
          = CHOOSE v \in Seq(Slots) : GoesOnTo(arr, head, u, v)
      BY <3>3
    <3>5. /\ G[w] = CHOOSE v \in Seq(Slots) : GoesOnTo(arr, head, w, v)
          /\ G[u] = CHOOSE v \in Seq(Slots) : GoesOnTo(arr, head, u, v)
      BY <3>2
    <3> HIDE DEF G
    <3> QED
      BY <2>2, <3>4, <3>5, Zenon
  <2> QED
    BY <2>1, <2>2, Zenon
<1>4. G = Body(G)
  <2> DEFINE H == [w \in Seq(Slots) |-> IF Ends(arr, head, w) THEN w
                                       ELSE G[Append(w, NextOf(arr, head, w))]]
  <2>1. G = [w \in Seq(Slots) |-> G[w]]
    OBVIOUS
  <2>2. Body(G) = H
    BY <1>2, Zenon
  <2> HIDE DEF G
  <2>3. \A w \in Seq(Slots) : G[w] = H[w]
    BY <1>3, Zenon
  <2>4. H = [w \in Seq(Slots) |-> H[w]]
    BY Zenon
  <2> HIDE DEF H
  <2> QED
    BY <2>1, <2>2, <2>3, <2>4, Zenon
<1>5. from = Body(from)
  BY <1>4, Zenon
<1> HIDE DEF from
<1>6. \A w \in Seq(Slots) : Body(from)[w] = IF Ends(arr, head, w) THEN w
                                            ELSE from[Append(w, NextOf(arr, head, w))]
  BY <1>2, Zenon
<1> QED
  BY <1>1, <1>5, <1>6, Zenon

\* The sequence l follows the next fields from the head to the end.
Chain(arr, head, l) ==
    /\ l = <<>> => head = Null
    /\ l # <<>> => head = l[1] /\ arr[l[Len(l)]].next = Null
    /\ \A j \in 1..(Len(l) - 1) : arr[l[j]].next = l[j + 1]

Once(l) == \A j, m \in 1..Len(l) : l[j] = l[m] => j = m

\* A list that passes each structure once is no longer than the array.
LEMMA OnceIsShort ==
    ASSUME NEW l \in Seq(Slots), Once(l)
    PROVE  Len(l) <= SLOTS
<1>1. SLOTS \in Nat /\ Len(l) \in Nat /\ l \in [1..Len(l) -> Slots]
  BY BlinkAssumption
<1>2. /\ IsFiniteSet(1..Len(l)) /\ IsFiniteSet(0..(SLOTS - 1))
      /\ Cardinality(1..Len(l)) = IF 1 > Len(l) THEN 0 ELSE Len(l) - 1 + 1
      /\ Cardinality(0..(SLOTS - 1)) = IF 0 > SLOTS - 1 THEN 0 ELSE SLOTS - 1 - 0 + 1
  <2>1. 0 \in Int /\ 1 \in Int /\ Len(l) \in Int /\ SLOTS - 1 \in Int
    BY <1>1
  <2> QED
    BY <2>1, FS_Interval, Zenon
<1>3. Cardinality(1..Len(l)) = Len(l) /\ Cardinality(Slots) = SLOTS /\ IsFiniteSet(Slots)
  BY <1>1, <1>2 DEF Slots
<1>4. ~(Cardinality(Slots) < Cardinality(1..Len(l)))
  <2>1. SUFFICES ASSUME Cardinality(Slots) < Cardinality(1..Len(l)) PROVE FALSE
    OBVIOUS
  <2>2. \E x, y \in 1..Len(l) : x # y /\ l[x] = l[y]
    BY <1>1, <1>2, <1>3, <2>1, FS_PigeonHole, Zenon
  <2> QED
    BY <2>2, Zenon DEF Once
<1> QED
  BY <1>1, <1>3, <1>4

\* A list that follows the next fields and passes each structure once is the one walked.
LEMMA WalkIs ==
    ASSUME NEW arr, NEW head, Links(arr, head),
           NEW l \in Seq(Slots), Chain(arr, head, l), Once(l)
    PROVE  Walk(arr, head) = l
<1>1. PICK F : /\ Walk(arr, head) = F[<<>>]
               /\ \A w \in Seq(Slots) :
                     F[w] = IF Ends(arr, head, w) THEN w
                            ELSE F[Append(w, NextOf(arr, head, w))]
  BY WalkRecursion, Zenon
<1> DEFINE n == Len(l)
           Bad == {k \in Nat : k <= n /\ F[SubSeq(l, 1, n - k)] # l}
<1>2. n \in Nat /\ SLOTS \in Nat /\ n <= SLOTS /\ \A j \in 1..n : l[j] \in Slots /\ l[j] # Null
  <2>1. n \in Nat /\ \A j \in 1..n : l[j] \in Slots
    OBVIOUS
  <2>2. n <= SLOTS /\ SLOTS \in Nat
    BY BlinkAssumption, OnceIsShort, Zenon
  <2>3. Null \notin Slots
    BY DEF Slots, Null
  <2> QED
    BY <2>1, <2>2, <2>3, Zenon
<1>3. ASSUME Bad # {} PROVE FALSE
  <2>1. PICK k \in Bad : \A y \in Bad : k <= y
    <3>1. Bad \subseteq Nat
      OBVIOUS
    <3> HIDE DEF Bad
    <3> QED
      BY <1>3, <3>1, LeastElement, Zenon
  <2>2. k \in Nat /\ k <= n /\ F[SubSeq(l, 1, n - k)] # l
    BY <2>1
  <2> DEFINE w == SubSeq(l, 1, n - k)
  <2>3. w \in Seq(Slots) /\ Len(w) = n - k /\ \A j \in 1..(n - k) : w[j] = l[j]
    <3>1. n - k \in Nat /\ n - k <= Len(l)
      BY <1>2, <2>2
    <3> HIDE DEF n
    <3> QED
      BY <3>1, PrefixIs, Zenon
  <2>4. CASE k = 0
    <3>1. w = l
      BY <1>2, <2>3, <2>4, SameSequence
    <3>2. NextOf(arr, head, l) = Null
      BY DEF NextOf, Chain
    <3>3. F[l] = l
      BY <1>1, <3>2, Zenon DEF Ends
    <3> QED
      BY <2>2, <3>1, <3>3, Zenon
  <2>5. CASE k # 0
    <3> DEFINE x == l[n - k + 1]
               u == SubSeq(l, 1, n - (k - 1))
    <3>1. k - 1 \in Nat /\ k - 1 <= n /\ k - 1 \notin Bad
      BY <1>2, <2>1, <2>2, <2>5
    <3>2. F[u] = l
      BY <3>1
    <3>3. NextOf(arr, head, w) = x
      <4>1. CASE k = n
        <5>1. w = <<>> /\ l # <<>>
          BY <1>2, <2>2, <2>3, <2>5, <4>1
        <5> QED
          BY <1>2, <4>1, <5>1 DEF NextOf, Chain
      <4>2. CASE k # n
        <5>1. n - k \in 1..(n - 1) /\ w # <<>> /\ w[n - k] = l[n - k]
          <6>1. n - k \in 1..(n - 1) /\ n - k \in 1..(n - k)
            BY <1>2, <2>2, <2>5, <4>2
          <6>2. w[n - k] = l[n - k]
            BY <2>3, <6>1, Zenon
          <6>3. Len(w) # 0
            BY <2>3, <6>1
          <6> QED
            BY <6>1, <6>2, <6>3
        <5>2. arr[l[n - k]].next = l[n - k + 1]
          BY <5>1 DEF Chain
        <5> HIDE DEF w, n
        <5> QED
          BY <2>3, <5>1, <5>2, Zenon DEF NextOf
      <4> QED
        BY <4>1, <4>2
    <3>4. n - k + 1 \in 1..n /\ x \in Slots /\ x # Null
      BY <1>2, <2>2, <2>5
    <3>5. ~Ends(arr, head, w)
      BY <1>2, <2>2, <2>3, <3>3, <3>4 DEF Ends
    <3>6. Append(w, x) = u
      <4>1. n - (k - 1) \in Nat /\ n - (k - 1) <= Len(l) /\ n - (k - 1) = n - k + 1
        BY <1>2, <2>2, <2>5
      <4>2. /\ u \in Seq(Slots) /\ Len(u) = n - k + 1 /\ \A j \in 1..(n - k + 1) : u[j] = l[j]
        BY <4>1, PrefixIs
      <4>3. /\ Append(w, x) \in Seq(Slots) /\ Len(Append(w, x)) = n - k + 1
            /\ \A j \in 1..(n - k + 1) : Append(w, x)[j] = l[j]
        <5>1. Append(w, x) \in Seq(Slots) /\ Len(Append(w, x)) = Len(w) + 1
          BY <2>3, <3>4
        <5>2. \A j \in 1..Len(w) : Append(w, x)[j] = w[j]
          BY <2>3
        <5>3. Append(w, x)[Len(w) + 1] = x
          BY <2>3
        <5> HIDE DEF w, n
        <5> QED
          BY <1>2, <2>2, <2>3, <5>1, <5>2, <5>3
      <4> HIDE DEF u, x, w, n
      <4> QED
        BY <4>2, <4>3, SameSequence
    <3> HIDE DEF w, x, u
    <3>7. F[w] = F[Append(w, x)]
      BY <1>1, <2>3, <3>3, <3>5, Zenon
    <3> QED
      BY <2>2, <3>2, <3>6, <3>7, Zenon DEF w
  <2> QED
    BY <2>4, <2>5
<1>4. F[SubSeq(l, 1, n - n)] = l
  BY <1>2, <1>3
<1>5. SubSeq(l, 1, n - n) = <<>>
  BY <1>2
<1> QED
  BY <1>1, <1>4, <1>5, Zenon

\* s is one of the structures of the list l.
On(l, s) == \E j \in 1..Len(l) : l[j] = s

\* A structure put in front of a list makes a list.
LEMMA AddChain ==
    ASSUME NEW arr, NEW head, NEW l \in Seq(Slots), Chain(arr, head, l), Once(l),
           NEW p \in Slots, ~On(l, p),
           NEW arr2, arr2[p].next = head,
           \A s \in Slots : s # p => arr2[s].next = arr[s].next
    PROVE  \E m \in Seq(Slots) : /\ Chain(arr2, p, m) /\ Once(m)
                                 /\ \A s : On(m, s) <=> s = p \/ On(l, s)
<1> DEFINE n == Len(l)
           m == [j \in 1..(n + 1) |-> IF j = 1 THEN p ELSE l[j - 1]]
<1>1. n \in Nat /\ \A j \in 1..n : l[j] \in Slots /\ l[j] # p
  BY DEF On
<1>2. m \in Seq(Slots) /\ Len(m) = n + 1
  <2>1. m \in [1..(n + 1) -> Slots]
    BY <1>1
  <2> QED
    BY <1>1, <2>1
<1>3. m[1] = p /\ \A j \in 2..(n + 1) : m[j] = l[j - 1] /\ j - 1 \in 1..n
  BY <1>1
<1>4. \A j \in 1..(n + 1) : j = 1 \/ j \in 2..(n + 1)
  BY <1>1
<1> HIDE DEF m
<1>5. Once(m)
  <2> SUFFICES ASSUME NEW j \in 1..(n + 1), NEW k \in 1..(n + 1), m[j] = m[k]
               PROVE  j = k
    BY <1>2 DEF Once
  <2>1. CASE j = 1 \/ k = 1
    BY <1>1, <1>3, <1>4, <2>1
  <2>2. CASE j # 1 /\ k # 1
    <3>1. /\ j \in 2..(n + 1) /\ k \in 2..(n + 1)
          /\ j - 1 \in 1..n /\ k - 1 \in 1..n /\ l[j - 1] = l[k - 1]
      BY <1>3, <1>4, <2>2
    <3>2. j - 1 = k - 1
      BY <3>1, Zenon DEF Once
    <3> QED
      BY <3>1, <3>2
  <2> QED
    BY <2>1, <2>2
<1>6. \A s : On(m, s) <=> s = p \/ On(l, s)
  <2>1. ASSUME NEW s, On(m, s) PROVE s = p \/ On(l, s)
    <3>1. PICK j \in 1..(n + 1) : m[j] = s
      BY <1>2, <2>1 DEF On
    <3>2. CASE j = 1
      BY <1>3, <3>1, <3>2
    <3>3. CASE j # 1
      <4>1. j - 1 \in 1..n /\ l[j - 1] = s
        BY <1>3, <1>4, <3>1, <3>3
      <4> QED
        BY <4>1 DEF On
    <3> QED
      BY <3>2, <3>3
  <2>2. On(m, p)
    BY <1>1, <1>2, <1>3 DEF On
  <2>3. ASSUME NEW s, On(l, s) PROVE On(m, s)
    <3>1. PICK j \in 1..n : l[j] = s
      BY <2>3 DEF On
    <3>2. j + 1 \in 2..(n + 1) /\ j + 1 - 1 = j /\ j + 1 \in 1..(n + 1)
      BY <1>1
    <3>3. m[j + 1] = s
      BY <1>3, <3>1, <3>2
    <3> QED
      BY <1>2, <3>2, <3>3 DEF On
  <2> QED
    BY <2>1, <2>2, <2>3, Zenon
<1>7. Chain(arr2, p, m)
  <2>1. m # <<>> /\ p = m[1]
    BY <1>1, <1>2, <1>3
  <2>2. arr2[m[n + 1]].next = Null
    <3>1. CASE n = 0
      BY <1>1, <1>3, <3>1 DEF Chain
    <3>2. CASE n # 0
      <4>1. n + 1 \in 2..(n + 1) /\ n + 1 - 1 = n /\ n \in 1..n /\ l # <<>>
        BY <1>1, <3>2
      <4>2. m[n + 1] = l[n] /\ arr[l[n]].next = Null
        BY <1>3, <4>1 DEF Chain
      <4> QED
        BY <1>1, <4>1, <4>2
    <3> QED
      BY <3>1, <3>2
  <2>3. ASSUME NEW j \in 1..n PROVE arr2[m[j]].next = m[j + 1]
    <3>1. j + 1 \in 2..(n + 1) /\ j + 1 - 1 = j /\ m[j + 1] = l[j]
      BY <1>1, <1>3
    <3>2. CASE j = 1
      BY <1>1, <1>3, <3>1, <3>2 DEF Chain
    <3>3. CASE j # 1
      <4>1. j \in 2..(n + 1) /\ j - 1 \in 1..(n - 1) /\ j - 1 \in 1..n /\ j - 1 + 1 = j
        BY <1>1, <3>3
      <4>2. m[j] = l[j - 1] /\ arr[l[j - 1]].next = l[j]
        BY <1>3, <4>1 DEF Chain
      <4> QED
        BY <1>1, <3>1, <4>1, <4>2
    <3> QED
      BY <3>2, <3>3
  <2>4. Len(m) = n + 1 /\ Len(m) - 1 = n
    BY <1>1, <1>2
  <2> HIDE DEF n
  <2> QED
    BY <2>1, <2>2, <2>3, <2>4, Zenon DEF Chain
<1> QED
  BY <1>2, <1>5, <1>6, <1>7, Zenon

\* The i-th of the list l is taken out: what led to it takes over its successor.
CutOut(arr, head, l, i, arr2, head2) ==
    /\ i = 1 => head2 = arr[l[i]].next
    /\ i > 1 => head2 = head /\ arr2[l[i - 1]].next = arr[l[i]].next
    /\ \A s \in Slots : s # l[i] /\ (i > 1 => s # l[i - 1]) => arr2[s].next = arr[s].next

\* A structure taken out of a list leaves a list.
LEMMA RemoveChain ==
    ASSUME NEW arr, NEW head, NEW l \in Seq(Slots), Chain(arr, head, l), Once(l),
           NEW i \in 1..Len(l), NEW arr2, NEW head2, CutOut(arr, head, l, i, arr2, head2)
    PROVE  \E m \in Seq(Slots) : /\ Chain(arr2, head2, m) /\ Once(m)
                                 /\ \A s : On(m, s) <=> s # l[i] /\ On(l, s)
<1> USE DEF CutOut
<1> DEFINE n == Len(l)
           At(j) == IF j < i THEN j ELSE j + 1
           m == [j \in 1..(n - 1) |-> l[At(j)]]
<1>1. n \in Nat /\ n >= 1 /\ i \in 1..n /\ \A j \in 1..n : l[j] \in Slots
  OBVIOUS
<1>2. \A j \in 1..(n - 1) : At(j) \in 1..n /\ At(j) # i
  BY <1>1
<1>3. m \in Seq(Slots) /\ Len(m) = n - 1
  <2>1. m \in [1..(n - 1) -> Slots] /\ n - 1 \in Nat
    BY <1>1, <1>2
  <2> QED
    BY <2>1
<1>4. \A j \in 1..(n - 1) : m[j] = l[At(j)]
  BY Zenon
<1> HIDE DEF m
<1>5. Once(m)
  <2>1. \A j, k \in 1..(n - 1) : At(j) = At(k) => j = k
    BY <1>1
  <2> HIDE DEF At
  <2> QED
    <3> SUFFICES ASSUME NEW j \in 1..(n - 1), NEW k \in 1..(n - 1), m[j] = m[k]
                 PROVE  j = k
      BY <1>3 DEF Once
    <3>1. At(j) \in 1..n /\ At(k) \in 1..n /\ l[At(j)] = l[At(k)]
      BY <1>2, <1>4, Zenon
    <3>2. At(j) = At(k)
      BY <3>1, Zenon DEF Once
    <3> QED
      BY <2>1, <3>2, Zenon
<1>6. \A s : On(m, s) <=> s # l[i] /\ On(l, s)
  <2>1. ASSUME NEW s, On(m, s) PROVE s # l[i] /\ On(l, s)
    <3>1. PICK j \in 1..(n - 1) : m[j] = s
      BY <1>3, <2>1 DEF On
    <3>2. At(j) \in 1..n /\ At(j) # i /\ s = l[At(j)]
      BY <1>2, <1>4, <3>1, Zenon
    <3> HIDE DEF At
    <3> QED
      BY <3>2 DEF On, Once
  <2>2. ASSUME NEW s, On(l, s), s # l[i] PROVE On(m, s)
    <3>1. PICK k \in 1..n : l[k] = s
      BY <2>2 DEF On
    <3> DEFINE j == IF k < i THEN k ELSE k - 1
    <3>2. k # i
      BY <2>2, <3>1
    <3>3. j \in 1..(n - 1) /\ At(j) = k
      BY <1>1, <3>2
    <3>4. m[j] = s
      BY <1>4, <3>1, <3>3, Zenon
    <3> HIDE DEF j
    <3> QED
      BY <1>3, <3>3, <3>4 DEF On
  <2> QED
    BY <2>1, <2>2, Zenon
<1>7. Chain(arr2, head2, m)
  <2>1. ASSUME NEW j \in 1..n, j # i, i > 1 => j # i - 1 PROVE arr2[l[j]].next = arr[l[j]].next
    <3>1. l[j] # l[i]
      BY <1>1, <2>1 DEF Once
    <3>2. i > 1 => l[j] # l[i - 1]
      BY <1>1, <2>1 DEF Once
    <3> QED
      BY <1>1, <3>1, <3>2
  <2>2. arr[l[n]].next = Null /\ head = l[1] /\ l # <<>>
    BY <1>1 DEF Chain
  <2>3. \A j \in 1..(n - 1) : arr[l[j]].next = l[j + 1]
    BY DEF Chain
  <2>4. m = <<>> => head2 = Null
    <3>1. SUFFICES ASSUME m = <<>> PROVE head2 = Null
      OBVIOUS
    <3>2. n = 1 /\ i = 1
      BY <1>1, <1>3, <3>1
    <3> QED
      BY <2>2, <3>2
  <2>5. ASSUME m # <<>> PROVE head2 = m[1] /\ arr2[m[n - 1]].next = Null
    <3>1. n >= 2 /\ 1 \in 1..(n - 1) /\ n - 1 \in 1..(n - 1)
      BY <1>1, <1>3, <2>5
    <3>2. head2 = m[1]
      <4>1. CASE i = 1
        BY <1>1, <1>4, <2>3, <3>1, <4>1
      <4>2. CASE i # 1
        BY <1>1, <1>4, <2>2, <3>1, <4>2
      <4> QED
        BY <4>1, <4>2
    <3>3. arr2[m[n - 1]].next = Null
      <4>1. CASE i = n
        <5>1. m[n - 1] = l[i - 1] /\ i > 1
          BY <1>1, <1>4, <3>1, <4>1
        <5> QED
          BY <2>2, <4>1, <5>1
      <4>2. CASE i # n
        <5>1. m[n - 1] = l[n]
          BY <1>1, <1>4, <3>1, <4>2
        <5>2. arr2[l[n]].next = arr[l[n]].next
          BY <1>1, <2>1, <4>2
        <5> QED
          BY <2>2, <5>1, <5>2
      <4> QED
        BY <4>1, <4>2
    <3> QED
      BY <3>2, <3>3
  <2>6. ASSUME NEW j \in 1..(n - 2) PROVE arr2[m[j]].next = m[j + 1]
    <3>1. /\ j \in 1..(n - 1) /\ j + 1 \in 1..(n - 1) /\ j + 2 \in 1..n
          /\ m[j] = l[At(j)] /\ m[j + 1] = l[At(j + 1)]
      BY <1>1, <1>4
    <3>2. CASE j + 1 < i
      <4>1. At(j) = j /\ At(j + 1) = j + 1 /\ j # i /\ j # i - 1
        BY <1>1, <3>2
      <4> QED
        BY <1>1, <2>1, <2>3, <3>1, <4>1
    <3>3. CASE j + 1 = i
      <4>1. At(j) = i - 1 /\ At(j + 1) = i + 1 /\ i > 1 /\ i \in 1..(n - 1)
        BY <1>1, <3>3
      <4>2. arr2[l[i - 1]].next = arr[l[i]].next /\ arr[l[i]].next = l[i + 1]
        BY <2>3, <4>1
      <4> QED
        BY <3>1, <4>1, <4>2
    <3>4. CASE j + 1 > i
      <4>1. At(j) = j + 1 /\ At(j + 1) = j + 2 /\ j + 1 # i /\ j + 1 # i - 1 /\ j + 1 + 1 = j + 2
        BY <1>1, <3>4
      <4>2. arr2[l[j + 1]].next = arr[l[j + 1]].next
        BY <2>1, <3>1, <4>1, <1>1
      <4> QED
        BY <2>3, <3>1, <4>1, <4>2
    <3> QED
      BY <1>1, <3>2, <3>3, <3>4
  <2>7. Len(m) = n - 1 /\ Len(m) - 1 = n - 2
    BY <1>1, <1>3
  <2> HIDE DEF n
  <2> QED
    BY <2>4, <2>5, <2>6, <2>7, Zenon DEF Chain
<1> QED
  BY <1>3, <1>5, <1>6, <1>7, Zenon

-------------------------------------------------------------------------------
\* A location of 0 marks a free structure.
Used(s) == blink_array[s].location # 0

BlinkTypes ==
    /\ blink_array \in [Slots -> Fields]
    /\ mp1_list_head \in Slots \cup {Null}
    /\ vmem = [cell \in 0..(CELLS - 1) |-> vmem[cell]]

\* The next fields lead from the head through the structures in use, once each.
ListInv ==
    /\ List \in Seq(Slots)
    /\ Chain(blink_array, mp1_list_head, List) /\ Once(List)
    /\ \A s \in Slots : Used(s) <=> On(List, s)

PhaseInv ==
    \A s \in Slots : Used(s) =>
        LET b == blink_array[s] IN
        /\ b.on_length >= 1 /\ b.off_length >= 1
        /\ b.countdown \in 1..(IF b.status = 1 THEN b.on_length ELSE b.off_length)

\* The character of the phase, and what is shown if the cells of d are dark.
PhaseChar(b) == IF b.status = 1 THEN b.on_char ELSE b.off_char
Shows(b, d) == IF b.location \in d THEN b.off_char ELSE PhaseChar(b)

\* A cell of sole has at most one structure, and shows its phase unless it is dark.
SoleInv ==
    \A s \in Slots :
        LET b == blink_array[s] IN
        Used(s) /\ b.location \in sole =>
            /\ \A t \in Slots : blink_array[t].location = b.location => t = s
            /\ vmem[b.location] = Shows(b, dark)

BlinkInv == BlinkTypes /\ ListInv /\ PhaseInv /\ SoleInv

\* Where a list is found in the new state, it is the one walked there.
LEMMA ListStep ==
    ASSUME BlinkTypes', NEW m \in Seq(Slots), Chain(blink_array', mp1_list_head', m), Once(m),
           \A s \in Slots : blink_array'[s].location # 0 <=> On(m, s)
    PROVE  ListInv'
<1>1. Links(blink_array', mp1_list_head')
  <2>1. \A r \in Fields : r.next \in Slots \cup {Null}
    BY DEF Fields
  <2> QED
    BY <2>1, Zenon DEF BlinkTypes, Links
<1>2. Walk(blink_array', mp1_list_head') = m
  BY <1>1, WalkIs, Zenon
<1>3. List' = m
  BY <1>2, Zenon DEF List
<1> QED
  BY <1>3, Zenon DEF ListInv, Used

\* A step that keeps the links and the locations keeps the list.
LEMMA SameList ==
    ASSUME ListInv, BlinkTypes', mp1_list_head' = mp1_list_head,
           \A s \in Slots : /\ blink_array'[s].next = blink_array[s].next
                            /\ blink_array'[s].location = blink_array[s].location
    PROVE  ListInv'
<1>1. Chain(blink_array', mp1_list_head', List)
  <2>1. \A j \in 1..Len(List) : List[j] \in Slots
    BY DEF ListInv
  <2>2. List # <<>> => Len(List) \in 1..Len(List)
    BY DEF ListInv
  <2>3. \A j \in 1..(Len(List) - 1) : j \in 1..Len(List)
    BY DEF ListInv
  <2> QED
    BY <2>1, <2>2, <2>3, Zenon DEF ListInv, Chain
<1> QED
  BY <1>1, ListStep, Zenon DEF ListInv, Used

\* The search of the list finds a structure at the location, if one is in use there.
LEMMA FindIs ==
    ASSUME ListInv, NEW loc
    PROVE  \/ /\ mp1_find_helper(loc) = Null
              /\ \A s \in Slots : Used(s) => blink_array[s].location # loc
           \/ \E i \in 1..Len(List) : /\ mp1_find_helper(loc) = List[i] /\ List[i] \in Slots
                                       /\ blink_array[List[i]].location = loc
<1> DEFINE at == {j \in 1..Len(List) : blink_array[List[j]].location = loc}
           i == CHOOSE j \in at : \A m \in at : j <= m
<1>1. mp1_find_helper(loc) = IF at = {} THEN Null ELSE List[i]
  BY Zenon DEF mp1_find_helper
<1>2. CASE at = {}
  <2>1. ASSUME NEW s \in Slots, Used(s) PROVE blink_array[s].location # loc
    <3>1. PICK j \in 1..Len(List) : List[j] = s
      BY <2>1, Zenon DEF ListInv, On
    <3> QED
      BY <1>2, <3>1
  <2> HIDE DEF at
  <2> QED
    BY <1>1, <1>2, <2>1, Zenon
<1>3. CASE at # {}
  <2>1. at \subseteq Nat
    BY DEF ListInv
  <2> HIDE DEF at
  <2>2. i \in at
    BY <1>3, <2>1, LeastElement
  <2> HIDE DEF i
  <2>3. i \in 1..Len(List) /\ blink_array[List[i]].location = loc
    BY <2>2 DEF at
  <2>4. List[i] \in Slots
    BY <2>3 DEF ListInv
  <2> QED
    BY <1>1, <1>3, <2>3, <2>4, Zenon
<1> QED
  BY <1>2, <1>3

\* What the search finds is in use and at the location.
LEMMA FoundIs ==
    ASSUME ListInv, NEW loc, NEW p, p = mp1_find_helper(loc), p # Null
    PROVE  p \in Slots /\ Used(p) /\ blink_array[p].location = loc
<1>1. PICK i \in 1..Len(List) : /\ mp1_find_helper(loc) = List[i] /\ List[i] \in Slots
                                 /\ blink_array[List[i]].location = loc
  BY FindIs, Zenon
<1>2. Used(List[i])
  BY <1>1, Zenon DEF ListInv, On
<1> QED
  BY <1>1, <1>2, Zenon

\* mp1_malloc gives out a free structure.
LEMMA MallocIs ==
    \/ mp1_malloc = Null
    \/ mp1_malloc \in Slots /\ ~Used(mp1_malloc)
<1> DEFINE free == {s \in Slots : blink_array[s].location = 0}
           p == CHOOSE s \in free : \A t \in free : s <= t
<1>1. mp1_malloc = IF free = {} THEN Null ELSE p
  BY Zenon DEF mp1_malloc
<1>2. ASSUME free # {} PROVE p \in Slots /\ ~Used(p)
  <2>1. free \subseteq Nat
    BY DEF Slots
  <2> HIDE DEF free
  <2>2. p \in free
    BY <1>2, <2>1, LeastElement
  <2> HIDE DEF p
  <2> QED
    BY <2>2 DEF free, Used
<1> HIDE DEF free, p
<1> QED
  BY <1>1, <1>2, Zenon

LEMMA NullNotSlot == Null \notin Slots
  BY DEF Slots, Null

LEMMA EmptyList ==
    /\ <<>> \in Seq(Slots) /\ Once(<<>>)
    /\ \A s : ~On(<<>>, s)
    /\ \A arr : Chain(arr, Null, <<>>)
<1>1. \A em : em = <<>> => em \in Seq(Slots) /\ Len(em) = 0
  OBVIOUS
<1>2. PICK em : em = <<>>
  OBVIOUS
<1>3. 1..Len(em) = {} /\ 1..(Len(em) - 1) = {}
  BY <1>1, <1>2
<1>4. Once(em) /\ (\A s : ~On(em, s)) /\ \A arr : Chain(arr, Null, em)
  BY <1>2, <1>3, Zenon DEF Once, On, Chain
<1> QED
  BY <1>1, <1>2, <1>4, Zenon

\* Initially every structure is free and the list is empty.
LEMMA BlinkInitInv == BlinkInit => BlinkInv
<1> SUFFICES ASSUME BlinkInit PROVE BlinkInv
  OBVIOUS
<1>1. SLOTS \in Nat /\ CELLS \in Nat /\ CELLS # 0 /\ USHORT \in Nat /\ USHORT # 0
  BY BlinkAssumption
<1>2. Zero \in Fields /\ Zero.location = 0 /\ Zero.next = Null
  BY <1>1 DEF Zero, Fields
<1>3. /\ blink_array = [s \in Slots |-> Zero] /\ mp1_list_head = Null
      /\ vmem = LiveScreen
  BY DEF BlinkInit
<1>4. BlinkTypes
  <2>1. vmem = [cell \in 0..(CELLS - 1) |-> vmem[cell]]
    BY <1>3, BlinkAssumption, Zenon
  <2> QED
    BY <1>2, <1>3, <2>1 DEF BlinkTypes
<1>5. \A s \in Slots : ~Used(s)
  BY <1>2, <1>3 DEF Used
<1>6. List = <<>>
  <2>1. Links(blink_array, mp1_list_head)
    BY <1>2, <1>3 DEF Links
  <2> QED
    BY <1>3, <2>1, EmptyList, WalkIs, Zenon DEF List
<1>7. ListInv
  BY <1>3, <1>5, <1>6, EmptyList, Zenon DEF ListInv
<1>8. PhaseInv /\ SoleInv
  BY <1>5, Zenon DEF PhaseInv, SoleInv
<1> QED
  BY <1>4, <1>7, <1>8 DEF BlinkInv

\* A call that fails, or only looks, leaves the invariant alone.
LEMMA QuietBlink ==
    ASSUME BlinkInv, UNCHANGED <<blink_array, mp1_list_head, vmem, sole, dark>>
    PROVE  BlinkInv'
<1>1. UNCHANGED List
  BY Zenon DEF List
<1>2. BlinkTypes' /\ SoleInv' /\ PhaseInv'
  BY Zenon DEF BlinkInv, BlinkTypes, SoleInv, PhaseInv, Used
<1>3. ListInv'
  BY <1>1, Zenon DEF BlinkInv, ListInv, Used
<1> QED
  BY <1>2, <1>3, Zenon DEF BlinkInv

\* Adding takes a free structure and puts it in front.
LEMMA AddInv ==
    ASSUME BlinkInv, NEW b \in Blinks, mp1_ioctl_add(b)
    PROVE  BlinkInv'
<1> DEFINE p == mp1_malloc
           loc == b.location
           New == [location |-> loc, on_char |-> b.on_char, off_char |-> b.off_char,
                   on_length |-> b.on_length, off_length |-> b.off_length,
                   countdown |-> b.on_length, status |-> 1, next |-> mp1_list_head]
<1>1. CASE Fail
  BY <1>1, QuietBlink, Zenon DEF Fail
<1>2. CASE /\ ValidLocation(loc) /\ p # Null
           /\ blink_array' = [blink_array EXCEPT ![p] = New]
           /\ mp1_list_head' = p
           /\ vmem' = [vmem EXCEPT ![loc] = b.on_char]
           /\ sole' = IF mp1_find_helper(loc) = Null THEN sole \cup {loc} ELSE sole \ {loc}
           /\ dark' = dark \ {loc}
  <2>1. /\ BlinkTypes /\ ListInv /\ PhaseInv /\ SoleInv
        /\ blink_array \in [Slots -> Fields] /\ mp1_list_head \in Slots \cup {Null}
    BY DEF BlinkInv, BlinkTypes
  <2>2. p \in Slots /\ ~Used(p)
    BY <1>2, MallocIs, Zenon
  <2>3. /\ loc \in Nat /\ loc # 0 /\ loc \in 0..(CELLS - 1)
        /\ b.on_length \in 0..(USHORT - 1) /\ b.off_length \in 0..(USHORT - 1)
        /\ b.on_length >= 1 /\ b.off_length >= 1
    <3>1. /\ USHORT \in Nat /\ loc \in 1..(USHORT - 1) /\ CELLS \in 1..USHORT
          /\ b.on_length \in 1..(USHORT - 1) /\ b.off_length \in 1..(USHORT - 1)
      BY BlinkAssumption, Zenon
    <3> QED
      BY <1>2, <3>1 DEF ValidLocation
  <2>4. b.on_char \in Chars /\ b.off_char \in Chars
    BY Zenon DEF Chars
  <2> HIDE DEF p, loc
  <2>5. New \in Fields
    BY <2>1, <2>3, <2>4 DEF Fields
  <2>6. /\ New.location = loc /\ New.next = mp1_list_head /\ New.status = 1
        /\ New.countdown = b.on_length /\ New.on_length = b.on_length
        /\ New.off_length = b.off_length /\ New.on_char = b.on_char
    OBVIOUS
  <2> HIDE DEF New
  <2>7. /\ blink_array' \in [Slots -> Fields] /\ blink_array'[p] = New
        /\ \A s \in Slots : s # p => blink_array'[s] = blink_array[s]
    BY <1>2, <2>1, <2>2, <2>5
  <2>8. /\ vmem' = [cell \in 0..(CELLS - 1) |-> vmem'[cell]] /\ vmem'[loc] = b.on_char
        /\ \A cell \in 0..(CELLS - 1) : cell # loc => vmem'[cell] = vmem[cell]
    BY <1>2, <2>1, <2>3 DEF BlinkTypes
  <2>9. BlinkTypes'
    BY <1>2, <2>2, <2>7, <2>8, Zenon DEF BlinkTypes
  <2>10. ListInv'
    <3>1. ~On(List, p)
      BY <2>1, <2>2, Zenon DEF ListInv
    <3>2. \A s \in Slots : s # p => blink_array'[s].next = blink_array[s].next
      BY <2>7, Zenon
    <3>3. blink_array'[p].next = mp1_list_head
      BY <2>6, <2>7, Zenon
    <3>4. List \in Seq(Slots) /\ Chain(blink_array, mp1_list_head, List) /\ Once(List)
      BY <2>1, Zenon DEF ListInv
    <3>5. PICK m \in Seq(Slots) : /\ Chain(blink_array', p, m) /\ Once(m)
                                  /\ \A s : On(m, s) <=> s = p \/ On(List, s)
      BY <2>2, <3>1, <3>2, <3>3, <3>4, AddChain
    <3>6. \A s \in Slots : blink_array'[s].location # 0 <=> s = p \/ On(List, s)
      BY <2>1, <2>3, <2>6, <2>7, Zenon DEF ListInv, Used
    <3> QED
      BY <1>2, <2>9, <3>5, <3>6, ListStep, Zenon
  <2>11. PhaseInv'
    <3> SUFFICES ASSUME NEW s \in Slots, Used(s)'
                 PROVE  /\ blink_array'[s].on_length >= 1 /\ blink_array'[s].off_length >= 1
                        /\ blink_array'[s].countdown \in
                              1..(IF blink_array'[s].status = 1 THEN blink_array'[s].on_length
                                  ELSE blink_array'[s].off_length)
      BY Zenon DEF PhaseInv
    <3>1. CASE s = p
      BY <2>3, <2>6, <2>7, <3>1
    <3>2. CASE s # p
      BY <2>1, <2>7, <3>2, Zenon DEF PhaseInv, Used
    <3> QED
      BY <3>1, <3>2, Zenon
  <2>12. SoleInv'
    <3> SUFFICES ASSUME NEW s \in Slots, Used(s)', blink_array'[s].location \in sole'
                 PROVE  /\ \A t \in Slots : blink_array'[t].location = blink_array'[s].location => t = s
                        /\ vmem'[blink_array'[s].location] = Shows(blink_array'[s], dark')
      BY Zenon DEF SoleInv
    <3>1. blink_array'[s].location # 0 /\ blink_array[p].location = 0
      BY <2>2, Zenon DEF Used
    <3>2. CASE s = p
      <4>1. blink_array'[s].location = loc /\ loc \in sole'
        BY <2>6, <2>7, <3>2, Zenon
      <4>2. mp1_find_helper(loc) = Null
        BY <1>2, <4>1
      <4>3. \A t \in Slots : Used(t) => blink_array[t].location # loc
        <5>1. \A i \in 1..Len(List) : List[i] \in Slots => List[i] # Null
          BY NullNotSlot, Zenon
        <5> QED
          BY <2>1, <4>2, <5>1, FindIs, Zenon
      <4>4. \A t \in Slots : t # p => blink_array'[t].location # loc
        BY <2>3, <2>7, <4>3, Zenon DEF Used
      <4>5. loc \notin dark'
        BY <1>2, Zenon
      <4> QED
        BY <2>6, <2>7, <2>8, <3>2, <4>1, <4>4, <4>5, Zenon DEF PhaseChar, Shows
    <3>3. CASE s # p
      <4>1. blink_array'[s] = blink_array[s] /\ Used(s)
        BY <2>7, <3>1, <3>3, Zenon DEF Used
      <4>2. blink_array[s].location # loc
        <5>1. CASE mp1_find_helper(loc) = Null
          <6>1. \A i \in 1..Len(List) : List[i] \in Slots => List[i] # Null
            BY NullNotSlot, Zenon
          <6> QED
            BY <2>1, <4>1, <5>1, <6>1, FindIs, Zenon
        <5>2. CASE mp1_find_helper(loc) # Null
          BY <1>2, <4>1, <5>2
        <5> QED
          BY <5>1, <5>2
      <4>3. blink_array[s].location \in sole
        BY <1>2, <4>1, <4>2
      <4>4. /\ \A t \in Slots : blink_array[t].location = blink_array[s].location => t = s
            /\ vmem[blink_array[s].location] = Shows(blink_array[s], dark)
        BY <2>1, <4>1, <4>3, Zenon DEF SoleInv
      <4>5. blink_array[s].location \in 0..(CELLS - 1)
        BY <2>1 DEF Fields
      <4>6. Shows(blink_array[s], dark') = Shows(blink_array[s], dark)
        BY <1>2, <4>2, Zenon DEF Shows
      <4> QED
        BY <2>6, <2>7, <2>8, <3>1, <4>1, <4>2, <4>4, <4>5, <4>6, Zenon
    <3> QED
      BY <3>2, <3>3, Zenon
  <2> QED
    BY <2>9, <2>10, <2>11, <2>12, Zenon DEF BlinkInv
<1> QED
  BY <1>1, <1>2, Zenon DEF mp1_ioctl_add

\* The fields that say what a structure shows, and where.
SameShow(r, t) ==
    /\ r.location = t.location /\ r.on_length = t.on_length /\ r.off_length = t.off_length
    /\ r.countdown = t.countdown /\ r.status = t.status
    /\ r.on_char = t.on_char /\ r.off_char = t.off_char

\* The structure before the i-th of the list is the only one that leads to it.
LEMMA BeforeIs ==
    ASSUME ListInv, NEW i \in 1..Len(List), i # 1, NEW p, p = List[i]
    PROVE  (CHOOSE q \in {q \in {List[j] : j \in 1..Len(List)} : blink_array[q].next = p} : TRUE)
           = List[i - 1]
<1> DEFINE before == {q \in {List[j] : j \in 1..Len(List)} : blink_array[q].next = p}
           n == Len(List)
<1>1. /\ n \in Nat /\ i \in 1..n /\ i - 1 \in 1..(n - 1) /\ i - 1 \in 1..n /\ i - 1 + 1 = i
      /\ List # <<>> /\ \A j \in 1..n : List[j] \in Slots
  BY DEF ListInv
<1>2. \A j \in 1..(n - 1) : blink_array[List[j]].next = List[j + 1]
  BY DEF ListInv, Chain
<1>3. blink_array[List[n]].next = Null
  BY <1>1, Zenon DEF ListInv, Chain
<1>4. List[i - 1] \in before
  BY <1>1, <1>2
<1>5. ASSUME NEW q \in before PROVE q = List[i - 1]
  <2>1. PICK j \in 1..n : q = List[j] /\ blink_array[List[j]].next = List[i]
    BY <1>5
  <2>2. j # n
    BY <1>1, <1>3, <2>1, NullNotSlot, Zenon
  <2>3. j \in 1..(n - 1) /\ j + 1 \in 1..n
    BY <1>1, <2>2
  <2>4. List[j + 1] = List[i]
    BY <1>2, <2>1, <2>3, Zenon
  <2>5. j + 1 = i
    BY <1>1, <2>3, <2>4, Zenon DEF ListInv, Once
  <2>6. j = i - 1
    BY <1>1, <2>3, <2>5
  <2> QED
    BY <2>1, <2>6, Zenon
<1> HIDE DEF before
<1>6. (CHOOSE q \in before : TRUE) \in before
  BY <1>4
<1>7. (CHOOSE q \in before : TRUE) = List[i - 1]
  BY <1>5, <1>6, Zenon
<1> QED
  BY <1>7 DEF before

\* Removing gives the first structure at the location back and keeps the rest.
LEMMA RemoveInv ==
    ASSUME BlinkInv, NEW loc, mp1_ioctl_remove(loc)
    PROVE  BlinkInv'
<1> DEFINE p == mp1_find_helper(loc)
           before == {q \in {List[j] : j \in 1..Len(List)} : blink_array[q].next = p}
           q0 == CHOOSE q \in before : TRUE
<1>0. /\ BlinkTypes /\ ListInv /\ PhaseInv /\ SoleInv
      /\ blink_array \in [Slots -> Fields]
  BY Zenon DEF BlinkInv, BlinkTypes
<1>1. CASE Fail
  BY <1>1, QuietBlink, Zenon DEF Fail
<1>2. CASE /\ p # Null
           /\ IF mp1_list_head = p
              THEN /\ mp1_list_head' = blink_array[p].next
                   /\ blink_array' = mp1_free(blink_array, p)
              ELSE /\ blink_array' = mp1_free(Unlink(blink_array, p, q0), p)
                   /\ UNCHANGED mp1_list_head
           /\ sole' = sole \ {loc} /\ dark' = dark \ {loc}
           /\ UNCHANGED vmem
  <2>1. PICK i \in 1..Len(List) : p = List[i] /\ p \in Slots /\ blink_array[p].location = loc
    BY <1>0, <1>2, FindIs, Zenon
  <2>2. /\ List \in Seq(Slots) /\ Chain(blink_array, mp1_list_head, List) /\ Once(List)
        /\ List # <<>> /\ mp1_list_head = List[1] /\ 1 \in 1..Len(List) /\ Len(List) \in Nat
    <3>1. List \in Seq(Slots) /\ Chain(blink_array, mp1_list_head, List) /\ Once(List)
      BY <1>0, Zenon DEF ListInv
    <3>2. List # <<>> /\ 1 \in 1..Len(List) /\ Len(List) \in Nat
      BY <2>1, <3>1
    <3> QED
      BY <3>1, <3>2, Zenon DEF Chain
  <2>3. mp1_list_head = p <=> i = 1
    BY <2>1, <2>2, Zenon DEF Once
  <2>4. Zero \in Fields /\ Zero.location = 0
    <3>1. CELLS \in Nat /\ CELLS # 0 /\ USHORT \in Nat /\ USHORT # 0
      BY BlinkAssumption
    <3> QED
      BY <3>1 DEF Zero, Fields
  <2>5. \A r \in Fields : r.next \in Slots \cup {Null}
    BY DEF Fields
  <2>6. /\ blink_array' \in [Slots -> Fields] /\ blink_array'[p] = Zero
        /\ mp1_list_head' \in Slots \cup {Null}
        /\ \A s \in Slots : s # p => SameShow(blink_array'[s], blink_array[s])
        /\ CutOut(blink_array, mp1_list_head, List, i, blink_array', mp1_list_head')
    <3>1. CASE i = 1
      <4>1. blink_array' = [blink_array EXCEPT ![p] = Zero] /\ mp1_list_head' = blink_array[p].next
        BY <1>2, <2>3, <3>1, Zenon DEF mp1_free
      <4> HIDE DEF p
      <4>2. /\ blink_array' \in [Slots -> Fields] /\ blink_array'[p] = Zero
            /\ \A s \in Slots : s # p => blink_array'[s] = blink_array[s]
        BY <1>0, <2>1, <2>4, <4>1
      <4>3. ~(i > 1)
        BY <3>1
      <4>4. mp1_list_head' \in Slots \cup {Null}
        BY <1>0, <2>1, <2>5, <4>1
      <4>5. \A s \in Slots : s # p => SameShow(blink_array'[s], blink_array[s])
        BY <4>2, Zenon DEF SameShow
      <4>6. \A s \in Slots : s # p => blink_array'[s].next = blink_array[s].next
        BY <4>2, Zenon
      <4> QED
        BY <2>1, <4>1, <4>2, <4>3, <4>4, <4>5, <4>6, Zenon DEF CutOut
    <3>2. CASE i # 1
      <4> DEFINE q == List[i - 1]
      <4>1. i > 1 /\ i - 1 \in 1..Len(List) /\ i - 1 # i /\ q \in Slots
        BY <2>2, <3>2
      <4>2. q # p
        BY <2>1, <2>2, <4>1, Zenon DEF Once
      <4>3. q0 = q
        BY <1>0, <2>1, <3>2, BeforeIs, Zenon
      <4>4. /\ blink_array' = [[blink_array EXCEPT ![q].next = blink_array[p].next] EXCEPT ![p] = Zero]
            /\ mp1_list_head' = mp1_list_head
        BY <1>2, <2>3, <3>2, <4>3, Zenon DEF mp1_free, Unlink
      <4> DEFINE linked == [blink_array EXCEPT ![q].next = blink_array[p].next]
                 rec == [blink_array[q] EXCEPT !.next = blink_array[p].next]
      <4> HIDE DEF p, q
      <4>5. rec \in Fields /\ rec.next = blink_array[p].next /\ SameShow(rec, blink_array[q])
        <5>1. blink_array[q] \in Fields /\ blink_array[p].next \in Slots \cup {Null}
          BY <1>0, <2>1, <2>5, <4>1, Zenon
        <5> QED
          BY <5>1 DEF Fields, SameShow
      <4>6. /\ linked \in [Slots -> Fields] /\ linked[q] = rec
            /\ \A s \in Slots : s # q => linked[s] = blink_array[s]
        BY <1>0, <4>1, <4>5
      <4> HIDE DEF rec
      <4>7. blink_array' = [linked EXCEPT ![p] = Zero]
        BY <4>4, Zenon
      <4> HIDE DEF linked
      <4>8. /\ blink_array' \in [Slots -> Fields] /\ blink_array'[p] = Zero
            /\ \A s \in Slots : s # p => blink_array'[s] = linked[s]
        BY <2>1, <2>4, <4>6, <4>7
      <4>9. \A s \in Slots : s # p => SameShow(blink_array'[s], blink_array[s])
        BY <4>1, <4>5, <4>6, <4>8, Zenon DEF SameShow
      <4>10. blink_array'[List[i - 1]].next = blink_array[List[i]].next
        <5>1. blink_array'[q].next = blink_array[p].next
          BY <4>1, <4>2, <4>5, <4>6, <4>8, Zenon
        <5> QED
          BY <2>1, <5>1, Zenon DEF q
      <4>11. \A s \in Slots : s # p /\ s # q => blink_array'[s].next = blink_array[s].next
        BY <4>6, <4>8, Zenon
      <4>12. mp1_list_head' \in Slots \cup {Null}
        BY <1>0, <4>4, Zenon DEF BlinkTypes
      <4> QED
        BY <2>1, <3>2, <4>1, <4>4, <4>8, <4>9, <4>10, <4>11, <4>12, Zenon DEF q, CutOut
    <3> QED
      BY <3>1, <3>2, Zenon
  <2> HIDE DEF p
  <2>7. BlinkTypes'
    BY <1>0, <1>2, <2>6, Zenon DEF BlinkTypes
  <2>8. ListInv'
    <3>1. PICK m \in Seq(Slots) : /\ Chain(blink_array', mp1_list_head', m) /\ Once(m)
                                  /\ \A s : On(m, s) <=> s # List[i] /\ On(List, s)
      BY <2>2, <2>6, RemoveChain, Zenon
    <3>2. \A s \in Slots : blink_array'[s].location # 0 <=> On(m, s)
      <4>1. \A s \in Slots : s # p =>
              (blink_array'[s].location # 0 <=> blink_array[s].location # 0)
        BY <2>6, Zenon DEF SameShow
      <4>2. \A s \in Slots : blink_array[s].location # 0 <=> On(List, s)
        BY <1>0, Zenon DEF ListInv, Used
      <4>3. blink_array'[p].location = 0 /\ p = List[i]
        BY <2>1, <2>4, <2>6, Zenon
      <4> QED
        BY <3>1, <4>1, <4>2, <4>3, Zenon
    <3> QED
      BY <2>7, <3>1, <3>2, ListStep, Zenon
  <2>9. \A s \in Slots : Used(s)' => s # p /\ Used(s) /\ SameShow(blink_array'[s], blink_array[s])
    BY <2>4, <2>6, Zenon DEF Used, SameShow
  <2>10. PhaseInv'
    BY <1>0, <2>9, Zenon DEF PhaseInv, SameShow
  <2>11. SoleInv'
    <3> SUFFICES ASSUME NEW s \in Slots, Used(s)', blink_array'[s].location \in sole'
                 PROVE  /\ \A t \in Slots : blink_array'[t].location = blink_array'[s].location => t = s
                        /\ vmem'[blink_array'[s].location] = Shows(blink_array'[s], dark')
      BY Zenon DEF SoleInv
    <3>1. Used(s) /\ SameShow(blink_array'[s], blink_array[s]) /\ blink_array[s].location \in sole
      <4>1. Used(s) /\ SameShow(blink_array'[s], blink_array[s])
        BY <2>9, Zenon
      <4> QED
        BY <1>2, <4>1 DEF SameShow
    <3>2. /\ \A t \in Slots : blink_array[t].location = blink_array[s].location => t = s
          /\ vmem[blink_array[s].location] = Shows(blink_array[s], dark)
      BY <1>0, <3>1, Zenon DEF SoleInv
    <3>3. Shows(blink_array'[s], dark') = Shows(blink_array[s], dark)
      <4>1. blink_array'[s].location \in dark' <=> blink_array[s].location \in dark
        BY <1>2, <3>1 DEF SameShow
      <4> QED
        BY <3>1, <4>1, Zenon DEF PhaseChar, Shows, SameShow
    <3>4. ASSUME NEW t \in Slots, blink_array'[t].location = blink_array'[s].location PROVE t = s
      <4>1. Used(t)'
        BY <3>4, Zenon DEF Used
      <4>2. SameShow(blink_array'[t], blink_array[t])
        BY <2>9, <4>1, Zenon
      <4> QED
        BY <3>1, <3>2, <3>4, <4>2, Zenon DEF SameShow
    <3> QED
      BY <1>2, <3>1, <3>2, <3>3, <3>4, Zenon DEF SameShow
  <2> QED
    BY <2>7, <2>8, <2>10, <2>11, Zenon DEF BlinkInv
<1> QED
  BY <1>1, <1>2, Zenon DEF mp1_ioctl_remove

\* Synchronising keeps the list; the second structure takes the phase of the first and
\* shows its off character, which is the one of its phase unless that is the on phase.
LEMMA SyncInv ==
    ASSUME BlinkInv, NEW src, NEW dst, mp1_ioctl_sync(src, dst)
    PROVE  BlinkInv'
<1> DEFINE p == mp1_find_helper(src)
           q == mp1_find_helper(dst)
           rec == SyncFields(blink_array[q], blink_array[p])
<1>0. /\ BlinkTypes /\ ListInv /\ PhaseInv /\ SoleInv
      /\ blink_array \in [Slots -> Fields]
  BY Zenon DEF BlinkInv, BlinkTypes
<1>1. CASE Fail
  BY <1>1, QuietBlink, Zenon DEF Fail
<1>2. CASE /\ p # Null /\ q # Null
           /\ blink_array' = [blink_array EXCEPT ![q] = rec]
           /\ vmem' = [vmem EXCEPT ![dst] = blink_array[q].off_char]
           /\ dark' = IF blink_array[p].status = 1 THEN dark \cup {dst} ELSE dark \ {dst}
           /\ UNCHANGED <<mp1_list_head, sole>>
  <2>1. p \in Slots /\ Used(p)
    BY <1>0, <1>2, FoundIs, Zenon
  <2>2. q \in Slots /\ Used(q) /\ blink_array[q].location = dst
    BY <1>0, <1>2, FoundIs, Zenon
  <2>4. blink_array[p] \in Fields /\ blink_array[q] \in Fields
    BY <1>0, <2>1, <2>2, Zenon
  <2> HIDE DEF p, q
  <2>5. /\ rec \in Fields
        /\ rec.location = blink_array[q].location /\ rec.next = blink_array[q].next
        /\ rec.on_char = blink_array[q].on_char /\ rec.off_char = blink_array[q].off_char
        /\ rec.on_length = blink_array[p].on_length /\ rec.off_length = blink_array[p].off_length
        /\ rec.countdown = blink_array[p].countdown /\ rec.status = blink_array[p].status
    BY <2>4 DEF Fields, SyncFields
  <2> HIDE DEF rec
  <2>6. /\ blink_array' \in [Slots -> Fields] /\ blink_array'[q] = rec
        /\ \A s \in Slots : s # q => blink_array'[s] = blink_array[s]
    BY <1>0, <1>2, <2>2, <2>5
  <2>7. dst \in 0..(CELLS - 1)
    BY <2>2, <2>4 DEF Fields
  <2>8. /\ vmem' = [cell \in 0..(CELLS - 1) |-> vmem'[cell]] /\ vmem'[dst] = blink_array[q].off_char
        /\ \A cell \in 0..(CELLS - 1) : cell # dst => vmem'[cell] = vmem[cell]
    BY <1>0, <1>2, <2>7 DEF BlinkTypes
  <2>9. BlinkTypes'
    BY <1>0, <1>2, <2>6, <2>8, Zenon DEF BlinkTypes
  <2>10. \A s \in Slots : /\ blink_array'[s].next = blink_array[s].next
                          /\ blink_array'[s].location = blink_array[s].location
    BY <2>5, <2>6, Zenon
  <2>11. ListInv'
    BY <1>0, <1>2, <2>9, <2>10, SameList, Zenon
  <2>12. PhaseInv'
    <3> SUFFICES ASSUME NEW s \in Slots, Used(s)'
                 PROVE  /\ blink_array'[s].on_length >= 1 /\ blink_array'[s].off_length >= 1
                        /\ blink_array'[s].countdown \in
                              1..(IF blink_array'[s].status = 1 THEN blink_array'[s].on_length
                                  ELSE blink_array'[s].off_length)
      BY Zenon DEF PhaseInv
    <3>1. CASE s = q
      BY <1>0, <2>1, <2>5, <2>6, <3>1, Zenon DEF PhaseInv
    <3>2. CASE s # q
      BY <1>0, <2>6, <3>2, Zenon DEF PhaseInv, Used
    <3> QED
      BY <3>1, <3>2, Zenon
  <2>13. SoleInv'
    <3> SUFFICES ASSUME NEW s \in Slots, Used(s)', blink_array'[s].location \in sole'
                 PROVE  /\ \A t \in Slots : blink_array'[t].location = blink_array'[s].location => t = s
                        /\ vmem'[blink_array'[s].location] = Shows(blink_array'[s], dark')
      BY Zenon DEF SoleInv
    <3>1. Used(s) /\ blink_array[s].location \in sole'
      BY <2>10, Zenon DEF Used
    <3>2. blink_array[s].location \in sole
      BY <1>2, <3>1
    <3>3. /\ \A t \in Slots : blink_array[t].location = blink_array[s].location => t = s
          /\ vmem[blink_array[s].location] = Shows(blink_array[s], dark)
      BY <1>0, <3>1, <3>2, Zenon DEF SoleInv
    <3>4. CASE s = q
      <4>1. rec.status = 1 => dst \in dark'
        BY <1>2, <2>5
      <4>2. Shows(rec, dark') = blink_array[q].off_char
        BY <2>2, <2>5, <4>1, Zenon DEF PhaseChar, Shows
      <4> QED
        BY <2>2, <2>5, <2>6, <2>8, <2>10, <3>3, <3>4, <4>2, Zenon
    <3>5. CASE s # q
      <4>1. blink_array[s].location # dst /\ blink_array[s].location \in 0..(CELLS - 1)
        <5>1. blink_array[s] \in Fields
          BY <1>0, Zenon
        <5>2. blink_array[s].location \in 0..(CELLS - 1)
          BY <5>1 DEF Fields
        <5> QED
          BY <2>2, <3>3, <3>5, <5>2, Zenon
      <4>2. Shows(blink_array[s], dark') = Shows(blink_array[s], dark)
        BY <1>2, <4>1 DEF Shows
      <4> QED
        BY <2>6, <2>8, <2>10, <3>3, <3>5, <4>1, <4>2, Zenon
    <3> QED
      BY <3>4, <3>5, Zenon
  <2> QED
    BY <2>9, <2>11, <2>12, <2>13, Zenon DEF BlinkInv
<1> QED
  BY <1>1, <1>2, Zenon DEF mp1_ioctl_sync

\* One structure at one tick: either it counts down, or the other phase begins.
LEMMA TickIs ==
    ASSUME NEW b \in Fields, b.on_length >= 1, b.off_length >= 1,
           b.countdown \in 1..(IF b.status = 1 THEN b.on_length ELSE b.off_length)
    PROVE  /\ Tick(b) \in Fields /\ Tick(b).location = b.location /\ Tick(b).next = b.next
           /\ Tick(b).on_length = b.on_length /\ Tick(b).off_length = b.off_length
           /\ Tick(b).off_char = b.off_char
           /\ Tick(b).countdown \in
                 1..(IF Tick(b).status = 1 THEN b.on_length ELSE b.off_length)
           /\ PhaseChar(Tick(b)) = IF Expired(Dec(b.countdown)) THEN NewChar(b) ELSE PhaseChar(b)
<1>1. /\ b.on_length \in 0..(USHORT - 1) /\ b.off_length \in 0..(USHORT - 1)
      /\ b.countdown \in 0..(USHORT - 1) /\ b.status \in {0, 1} /\ USHORT \in Nat
  BY BlinkAssumption DEF Fields
<1>2. CASE Expired(Dec(b.countdown))
  <2>1. Tick(b) = [b EXCEPT !.status = 1 - b.status,
                            !.countdown = IF b.status = 1 THEN b.off_length ELSE b.on_length]
    BY <1>2 DEF Tick
  <2>2. /\ Tick(b) \in Fields /\ Tick(b).location = b.location /\ Tick(b).next = b.next
        /\ Tick(b).on_length = b.on_length /\ Tick(b).off_length = b.off_length
        /\ Tick(b).on_char = b.on_char /\ Tick(b).off_char = b.off_char
        /\ Tick(b).status = 1 - b.status
        /\ Tick(b).countdown = IF b.status = 1 THEN b.off_length ELSE b.on_length
    <3> DEFINE st == 1 - b.status
               cd == IF b.status = 1 THEN b.off_length ELSE b.on_length
    <3>1. st \in {0, 1} /\ cd \in 0..(USHORT - 1)
      BY <1>1
    <3>2. Tick(b) = [b EXCEPT !.status = st, !.countdown = cd]
      BY <2>1, Zenon
    <3> HIDE DEF st, cd
    <3>3. /\ Tick(b) \in Fields /\ Tick(b).location = b.location /\ Tick(b).next = b.next
          /\ Tick(b).on_length = b.on_length /\ Tick(b).off_length = b.off_length
          /\ Tick(b).on_char = b.on_char /\ Tick(b).off_char = b.off_char
          /\ Tick(b).status = st /\ Tick(b).countdown = cd
      BY <3>1, <3>2 DEF Fields
    <3> QED
      BY <3>3, Zenon DEF st, cd
  <2> QED
    BY <1>1, <1>2, <2>2 DEF PhaseChar, NewChar
<1>3. CASE ~Expired(Dec(b.countdown))
  <2>0. b.countdown # 0 /\ Dec(b.countdown) = b.countdown - 1 /\ b.countdown - 1 \in 0..(USHORT - 1)
    BY <1>1 DEF Dec
  <2>1. Tick(b) = [b EXCEPT !.countdown = b.countdown - 1]
    BY <1>3, <2>0 DEF Tick
  <2>2. /\ Tick(b) \in Fields /\ Tick(b).location = b.location /\ Tick(b).next = b.next
        /\ Tick(b).on_length = b.on_length /\ Tick(b).off_length = b.off_length
        /\ Tick(b).on_char = b.on_char /\ Tick(b).off_char = b.off_char
        /\ Tick(b).status = b.status /\ Tick(b).countdown = b.countdown - 1
    BY <1>1, <2>0, <2>1 DEF Fields
  <2>3. b.countdown - 1 # 0
    BY <1>3, <2>0 DEF Expired
  <2> QED
    BY <1>1, <1>3, <2>2, <2>3 DEF PhaseChar
<1> QED
  BY <1>2, <1>3

\* A tick keeps the list, and where a structure is alone shows the phase that begins.
LEMMA TickInv ==
    ASSUME BlinkInv, mp1_rtc_tasklet
    PROVE  BlinkInv'
<1> DEFINE hit(cell) == {j \in 1..Len(List) : /\ blink_array[List[j]].location = cell
                                           /\ Expired(Dec(blink_array[List[j]].countdown))}
           latest(cell) == CHOOSE j \in hit(cell) : \A m \in hit(cell) : m <= j
<1>0. /\ BlinkTypes /\ ListInv /\ PhaseInv /\ SoleInv
      /\ blink_array \in [Slots -> Fields]
  BY Zenon DEF BlinkInv, BlinkTypes
<1>1. /\ blink_array' = [s \in Slots |-> IF \E j \in 1..Len(List) : List[j] = s
                                         THEN Tick(blink_array[s]) ELSE blink_array[s]]
      /\ vmem' = [cell \in DOMAIN vmem |-> IF hit(cell) = {} THEN vmem[cell]
                                        ELSE NewChar(blink_array[List[latest(cell)]])]
      /\ mp1_list_head' = mp1_list_head /\ sole' = sole
      /\ dark' = {cell \in dark : hit(cell) = {}}
  BY Zenon DEF mp1_rtc_tasklet
<1>2. /\ \A s \in Slots : Used(s) => blink_array'[s] = Tick(blink_array[s])
      /\ \A s \in Slots : ~Used(s) => blink_array'[s] = blink_array[s]
  BY <1>0, <1>1, Zenon DEF ListInv, On
<1>3. ASSUME NEW s \in Slots, Used(s)
      PROVE  LET b == blink_array[s]
                 t == blink_array'[s]
             IN  /\ t \in Fields /\ t.location = b.location /\ t.next = b.next
                 /\ t.on_length >= 1 /\ t.off_length >= 1
                 /\ t.countdown \in 1..(IF t.status = 1 THEN t.on_length ELSE t.off_length)
                 /\ t.off_char = b.off_char
                 /\ PhaseChar(t) = IF Expired(Dec(b.countdown)) THEN NewChar(b) ELSE PhaseChar(b)
  <2>1. /\ blink_array[s] \in Fields
        /\ blink_array[s].on_length >= 1 /\ blink_array[s].off_length >= 1
        /\ blink_array[s].countdown \in 1..(IF blink_array[s].status = 1
                THEN blink_array[s].on_length ELSE blink_array[s].off_length)
    BY <1>0, <1>3, Zenon DEF PhaseInv
  <2> DEFINE t == blink_array'[s]
  <2>2. PICK b : b = blink_array[s]
    OBVIOUS
  <2>3. t = Tick(b)
    BY <1>2, <1>3, <2>2, Zenon
  <2>4. /\ t \in Fields /\ t.location = b.location /\ t.next = b.next
        /\ t.on_length = b.on_length /\ t.off_length = b.off_length
        /\ t.countdown \in 1..(IF t.status = 1 THEN b.on_length ELSE b.off_length)
        /\ t.off_char = b.off_char
        /\ PhaseChar(t) = IF Expired(Dec(b.countdown)) THEN NewChar(b) ELSE PhaseChar(b)
    <3>1. /\ b \in Fields /\ b.on_length >= 1 /\ b.off_length >= 1
          /\ b.countdown \in 1..(IF b.status = 1 THEN b.on_length ELSE b.off_length)
      BY <2>1, <2>2, Zenon
    <3>2. /\ Tick(b) \in Fields /\ Tick(b).location = b.location /\ Tick(b).next = b.next
          /\ Tick(b).on_length = b.on_length /\ Tick(b).off_length = b.off_length
          /\ Tick(b).countdown \in 1..(IF Tick(b).status = 1 THEN b.on_length ELSE b.off_length)
          /\ Tick(b).off_char = b.off_char
          /\ PhaseChar(Tick(b)) = IF Expired(Dec(b.countdown)) THEN NewChar(b) ELSE PhaseChar(b)
      BY <3>1, TickIs, Zenon
    <3> HIDE DEF t
    <3> QED
      BY <2>3, <3>2, Zenon
  <2>5. t.on_length >= 1 /\ t.off_length >= 1
    BY <2>1, <2>2, <2>4, Zenon
  <2>6. t.countdown \in 1..(IF t.status = 1 THEN t.on_length ELSE t.off_length)
    BY <2>4, Zenon
  <2> QED
    BY <2>2, <2>4, <2>5, <2>6, Zenon
<1>4. BlinkTypes'
  <2>1. \A s \in Slots : blink_array'[s] \in Fields
    BY <1>0, <1>2, <1>3, Zenon
  <2>2. blink_array' \in [Slots -> Fields]
    <3>1. blink_array' = [s \in Slots |-> blink_array'[s]]
      BY <1>1, Zenon
    <3> QED
      BY <2>1, <3>1, Zenon
  <2>3. vmem' = [cell \in 0..(CELLS - 1) |-> vmem'[cell]]
    <3>1. DOMAIN vmem = 0..(CELLS - 1)
      BY <1>0, Zenon DEF BlinkTypes
    <3> HIDE DEF hit, latest
    <3>2. vmem' = [cell \in DOMAIN vmem |-> vmem'[cell]]
      BY <1>1
    <3> QED
      BY <3>1, <3>2
  <2>4. mp1_list_head' = mp1_list_head
    BY Zenon DEF mp1_rtc_tasklet
  <2>5. mp1_list_head' \in Slots \cup {Null}
    BY <1>0, <2>4, Zenon DEF BlinkTypes
  <2> QED
    BY <2>2, <2>3, <2>5, Zenon DEF BlinkTypes
<1>5. \A s \in Slots : /\ blink_array'[s].next = blink_array[s].next
                       /\ blink_array'[s].location = blink_array[s].location
  BY <1>2, <1>3, Zenon
<1>6. ListInv'
  BY <1>0, <1>1, <1>4, <1>5, SameList, Zenon
<1>7. \A s \in Slots : Used(s)' => Used(s)
  BY <1>5, Zenon DEF Used
<1>8. PhaseInv'
  BY <1>3, <1>7, Zenon DEF PhaseInv
<1>9. SoleInv'
  <2> SUFFICES ASSUME NEW s \in Slots, Used(s)', blink_array'[s].location \in sole'
               PROVE  /\ \A t \in Slots : blink_array'[t].location = blink_array'[s].location => t = s
                      /\ vmem'[blink_array'[s].location] = Shows(blink_array'[s], dark')
    BY Zenon DEF SoleInv
  <2> DEFINE cell == blink_array[s].location
  <2>1. Used(s) /\ cell \in sole /\ blink_array'[s].location = cell
    BY <1>1, <1>5, <1>7, Zenon
  <2>2. /\ \A t \in Slots : blink_array[t].location = cell => t = s
        /\ vmem[cell] = Shows(blink_array[s], dark)
    BY <1>0, <2>1, Zenon DEF SoleInv
  <2>3. \A t \in Slots : blink_array'[t].location = cell => t = s
    BY <1>5, <2>2, Zenon
  <2>4. /\ blink_array'[s].off_char = blink_array[s].off_char
        /\ PhaseChar(blink_array'[s]) =
             IF Expired(Dec(blink_array[s].countdown)) THEN NewChar(blink_array[s])
             ELSE PhaseChar(blink_array[s])
    BY <1>3, <2>1, Zenon
  <2>5. vmem'[cell] = IF hit(cell) = {} THEN vmem[cell] ELSE NewChar(blink_array[List[latest(cell)]])
    <3>1. cell \in DOMAIN vmem
      <4>1. blink_array[s] \in Fields
        BY <1>0, Zenon
      <4>2. cell \in 0..(CELLS - 1)
        BY <4>1 DEF Fields
      <4> QED
        BY <1>0, <4>2, Zenon DEF BlinkTypes
    <3> QED
      BY <1>1, <3>1, Zenon
  <2>6. PICK i \in 1..Len(List) : List[i] = s
    BY <1>0, <2>1, Zenon DEF ListInv, On
  <2>7. \A j \in 1..Len(List) : List[j] \in Slots
    BY <1>0 DEF ListInv
  <2>8. \A j \in 1..Len(List) : blink_array[List[j]].location = cell => j = i
    BY <1>0, <2>2, <2>6, <2>7, Zenon DEF ListInv, Once
  <2>9. hit(cell) = IF Expired(Dec(blink_array[s].countdown)) THEN {i} ELSE {}
    BY <2>6, <2>8
  <2>10. hit(cell) = {i} => latest(cell) = i
    <3>1. i <= i
      BY <1>0, <2>6 DEF ListInv
    <3> HIDE DEF hit
    <3> QED
      BY <3>1
  <2> HIDE DEF hit, latest, cell
  <2>11. CASE Expired(Dec(blink_array[s].countdown))
    <3>1. hit(cell) = {i} /\ hit(cell) # {} /\ latest(cell) = i
      BY <2>9, <2>10, <2>11
    <3>2. cell \notin dark'
      BY <1>1, <3>1, Zenon
    <3>3. Shows(blink_array'[s], dark') = NewChar(blink_array[s])
      BY <2>1, <2>4, <2>11, <3>2, Zenon DEF Shows
    <3> QED
      BY <2>1, <2>3, <2>5, <2>6, <3>1, <3>3, Zenon
  <2>12. CASE ~Expired(Dec(blink_array[s].countdown))
    <3>1. hit(cell) = {} /\ (cell \in dark' <=> cell \in dark)
      BY <1>1, <2>9, <2>12, Zenon
    <3>2. Shows(blink_array'[s], dark') = Shows(blink_array[s], dark)
      BY <2>1, <2>4, <2>12, <3>1, Zenon DEF Shows, cell
    <3> QED
      BY <2>1, <2>2, <2>3, <2>5, <3>1, <3>2, Zenon
  <2> QED
    BY <2>11, <2>12, Zenon
<1> QED
  BY <1>4, <1>6, <1>8, <1>9, Zenon DEF BlinkInv

\* Every step keeps the invariant.
LEMMA BlinkStep == BlinkInv /\ [BlinkNext]_blinkVars => BlinkInv'
<1> SUFFICES ASSUME BlinkInv, [BlinkNext]_blinkVars PROVE BlinkInv'
  OBVIOUS
<1>1. CASE \E b \in Blinks : mp1_ioctl_add(b)
  BY <1>1, AddInv, Zenon
<1>2. CASE \E loc \in Locations : mp1_ioctl_remove(loc)
  BY <1>2, RemoveInv, Zenon
<1>3. CASE \E loc \in Locations : mp1_ioctl_find(loc)
  BY <1>3, QuietBlink, Zenon DEF mp1_ioctl_find
<1>4. CASE \E src, dst \in Locations : mp1_ioctl_sync(src, dst)
  BY <1>4, SyncInv, Zenon
<1>5. CASE mp1_rtc_tasklet
  BY <1>5, TickInv, Zenon
<1>6. CASE UNCHANGED blinkVars
  BY <1>6, QuietBlink, Zenon DEF blinkVars
<1> QED
  BY <1>1, <1>2, <1>3, <1>4, <1>5, <1>6, Zenon DEF BlinkNext

\* What a structure is on the list for: it is in use, and so in its phase.
LEMMA BlinkInvImplies == BlinkInv => ListIsAllocated /\ CountdownInPhase /\ PhaseShown
<1> SUFFICES ASSUME BlinkInv PROVE ListIsAllocated /\ CountdownInPhase /\ PhaseShown
  OBVIOUS
<1>0. ListInv /\ PhaseInv /\ SoleInv
  BY DEF BlinkInv
<1>1. \A j \in 1..Len(List) : List[j] \in Slots
  BY <1>0 DEF ListInv
<1>2. \A j \in 1..Len(List) : Used(List[j])
  BY <1>0, <1>1, Zenon DEF ListInv, On
<1>3. ListIsAllocated
  <2>1. Len(List) <= SLOTS
    BY <1>0, OnceIsShort, Zenon DEF ListInv
  <2>2. {List[j] : j \in 1..Len(List)} = {s \in Slots : blink_array[s].location # 0}
    BY <1>0, <1>1, Zenon DEF ListInv, On, Used
  <2> QED
    BY <1>0, <2>1, <2>2, Zenon DEF ListIsAllocated, ListInv, Once
<1>4. CountdownInPhase
  BY <1>0, <1>1, <1>2, Zenon DEF CountdownInPhase, PhaseInv
<1>5. PhaseShown
  BY <1>0, <1>1, <1>2, Zenon DEF PhaseShown, SoleInv, PhaseChar, Shows
<1> QED
  BY <1>3, <1>4, <1>5

\* However characters are added, removed and synchronised, and whenever ticks come, the
\* list the loops of blink.S walk ends, passes each structure once, and holds exactly the
\* structures mp1_malloc gave out and mp1_free did not take back.
THEOREM ListIsAllocatedAlways == BlinkSpec => []ListIsAllocated
<1>1. BlinkInit => BlinkInv
  BY BlinkInitInv
<1>2. BlinkInv /\ [BlinkNext]_blinkVars => BlinkInv'
  BY BlinkStep
<1>3. BlinkInv => ListIsAllocated
  BY BlinkInvImplies
<1> QED
  BY <1>1, <1>2, <1>3, PTL DEF BlinkSpec

\* No tick of mp1_rtc_tasklet finds a used up countdown, and no call leaves one longer than
\* the phase it counts.
THEOREM CountdownInPhaseAlways == BlinkSpec => []CountdownInPhase
<1>1. BlinkInit => BlinkInv
  BY BlinkInitInv
<1>2. BlinkInv /\ [BlinkNext]_blinkVars => BlinkInv'
  BY BlinkStep
<1>3. BlinkInv => CountdownInPhase
  BY BlinkInvImplies
<1> QED
  BY <1>1, <1>2, <1>3, PTL DEF BlinkSpec

\* A cell with one structure on it shows the character of that one's phase, unless
\* mp1_ioctl_sync put the off character there: that stays until the phase ends.
THEOREM PhaseShownAlways == BlinkSpec => []PhaseShown
<1>1. BlinkInit => BlinkInv
  BY BlinkInitInv
<1>2. BlinkInv /\ [BlinkNext]_blinkVars => BlinkInv'
  BY BlinkStep
<1>3. BlinkInv => PhaseShown
  BY BlinkInvImplies
<1> QED
  BY <1>1, <1>2, <1>3, PTL DEF BlinkSpec
===============================================================================
