---------------------------- MODULE EtimerProofs ----------------------------
(***************************************************************************)
(* Safety of the event timers, for any number of timers and processes, any *)
(* event queue and any clock with more than 2 * MaxAge values.             *)
(* The code only has wrapped clock values.  EtimerInv ties them to the     *)
(* true age of a timer:                                                    *)
(*                                                                         *)
(*   InStep   now - start, wrapped, is the age of a timer in use;          *)
(*   Wakes    next_expiration, taken as a signed difference from now, is   *)
(*            not after the expiration of a timer on the list.  That it is *)
(*            not before the start of the timer either is needed to know   *)
(*            that the difference does not change its sign by a wrap;      *)
(*   Seen     a timer that has expired is ahead of the scan, or a poll is  *)
(*            pending;                                                     *)
(*   Once, Armed  the list holds no timer twice, and only timers in use    *)
(*            whose owners are alive.                                      *)
(*                                                                         *)
(* The callback timers (Ctimer) are event timers; CtimerInv adds that an   *)
(* entry of ctimer_list is that of a timer that runs, or that has expired  *)
(* and whose event is queued.                                              *)
(***************************************************************************)
EXTENDS Ctimer, FiniteSetTheorems, SequenceTheorems, TLAPS

\* The types of the variables.
EtimerType ==
    /\ now \in Clock /\ next_expiration \in Clock
    /\ start \in [Timer -> Clock]
    /\ interval \in [Timer -> Interval \cup {0}]
    /\ owner \in [Timer -> Proc \cup {NONE}]
    /\ age \in [Timer -> 0 .. MaxAge + 1]
    /\ scan \in Nat /\ polled \in BOOLEAN /\ alive \subseteq Proc
    /\ events \in Seq([p : Proc \cup {NONE}, t : Timer \cup {NONE}])

\* No timer is linked twice.
Members(l) == {l[i] : i \in DOMAIN l}
Once(l) == l \in Seq(Timer) /\ \A i, j \in 1 .. Len(l) : l[i] = l[j] => i = j

\* A timer on the list is in use, and its owner alive.
Armed(l) == \A t \in Members(l) : IsSet(t) /\ age[t] <= MaxAge /\ owner[t] \in alive

\* What the code computes as the time since the start of a timer that is not idle is right.
InStep == \A t \in Timer : age[t] <= MaxAge => Wrap(now - start[t]) = age[t]

\* The next expiration time ne is not after that of a timer that has not expired; nor is
\* it too far back: it was computed after the start of the timer.
Wakes(n, ne, left, since) ==
    left > 0 => SignedDiff(ne, n) <= left /\ SignedDiff(ne, n) >= - since

\* A timer that has expired is looked at.
Seen(t) ==
    Remaining(t) > 0 \/ polled \/ (scan > 0 /\ scan <= Position(t))

EtimerInv ==
    /\ EtimerType
    /\ Once(timerlist) /\ Armed(timerlist)
    /\ InStep
    /\ \A t \in Listed : Wakes(now, next_expiration, Remaining(t), age[t]) /\ Seen(t)

-----------------------------------------------------------------------------
(* Clock values.                                                           *)

\* Wrapping, near the range of the clock.
LEMMA WrapCases ==
    ASSUME NEW x \in Int, - ClockRange <= x, x < 2 * ClockRange
    PROVE  Wrap(x) \in Clock /\ Wrap(x) \in {x, x + ClockRange, x - ClockRange}
BY ClockAssumption DEF Wrap, Clock

\* The moment n is a after the moment s.
Since(n, s, a) == n \in Clock /\ s \in Clock /\ a \in 0 .. MaxAge /\ Wrap(n - s) = a

\* ... in numbers.
LEMMA SinceIs ==
    ASSUME NEW n \in Clock, NEW s \in Clock, NEW a \in 0 .. MaxAge
    PROVE  Since(n, s, a) <=> n - s \in {a, a - ClockRange}
<1>1. n - s \in Int /\ a \in Clock /\ - ClockRange <= n - s /\ n - s < 2 * ClockRange
  BY ClockAssumption DEF Clock
<1>2. Wrap(n - s) \in Clock /\ Wrap(n - s) \in {n - s, n - s + ClockRange, n - s - ClockRange}
  BY <1>1, WrapCases
<1> QED
  BY <1>1, <1>2, ClockAssumption DEF Clock, Since

\* timer_expired is right about it.
LEMMA ExpiredIs ==
    ASSUME NEW n, NEW s, NEW a, Since(n, s, a), NEW i \in Nat, i < MaxAge
    PROVE  i < Wrap(Wrap(n - s) + 1) <=> i - a <= 0
<1>1. a + 1 \in Int /\ - ClockRange <= a + 1 /\ a + 1 < ClockRange /\ a \in 0 .. MaxAge
  BY ClockAssumption DEF Clock, Since
<1>2. Wrap(a + 1) \in Clock /\ Wrap(a + 1) \in {a + 1, a + 1 + ClockRange, a + 1 - ClockRange}
  BY <1>1, WrapCases, ClockAssumption
<1>3. Wrap(a + 1) = a + 1
  BY <1>1, <1>2, ClockAssumption DEF Clock
<1> QED
  BY <1>1, <1>3 DEF Since

\* The time that update_time computes for a timer that has not expired.
LEMMA Distance ==
    ASSUME NEW n, NEW s, NEW a, Since(n, s, a), NEW i \in Nat, i < MaxAge, i - a > 0
    PROVE  Wrap(s + i - n) = i - a
<1>1. n \in Clock /\ s \in Clock /\ a \in 0 .. MaxAge
  BY DEF Since
<1>2. n - s \in {a, a - ClockRange}
  BY <1>1, SinceIs
<1> DEFINE x == s + i - n
<1>3. x \in Int /\ i - a \in Clock /\ x \in {i - a, i - a + ClockRange}
  BY <1>1, <1>2, ClockAssumption DEF Clock
<1> HIDE DEF x
<1>4. - ClockRange <= x /\ x < 2 * ClockRange
  BY <1>3, ClockAssumption DEF Clock
<1>5. Wrap(x) \in Clock /\ Wrap(x) \in {x, x + ClockRange, x - ClockRange}
  BY <1>3, <1>4, WrapCases
<1>6. Wrap(x) = i - a
  BY <1>3, <1>5, ClockAssumption DEF Clock
<1> QED
  BY <1>6 DEF x

\* The start of a timer is moved by d.
LEMMA Shift ==
    ASSUME NEW n, NEW s, NEW a, Since(n, s, a), NEW d \in Int, a - d \in 0 .. MaxAge
    PROVE  Since(n, Wrap(s + d), a - d)
<1>1. n \in Clock /\ s \in Clock /\ a \in 0 .. MaxAge
  BY DEF Since
<1>2. n - s \in {a, a - ClockRange}
  BY <1>1, SinceIs
<1> DEFINE x == s + d
           w == Wrap(x)
<1>3. x \in Int /\ - ClockRange <= x /\ x < 2 * ClockRange
  BY <1>1, ClockAssumption DEF Clock
<1>4. w \in Clock /\ w \in {x, x + ClockRange, x - ClockRange}
  <2> HIDE DEF x
  <2> QED
    BY <1>3, WrapCases
<1> HIDE DEF w
<1>5. n - w \in {a - d, a - d - ClockRange}
  BY <1>1, <1>2, <1>4, ClockAssumption DEF Clock
<1>6. Since(n, w, a - d)
  BY <1>1, <1>4, <1>5, SinceIs
<1> QED
  BY <1>6 DEF w

\* A tick of the clock.
LEMMA TickIs ==
    ASSUME NEW n \in Clock
    PROVE  Wrap(n + 1) \in Clock /\ Wrap(n + 1) \in {n + 1, n + 1 - ClockRange}
<1> DEFINE x == n + 1
<1>1. x \in Int /\ - ClockRange <= x /\ x < 2 * ClockRange
  BY ClockAssumption DEF Clock
<1>2. Wrap(x) \in Clock /\ Wrap(x) \in {x, x + ClockRange, x - ClockRange}
  <2> HIDE DEF x
  <2> QED
    BY <1>1, WrapCases
<1>3. x > 0
  BY DEF Clock
<1> HIDE DEF x
<1>4. Wrap(x) \in Clock /\ Wrap(x) \in {x, x - ClockRange}
  BY <1>1, <1>2, <1>3, ClockAssumption DEF Clock
<1>5. x = n + 1
  BY DEF x
<1> QED
  BY <1>4, <1>5, ClockAssumption DEF Clock

\* The age of a timer grows with the clock.
LEMMA TickSince ==
    ASSUME NEW n, NEW s, NEW a, Since(n, s, a), a < MaxAge
    PROVE  Since(Wrap(n + 1), s, a + 1)
<1>1. n \in Clock /\ s \in Clock /\ a \in 0 .. MaxAge
  BY DEF Since
<1>2. n - s \in {a, a - ClockRange}
  BY <1>1, SinceIs
<1> DEFINE w == Wrap(n + 1)
           b == a + 1
<1>3. w \in Clock /\ w \in {n + 1, n + 1 - ClockRange}
  BY <1>1, TickIs
<1>4. b \in 0 .. MaxAge /\ b = a + 1
  BY <1>1, ClockAssumption
<1> HIDE DEF w, b
<1>5. w - s \in {b, b - ClockRange}
  BY <1>1, <1>2, <1>3, <1>4, ClockAssumption DEF Clock
<1>6. Since(w, s, b)
  BY <1>1, <1>3, <1>4, <1>5, SinceIs
<1> QED
  BY <1>6 DEF w, b

\* The signed difference of two moments is the one that is less than half the range.
LEMMA DiffIs ==
    ASSUME NEW n \in Clock, NEW m \in Clock
    PROVE  /\ SignedDiff(m, n) \in Int
           /\ 2 * SignedDiff(m, n) < ClockRange /\ - ClockRange <= 2 * SignedDiff(m, n)
           /\ SignedDiff(m, n) \in {m - n, m - n + ClockRange, m - n - ClockRange}
<1> DEFINE x == m - n
           w == Wrap(x)
<1>1. x \in Int /\ - ClockRange <= x /\ x < 2 * ClockRange
  BY ClockAssumption DEF Clock
<1>2. w \in Clock /\ w \in {x, x + ClockRange, x - ClockRange}
  <2> HIDE DEF x
  <2> QED
    BY <1>1, WrapCases
<1>3. SignedDiff(m, n) = IF 2 * w < ClockRange THEN w ELSE w - ClockRange
  BY DEF SignedDiff
<1> HIDE DEF w
<1> QED
  BY <1>2, <1>3, ClockAssumption DEF Clock

\* A tick brings a moment closer by one.
LEMMA DiffTick ==
    ASSUME NEW n \in Clock, NEW m \in Clock, 2 * (SignedDiff(m, n) - 1) > - ClockRange
    PROVE  SignedDiff(m, Wrap(n + 1)) = SignedDiff(m, n) - 1
<1> DEFINE w == Wrap(n + 1)
           d == SignedDiff(m, n)
           e == SignedDiff(m, w)
<1>1. w \in Clock /\ w \in {n + 1, n + 1 - ClockRange}
  BY TickIs
<1>2. /\ d \in Int /\ 2 * d < ClockRange
      /\ d \in {m - n, m - n + ClockRange, m - n - ClockRange}
  BY DiffIs
<1>3. /\ e \in Int /\ 2 * e < ClockRange /\ - ClockRange <= 2 * e
      /\ e \in {m - w, m - w + ClockRange, m - w - ClockRange}
  <2> HIDE DEF w
  <2> QED
    BY <1>1, DiffIs
<1>4. 2 * (d - 1) > - ClockRange
  OBVIOUS
<1> HIDE DEF w, d, e
<1>5. e = d - 1
  BY <1>1, <1>2, <1>3, <1>4, ClockAssumption DEF Clock
<1> QED
  BY <1>5 DEF w, d, e

-----------------------------------------------------------------------------
(* update_time.                                                            *)

\* The least element of a set of numbers.
LEMMA MinIs ==
    ASSUME NEW K, K \subseteq Nat, K # {}
    PROVE  Min(K) \in K /\ \A i \in K : Min(K) <= i
<1> DEFINE Less == {pair \in Nat \X Nat : pair[1] < pair[2]}
<1>1. IsWellFoundedOn(Less, Nat)
  BY NatLessThanWellFounded DEF OpToRel
<1>2. PICK k \in K : \A i \in K : <<i, k>> \notin Less
  <2> HIDE DEF Less
  <2> QED
    BY <1>1, WFMin
<1>3. \A i \in K : ~(i < k)
  BY <1>2
<1>4. \A i \in K : k <= i
  BY <1>2, <1>3
<1> QED
  BY <1>2, <1>4 DEF Min

\* The timer t with start s, interval i and age a runs at the time now.
Sound(t, s, i, a) ==
    Since(now, s[t], a[t]) /\ i[t] \in Nat /\ i[t] < MaxAge

\* After update_time the CPU wakes up in time for every timer of the list.
LEMMA UpdateTime ==
    ASSUME NEW l, Once(l), NEW s, NEW i, NEW a, now \in Clock,
           \A t \in Members(l) : Sound(t, s, i, a)
    PROVE  LET ne == NextExpiration(l, s, i)
           IN  /\ ne \in Clock
               /\ \A t \in Members(l) : Wakes(now, ne, i[t] - a[t], a[t])
<1> DEFINE ne == NextExpiration(l, s, i)
           D == {Wrap(s[l[k]] + i[l[k]] - now) : k \in DOMAIN l}
<1>1. CASE l = <<>>
  <2>1. Members(l) = {}
    BY <1>1 DEF Members
  <2>2. ne = 0 /\ 0 \in Clock
    BY <1>1, ClockAssumption DEF NextExpiration, Clock
  <2> QED
    BY <2>1, <2>2
<1>2. CASE l # <<>>
  <2>1. DOMAIN l = 1 .. Len(l) /\ Len(l) \in Nat /\ Len(l) # 0
    BY <1>2, LenProperties, EmptySeq DEF Once
  <2>2. \A k \in DOMAIN l : l[k] \in Members(l)
    BY DEF Members
  <2>3. D \subseteq Clock
    <3>1. \A k \in DOMAIN l : s[l[k]] + i[l[k]] - now \in Int
      BY <2>2 DEF Sound, Since, Clock
    <3>2. \A x \in Int : Wrap(x) \in Clock
      BY ClockAssumption DEF Wrap, Clock
    <3> QED
      BY <3>1, <3>2
  <2>4. D # {} /\ D \subseteq Nat
    BY <2>1, <2>3 DEF Clock
  <2> DEFINE tdist == Min(D)
             x == now + tdist
  <2>5. tdist \in D /\ \A e \in D : tdist <= e
    <3> HIDE DEF D
    <3> QED
      BY <2>4, MinIs
  <2>6. ne = Wrap(x)
    BY <1>2 DEF NextExpiration
  <2>7. tdist \in Clock
    BY <2>3, <2>5
  <2>8. ASSUME NEW t \in Members(l), i[t] - a[t] > 0
        PROVE  tdist <= i[t] - a[t] /\ i[t] - a[t] \in Int /\ i[t] - a[t] <= MaxAge /\ a[t] \in Nat
    <3>1. Sound(t, s, i, a)
      OBVIOUS
    <3>2. PICK k \in DOMAIN l : t = l[k]
      BY DEF Members
    <3>3. Wrap(s[t] + i[t] - now) = i[t] - a[t]
      BY <2>8, <3>1, Distance DEF Sound
    <3>4. Wrap(s[t] + i[t] - now) \in D
      BY <3>2
    <3>5. tdist <= i[t] - a[t]
      <4> HIDE DEF tdist, D
      <4> QED
        BY <2>5, <3>3, <3>4
    <3> QED
      BY <3>1, <3>5, ClockAssumption DEF Sound, Since
  <2> HIDE DEF tdist, D
  <2>9. x \in Int /\ - ClockRange <= x /\ x < 2 * ClockRange
    BY <2>7, ClockAssumption DEF Clock
  <2>10. ne \in Clock /\ ne \in {x, x + ClockRange, x - ClockRange}
    <3> HIDE DEF x, ne
    <3> QED
      BY <2>6, <2>9, WrapCases
  <2> HIDE DEF ne
  <2>11. ASSUME NEW t \in Members(l), i[t] - a[t] > 0
         PROVE  SignedDiff(ne, now) <= i[t] - a[t] /\ SignedDiff(ne, now) >= - a[t]
    <3>1. 2 * tdist < ClockRange /\ tdist \in Nat
      BY <2>7, <2>8, <2>11, ClockAssumption DEF Clock
    <3>2. /\ SignedDiff(ne, now) \in Int
          /\ 2 * SignedDiff(ne, now) < ClockRange /\ - ClockRange <= 2 * SignedDiff(ne, now)
          /\ SignedDiff(ne, now) \in {ne - now, ne - now + ClockRange, ne - now - ClockRange}
      BY <2>10, DiffIs
    <3>3. SignedDiff(ne, now) = tdist
      BY <2>7, <2>10, <3>1, <3>2, ClockAssumption DEF Clock
    <3> QED
      BY <2>8, <2>11, <3>1, <3>3
  <2>12. \A t \in Members(l) : Wakes(now, ne, i[t] - a[t], a[t])
    BY <2>11 DEF Wakes
  <2> QED
    BY <2>10, <2>12 DEF ne
<1> QED
  BY <1>1, <1>2

-----------------------------------------------------------------------------
(* The list.                                                               *)

\* The types of the list and of its members.
LEMMA ListIs ==
    ASSUME NEW l, Once(l)
    PROVE  /\ l \in Seq(Timer) /\ Len(l) \in Nat /\ DOMAIN l = 1 .. Len(l)
           /\ \A k \in 1 .. Len(l) : l[k] \in Members(l) /\ l[k] \in Timer
           /\ \A t \in Members(l) : t \in Timer /\ \E k \in 1 .. Len(l) : t = l[k]
<1>1. l \in Seq(Timer) /\ Len(l) \in Nat /\ DOMAIN l = 1 .. Len(l)
  BY LenProperties DEF Once
<1>2. \A k \in 1 .. Len(l) : l[k] \in Timer
  BY <1>1, ElementOfSeq
<1> QED
  BY <1>1, <1>2 DEF Members

\* A timer is added at the head.
LEMMA AtHead ==
    ASSUME NEW l, Once(l), NEW t \in Timer, t \notin Members(l)
    PROVE  LET m == <<t>> \o l
           IN  Once(m) /\ Members(m) = Members(l) \cup {t}
<1> DEFINE m == <<t>> \o l
<1>1. <<t>> \in Seq(Timer) /\ Len(<<t>>) = 1 /\ <<t>>[1] = t /\ l \in Seq(Timer) /\ Len(l) \in Nat
  BY ListIs
<1>2. /\ m \in Seq(Timer) /\ Len(m) = 1 + Len(l)
      /\ \A i \in 1 .. 1 + Len(l) : m[i] = IF i <= 1 THEN <<t>>[i] ELSE l[i - 1]
  BY <1>1, ConcatProperties
<1> HIDE DEF m
<1>3. \A i \in 1 .. Len(m) : \/ i = 1 /\ m[i] = t
                             \/ i - 1 \in 1 .. Len(l) /\ m[i] = l[i - 1]
  <2> SUFFICES ASSUME NEW i \in 1 .. Len(m)
               PROVE  \/ i = 1 /\ m[i] = t
                      \/ i - 1 \in 1 .. Len(l) /\ m[i] = l[i - 1]
    OBVIOUS
  <2>1. i \in 1 .. 1 + Len(l) /\ (i = 1 \/ (i - 1 \in 1 .. Len(l) /\ ~(i <= 1)))
    BY <1>1, <1>2
  <2> QED
    BY <1>1, <1>2, <2>1
<1>4. \A i \in 1 .. Len(l) : l[i] # t /\ l[i] \in Members(l)
  BY ListIs
<1>5. Once(m)
  <2> SUFFICES ASSUME NEW i \in 1 .. Len(m), NEW j \in 1 .. Len(m), m[i] = m[j] PROVE i = j
    BY <1>2 DEF Once
  <2>1. CASE i = 1 \/ j = 1
    BY <1>3, <1>4, <2>1
  <2>2. CASE i # 1 /\ j # 1
    <3>1. i - 1 = j - 1
      BY <1>3, <2>2 DEF Once
    <3> QED
      BY <1>1, <1>2, <3>1
  <2> QED
    BY <2>1, <2>2
<1>6. Members(m) \subseteq Members(l) \cup {t}
  <2> SUFFICES ASSUME NEW q \in Members(m) PROVE q \in Members(l) \cup {t}
    OBVIOUS
  <2>1. PICK i \in 1 .. Len(m) : q = m[i]
    BY <1>5, ListIs
  <2> QED
    BY <1>3, <1>4, <2>1
<1>7. ASSUME NEW q \in Members(l) \cup {t} PROVE q \in Members(m)
  <2>1. CASE q = t
    <3>1. 1 \in 1 .. Len(m) /\ m[1] = t
      BY <1>1, <1>2
    <3> QED
      BY <1>5, <2>1, <3>1, ListIs
  <2>2. CASE q # t
    <3>1. PICK i \in 1 .. Len(l) : q = l[i]
      BY <2>2, ListIs
    <3>2. i + 1 \in 1 .. 1 + Len(l) /\ ~(i + 1 <= 1) /\ (i + 1) - 1 = i
      BY <1>1, <3>1
    <3>3. i + 1 \in 1 .. Len(m) /\ m[i + 1] = q
      BY <1>2, <3>1, <3>2
    <3> QED
      BY <1>5, <3>3, ListIs
  <2> QED
    BY <2>1, <2>2
<1> QED
  BY <1>5, <1>6, <1>7 DEF m

\* A timer is taken out.
Cut(l, k) == SubSeq(l, 1, k - 1) \o SubSeq(l, k + 1, Len(l))

LEMMA TakenOut ==
    ASSUME NEW l, Once(l), NEW k \in 1 .. Len(l)
    PROVE  LET m == Cut(l, k)
           IN  Once(m) /\ Members(m) = Members(l) \ {l[k]}
<1> DEFINE a == SubSeq(l, 1, k - 1)
           b == SubSeq(l, k + 1, Len(l))
           m == Cut(l, k)
<1>1. l \in Seq(Timer) /\ Len(l) \in Nat /\ k \in Nat /\ k > 0 /\ k <= Len(l)
  BY ListIs
<1>2. a \in Seq(Timer) /\ Len(a) = k - 1 /\ \A i \in 1 .. k - 1 : a[i] = l[i]
  <2>1. /\ 1 \in 1 .. Len(l) + 1 /\ k - 1 \in 1 - 1 .. Len(l)
    BY <1>1
  <2>2. /\ a \in Seq(Timer) /\ Len(a) = IF 1 <= k - 1 THEN k - 1 - 1 + 1 ELSE 0
        /\ \A i \in 1 .. k - 1 - 1 + 1 : a[i] = l[1 + i - 1]
    BY <1>1, <2>1, SubSeqProperties
  <2> HIDE DEF a
  <2>3. Len(a) = k - 1
    BY <1>1, <2>2
  <2>4. k - 1 - 1 + 1 = k - 1 /\ \A i \in 1 .. k - 1 : 1 + i - 1 = i
    BY <1>1
  <2> QED
    BY <2>2, <2>3, <2>4
<1>3. b \in Seq(Timer) /\ Len(b) = Len(l) - k /\ \A i \in 1 .. Len(l) - k : b[i] = l[k + i]
  <2>1. /\ k + 1 \in 1 .. Len(l) + 1 /\ Len(l) \in k + 1 - 1 .. Len(l)
    BY <1>1
  <2>2. /\ b \in Seq(Timer) /\ Len(b) = IF k + 1 <= Len(l) THEN Len(l) - (k + 1) + 1 ELSE 0
        /\ \A i \in 1 .. Len(l) - (k + 1) + 1 : b[i] = l[k + 1 + i - 1]
    BY <1>1, <2>1, SubSeqProperties
  <2> HIDE DEF b
  <2>3. Len(b) = Len(l) - k
    BY <1>1, <2>2
  <2>4. Len(l) - (k + 1) + 1 = Len(l) - k /\ \A i \in 1 .. Len(l) - k : k + 1 + i - 1 = k + i
    BY <1>1
  <2> QED
    BY <2>2, <2>3, <2>4
<1>4. /\ m \in Seq(Timer) /\ Len(m) = Len(a) + Len(b)
      /\ \A i \in 1 .. Len(a) + Len(b) : m[i] = IF i <= Len(a) THEN a[i] ELSE b[i - Len(a)]
  BY <1>2, <1>3, ConcatProperties DEF Cut
<1> HIDE DEF a, b, m
<1>5. \A i \in 1 .. Len(m) : \/ i < k /\ i \in 1 .. Len(l) /\ m[i] = l[i]
                             \/ i >= k /\ i + 1 \in 1 .. Len(l) /\ m[i] = l[i + 1]
  <2> SUFFICES ASSUME NEW i \in 1 .. Len(m)
               PROVE  \/ i < k /\ i \in 1 .. Len(l) /\ m[i] = l[i]
                      \/ i >= k /\ i + 1 \in 1 .. Len(l) /\ m[i] = l[i + 1]
    OBVIOUS
  <2>1. i \in Nat /\ i \in 1 .. Len(a) + Len(b)
    BY <1>4
  <2>2. CASE i < k
    <3>1. i <= Len(a) /\ i \in 1 .. k - 1 /\ i \in 1 .. Len(l)
      BY <1>1, <1>2, <2>1, <2>2
    <3> QED
      BY <1>2, <1>4, <2>1, <2>2, <3>1
  <2>3. CASE i >= k
    <3>1. /\ ~(i <= Len(a)) /\ i - Len(a) \in 1 .. Len(l) - k /\ k + (i - Len(a)) = i + 1
          /\ i + 1 \in 1 .. Len(l)
      BY <1>1, <1>2, <1>3, <2>1, <2>3
    <3> QED
      BY <1>3, <1>4, <2>1, <2>3, <3>1
  <2> QED
    BY <1>1, <2>1, <2>2, <2>3
<1>6. \A x, y \in 1 .. Len(l) : l[x] = l[y] => x = y
  BY DEF Once
<1>7. Once(m)
  <2> SUFFICES ASSUME NEW i \in 1 .. Len(m), NEW j \in 1 .. Len(m), m[i] = m[j] PROVE i = j
    BY <1>4 DEF Once
  <2>1. CASE i < k /\ j < k
    BY <1>1, <1>5, <1>6, <2>1
  <2>2. CASE i < k /\ j >= k
    <3>1. i = j + 1
      BY <1>1, <1>5, <1>6, <2>2
    <3> QED
      BY <1>1, <2>2, <3>1
  <2>3. CASE i >= k /\ j < k
    <3>1. i + 1 = j
      BY <1>1, <1>5, <1>6, <2>3
    <3> QED
      BY <1>1, <2>3, <3>1
  <2>4. CASE i >= k /\ j >= k
    <3>1. i + 1 = j + 1
      BY <1>1, <1>5, <1>6, <2>4
    <3> QED
      BY <3>1
  <2> QED
    BY <1>1, <2>1, <2>2, <2>3, <2>4
<1>8. Members(m) \subseteq Members(l) \ {l[k]}
  <2> SUFFICES ASSUME NEW q \in Members(m) PROVE q \in Members(l) /\ q # l[k]
    OBVIOUS
  <2>1. PICK i \in 1 .. Len(m) : q = m[i]
    BY <1>7, ListIs
  <2>2. PICK j \in 1 .. Len(l) : j # k /\ q = l[j]
    BY <1>1, <1>5, <2>1
  <2> QED
    BY <1>6, <2>2, ListIs
<1>9. ASSUME NEW q \in Members(l), q # l[k] PROVE q \in Members(m)
  <2>1. PICK j \in 1 .. Len(l) : q = l[j]
    BY ListIs
  <2>2. j \in Nat /\ j # k /\ j <= Len(l) /\ j > 0
    BY <1>1, <1>9, <2>1
  <2>3. CASE j < k
    <3>1. j \in 1 .. Len(a) + Len(b) /\ j <= Len(a) /\ j \in 1 .. k - 1
      BY <1>1, <1>2, <1>3, <2>2, <2>3
    <3>2. j \in 1 .. Len(m) /\ m[j] = q
      BY <1>2, <1>4, <2>1, <3>1
    <3> QED
      BY <1>7, <3>2, ListIs
  <2>4. CASE j > k
    <3> DEFINE i == j - 1
    <3>1. /\ i \in 1 .. Len(a) + Len(b) /\ ~(i <= Len(a)) /\ i - Len(a) \in 1 .. Len(l) - k
          /\ k + (i - Len(a)) = j
      BY <1>1, <1>2, <1>3, <2>2, <2>4
    <3> HIDE DEF i
    <3>2. i \in 1 .. Len(m) /\ m[i] = q
      BY <1>3, <1>4, <2>1, <3>1
    <3> QED
      BY <1>7, <3>2, ListIs
  <2> QED
    BY <1>1, <2>2, <2>3, <2>4
<1> QED
  BY <1>7, <1>8, <1>9 DEF m

\* Listed, Position and Without.
LEMMA PositionIs ==
    ASSUME Once(timerlist), NEW t \in Listed
    PROVE  /\ Position(t) \in 1 .. Len(timerlist) /\ timerlist[Position(t)] = t
           /\ Without(t) = Cut(timerlist, Position(t))
           /\ Once(Without(t)) /\ Members(Without(t)) = Listed \ {t}
<1>1. DOMAIN timerlist = 1 .. Len(timerlist)
  BY ListIs
<1>2. Position(t) \in 1 .. Len(timerlist) /\ timerlist[Position(t)] = t
  BY <1>1 DEF Listed, Position
<1>3. Without(t) = Cut(timerlist, Position(t))
  BY DEF Without, Cut
<1>4. Listed = Members(timerlist)
  BY DEF Listed, Members
<1> QED
  BY <1>2, <1>3, <1>4, TakenOut

-----------------------------------------------------------------------------
(* The actions.                                                            *)

\* Of a timer in use, timer_expired says whether its interval has really passed.
LEMMA InUseIs ==
    ASSUME EtimerInv, NEW t \in Timer, InUse(t)
    PROVE  /\ Sound(t, start, interval, age)
           /\ timer_expired(t) <=> Remaining(t) <= 0
<1>1. now \in Clock /\ start[t] \in Clock /\ age[t] \in 0 .. MaxAge + 1 /\ age[t] <= MaxAge
  BY DEF EtimerInv, EtimerType, InUse
<1>2. Since(now, start[t], age[t])
  BY <1>1, ClockAssumption DEF EtimerInv, InStep, Since
<1>3. interval[t] \in Nat /\ interval[t] < MaxAge
  BY ClockAssumption DEF InUse, IsSet
<1>4. interval[t] < Wrap(Wrap(now - start[t]) + 1) <=> interval[t] - age[t] <= 0
  BY <1>2, <1>3, ExpiredIs
<1> QED
  BY <1>2, <1>3, <1>4 DEF Sound, timer_expired, Remaining

\* A timer on the list is in use.
LEMMA ListedIs ==
    ASSUME EtimerInv
    PROVE  /\ Listed = Members(timerlist) /\ Once(timerlist)
           /\ \A t \in Listed : t \in Timer /\ InUse(t) /\ owner[t] \in alive /\ owner[t] # NONE
<1>1. Listed = Members(timerlist) /\ Once(timerlist)
  BY DEF Listed, Members, EtimerInv
<1>2. ASSUME NEW t \in Listed PROVE t \in Timer /\ InUse(t) /\ owner[t] \in alive
  BY <1>1, ListIs DEF EtimerInv, Armed, InUse
<1>3. NONE \notin alive
  BY ClockAssumption DEF EtimerInv, EtimerType
<1> QED
  BY <1>1, <1>2, <1>3

\* Every operation that starts a timer.
LEMMA AddTimer ==
    ASSUME EtimerInv, NEW p \in alive, NEW t \in Timer, add_timer(t, p),
           start' \in [Timer -> Clock], interval' \in [Timer -> Interval \cup {0}],
           age' \in [Timer -> 0 .. MaxAge + 1],
           \A u \in Timer \ {t} :
              start'[u] = start[u] /\ interval'[u] = interval[u] /\ age'[u] = age[u],
           interval'[t] \in Interval, Since(now, start'[t], age'[t])
    PROVE  EtimerInv'
<1>1. /\ Listed = Members(timerlist) /\ Once(timerlist)
      /\ \A u \in Listed : u \in Timer /\ InUse(u) /\ owner[u] \in alive /\ owner[u] # NONE
  BY ListedIs
<1>2. Once(timerlist') /\ Members(timerlist') \subseteq Listed \cup {t}
  <2>1. CASE t \in Listed
    BY <1>1, <2>1 DEF add_timer
  <2>2. CASE t \notin Listed
    <3>1. timerlist' = <<t>> \o timerlist
      BY <2>2 DEF add_timer
    <3> QED
      BY <1>1, <2>2, <3>1, AtHead
  <2> QED
    BY <2>1, <2>2
<1>3. Listed' = Members(timerlist')
  BY DEF Listed, Members
<1>4. /\ now' = now /\ scan' = scan /\ events' = events /\ alive' = alive /\ polled' = TRUE
      /\ owner' = [owner EXCEPT ![t] = p] /\ now \in Clock
  BY DEF add_timer, EtimerInv, EtimerType
<1>5. \A u \in Members(timerlist') : Sound(u, start', interval', age')
  <2>1. Sound(t, start', interval', age')
    BY ClockAssumption DEF Sound
  <2>2. ASSUME NEW u \in Listed, u # t PROVE Sound(u, start', interval', age')
    <3>1. u \in Timer /\ Sound(u, start, interval, age)
      BY <1>1, InUseIs
    <3> QED
      BY <2>2, <3>1 DEF Sound
  <2> QED
    BY <1>2, <2>1, <2>2
<1>6. /\ next_expiration' \in Clock
      /\ \A u \in Members(timerlist') :
            Wakes(now, next_expiration', interval'[u] - age'[u], age'[u])
  <2>1. next_expiration' = NextExpiration(timerlist', start', interval')
    BY DEF add_timer
  <2> QED
    BY <1>2, <1>4, <1>5, <2>1, UpdateTime
<1>7. EtimerType'
  BY <1>4, <1>6 DEF EtimerInv, EtimerType
<1>8. Armed(timerlist)'
  <2>1. \A u \in Members(timerlist') : u \in Listed \/ u = t
    BY <1>2
  <2>2. interval'[t] \in Interval /\ age'[t] <= MaxAge /\ owner'[t] \in alive
    BY <1>4 DEF Since, EtimerInv, EtimerType
  <2>3. ASSUME NEW u \in Listed, u # t
        PROVE  interval'[u] \in Interval /\ age'[u] <= MaxAge /\ owner'[u] \in alive
    BY <1>1, <1>4, <2>3 DEF InUse, IsSet, EtimerInv, EtimerType
  <2> QED
    BY <1>4, <2>1, <2>2, <2>3 DEF Armed, IsSet
<1>9. InStep'
  <2>1. Wrap(now - start'[t]) = age'[t]
    BY DEF Since
  <2>2. \A u \in Timer \ {t} : age'[u] <= MaxAge => Wrap(now - start'[u]) = age'[u]
    BY DEF EtimerInv, InStep
  <2> QED
    BY <1>4, <2>1, <2>2 DEF InStep
<1>10. \A u \in Listed' : Wakes(now, next_expiration, Remaining(u), age[u])' /\ Seen(u)'
  BY <1>3, <1>4, <1>6 DEF Remaining, Seen, Wakes, SignedDiff
<1> QED
  BY <1>2, <1>7, <1>8, <1>9, <1>10 DEF EtimerInv

\* etimer_set and etimer_restart.
LEMMA SetKeeps ==
    ASSUME EtimerInv, NEW p \in Proc, NEW t \in Timer,
           \/ \E i \in Interval : etimer_set(p, t, i)
           \/ etimer_restart(p, t)
    PROVE  EtimerInv'
<1>1. /\ p \in alive /\ timer_restart(t) /\ add_timer(t, p)
      /\ interval' \in [Timer -> Interval \cup {0}] /\ interval'[t] \in Interval
      /\ \A u \in Timer \ {t} : interval'[u] = interval[u]
  <2>1. interval \in [Timer -> Interval \cup {0}]
    BY DEF EtimerInv, EtimerType
  <2>2. ASSUME NEW i \in Interval, etimer_set(p, t, i)
        PROVE  /\ p \in alive /\ timer_restart(t) /\ add_timer(t, p)
               /\ interval' \in [Timer -> Interval \cup {0}] /\ interval'[t] \in Interval
               /\ \A u \in Timer \ {t} : interval'[u] = interval[u]
    BY <2>1, <2>2 DEF etimer_set, Runs
  <2>3. CASE etimer_restart(p, t)
    BY <2>1, <2>3 DEF etimer_restart, Runs, IsSet
  <2> QED
    BY <2>2, <2>3
<1>2. MaxAge \in Nat /\ MaxAge > 0
  <2>1. interval'[t] \in Nat /\ interval'[t] < MaxAge /\ MaxAge \in Nat
    BY <1>1, ClockAssumption
  <2> QED
    BY <2>1
<1>3. now \in Clock /\ start \in [Timer -> Clock] /\ age \in [Timer -> 0 .. MaxAge + 1]
  BY DEF EtimerInv, EtimerType
<1>4. /\ start' \in [Timer -> Clock] /\ age' \in [Timer -> 0 .. MaxAge + 1]
      /\ start'[t] = now /\ age'[t] = 0
      /\ \A u \in Timer \ {t} : start'[u] = start[u] /\ age'[u] = age[u]
  <2>1. 0 \in 0 .. MaxAge + 1
    BY <1>2
  <2> QED
    BY <1>1, <1>3, <2>1 DEF timer_restart
<1>5. Since(now, start'[t], age'[t])
  <2>1. 0 \in 0 .. MaxAge /\ now - now = 0
    BY <1>2, <1>3, ClockAssumption DEF Clock
  <2> QED
    BY <1>3, <1>4, <2>1, SinceIs
<1> QED
  BY <1>1, <1>4, <1>5, AddTimer

\* etimer_reset, with or without a new interval: the start moves to the last expiration.
LEMMA ResetKeeps ==
    ASSUME EtimerInv, NEW p \in Proc, NEW t \in Timer,
           \/ \E i \in Interval : etimer_reset_with_new_interval(p, t, i)
           \/ etimer_reset(p, t)
    PROVE  EtimerInv'
<1>1. /\ p \in alive /\ InUse(t) /\ timer_reset(t) /\ add_timer(t, p)
      /\ interval' \in [Timer -> Interval \cup {0}] /\ interval'[t] \in Interval
      /\ \A u \in Timer \ {t} : interval'[u] = interval[u]
  <2>1. interval \in [Timer -> Interval \cup {0}]
    BY DEF EtimerInv, EtimerType
  <2>2. ASSUME NEW i \in Interval, etimer_reset_with_new_interval(p, t, i)
        PROVE  /\ p \in alive /\ InUse(t) /\ timer_reset(t) /\ add_timer(t, p)
               /\ interval' \in [Timer -> Interval \cup {0}] /\ interval'[t] \in Interval
               /\ \A u \in Timer \ {t} : interval'[u] = interval[u]
    BY <2>1, <2>2 DEF etimer_reset_with_new_interval, Runs
  <2>3. CASE etimer_reset(p, t)
    BY <2>1, <2>3 DEF etimer_reset, Runs, InUse, IsSet
  <2> QED
    BY <2>2, <2>3
<1>2. /\ Since(now, start[t], age[t]) /\ interval[t] \in Nat /\ interval[t] < MaxAge
      /\ timer_expired(t) <=> interval[t] - age[t] <= 0
  BY <1>1, InUseIs DEF Sound, Remaining
<1>3. now \in Clock /\ start \in [Timer -> Clock] /\ age \in [Timer -> 0 .. MaxAge + 1]
  BY DEF EtimerInv, EtimerType
<1>4. CASE timer_expired(t)
  <2> DEFINE s == Wrap(start[t] + interval[t])
             a == age[t] - interval[t]
  <2>1. a \in 0 .. MaxAge /\ a \in 0 .. MaxAge + 1
    BY <1>2, <1>4, ClockAssumption DEF Since
  <2>2. Since(now, s, a)
    BY <1>2, <2>1, Shift
  <2>3. start' = [start EXCEPT ![t] = s] /\ age' = [age EXCEPT ![t] = a]
    BY <1>1, <1>4 DEF timer_reset
  <2> HIDE DEF s, a
  <2>4. s \in Clock
    BY <2>2 DEF Since
  <2>5. /\ start' \in [Timer -> Clock] /\ age' \in [Timer -> 0 .. MaxAge + 1]
        /\ start'[t] = s /\ age'[t] = a
        /\ \A u \in Timer \ {t} : start'[u] = start[u] /\ age'[u] = age[u]
    BY <1>3, <2>1, <2>3, <2>4
  <2> QED
    BY <1>1, <2>2, <2>5, AddTimer
<1>5. CASE ~timer_expired(t)
  <2>1. start' = start /\ age' = age
    BY <1>1, <1>5 DEF timer_reset
  <2> QED
    BY <1>1, <1>2, <1>3, <2>1, AddTimer
<1> QED
  BY <1>4, <1>5

\* etimer_adjust.
LEMMA AdjustKeeps ==
    ASSUME EtimerInv, NEW p \in Proc, NEW t \in Timer, NEW d \in Adjustment, etimer_adjust(p, t, d)
    PROVE  EtimerInv'
<1> DEFINE s == Wrap(start[t] + d)
           a == age[t] - d
<1>1. /\ Listed = Members(timerlist) /\ Once(timerlist)
      /\ \A u \in Listed : u \in Timer /\ InUse(u) /\ owner[u] \in alive
  BY ListedIs
<1>2. /\ now \in Clock /\ start \in [Timer -> Clock] /\ age \in [Timer -> 0 .. MaxAge + 1]
      /\ InStep
  BY DEF EtimerInv, EtimerType
<1>3. InUse(t) /\ a \in 0 .. interval[t] - 1
  BY DEF etimer_adjust
<1>4. Since(now, start[t], age[t]) /\ interval[t] \in Nat /\ interval[t] < MaxAge
  BY <1>3, InUseIs DEF Sound
<1>5. a \in 0 .. MaxAge /\ a \in 0 .. MaxAge + 1 /\ interval[t] - a > 0
  <2> HIDE DEF a
  <2> QED
    BY <1>3, <1>4, ClockAssumption
<1>6. Since(now, s, a)
  BY <1>4, <1>5, Shift, ClockAssumption
<1>7. /\ start' = [start EXCEPT ![t] = s] /\ age' = [age EXCEPT ![t] = a]
      /\ UNCHANGED <<now, interval, owner, timerlist, polled, scan, events, alive>>
      /\ next_expiration' = NextExpiration(timerlist, start', interval)
  BY DEF etimer_adjust
<1> HIDE DEF s, a
<1>8. s \in Clock
  BY <1>6 DEF Since
<1>9. /\ start' \in [Timer -> Clock] /\ age' \in [Timer -> 0 .. MaxAge + 1]
      /\ start'[t] = s /\ age'[t] = a
      /\ \A u \in Timer \ {t} : start'[u] = start[u] /\ age'[u] = age[u]
  BY <1>2, <1>5, <1>7, <1>8
<1>10. \A u \in Members(timerlist) : Sound(u, start', interval, age')
  <2>1. Sound(t, start', interval, age')
    BY <1>4, <1>6, <1>9 DEF Sound
  <2>2. ASSUME NEW u \in Listed, u # t PROVE Sound(u, start', interval, age')
    <3>1. u \in Timer /\ Sound(u, start, interval, age)
      BY <1>1, InUseIs
    <3> QED
      BY <1>9, <2>2, <3>1 DEF Sound
  <2> QED
    BY <1>1, <2>1, <2>2
<1>11. /\ next_expiration' \in Clock
       /\ \A u \in Members(timerlist) :
             Wakes(now, next_expiration', interval[u] - age'[u], age'[u])
  BY <1>1, <1>2, <1>7, <1>10, UpdateTime
<1>12. EtimerType'
  BY <1>7, <1>9, <1>11 DEF EtimerInv, EtimerType
<1>13. Armed(timerlist)'
  <2>1. \A u \in Listed : age'[u] <= MaxAge
    BY <1>1, <1>5, <1>9 DEF InUse
  <2> QED
    BY <1>1, <1>7, <2>1 DEF Armed, IsSet, InUse, Members
<1>14. InStep'
  <2>1. Wrap(now - start'[t]) = age'[t]
    BY <1>6, <1>9 DEF Since
  <2>2. \A u \in Timer \ {t} : age'[u] <= MaxAge => Wrap(now - start'[u]) = age'[u]
    BY <1>2, <1>9 DEF InStep
  <2> QED
    BY <1>7, <2>1, <2>2 DEF InStep
<1>15. Listed' = Listed
  BY <1>7 DEF Listed
<1>16. \A u \in Listed : Wakes(now, next_expiration, Remaining(u), age[u])'
  BY <1>1, <1>7, <1>11 DEF Remaining, Wakes, SignedDiff
<1>17. ASSUME NEW u \in Listed PROVE Seen(u)'
  <2>1. CASE u = t
    BY <1>5, <1>7, <1>9, <2>1 DEF Seen, Remaining
  <2>2. CASE u # t
    <3>1. Seen(u) /\ age'[u] = age[u]
      BY <1>1, <1>9, <2>2 DEF EtimerInv
    <3> QED
      BY <1>7, <3>1 DEF Seen, Remaining, Position
  <2> QED
    BY <2>1, <2>2
<1> QED
  BY <1>1, <1>7, <1>12, <1>13, <1>14, <1>15, <1>16, <1>17 DEF EtimerInv

\* Timers leave the list.
LEMMA Shrinks ==
    ASSUME EtimerInv, UNCHANGED <<now, timerVars>>,
           Once(timerlist'), Members(timerlist') \subseteq Listed,
           \/ next_expiration' = next_expiration
           \/ next_expiration' = NextExpiration(timerlist', start, interval)
    PROVE  /\ next_expiration' \in Clock /\ InStep' /\ Listed' \subseteq Listed
           /\ \A u \in Listed' : /\ Wakes(now, next_expiration, Remaining(u), age[u])'
                                 /\ Remaining(u)' = Remaining(u)
<1>1. /\ Listed = Members(timerlist) /\ Once(timerlist)
      /\ \A u \in Listed : u \in Timer /\ InUse(u)
  BY ListedIs
<1>2. Listed' = Members(timerlist')
  BY DEF Listed, Members
<1>3. now' = now /\ start' = start /\ interval' = interval /\ age' = age /\ now \in Clock
  BY DEF timerVars, EtimerInv, EtimerType
<1>4. /\ next_expiration' \in Clock
      /\ \A u \in Members(timerlist') : Wakes(now, next_expiration', interval[u] - age[u], age[u])
  <2>1. CASE next_expiration' = next_expiration
    BY <1>1, <2>1 DEF EtimerInv, EtimerType, Remaining
  <2>2. CASE next_expiration' = NextExpiration(timerlist', start, interval)
    <3>1. \A u \in Members(timerlist') : Sound(u, start, interval, age)
      BY <1>1, InUseIs
    <3> QED
      BY <1>3, <2>2, <3>1, UpdateTime
  <2> QED
    BY <2>1, <2>2
<1>5. InStep'
  BY <1>3 DEF EtimerInv, InStep
<1>6. \A u \in Listed' : Wakes(now, next_expiration, Remaining(u), age[u])'
  BY <1>2, <1>3, <1>4 DEF Remaining, Wakes, SignedDiff
<1> QED
  BY <1>2, <1>3, <1>4, <1>5, <1>6 DEF Remaining

\* etimer_stop.
LEMMA StopKeeps ==
    ASSUME EtimerInv, NEW p \in Proc, NEW t \in Timer, etimer_stop(p, t)
    PROVE  EtimerInv'
<1>1. /\ Listed = Members(timerlist) /\ Once(timerlist)
      /\ \A u \in Listed : u \in Timer /\ InUse(u) /\ owner[u] \in alive
  BY ListedIs
<1>2. /\ UNCHANGED <<now, timerVars>> /\ UNCHANGED <<start, interval, age, polled, scan, events, alive>>
      /\ owner' = [owner EXCEPT ![t] = NONE] /\ scan = 0
  BY DEF etimer_stop, timerVars, Runs
<1>3. /\ Once(timerlist') /\ Members(timerlist') \subseteq Listed \ {t}
      /\ \/ next_expiration' = next_expiration
         \/ next_expiration' = NextExpiration(timerlist', start, interval)
  <2>1. CASE t \in Listed
    <3>1. /\ timerlist' = Without(t)
          /\ next_expiration' = NextExpiration(timerlist', start, interval)
      BY <2>1 DEF etimer_stop
    <3> QED
      BY <1>1, <2>1, <3>1, PositionIs
  <2>2. CASE t \notin Listed
    BY <1>1, <2>2 DEF etimer_stop
  <2> QED
    BY <2>1, <2>2
<1>4. /\ next_expiration' \in Clock /\ InStep' /\ Listed' = Members(timerlist')
      /\ \A u \in Listed' : /\ Wakes(now, next_expiration, Remaining(u), age[u])'
                            /\ Remaining(u)' = Remaining(u)
  BY <1>2, <1>3, Shrinks DEF Listed, Members
<1>5. EtimerType'
  BY <1>2, <1>4 DEF EtimerInv, EtimerType
<1>6. Armed(timerlist)'
  <2>1. \A u \in Members(timerlist') : u \in Listed /\ u \in Timer /\ u # t
    BY <1>1, <1>3
  <2>2. \A u \in Timer : u # t => owner'[u] = owner[u]
    BY <1>2 DEF EtimerInv, EtimerType
  <2> QED
    BY <1>1, <1>2, <2>1, <2>2 DEF Armed, InUse, IsSet
<1>7. ASSUME NEW u \in Listed' PROVE Seen(u)'
  <2>1. u \in Listed /\ Seen(u) /\ Remaining(u)' = Remaining(u)
    BY <1>3, <1>4 DEF EtimerInv
  <2>2. Remaining(u) > 0 \/ polled
    BY <1>2, <2>1 DEF Seen
  <2> QED
    BY <1>2, <2>1, <2>2 DEF Seen
<1> QED
  BY <1>3, <1>4, <1>5, <1>6, <1>7 DEF EtimerInv

\* The timers of a process leave with it; next_expiration is not computed again.
LEMMA ExitedKeeps ==
    ASSUME EtimerInv, NEW p \in Proc, Exited(p)
    PROVE  EtimerInv'
<1> DEFINE others == {t \in Listed : owner[t] # p}
<1>1. /\ Listed = Members(timerlist) /\ Once(timerlist)
      /\ \A u \in Listed : u \in Timer /\ InUse(u) /\ owner[u] \in alive
  BY ListedIs
<1>2. /\ UNCHANGED <<now, timerVars>>
      /\ UNCHANGED <<start, interval, age, owner, next_expiration, polled, scan, events>>
      /\ alive' = alive \ {p} /\ scan = 0
  BY DEF Exited, timerVars, Runs
<1>3. Cardinality(others) \in Nat
  <2>1. DOMAIN timerlist = 1 .. Len(timerlist) /\ Len(timerlist) \in Nat
    BY <1>1, ListIs
  <2>2. IsFiniteSet(1 .. Len(timerlist))
    BY <2>1, FS_Interval
  <2>3. timerlist \in Surjection(1 .. Len(timerlist), Listed)
    BY <1>1, <2>1, ListIs DEF Surjection, Listed, Once
  <2>4. IsFiniteSet(Listed)
    BY <2>2, <2>3, FS_Surjection
  <2> QED
    BY <2>4, FS_Subset, FS_CardinalityType
<1>4. /\ timerlist' \in [1 .. Cardinality(others) -> others]
      /\ \A i, j \in DOMAIN timerlist' :
            i < j => Position(timerlist'[i]) < Position(timerlist'[j])
  BY DEF Exited
<1>5. \A u \in others : u \in Listed /\ u \in Timer /\ owner[u] # p
  BY <1>1
<1> HIDE DEF others
<1> DEFINE n == Cardinality(others)
<1>6. /\ timerlist' \in Seq(Timer) /\ Len(timerlist') = n /\ DOMAIN timerlist' = 1 .. n
  <2>1. timerlist' \in [1 .. n -> Timer]
    BY <1>4, <1>5
  <2> HIDE DEF n
  <2>2. n \in Nat
    BY <1>3 DEF n
  <2> QED
    BY <2>1, <2>2
<1>7. Once(timerlist')
  <2> SUFFICES ASSUME NEW i \in 1 .. n, NEW j \in 1 .. n, timerlist'[i] = timerlist'[j] PROVE i = j
    BY <1>6 DEF Once
  <2> HIDE DEF n
  <2>1. timerlist'[i] \in Listed
    BY <1>4, <1>5 DEF n
  <2>2. Position(timerlist'[i]) \in Nat
    BY <1>1, <2>1, PositionIs
  <2>3. ~(i < j) /\ ~(j < i)
    <3>1. ASSUME i < j PROVE FALSE
      <4>1. Position(timerlist'[i]) < Position(timerlist'[j])
        BY <1>4, <1>6, <3>1
      <4> QED
        BY <2>2, <4>1
    <3>2. ASSUME j < i PROVE FALSE
      <4>1. Position(timerlist'[j]) < Position(timerlist'[i])
        BY <1>4, <1>6, <3>2
      <4> QED
        BY <2>2, <4>1
    <3> QED
      BY <3>1, <3>2
  <2>4. n \in Nat
    BY <1>3 DEF n
  <2> QED
    BY <2>3, <2>4
<1>8. Members(timerlist') \subseteq others /\ Members(timerlist') \subseteq Listed
  BY <1>4, <1>5, <1>6 DEF Members
<1>9. /\ next_expiration' \in Clock /\ InStep' /\ Listed' = Members(timerlist')
      /\ \A u \in Listed' : /\ Wakes(now, next_expiration, Remaining(u), age[u])'
                            /\ Remaining(u)' = Remaining(u)
  BY <1>2, <1>7, <1>8, Shrinks DEF Listed, Members
<1>10. EtimerType'
  BY <1>2, <1>9 DEF EtimerInv, EtimerType
<1>11. Armed(timerlist)'
  BY <1>1, <1>2, <1>5, <1>8 DEF Armed, InUse, IsSet
<1>12. ASSUME NEW u \in Listed' PROVE Seen(u)'
  <2>1. u \in Listed /\ Seen(u) /\ Remaining(u)' = Remaining(u)
    BY <1>8, <1>9 DEF EtimerInv
  <2>2. Remaining(u) > 0 \/ polled
    BY <1>2, <2>1 DEF Seen
  <2> QED
    BY <1>2, <2>1, <2>2 DEF Seen
<1> QED
  BY <1>7, <1>9, <1>10, <1>11, <1>12 DEF EtimerInv

\* The loop has passed one place of the list.
LEMMA ScanPasses ==
    ASSUME EtimerInv, scan > 0, scan' = scan + 1, scan <= Len(timerlist),
           UNCHANGED <<now, timerVars, owner, timerlist, next_expiration, events, alive>>,
           (Remaining(timerlist[scan]) > 0 /\ polled' = polled) \/ polled' = TRUE
    PROVE  EtimerInv'
<1>1. UNCHANGED <<start, interval, age>> /\ scan \in Nat /\ Once(timerlist)
  BY DEF timerVars, EtimerInv, EtimerType
<1>2. EtimerType'
  <2>1. polled' \in BOOLEAN
    BY DEF EtimerInv, EtimerType
  <2>2. scan' \in Nat
    BY <1>1
  <2> QED
    BY <1>1, <2>1, <2>2 DEF EtimerInv, EtimerType
<1>3. InStep' /\ Armed(timerlist)' /\ Listed' = Listed
  BY <1>1 DEF EtimerInv, InStep, Armed, IsSet, Listed
<1>4. \A u \in Listed : Wakes(now, next_expiration, Remaining(u), age[u])'
  BY <1>1 DEF EtimerInv, Remaining, Wakes, SignedDiff
<1>5. ASSUME NEW u \in Listed PROVE Seen(u)'
  <2>1. Seen(u) /\ Position(u)' = Position(u) /\ Remaining(u)' = Remaining(u)
    BY <1>1 DEF EtimerInv, Position, Remaining
  <2>2. Position(u) \in 1 .. Len(timerlist) /\ timerlist[Position(u)] = u
    BY <1>1, PositionIs
  <2>3. CASE polled' = TRUE
    BY <2>3 DEF Seen
  <2>4. CASE Remaining(timerlist[scan]) > 0 /\ polled' = polled
    <3>1. CASE u = timerlist[scan]
      BY <2>1, <2>4, <3>1 DEF Seen
    <3>2. CASE u # timerlist[scan]
      <4>1. Position(u) # scan /\ Position(u) \in Nat
        BY <2>2, <3>2
      <4>2. scan <= Position(u) => scan + 1 > 0 /\ scan + 1 <= Position(u)
        BY <1>1, <4>1
      <4> QED
        BY <2>1, <2>4, <4>2 DEF Seen
    <3> QED
      BY <3>1, <3>2
  <2> QED
    BY <2>3, <2>4
<1> QED
  BY <1>1, <1>2, <1>3, <1>4, <1>5 DEF EtimerInv

\* The loop of etimer_process.
LEMMA ScanStepKeeps ==
    ASSUME EtimerInv, ScanStep
    PROVE  EtimerInv'
<1> DEFINE t == timerlist[scan]
<1>1. /\ Listed = Members(timerlist) /\ Once(timerlist)
      /\ \A u \in Listed : u \in Timer /\ InUse(u) /\ owner[u] \in alive
  BY ListedIs
<1>2. /\ UNCHANGED <<now, timerVars>> /\ UNCHANGED <<start, interval, age, alive>>
      /\ scan > 0 /\ scan \in Nat /\ Len(timerlist) \in Nat /\ polled \in BOOLEAN
  BY <1>1, ListIs DEF ScanStep, timerVars, EtimerInv, EtimerType
<1>3. CASE scan > Len(timerlist)
  <2>1. scan' = 0 /\ UNCHANGED <<owner, timerlist, next_expiration, polled, events>>
    BY <1>3 DEF ScanStep
  <2>2. EtimerType'
    BY <1>2, <2>1 DEF EtimerInv, EtimerType
  <2>3. InStep' /\ Armed(timerlist)' /\ Listed' = Listed
    BY <1>2, <2>1 DEF EtimerInv, InStep, Armed, IsSet, Listed
  <2>4. \A u \in Listed : Wakes(now, next_expiration, Remaining(u), age[u])'
    BY <1>2, <2>1 DEF EtimerInv, Remaining, Wakes, SignedDiff
  <2>5. ASSUME NEW u \in Listed PROVE Seen(u)'
    <3>1. Seen(u) /\ Position(u) \in 1 .. Len(timerlist) /\ Remaining(u)' = Remaining(u)
      BY <1>1, <1>2, PositionIs DEF EtimerInv, Remaining
    <3>2. ~(scan <= Position(u))
      BY <1>2, <1>3, <3>1
    <3> QED
      BY <2>1, <3>1, <3>2 DEF Seen
  <2> QED
    BY <1>1, <2>1, <2>2, <2>3, <2>4, <2>5 DEF EtimerInv
<1>4. CASE scan <= Len(timerlist)
  <2>1. ~(scan > Len(timerlist)) /\ scan \in 1 .. Len(timerlist)
    BY <1>2, <1>4
  <2>2. t \in Listed /\ t \in Timer /\ InUse(t)
    BY <1>1, <2>1, ListIs
  <2>3. timer_expired(t) <=> Remaining(t) <= 0
    BY <2>2, InUseIs
  <2>4. CASE ~timer_expired(t)
    <3>1. scan' = scan + 1 /\ UNCHANGED <<owner, timerlist, next_expiration, polled, events>>
      BY <2>1, <2>4 DEF ScanStep
    <3>2. Remaining(t) > 0
      <4>1. Remaining(t) \in Int
        BY <2>2, InUseIs DEF Remaining, Sound, Since
      <4> QED
        BY <2>3, <2>4, <4>1
    <3> QED
      BY <1>2, <1>4, <3>1, <3>2, ScanPasses
  <2>5. CASE timer_expired(t) /\ Len(events) = QueueLen
    <3>1. /\ scan' = scan + 1 /\ polled' = TRUE
          /\ UNCHANGED <<owner, timerlist, next_expiration, events>>
      BY <2>1, <2>5 DEF ScanStep
    <3> QED
      BY <1>2, <1>4, <3>1, ScanPasses
  <2>6. CASE timer_expired(t) /\ Len(events) # QueueLen
    <3>1. /\ events' = Append(events, [p |-> owner[t], t |-> t])
          /\ owner' = [owner EXCEPT ![t] = NONE]
          /\ timerlist' = Without(t) /\ scan' = 1 /\ polled' = polled
          /\ next_expiration' = NextExpiration(timerlist', start, interval)
      BY <2>1, <2>6 DEF ScanStep
    <3>2. Once(timerlist') /\ Members(timerlist') \subseteq Listed \ {t}
      <4> HIDE DEF t
      <4> QED
        BY <1>1, <2>2, <3>1, PositionIs
    <3>3. /\ next_expiration' \in Clock /\ InStep' /\ Listed' = Members(timerlist')
          /\ \A u \in Listed' : Wakes(now, next_expiration, Remaining(u), age[u])'
      BY <1>2, <3>1, <3>2, Shrinks DEF Listed, Members
    <3> HIDE DEF t
    <3>4. events' \in Seq([p : Proc \cup {NONE}, t : Timer \cup {NONE}])
      <4>1. /\ owner[t] \in Proc \cup {NONE}
            /\ events \in Seq([p : Proc \cup {NONE}, t : Timer \cup {NONE}])
        BY <2>2 DEF EtimerInv, EtimerType
      <4>2. [p |-> owner[t], t |-> t] \in [p : Proc \cup {NONE}, t : Timer \cup {NONE}]
        BY <2>2, <4>1
      <4> QED
        BY <3>1, <4>1, <4>2, AppendProperties
    <3>5. EtimerType'
      <4>1. owner' \in [Timer -> Proc \cup {NONE}]
        BY <3>1 DEF EtimerInv, EtimerType
      <4> QED
        BY <1>2, <3>1, <3>3, <3>4, <4>1 DEF EtimerInv, EtimerType
    <3>6. Armed(timerlist)'
      <4>1. \A u \in Members(timerlist') : u \in Listed /\ u \in Timer /\ u # t
        BY <1>1, <3>2
      <4>2. \A u \in Timer : u # t => owner'[u] = owner[u]
        BY <3>1 DEF EtimerInv, EtimerType
      <4> QED
        BY <1>1, <1>2, <4>1, <4>2 DEF Armed, InUse, IsSet
    <3>7. ASSUME NEW u \in Listed' PROVE Seen(u)'
      <4>1. Once(timerlist)'
        BY <3>2 DEF Once
      <4>2. Position(u)' \in 1 .. Len(timerlist')
        <5>1. DOMAIN timerlist' = 1 .. Len(timerlist')
          BY <3>2, ListIs
        <5> QED
          BY <5>1 DEF Listed, Position
      <4>3. 1 <= Position(u)'
        BY <4>2
      <4> QED
        BY <3>1, <4>3 DEF Seen
    <3> QED
      BY <3>2, <3>3, <3>5, <3>6, <3>7 DEF EtimerInv
  <2> QED
    BY <2>4, <2>5, <2>6
<1> QED
  BY <1>2, <1>3, <1>4

\* The kernel and the processes do something else.
LEMMA OthersKeep ==
    ASSUME EtimerInv,
           Poll \/ Deliver \/ \E p \in Proc : PostOther(p) \/ Started(p)
    PROVE  EtimerInv'
<1>1. /\ UNCHANGED <<now, start, interval, age, owner, timerlist, next_expiration>>
      /\ alive \subseteq alive' /\ alive' \subseteq Proc
  <2>1. CASE Poll \/ Deliver
    BY <2>1 DEF Poll, Deliver, timerVars, EtimerInv, EtimerType
  <2>2. ASSUME NEW p \in Proc, PostOther(p) \/ Started(p)
        PROVE  /\ UNCHANGED <<now, start, interval, age, owner, timerlist, next_expiration>>
               /\ alive \subseteq alive' /\ alive' \subseteq Proc
    BY <2>2 DEF PostOther, Started, timerVars, EtimerInv, EtimerType
  <2> QED
    BY <2>1, <2>2
<1> DEFINE E == [p : Proc \cup {NONE}, t : Timer \cup {NONE}]
<1>2. events' \in Seq(E)
  <2>1. events \in Seq(E)
    BY DEF EtimerInv, EtimerType
  <2>2. CASE Poll
    BY <2>1, <2>2 DEF Poll
  <2>3. CASE Deliver
    <3> HIDE DEF E
    <3> QED
      BY <2>1, <2>3, HeadTailProperties DEF Deliver
  <2>4. ASSUME NEW p \in Proc, PostOther(p) PROVE events' \in Seq(E)
    <3>1. [p |-> p, t |-> NONE] \in E
      OBVIOUS
    <3>2. events' = Append(events, [p |-> p, t |-> NONE])
      BY <2>4 DEF PostOther
    <3> HIDE DEF E
    <3> QED
      BY <2>1, <3>1, <3>2, AppendProperties
  <2>5. ASSUME NEW p \in Proc, Started(p) PROVE events' \in Seq(E)
    BY <2>1, <2>5 DEF Started
  <2> QED
    BY <2>2, <2>3, <2>4, <2>5
<1>3. scan' \in Nat /\ polled' \in BOOLEAN /\ \A u \in Listed : Seen(u)'
  <2>1. scan \in Nat /\ polled \in BOOLEAN /\ Once(timerlist)
    BY DEF EtimerInv, EtimerType
  <2>2. ASSUME NEW u \in Listed
        PROVE  /\ Position(u)' = Position(u) /\ Remaining(u)' = Remaining(u)
               /\ 1 <= Position(u) /\ Seen(u)
    <3>1. Position(u) \in 1 .. Len(timerlist)
      BY <2>1, PositionIs
    <3>2. 1 <= Position(u)
      BY <3>1
    <3> QED
      BY <1>1, <3>2 DEF Position, Remaining, EtimerInv
  <2>3. CASE Poll
    <3>1. polled' = FALSE /\ scan' = 1
      BY <2>3 DEF Poll
    <3>2. ASSUME NEW u \in Listed PROVE Seen(u)'
      BY <2>2, <3>1 DEF Seen
    <3> QED
      BY <3>1, <3>2
  <2>4. CASE polled' = polled /\ scan' = scan
    <3>1. ASSUME NEW u \in Listed PROVE Seen(u)'
      BY <2>2, <2>4 DEF Seen
    <3> QED
      BY <2>1, <2>4, <3>1
  <2>5. Poll \/ (polled' = polled /\ scan' = scan)
    BY DEF Deliver, PostOther, Started
  <2> QED
    BY <2>3, <2>4, <2>5
<1>4. EtimerType'
  BY <1>1, <1>2, <1>3 DEF EtimerInv, EtimerType
<1>5. InStep' /\ Armed(timerlist)' /\ Listed' = Listed
  BY <1>1 DEF EtimerInv, InStep, Armed, IsSet, Listed
<1>6. \A u \in Listed : Wakes(now, next_expiration, Remaining(u), age[u])'
  BY <1>1 DEF EtimerInv, Remaining, Wakes, SignedDiff
<1>7. Once(timerlist')
  BY <1>1 DEF EtimerInv
<1> QED
  BY <1>3, <1>4, <1>5, <1>6, <1>7 DEF EtimerInv

\* A tick makes every timer older; it wakes the CPU up when one has expired.
LEMMA TickKeeps ==
    ASSUME EtimerInv, Tick
    PROVE  EtimerInv'
<1>1. /\ Listed = Members(timerlist) /\ Once(timerlist)
      /\ \A u \in Listed : u \in Timer /\ InUse(u)
  BY ListedIs
<1>2. /\ UNCHANGED <<start, interval, owner, timerlist, next_expiration, scan, events, alive>>
      /\ \A u \in Listed : age[u] < MaxAge
      /\ now' = Wrap(now + 1) /\ age' = [u \in Timer |-> Min({age[u] + 1, MaxAge + 1})]
  BY DEF Tick
<1>3. /\ now \in Clock /\ next_expiration \in Clock /\ MaxAge \in Nat
      /\ age \in [Timer -> 0 .. MaxAge + 1] /\ start \in [Timer -> Clock]
  BY ClockAssumption DEF EtimerInv, EtimerType
<1>4. now' \in Clock
  BY <1>2, <1>3, TickIs
<1>5. ASSUME NEW u \in Timer
      PROVE  age'[u] = IF age[u] <= MaxAge THEN age[u] + 1 ELSE MaxAge + 1
  <2> DEFINE K == {age[u] + 1, MaxAge + 1}
  <2>1. age[u] \in 0 .. MaxAge + 1 /\ age'[u] = Min(K)
    BY <1>2, <1>3
  <2>2. Min(K) \in K /\ \A i \in K : Min(K) <= i
    <3>1. K \subseteq Nat /\ K # {}
      BY <1>3, <2>1
    <3> HIDE DEF K
    <3> QED
      BY <3>1, MinIs
  <2> QED
    BY <1>3, <2>1, <2>2
<1>6. age' \in [Timer -> 0 .. MaxAge + 1]
  <2>1. \A u \in Timer : age'[u] \in 0 .. MaxAge + 1
    BY <1>3, <1>5
  <2> QED
    BY <1>2, <2>1
<1>7. EtimerType'
  <2>1. polled' \in BOOLEAN
    BY DEF Tick, EtimerInv, EtimerType
  <2> QED
    BY <1>2, <1>4, <1>6, <2>1 DEF EtimerInv, EtimerType
<1>8. InStep'
  <2> SUFFICES ASSUME NEW u \in Timer, age'[u] <= MaxAge PROVE Wrap(now' - start'[u]) = age'[u]
    BY DEF InStep
  <2>1. age[u] \in 0 .. MaxAge /\ age[u] < MaxAge /\ age'[u] = age[u] + 1
    BY <1>3, <1>5
  <2>2. Since(now, start[u], age[u])
    BY <1>3, <2>1 DEF Since, EtimerInv, InStep
  <2>3. Since(now', start[u], age[u] + 1)
    BY <1>2, <2>1, <2>2, TickSince
  <2> QED
    BY <1>2, <2>1, <2>3 DEF Since
<1>9. ASSUME NEW u \in Listed
      PROVE  /\ age'[u] = age[u] + 1 /\ age[u] \in Nat /\ age[u] < MaxAge
             /\ Remaining(u)' = Remaining(u) - 1 /\ Remaining(u) \in Int
             /\ Wakes(now, next_expiration, Remaining(u), age[u]) /\ Seen(u)
  <2>1. u \in Timer /\ interval[u] \in Nat /\ age[u] \in 0 .. MaxAge
    BY <1>1, InUseIs DEF Sound, Since
  <2>2. age'[u] = age[u] + 1 /\ age[u] < MaxAge
    BY <1>2, <1>5, <2>1
  <2> QED
    BY <1>2, <2>1, <2>2 DEF Remaining, EtimerInv
<1>10. ASSUME NEW u \in Listed, Remaining(u) > 0
       PROVE  LET d == SignedDiff(next_expiration, now)
                  e == SignedDiff(next_expiration, now')
              IN  e = d - 1 /\ d \in Int /\ d <= Remaining(u) /\ d >= - age[u]
  <2> DEFINE d == SignedDiff(next_expiration, now)
  <2>1. d <= Remaining(u) /\ d >= - age[u]
    BY <1>9, <1>10 DEF Wakes
  <2>2. d \in Int
    BY <1>3, DiffIs
  <2>3. 2 * (d - 1) > - ClockRange
    <3> HIDE DEF d
    <3> QED
      BY <1>3, <1>9, <2>1, <2>2, ClockAssumption
  <2> QED
    BY <1>2, <1>3, <2>1, <2>2, <2>3, DiffTick
<1>11. ASSUME NEW u \in Listed PROVE Wakes(now, next_expiration, Remaining(u), age[u])' /\ Seen(u)'
  <2> DEFINE d == SignedDiff(next_expiration, now)
             e == SignedDiff(next_expiration, now')
             r == Remaining(u)
  <2>1. r \in Int /\ Remaining(u)' = r - 1 /\ age'[u] = age[u] + 1 /\ age[u] \in Nat
    BY <1>9
  <2>2. r > 0 => e = d - 1 /\ d \in Int /\ d <= r /\ d >= - age[u]
    BY <1>10
  <2>3. SignedDiff(next_expiration, now)' = e
    BY <1>2 DEF SignedDiff
  <2>4. timerlist # <<>>
    BY <1>1 DEF Listed
  <2>5. polled => polled'
    BY DEF Tick
  <2>6. e < 1 => polled'
    BY <2>4 DEF Tick
  <2> HIDE DEF d, e, r
  <2>7. Wakes(now, next_expiration, Remaining(u), age[u])'
    <3>1. r - 1 > 0 => e <= r - 1 /\ e >= - (age[u] + 1)
      BY <2>1, <2>2
    <3> QED
      BY <1>2, <2>1, <2>3, <3>1 DEF Wakes, e
  <2>8. Seen(u)'
    <3>1. CASE r - 1 > 0
      BY <2>1, <3>1 DEF Seen
    <3>2. CASE ~(r - 1 > 0) /\ r > 0
      <4>1. e < 1
        BY <2>1, <2>2, <3>2
      <4> QED
        BY <2>6, <4>1 DEF Seen
    <3>3. CASE ~(r > 0)
      <4>1. Seen(u) /\ ~(Remaining(u) > 0) /\ Position(u)' = Position(u)
        BY <1>2, <1>9, <3>3 DEF r, Position
      <4> QED
        BY <1>2, <2>5, <4>1 DEF Seen
    <3> QED
      BY <3>1, <3>2, <3>3
  <2> QED
    BY <2>7, <2>8
<1>12. Armed(timerlist)' /\ Listed' = Listed
  <2>1. \A u \in Listed : age'[u] <= MaxAge
    BY <1>3, <1>9
  <2> QED
    BY <1>1, <1>2, <2>1 DEF EtimerInv, Armed, IsSet, Listed
<1>13. Once(timerlist')
  BY <1>1, <1>2
<1> QED
  BY <1>7, <1>8, <1>11, <1>12, <1>13 DEF EtimerInv

-----------------------------------------------------------------------------
\* The invariant holds at the start.
LEMMA EtimerInvInit ==
    ASSUME Init
    PROVE  EtimerInv
<1>1. /\ now \in Clock /\ 0 \in Clock /\ MaxAge + 1 \in 0 .. MaxAge + 1 /\ ~(MaxAge + 1 <= MaxAge)
  BY ClockAssumption DEF Init, Clock
<1>2. timerlist = <<>> /\ Listed = {} /\ Members(timerlist) = {}
  BY DEF Init, Listed, Members
<1>3. EtimerType
  <2>1. now \in Clock /\ next_expiration \in Clock /\ scan \in Nat /\ polled \in BOOLEAN
    BY <1>1 DEF Init
  <2>2. start \in [Timer -> Clock] /\ age \in [Timer -> 0 .. MaxAge + 1]
    BY <1>1 DEF Init
  <2>3. interval \in [Timer -> Interval \cup {0}] /\ owner \in [Timer -> Proc \cup {NONE}]
    BY DEF Init
  <2>4. events = <<>> /\ alive \subseteq Proc
    BY DEF Init
  <2>5. events \in Seq([p : Proc \cup {NONE}, t : Timer \cup {NONE}])
    BY <2>4
  <2> QED
    BY <2>1, <2>2, <2>3, <2>4, <2>5 DEF EtimerType
<1>4. Once(timerlist)
  BY <1>2 DEF Once
<1>5. InStep
  BY <1>1 DEF Init, InStep
<1> QED
  BY <1>2, <1>3, <1>4, <1>5 DEF EtimerInv, Armed

\* Every step keeps it.
LEMMA EtimerInvNext ==
    ASSUME EtimerInv, [Next]_vars
    PROVE  EtimerInv'
<1>1. CASE UNCHANGED vars
  <2>1. UNCHANGED <<now, start, interval, age, owner, timerlist, next_expiration, polled,
                    scan, events, alive>>
    BY <1>1 DEF vars
  <2>2. /\ EtimerType' /\ InStep' /\ Armed(timerlist)' /\ Listed' = Listed /\ Once(timerlist')
    BY <2>1 DEF EtimerInv, EtimerType, InStep, Armed, IsSet, Listed
  <2>3. \A u \in Listed : Wakes(now, next_expiration, Remaining(u), age[u])' /\ Seen(u)'
    BY <2>1 DEF EtimerInv, Remaining, Wakes, SignedDiff, Seen, Position
  <2> QED
    BY <2>2, <2>3 DEF EtimerInv
<1>2. ASSUME NEW p \in Proc, NEW t \in Timer, NEW i \in Interval,
             etimer_set(p, t, i) \/ etimer_reset_with_new_interval(p, t, i)
      PROVE  EtimerInv'
  BY <1>2, SetKeeps, ResetKeeps
<1>3. ASSUME NEW p \in Proc, NEW t \in Timer,
             etimer_reset(p, t) \/ etimer_restart(p, t) \/ etimer_stop(p, t)
      PROVE  EtimerInv'
  BY <1>3, SetKeeps, ResetKeeps, StopKeeps
<1>4. ASSUME NEW p \in Proc, NEW t \in Timer, NEW d \in Adjustment, etimer_adjust(p, t, d)
      PROVE  EtimerInv'
  BY <1>4, AdjustKeeps
<1>5. ASSUME NEW p \in Proc, Exited(p) \/ Started(p) \/ PostOther(p)
      PROVE  EtimerInv'
  BY <1>5, ExitedKeeps, OthersKeep
<1>6. CASE Poll \/ ScanStep \/ Deliver \/ Tick
  BY <1>6, OthersKeep, ScanStepKeeps, TickKeeps
<1> QED
  BY <1>1, <1>2, <1>3, <1>4, <1>5, <1>6 DEF Next, Application

\* It is an invariant of the specification.
LEMMA EtimerInvariant == Spec => []EtimerInv
BY EtimerInvInit, EtimerInvNext, PTL DEF Spec

\* No armed timer is forgotten or linked twice: for every number of timers and processes, clock
\* range and event queue, a timer on the list has not expired and the CPU wakes up in time for
\* it, or etimer_process will look at it (update_time, etimer_process).
THEOREM EtimerNoTimerForgotten == Spec => []NoTimerForgotten
<1>1. ASSUME EtimerInv PROVE NoTimerForgotten
  <2>1. Once(timerlist) /\ Listed = Members(timerlist)
    BY <1>1, ListedIs
  <2>2. DOMAIN timerlist = 1 .. Len(timerlist) /\ Len(timerlist) \in Nat
    BY <2>1, ListIs
  <2>3. Cardinality(Listed) = Len(timerlist)
    <3>1. IsFiniteSet(1 .. Len(timerlist)) /\ Cardinality(1 .. Len(timerlist)) = Len(timerlist)
      <4>1. /\ IsFiniteSet(1 .. Len(timerlist))
            /\ Cardinality(1 .. Len(timerlist)) =
                 IF 1 > Len(timerlist) THEN 0 ELSE Len(timerlist) - 1 + 1
        BY <2>2, FS_Interval
      <4>2. \A n \in Nat : (IF 1 > n THEN 0 ELSE n - 1 + 1) = n
        OBVIOUS
      <4> QED
        BY <2>2, <4>1, <4>2
    <3>2. timerlist \in [1 .. Len(timerlist) -> Listed]
      BY <2>1, <2>2, ListIs DEF Listed
    <3>3. timerlist \in Injection(1 .. Len(timerlist), Listed)
      BY <2>1, <2>2, <3>2 DEF Injection, IsInjective, Once
    <3>4. timerlist \in Surjection(1 .. Len(timerlist), Listed)
      BY <2>1, <2>2, <3>2 DEF Surjection, Listed
    <3>5. Cardinality(Listed) = Cardinality(1 .. Len(timerlist))
      BY <3>1, <3>3, <3>4, FS_Surjection
    <3> QED
      BY <3>1, <3>5
  <2>4. ASSUME NEW t \in Listed
        PROVE  \/ polled
               \/ scan > 0 /\ scan <= Position(t)
               \/ Remaining(t) > 0 /\ SignedDiff(next_expiration, now) <= Remaining(t)
    BY <1>1 DEF EtimerInv, Seen, Wakes
  <2> QED
    BY <2>3, <2>4 DEF NoTimerForgotten
<1> QED
  BY <1>1, EtimerInvariant, PTL

\* The event of a timer is posted only after its interval has really passed, although the
\* code sees only wrapped clock values, and only to a process that is alive.
THEOREM EtimerNeverEarly == Spec => NeverEarly
<1> DEFINE Post(t) == (\E p \in Proc : events' = Append(events, [p |-> p, t |-> t]))
                         => Remaining(t) <= 0 /\ t \in Listed /\ owner[t] \in alive
<1>1. ASSUME EtimerInv, Next, NEW t \in Timer, NEW p \in Proc,
             events' = Append(events, [p |-> p, t |-> t])
      PROVE  Remaining(t) <= 0 /\ t \in Listed /\ owner[t] \in alive
  <2> DEFINE e == [p |-> p, t |-> t]
             E == [p : Proc \cup {NONE}, t : Timer \cup {NONE}]
  <2>1. events \in Seq(E) /\ Len(events) \in Nat /\ e \in E /\ e.t = t
    BY <1>1, LenProperties DEF EtimerInv, EtimerType
  <2>2. Len(events') = Len(events) + 1 /\ events'[Len(events) + 1] = e
    <3> HIDE DEF e, E
    <3> QED
      BY <1>1, <2>1, AppendProperties DEF e
  <2> HIDE DEF e, E
  <2>3. events' # events
    BY <2>1, <2>2
  <2>4. ASSUME events # <<>>, events' = Tail(events) PROVE FALSE
    <3>1. Len(events') = Len(events) - 1
      BY <2>1, <2>4, HeadTailProperties
    <3> QED
      BY <2>1, <2>2, <3>1
  <2>5. ASSUME NEW q \in Proc, PostOther(q) PROVE FALSE
    <3> DEFINE f == [p |-> q, t |-> NONE]
    <3>1. f \in E /\ f.t = NONE /\ events' = Append(events, f)
      BY <2>5 DEF PostOther, E
    <3> HIDE DEF f
    <3>2. events'[Len(events) + 1] = f
      BY <2>1, <3>1, AppendProperties
    <3> QED
      BY <2>1, <2>2, <3>1, <3>2, ClockAssumption
  <2>6. ScanStep
    BY <1>1, <2>3, <2>4, <2>5
       DEF Next, Application, etimer_set, etimer_reset_with_new_interval, etimer_reset,
           etimer_restart, etimer_adjust, etimer_stop, add_timer, Exited, Started, Poll,
           Deliver, Tick
  <2>7. /\ scan > 0 /\ ~(scan > Len(timerlist)) /\ timer_expired(timerlist[scan])
        /\ events' = Append(events, [p |-> owner[timerlist[scan]], t |-> timerlist[scan]])
    BY <2>3, <2>6 DEF ScanStep
  <2> DEFINE u == timerlist[scan]
  <2>8. scan \in 1 .. Len(timerlist)
    <3>1. scan \in Nat /\ Len(timerlist) \in Nat
      BY <1>1, ListedIs, ListIs DEF EtimerInv, EtimerType
    <3> QED
      BY <2>7, <3>1
  <2>9. u \in Listed /\ u \in Timer /\ InUse(u) /\ owner[u] \in alive
    BY <1>1, <2>8, ListedIs, ListIs
  <2>10. u = t
    <3> DEFINE f == [p |-> owner[u], t |-> u]
    <3>1. f \in E /\ f.t = u
      BY <1>1, <2>9 DEF EtimerInv, EtimerType, E
    <3> HIDE DEF f
    <3>2. events' = Append(events, f)
      BY <2>7 DEF f
    <3>3. events'[Len(events) + 1] = f
      BY <2>1, <3>1, <3>2, AppendProperties
    <3> QED
      BY <2>1, <2>2, <3>1, <3>3
  <2>11. Remaining(u) <= 0
    BY <1>1, <2>7, <2>9, InUseIs
  <2> QED
    BY <2>9, <2>10, <2>11
<1>2. EtimerInv /\ [Next]_vars => [\A t \in Timer : Post(t)]_vars
  BY <1>1
<1>3. EtimerInv /\ [Next]_vars =>
        [\A t \in Timer :
          (\E p \in Proc : events' = Append(events, [p |-> p, t |-> t]))
             => Remaining(t) <= 0 /\ t \in Listed /\ owner[t] \in alive]_vars
  BY <1>2
<1> QED
  BY <1>3, EtimerInvariant, PTL DEF Spec, NeverEarly

-----------------------------------------------------------------------------
(* Callback timers.  Every step of ctimer_process is one of the event timers, so that      *)
(* EtimerInv holds; what ctimer_list adds is CtimerInv.                                    *)

QEvent == [p : Proc \cup {NONE}, t : Timer \cup {NONE}]
Has(q, c) == \E i \in DOMAIN q : q[i].t = c

\* An entry of ctimer_list is that of a timer that runs, or has expired and whose event
\* is queued.
CtimerInv ==
    /\ ctimer_list \subseteq Timer
    /\ \A c \in ctimer_list : c \in Listed \/ (Queued(c) /\ Remaining(c) <= 0)

\* A callback timer is an event timer.
LEMMA CtimerIsEtimer == CSpec => Spec
<1>1. CInit => Init
  BY DEF CInit
<1>2. [CNext]_cvars => [Next]_vars
  BY CtimerAssumption
  DEF CNext, cvars, Next, Application, Arm, ctimer_set, ctimer_reset, ctimer_restart, ctimer_stop,
      CtimerEvent
<1> QED
  BY <1>1, <1>2, PTL DEF CSpec, Spec

\* An event is posted.
LEMMA HasAppend ==
    ASSUME NEW q \in Seq(QEvent), NEW e \in QEvent, NEW c
    PROVE  Has(Append(q, e), c) <=> Has(q, c) \/ e.t = c
<1> DEFINE r == Append(q, e)
<1>1. DOMAIN q = 1 .. Len(q) /\ Len(q) \in Nat
  BY LenProperties
<1>2. /\ Len(r) = Len(q) + 1 /\ DOMAIN r = 1 .. Len(r)
      /\ r[Len(q) + 1] = e /\ \A i \in 1 .. Len(q) : r[i] = q[i]
  BY AppendProperties, LenProperties
<1> HIDE DEF r
<1>3. \A i \in 1 .. Len(r) : i \in 1 .. Len(q) \/ i = Len(q) + 1
  BY <1>1, <1>2
<1>4. (1 .. Len(q)) \subseteq 1 .. Len(r) /\ Len(q) + 1 \in 1 .. Len(r)
  BY <1>1, <1>2
<1>5. Has(r, c) <=> Has(q, c) \/ e.t = c
  BY <1>1, <1>2, <1>3, <1>4 DEF Has
<1> QED
  BY <1>5 DEF r

\* The first event is taken.
LEMMA HasTail ==
    ASSUME NEW q \in Seq(QEvent), q # <<>>, NEW c
    PROVE  /\ Has(Tail(q), c) => Has(q, c)
           /\ Has(q, c) /\ Head(q).t # c => Has(Tail(q), c)
           /\ Head(q).t = c => Has(q, c)
           /\ Has(Tail(q), c) => \E i \in DOMAIN q : i # 1 /\ q[i].t = c
           /\ 1 \in DOMAIN q /\ Head(q) = q[1]
<1>1. DOMAIN q = 1 .. Len(q) /\ Len(q) \in Nat /\ Len(q) # 0
  BY LenProperties, EmptySeq
<1>2. /\ Len(Tail(q)) = Len(q) - 1 /\ Tail(q) \in Seq(QEvent)
      /\ \A i \in 1 .. Len(Tail(q)) : Tail(q)[i] = q[i + 1]
  BY HeadTailProperties
<1>3. DOMAIN Tail(q) = 1 .. Len(q) - 1
  BY <1>2, LenProperties
<1>4. 1 \in DOMAIN q /\ Head(q) = q[1]
  BY <1>1
<1> DEFINE r == Tail(q)
<1>5. DOMAIN r = 1 .. Len(q) - 1 /\ \A i \in 1 .. Len(q) - 1 : r[i] = q[i + 1]
  BY <1>2, <1>3
<1> HIDE DEF r
<1>6. ASSUME NEW i \in DOMAIN r PROVE i + 1 \in DOMAIN q /\ i + 1 # 1 /\ r[i] = q[i + 1]
  BY <1>1, <1>5
<1>7. ASSUME NEW i \in DOMAIN q, i # 1 PROVE i - 1 \in DOMAIN r /\ r[i - 1] = q[i]
  <2>1. i - 1 \in 1 .. Len(q) - 1 /\ (i - 1) + 1 = i
    BY <1>1, <1>7
  <2> QED
    BY <1>5, <2>1
<1>8. /\ Has(r, c) => \E i \in DOMAIN q : i # 1 /\ q[i].t = c
      /\ Has(q, c) /\ q[1].t # c => Has(r, c)
  BY <1>6, <1>7 DEF Has
<1> QED
  BY <1>4, <1>8 DEF Has, r

\* Arming a timer puts it on both lists; nothing else about the other timers changes.
LEMMA ArmIs ==
    ASSUME EtimerInv, NEW c \in Timer, Arm(c)
    PROVE  /\ Listed' = Listed \cup {c} /\ ctimer_list' = ctimer_list \cup {c}
           /\ events' = events
           /\ \A d \in Timer : d # c => interval'[d] = interval[d] /\ age'[d] = age[d]
<1>1. PICK p \in Proc : add_timer(c, p)
  BY CtimerAssumption DEF Arm, ctimer_set, ctimer_reset, ctimer_restart, etimer_set, etimer_reset,
                          etimer_restart
<1>2. Once(timerlist) /\ Listed = Members(timerlist) /\ Listed' = Members(timerlist')
  BY ListedIs DEF Listed, Members
<1>3. Listed' = Listed \cup {c}
  <2>1. CASE c \in Listed
    <3>1. timerlist' = timerlist
      BY <1>1, <2>1, ListedIs DEF add_timer
    <3> QED
      BY <1>2, <2>1, <3>1
  <2>2. CASE c \notin Listed
    <3>1. timerlist' = <<c>> \o timerlist
      BY <1>1, <2>2 DEF add_timer
    <3> QED
      BY <1>2, <2>2, <3>1, AtHead
  <2> QED
    BY <2>1, <2>2
<1>4. \A d \in Timer : d # c => interval'[d] = interval[d] /\ age'[d] = age[d]
  BY DEF Arm, ctimer_set, ctimer_reset, ctimer_restart, etimer_set, etimer_reset, etimer_restart,
         timer_reset, timer_restart, EtimerInv, EtimerType
<1>5. ctimer_list' = ctimer_list \cup {c} /\ events' = events
  BY <1>1 DEF add_timer, Arm, ctimer_set, ctimer_reset, ctimer_restart
<1> QED
  BY <1>3, <1>4, <1>5

\* Stopping it takes it from both.
LEMMA StopIs ==
    ASSUME EtimerInv, NEW c \in Timer, ctimer_stop(c)
    PROVE  /\ Listed' = Listed \ {c} /\ ctimer_list' = ctimer_list \ {c}
           /\ UNCHANGED <<events, interval, age>>
<1>1. Once(timerlist) /\ Listed' = Members(timerlist')
  BY ListedIs DEF Listed, Members
<1>2. Listed' = Listed \ {c}
  <2>1. CASE c \in Listed
    BY <1>1, <2>1, PositionIs DEF ctimer_stop, etimer_stop
  <2>2. CASE c \notin Listed
    <3>1. timerlist' = timerlist
      BY <2>2 DEF ctimer_stop, etimer_stop
    <3> QED
      BY <2>2, <3>1 DEF Listed
  <2> QED
    BY <2>1, <2>2
<1> QED
  BY <1>2 DEF ctimer_stop, etimer_stop, timerVars

\* An expired timer is found.
Expires(t) ==
    /\ t \in Listed /\ Remaining(t) <= 0 /\ owner[t] \in Proc
    /\ events' = Append(events, [p |-> owner[t], t |-> t])
    /\ Listed' = Listed \ {t}

LEMMA ScanIs ==
    ASSUME EtimerInv, ScanStep
    PROVE  /\ UNCHANGED <<interval, age>>
           /\ (events' = events /\ Listed' = Listed) \/ \E t \in Timer : Expires(t)
<1>1. UNCHANGED <<interval, age>>
  BY DEF ScanStep, timerVars
<1>2. CASE events' = events /\ timerlist' = timerlist
  BY <1>1, <1>2 DEF Listed
<1>3. CASE ~(events' = events /\ timerlist' = timerlist)
  <2> DEFINE t == timerlist[scan]
  <2>1. /\ scan > 0 /\ ~(scan > Len(timerlist)) /\ timer_expired(t)
        /\ events' = Append(events, [p |-> owner[t], t |-> t]) /\ timerlist' = Without(t)
    BY <1>3 DEF ScanStep
  <2>2. Once(timerlist) /\ Listed = Members(timerlist) /\ Listed' = Members(timerlist')
    BY ListedIs DEF Listed, Members
  <2>3. scan \in 1 .. Len(timerlist)
    <3>1. scan \in Nat /\ Len(timerlist) \in Nat
      BY <2>2, ListIs DEF EtimerInv, EtimerType
    <3> QED
      BY <2>1, <3>1
  <2>4. t \in Listed /\ t \in Timer /\ InUse(t) /\ owner[t] \in Proc
    BY <2>2, <2>3, ListedIs, ListIs DEF EtimerInv, EtimerType
  <2> HIDE DEF t
  <2>5. Remaining(t) <= 0
    BY <2>1, <2>4, InUseIs
  <2>6. Listed' = Listed \ {t}
    BY <2>1, <2>2, <2>4, PositionIs
  <2> QED
    BY <1>1, <2>1, <2>4, <2>5, <2>6 DEF Expires
<1> QED
  BY <1>2, <1>3

-----------------------------------------------------------------------------
\* The invariant holds at the start.
LEMMA CtimerInvInit ==
    ASSUME CInit
    PROVE  CtimerInv
BY DEF CInit, CtimerInv

\* A timer that has expired stays so.
LEMMA TickExpired ==
    ASSUME EtimerInv, Tick, NEW c \in Timer, Remaining(c) <= 0
    PROVE  Remaining(c)' <= 0
<1>1. interval[c] \in Nat /\ interval[c] < MaxAge + 1 /\ age[c] \in Nat
  <2>1. interval[c] \in Interval \cup {0} /\ age[c] \in 0 .. MaxAge + 1
    BY DEF EtimerInv, EtimerType
  <2>2. \A i \in Interval \cup {0} : i \in Nat /\ i < MaxAge + 1
    BY ClockAssumption
  <2> QED
    BY <2>1, <2>2
<1>2. interval'[c] = interval[c] /\ age'[c] = Min({age[c] + 1, MaxAge + 1})
  BY DEF Tick
<1>3. age'[c] \in {age[c] + 1, MaxAge + 1}
  <2> DEFINE K == {age[c] + 1, MaxAge + 1}
  <2>1. K \subseteq Nat /\ K # {}
    BY <1>1, ClockAssumption
  <2> HIDE DEF K
  <2>2. Min(K) \in K
    BY <2>1, MinIs
  <2> QED
    BY <1>2, <2>2 DEF K
<1> QED
  BY <1>1, <1>2, <1>3, ClockAssumption DEF Remaining

\* A step of CNext, by what it does to the lists and the events.
CtimerStep ==
    \/ \E c \in Timer : Arm(c)
    \/ \E c \in Timer : ctimer_stop(c)
    \/ CtimerEvent
    \/ ctimer_list' = ctimer_list /\ UNCHANGED <<interval, age>> /\ \E t \in Timer : Expires(t)
    \/ /\ ctimer_list' = ctimer_list /\ Listed' = Listed
       /\ events' = events \/ \E e \in QEvent : e.t = NONE /\ events' = Append(events, e)
       /\ UNCHANGED <<interval, age>> \/ Tick

LEMMA CtimerStepIs ==
    ASSUME EtimerInv, [CNext]_cvars
    PROVE  CtimerStep
<1>1. CASE UNCHANGED cvars
  BY <1>1 DEF cvars, vars, CtimerStep, Listed
<1>2. CASE Poll /\ UNCHANGED ctimer_list
  BY <1>2 DEF Poll, timerVars, CtimerStep, Listed
<1>3. CASE ScanStep /\ UNCHANGED ctimer_list
  BY <1>3, ScanIs DEF CtimerStep
<1>4. CASE Tick /\ UNCHANGED ctimer_list
  <2>1. Listed' = Listed /\ events' = events
    BY <1>4 DEF Tick, Listed
  <2> QED
    BY <1>4, <2>1 DEF CtimerStep
<1>5. CASE PostOther(ctimer_process) /\ UNCHANGED ctimer_list
  <2>1. [p |-> ctimer_process, t |-> NONE] \in QEvent
    BY CtimerAssumption DEF QEvent
  <2>2. \E e \in QEvent : e.t = NONE /\ events' = Append(events, e)
    BY <1>5, <2>1 DEF PostOther
  <2> QED
    BY <1>5, <2>2 DEF PostOther, timerVars, CtimerStep, Listed
<1> QED
  BY <1>1, <1>2, <1>3, <1>4, <1>5 DEF CNext, CtimerStep

\* Every step keeps it.
LEMMA CtimerInvNext ==
    ASSUME EtimerInv, CtimerInv, CtimerStep
    PROVE  CtimerInv'
<1> DEFINE Kept(c) == c \in Listed' \/ (Has(events', c) /\ Remaining(c)' <= 0)
<1>1. events \in Seq(QEvent)
  BY DEF EtimerInv, EtimerType, QEvent
<1>2. \A c \in ctimer_list : c \in Timer /\ (c \in Listed \/ (Has(events, c) /\ Remaining(c) <= 0))
  BY DEF CtimerInv, Queued, Has
<1>3. ASSUME ctimer_list' \subseteq Timer, \A c \in ctimer_list' : Kept(c)
      PROVE  CtimerInv'
  BY <1>3 DEF CtimerInv, Queued, Has
<1>4. ASSUME NEW c \in Timer, Arm(c) PROVE CtimerInv'
  <2>1. ASSUME NEW d \in ctimer_list' PROVE d \in Timer /\ Kept(d)
    BY <1>2, <1>4, ArmIs DEF Remaining
  <2> HIDE DEF Kept
  <2> QED
    BY <1>3, <2>1
<1>5. ASSUME NEW c \in Timer, ctimer_stop(c) PROVE CtimerInv'
  <2>1. ASSUME NEW d \in ctimer_list' PROVE d \in Timer /\ Kept(d)
    BY <1>2, <1>5, StopIs DEF Remaining
  <2> HIDE DEF Kept
  <2> QED
    BY <1>3, <2>1
<1>6. CASE CtimerEvent
  <2>1. /\ events # <<>> /\ events' = Tail(events) /\ Listed' = Listed
        /\ UNCHANGED <<interval, age>> /\ ctimer_list' = ctimer_list \ {Head(events).t}
    BY <1>6 DEF CtimerEvent, Deliver, timerVars, Listed
  <2>2. ASSUME NEW d \in ctimer_list' PROVE d \in Timer /\ Kept(d)
    <3>1. d \in ctimer_list /\ Head(events).t # d
      BY <2>1
    <3>2. Has(events, d) => Has(events', d)
      BY <1>1, <2>1, <3>1, HasTail
    <3> QED
      BY <1>2, <2>1, <3>1, <3>2 DEF Remaining
  <2> HIDE DEF Kept
  <2> QED
    BY <1>3, <2>2
<1>7. ASSUME ctimer_list' = ctimer_list, UNCHANGED <<interval, age>>, NEW t \in Timer, Expires(t)
      PROVE  CtimerInv'
  <2> DEFINE e == [p |-> owner[t], t |-> t]
  <2>1. e \in QEvent /\ e.t = t /\ events' = Append(events, e)
    BY <1>7 DEF Expires, QEvent
  <2> HIDE DEF e
  <2>2. \A d : Has(events', d) <=> Has(events, d) \/ d = t
    BY <1>1, <2>1, HasAppend
  <2>3. Remaining(t) <= 0 /\ Listed' = Listed \ {t}
    BY <1>7 DEF Expires
  <2>4. ASSUME NEW d \in ctimer_list' PROVE d \in Timer /\ Kept(d)
    BY <1>2, <1>7, <2>2, <2>3 DEF Remaining
  <2> HIDE DEF Kept
  <2> QED
    BY <1>3, <2>4
<1>8. ASSUME ctimer_list' = ctimer_list, Listed' = Listed,
             events' = events \/ \E e \in QEvent : e.t = NONE /\ events' = Append(events, e),
             UNCHANGED <<interval, age>> \/ Tick
      PROVE  CtimerInv'
  <2>1. \A d : Has(events, d) => Has(events', d)
    BY <1>1, <1>8, HasAppend
  <2>2. \A d \in Timer : Remaining(d) <= 0 => Remaining(d)' <= 0
    BY <1>8, TickExpired DEF Remaining
  <2>3. ASSUME NEW d \in ctimer_list' PROVE d \in Timer /\ Kept(d)
    BY <1>2, <1>8, <2>1, <2>2
  <2> HIDE DEF Kept
  <2> QED
    BY <1>3, <2>3
<1> QED
  BY <1>4, <1>5, <1>6, <1>7, <1>8 DEF CtimerStep

\* It is an invariant of the specification, with that of the event timers.
LEMMA CtimerInvariant == CSpec => [](EtimerInv /\ CtimerInv)
<1>1. EtimerInv /\ CtimerInv /\ [CNext]_cvars => CtimerInv'
  BY CtimerStepIs, CtimerInvNext
<1>2. CInit => CtimerInv
  BY CtimerInvInit
<1> QED
  BY <1>1, <1>2, CtimerIsEtimer, EtimerInvariant, PTL DEF CSpec

\* A callback is not called before the interval of the latest ctimer_set has passed, unless the
\* timer was set again while the event of its last expiration was queued: for every number
\* of timers, clock range and event queue (ctimer_process, timer_expired).
THEOREM CtimerCallbackNotEarly == CSpec => CallbackNotEarly
<1>1. ASSUME EtimerInv, CtimerInv, NEW c \in Timer, Fires(c)
      PROVE  Remaining(c) <= 0 \/ UserState(c) = "rearmed"
  <2>1. c \in ctimer_list /\ events # <<>> /\ Head(events).t = c /\ events \in Seq(QEvent)
    BY <1>1 DEF Fires, EtimerInv, EtimerType, QEvent
  <2>2. Queued(c)
    BY <2>1, HasTail DEF Has, Queued
  <2>3. CASE c \in Listed
    BY <2>1, <2>2, <2>3 DEF UserState
  <2>4. CASE c \notin Listed
    BY <1>1, <2>1, <2>4 DEF CtimerInv
  <2> QED
    BY <2>3, <2>4
<1>2. EtimerInv /\ CtimerInv =>
        [\A c \in Timer : Fires(c) => Remaining(c) <= 0 \/ UserState(c) = "rearmed"]_cvars
  BY <1>1
<1> QED
  BY <1>2, CtimerInvariant, PTL DEF CallbackNotEarly

-----------------------------------------------------------------------------
(* Callback timers as their users see them.                                               *)

\* A timer with no more than one event has it at one place.
LEMMA OneEvent ==
    ASSUME NEW q \in Seq(QEvent), NEW c, Cardinality({k \in DOMAIN q : q[k].t = c}) <= 1,
           NEW i \in DOMAIN q, NEW j \in DOMAIN q, q[i].t = c, q[j].t = c
    PROVE  i = j
<1> DEFINE S == {k \in DOMAIN q : q[k].t = c}
           D == 1 .. Len(q)
<1>1. DOMAIN q = D /\ Len(q) \in Nat /\ 1 \in Int
  BY LenProperties
<1>2. IsFiniteSet(D)
  BY <1>1, FS_Interval
<1>3. S \in SUBSET D /\ i \in S /\ j \in S /\ Cardinality(S) <= 1
  BY <1>1
<1> HIDE DEF S, D
<1>4. IsFiniteSet(S) /\ Cardinality(S) \in Nat
  BY <1>2, <1>3, FS_Subset, FS_CardinalityType
<1>5. {i} \in SUBSET S /\ IsFiniteSet({i}) /\ Cardinality({i}) = 1
  BY <1>3, FS_Singleton
<1>6. Cardinality({i}) <= Cardinality(S) /\ (Cardinality(S) = Cardinality({i}) => S = {i})
  BY <1>4, <1>5, FS_Subset
<1>7. S = {i}
  BY <1>3, <1>4, <1>5, <1>6
<1> QED
  BY <1>3, <1>7

\* An event of a timer is posted only when the timer expires.
LEMMA PostedIs ==
    ASSUME EtimerInv, EtimerInv', CtimerStep, NEW c \in Timer, Posted(c)
    PROVE  Expires(c) /\ ctimer_list' = ctimer_list
<1>1. events \in Seq(QEvent) /\ events' \in Seq(QEvent) /\ Len(events) \in Nat
  BY LenProperties DEF EtimerInv, EtimerType, QEvent
<1>2. PICK e : e \in {events'[i] : i \in DOMAIN events'} /\ e.t = c /\ events' = Append(events, e)
  BY DEF Posted
<1>3. e \in QEvent
  BY <1>1, <1>2, LenProperties, ElementOfSeq
<1>4. Len(events') = Len(events) + 1 /\ events'[Len(events) + 1] = e
  BY <1>1, <1>2, <1>3, AppendProperties
<1>5. events' # events
  BY <1>1, <1>4
<1>6. ASSUME NEW f \in QEvent, events' = Append(events, f) PROVE f.t = c
  <2>1. events'[Len(events) + 1] = f
    BY <1>1, <1>6, AppendProperties
  <2> QED
    BY <1>2, <1>4, <2>1
<1>7. ~CtimerEvent
  <2> SUFFICES ASSUME events # <<>>, events' = Tail(events) PROVE FALSE
    BY DEF CtimerEvent, Deliver
  <2>1. Len(events') = Len(events) - 1
    BY <1>1, HeadTailProperties
  <2> QED
    BY <1>1, <1>4, <2>1
<1>8. \A d \in Timer : ~Arm(d) /\ ~ctimer_stop(d)
  BY <1>5, ArmIs, StopIs
<1>9. c # NONE
  BY ClockAssumption
<1>10. ctimer_list' = ctimer_list /\ \E t \in Timer : Expires(t)
  BY <1>5, <1>6, <1>7, <1>8, <1>9 DEF CtimerStep
<1>11. PICK t \in Timer : Expires(t)
  BY <1>10
<1>12. [p |-> owner[t], t |-> t] \in QEvent /\ [p |-> owner[t], t |-> t].t = t
  BY <1>11 DEF Expires, QEvent
<1>13. t = c
  BY <1>6, <1>11, <1>12 DEF Expires
<1> QED
  BY <1>10, <1>11, <1>13

\* An event is taken from the queue only by ctimer_process.
LEMMA EventOfIs ==
    ASSUME EtimerInv, CtimerStep, NEW c \in Timer, EventOf(c)
    PROVE  Listed' = Listed /\ ctimer_list' = ctimer_list \ {c}
<1>1. events \in Seq(QEvent) /\ Len(events) \in Nat
  BY LenProperties DEF EtimerInv, EtimerType, QEvent
<1>2. events # <<>> /\ Head(events).t = c /\ events' = Tail(events)
  BY DEF EventOf
<1>3. Len(events') = Len(events) - 1
  BY <1>1, <1>2, HeadTailProperties
<1>4. events' # events
  BY <1>1, <1>3
<1>5. ASSUME NEW f \in QEvent, events' = Append(events, f) PROVE FALSE
  <2>1. Len(events') = Len(events) + 1
    BY <1>1, <1>5, AppendProperties
  <2> QED
    BY <1>1, <1>3, <2>1
<1>6. \A d \in Timer : ~Arm(d) /\ ~ctimer_stop(d)
  BY <1>4, ArmIs, StopIs
<1>7. \A t \in Timer : ~Expires(t)
  <2> SUFFICES ASSUME NEW t \in Timer, Expires(t) PROVE FALSE
    OBVIOUS
  <2>1. [p |-> owner[t], t |-> t] \in QEvent
    BY DEF Expires, QEvent
  <2> QED
    BY <1>5, <2>1 DEF Expires
<1>8. CtimerEvent
  BY <1>4, <1>5, <1>6, <1>7 DEF CtimerStep
<1> QED
  BY <1>2, <1>8 DEF CtimerEvent, Deliver, Listed

\* A callback timer behaves as CallbackTimer says, on which the models of RPL and of the leaf
\* rest: for every number of timers, clock range and event queue, as long as its delays are
\* longer than an event waits in the queue (ctimer_set, ctimer_stop, ctimer_process).
THEOREM CtimerActsAsCallbackTimer == CSpec => ActsAsCallbackTimer
<1> DEFINE Acts(c) ==
          /\ UserState(c)' # "lost"
          /\ Arm(c) => UserState(c)' = User!ctimer_set(UserState(c))
          /\ ctimer_stop(c) => UserState(c)' = User!ctimer_stop(UserState(c))
          /\ Posted(c) => /\ User!CanExpire(UserState(c))
                          /\ UserState(c)' = User!Expired(UserState(c))
          /\ EventOf(c) => /\ UserState(c)' = User!Handled(UserState(c))
                           /\ Fires(c) <=> User!HasCallback(UserState(c))
<1>1. ASSUME EtimerInv, EtimerInv', CtimerInv, CtimerInv', CtimerStep, NEW c \in Timer,
             Slow(c), Slow(c)'
      PROVE  Acts(c)
  <2>1. events \in Seq(QEvent) /\ events' \in Seq(QEvent)
    BY <1>1 DEF EtimerInv, EtimerType, QEvent
  <2>2. /\ c \in ctimer_list => c \in Listed \/ Queued(c)
        /\ c \in ctimer_list' => c \in Listed' \/ Queued(c)'
    BY <1>1 DEF CtimerInv
  <2>3. UserState(c) = "orphan" => ~Queued(c)
    BY <1>1 DEF Slow
  <2>4. /\ \A i, j \in DOMAIN events : events[i].t = c /\ events[j].t = c => i = j
        /\ \A i, j \in DOMAIN events' : events'[i].t = c /\ events'[j].t = c => i = j
    BY <1>1, <2>1, OneEvent DEF Slow
  <2>5. UserState(c)' # "lost"
    BY <2>2 DEF UserState
  <2>6. ASSUME Arm(c) PROVE UserState(c)' = User!ctimer_set(UserState(c))
    <3>1. c \in Listed' /\ c \in ctimer_list' /\ Queued(c)' = Queued(c)
      BY <1>1, <2>6, ArmIs DEF Queued
    <3> QED
      BY <2>2, <2>3, <3>1 DEF UserState, User!ctimer_set
  <2>7. ASSUME ctimer_stop(c) PROVE UserState(c)' = User!ctimer_stop(UserState(c))
    <3>1. c \notin Listed' /\ c \notin ctimer_list' /\ Queued(c)' = Queued(c)
      BY <1>1, <2>7, StopIs DEF Queued
    <3> QED
      BY <2>2, <2>3, <3>1 DEF UserState, User!ctimer_stop
  <2>8. ASSUME Posted(c)
        PROVE  User!CanExpire(UserState(c)) /\ UserState(c)' = User!Expired(UserState(c))
    <3>1. Expires(c) /\ ctimer_list' = ctimer_list
      BY <1>1, <2>8, PostedIs
    <3> DEFINE e == [p |-> owner[c], t |-> c]
    <3>2. e \in QEvent /\ e.t = c /\ events' = Append(events, e)
      BY <3>1 DEF Expires, QEvent
    <3> HIDE DEF e
    <3>3. c \in Listed /\ c \notin Listed'
      BY <3>1 DEF Expires
    <3>4. Queued(c)'
      <4>1. Has(events', c)
        BY <2>1, <3>2, HasAppend
      <4> QED
        BY <4>1 DEF Has, Queued
    <3>5. ~Queued(c)
      <4> SUFFICES ASSUME NEW i \in DOMAIN events, events[i].t = c PROVE FALSE
        BY DEF Queued
      <4>1. DOMAIN events = 1 .. Len(events) /\ Len(events) \in Nat
        BY <2>1, LenProperties
      <4>2. /\ Len(events') = Len(events) + 1 /\ DOMAIN events' = 1 .. Len(events')
            /\ events'[Len(events) + 1] = e /\ \A k \in 1 .. Len(events) : events'[k] = events[k]
        BY <2>1, <3>2, AppendProperties, LenProperties
      <4>3. i \in DOMAIN events' /\ Len(events) + 1 \in DOMAIN events' /\ i # Len(events) + 1
        BY <4>1, <4>2
      <4> QED
        BY <2>4, <3>2, <4>1, <4>2, <4>3
    <3> QED
      BY <3>1, <3>3, <3>4, <3>5 DEF UserState, User!CanExpire, User!Expired
  <2>9. ASSUME EventOf(c)
        PROVE  /\ UserState(c)' = User!Handled(UserState(c))
               /\ Fires(c) <=> User!HasCallback(UserState(c))
    <3>1. Listed' = Listed /\ ctimer_list' = ctimer_list \ {c}
      BY <1>1, <2>9, EventOfIs
    <3>2. events # <<>> /\ Head(events).t = c /\ events' = Tail(events)
      BY <2>9 DEF EventOf
    <3>3. Queued(c) /\ 1 \in DOMAIN events /\ events[1].t = c
      BY <2>1, <3>2, HasTail DEF Has, Queued
    <3>4. ~Queued(c)'
      <4>1. Has(Tail(events), c) => \E i \in DOMAIN events : i # 1 /\ events[i].t = c
        BY <2>1, <3>2, HasTail
      <4> QED
        BY <2>4, <3>2, <3>3, <4>1 DEF Has, Queued
    <3>5. Fires(c) <=> c \in ctimer_list
      BY <3>2 DEF Fires
    <3> QED
      BY <2>3, <3>1, <3>3, <3>4, <3>5 DEF UserState, User!Handled, User!HasCallback
  <2> QED
    BY <2>5, <2>6, <2>7, <2>8, <2>9
<1>2. EtimerInv /\ EtimerInv' /\ CtimerInv /\ CtimerInv' /\ [CNext]_cvars =>
        [\A c \in Timer : Slow(c) /\ Slow(c)' => Acts(c)]_cvars
  <2> HIDE DEF Acts
  <2> QED
    BY <1>1, CtimerStepIs
<1>3. EtimerInv /\ EtimerInv' /\ CtimerInv /\ CtimerInv' /\ [CNext]_cvars =>
        [\A c \in Timer : Slow(c) /\ Slow(c)' =>
          /\ UserState(c)' # "lost"
          /\ Arm(c) => UserState(c)' = User!ctimer_set(UserState(c))
          /\ ctimer_stop(c) => UserState(c)' = User!ctimer_stop(UserState(c))
          /\ Posted(c) => /\ User!CanExpire(UserState(c))
                          /\ UserState(c)' = User!Expired(UserState(c))
          /\ EventOf(c) => /\ UserState(c)' = User!Handled(UserState(c))
                           /\ Fires(c) <=> User!HasCallback(UserState(c))]_cvars
  BY <1>2
<1> QED
  BY <1>3, CtimerInvariant, PTL DEF CSpec, ActsAsCallbackTimer
=============================================================================
