-------------------------- MODULE SicslowpanProofs --------------------------
(***************************************************************************)
(* The safety invariants of fragmentation and reassembly, for packets and  *)
(* frames of any lengths and any number of senders, queue buffers,         *)
(* contexts and fragment buffers.                                          *)
(*                                                                         *)
(* SendInv: the loop of output makes as many fragments as it has computed  *)
(* with a division (CountIsRight).  RxOK: a context has counted its first  *)
(* fragment and its buffers.  WholeInv: what is queued and what was        *)
(* received are fragments of packets that were sent, which do not overlap  *)
(* (PartsApart), so that lengths that add up to the size of a packet are   *)
(* those of all its bytes (AllBytes).                                      *)
(*                                                                         *)
(* Pieces and the sum of the lengths are recursive functions.  That they   *)
(* exist, and what they compute, is shown by induction over a set of       *)
(* numbers (Induction): those for which there is a function on all         *)
(* arguments of that size.                                                 *)
(***************************************************************************)
EXTENDS Sicslowpan, FiniteSetTheorems, SequenceTheorems, TLAPS

-----------------------------------------------------------------------------
(* Induction, over a set of numbers. *)

\* A set of numbers has a least one.
LEMMA Least ==
    ASSUME NEW K, K \subseteq Nat, K # {}
    PROVE  \E k \in K : \A i \in K : k <= i
<1> DEFINE Less == {pair \in Nat \X Nat : pair[1] < pair[2]}
<1>1. IsWellFoundedOn(Less, Nat)
  BY NatLessThanWellFounded DEF OpToRel
<1>2. PICK k \in K : \A i \in K : <<i, k>> \notin Less
  <2> HIDE DEF Less
  <2> QED
    BY <1>1, WFMin
<1>3. \A i \in K : ~(i < k)
  BY <1>2
<1> QED
  BY <1>2, <1>3

\* A set that has 0 and every successor of its members has all numbers.
LEMMA Induction ==
    ASSUME NEW T, 0 \in T, \A n \in Nat : n \in T => n + 1 \in T
    PROVE  \A n \in Nat : n \in T
<1> SUFFICES ASSUME Nat \ T # {} PROVE FALSE
  OBVIOUS
<1>1. PICK k \in Nat \ T : \A i \in Nat \ T : k <= i
  BY Least
<1>2. k # 0 /\ k \in Nat
  BY <1>1
<1>3. k - 1 \in Nat /\ ~(k <= k - 1) /\ k - 1 + 1 = k
  BY <1>2
<1>4. k - 1 \in T
  BY <1>1, <1>3
<1> QED
  BY <1>1, <1>3, <1>4

\* Min, and the search loops that begin at 1.
LEMMA LowestIs ==
    ASSUME NEW S, S \subseteq Nat
    PROVE  (S = {} /\ Lowest(S) = 0) \/ Lowest(S) \in S
<1>1. CASE S = {}
  BY <1>1 DEF Lowest
<1>2. CASE S # {}
  <2>1. \E k \in S : \A i \in S : k <= i
    BY <1>2, Least
  <2> QED
    BY <1>2, <2>1 DEF Lowest, Min
<1> QED
  BY <1>1, <1>2

-----------------------------------------------------------------------------
(* The sum of the lengths of some buffers. *)

Sum(buf, S) == MapThenSumSet(LAMBDA b : buf[b].len, S)
First(s) == CHOOSE x \in s : TRUE

\* g sums up the subsets of S.
Sums(g, buf, S) ==
    g = [s \in SUBSET S |-> IF s = {} THEN 0 ELSE buf[First(s)].len + g[s \ {First(s)}]]

\* The fold that Sum stands for.
LEMMA SumIs ==
    ASSUME NEW buf, NEW S
    PROVE  Sum(buf, S) = (CHOOSE g : Sums(g, buf, S))[S]
BY DEF Sum, MapThenSumSet, MapThenFoldSet, Sums, First

\* Removing the first element of a finite set.
LEMMA FirstIs ==
    ASSUME NEW s, IsFiniteSet(s), s # {}
    PROVE  /\ First(s) \in s /\ IsFiniteSet(s \ {First(s)})
           /\ Cardinality(s) \in Nat /\ Cardinality(s \ {First(s)}) = Cardinality(s) - 1
<1>1. First(s) \in s
  BY DEF First
<1>2. Cardinality(s) \in Nat
  BY FS_CardinalityType
<1> QED
  BY <1>1, <1>2, FS_RemoveElement

Lengths(buf, S) == \A b \in S : buf[b].len \in Nat

\* There is a function that sums up the subsets: by induction over their size.
LEMMA SumExists ==
    ASSUME NEW buf, NEW S, IsFiniteSet(S), Lengths(buf, S)
    PROVE  \E g \in [SUBSET S -> Nat] : Sums(g, buf, S)
<1> DEFINE Sub(n) == {s \in SUBSET S : Cardinality(s) <= n}
           Value(g, s) == IF s = {} THEN 0 ELSE buf[First(s)].len + g[s \ {First(s)}]
           T == {n \in Nat : \E g \in [Sub(n) -> Nat] : \A s \in Sub(n) : g[s] = Value(g, s)}
<1>0. \A s \in SUBSET S : IsFiniteSet(s) /\ Cardinality(s) \in Nat
  BY FS_Subset, FS_CardinalityType
<1>1. 0 \in T
  <2> DEFINE g == [s \in Sub(0) |-> 0]
  <2>1. \A s \in Sub(0) : s = {}
    BY <1>0, FS_EmptySet
  <2>2. g \in [Sub(0) -> Nat]
    OBVIOUS
  <2>3. \A s \in Sub(0) : g[s] = Value(g, s)
    BY <2>1
  <2> QED
    BY <2>2, <2>3
<1>2. ASSUME NEW n \in Nat, n \in T PROVE n + 1 \in T
  <2>1. PICK g \in [Sub(n) -> Nat] : \A s \in Sub(n) : g[s] = Value(g, s)
    BY <1>2
  <2> DEFINE h == [s \in Sub(n + 1) |-> Value(g, s)]
  <2>2. ASSUME NEW s \in Sub(n + 1), s # {}
        PROVE  s \ {First(s)} \in Sub(n) /\ First(s) \in S
    BY <1>0, <2>2, FirstIs
  <2>3. ASSUME NEW s \in Sub(n) PROVE s \in Sub(n + 1) /\ h[s] = g[s]
    BY <1>0, <2>1
  <2>4. ASSUME NEW s \in Sub(n + 1) PROVE Value(g, s) \in Nat /\ Value(h, s) = Value(g, s)
    <3>1. CASE s = {}
      BY <3>1
    <3>2. CASE s # {}
      <4>1. s \ {First(s)} \in Sub(n) /\ First(s) \in S
        BY <2>2, <3>2
      <4>2. h[s \ {First(s)}] = g[s \ {First(s)}] /\ g[s \ {First(s)}] \in Nat
        BY <2>3, <4>1
      <4>3. buf[First(s)].len \in Nat
        BY <4>1 DEF Lengths
      <4> HIDE DEF h, Sub
      <4> QED
        BY <3>2, <4>2, <4>3
    <3> QED
      BY <3>1, <3>2
  <2>5. h \in [Sub(n + 1) -> Nat]
    <3> HIDE DEF Value, Sub
    <3> QED
      BY <2>4
  <2>6. \A s \in Sub(n + 1) : h[s] = Value(h, s)
    <3>1. \A s \in Sub(n + 1) : h[s] = Value(g, s)
      OBVIOUS
    <3> HIDE DEF h, Value, Sub
    <3> QED
      BY <2>4, <3>1
  <2> HIDE DEF h, Value, Sub
  <2> QED
    BY <2>5, <2>6
<1>3. Cardinality(S) \in T
  <2>1. Cardinality(S) \in Nat
    BY FS_CardinalityType
  <2> HIDE DEF T
  <2> QED
    BY <1>1, <1>2, <2>1, Induction
<1>4. Sub(Cardinality(S)) = SUBSET S
  BY FS_Subset
<1>5. PICK g \in [SUBSET S -> Nat] : \A s \in SUBSET S : g[s] = Value(g, s)
  BY <1>3, <1>4
<1>6. g = [s \in SUBSET S |-> Value(g, s)]
  <2> HIDE DEF Value
  <2> QED
    BY <1>5
<1> QED
  BY <1>6 DEF Sums

\* A sum over a set does not depend on the set of which it is a subset.
LEMMA SumUnique ==
    ASSUME NEW buf, NEW S, NEW R, IsFiniteSet(S), R \subseteq S,
           NEW g, Sums(g, buf, S), NEW h, Sums(h, buf, R)
    PROVE  \A s \in SUBSET R : g[s] = h[s]
<1> DEFINE T == {n \in Nat : \A s \in SUBSET R : Cardinality(s) = n => g[s] = h[s]}
<1>0. \A s \in SUBSET R : s \in SUBSET S /\ IsFiniteSet(s) /\ Cardinality(s) \in Nat
  BY FS_Subset, FS_CardinalityType
<1>1. \A s \in SUBSET R : g[s] = IF s = {} THEN 0 ELSE buf[First(s)].len + g[s \ {First(s)}]
  BY <1>0 DEF Sums
<1>2. \A s \in SUBSET R : h[s] = IF s = {} THEN 0 ELSE buf[First(s)].len + h[s \ {First(s)}]
  BY DEF Sums
<1>3. 0 \in T
  <2>1. \A s \in SUBSET R : Cardinality(s) = 0 => s = {}
    BY <1>0, FS_EmptySet
  <2>2. \A s \in SUBSET R : s = {} => g[s] = h[s]
    BY <1>1, <1>2
  <2> QED
    BY <2>1, <2>2
<1>4. ASSUME NEW n \in Nat, n \in T PROVE n + 1 \in T
  <2>1. ASSUME NEW s \in SUBSET R, Cardinality(s) = n + 1 PROVE g[s] = h[s]
    <3>1. s # {} /\ IsFiniteSet(s)
      BY <1>0, <2>1, FS_EmptySet
    <3>2. Cardinality(s \ {First(s)}) = n /\ s \ {First(s)} \in SUBSET R
      BY <2>1, <3>1, FirstIs
    <3>3. g[s \ {First(s)}] = h[s \ {First(s)}]
      BY <1>4, <3>2
    <3> QED
      BY <1>1, <1>2, <3>1, <3>3
  <2> QED
    BY <2>1
<1>5. \A n \in Nat : n \in T
  <2> HIDE DEF T
  <2> QED
    BY <1>3, <1>4, Induction
<1> QED
  BY <1>0, <1>5

\* The sum over a set, by the first of its elements.
LEMMA SumStep ==
    ASSUME NEW buf, NEW S, IsFiniteSet(S), Lengths(buf, S)
    PROVE  /\ Sum(buf, S) \in Nat
           /\ Sum(buf, {}) = 0
           /\ S # {} => Sum(buf, S) = buf[First(S)].len + Sum(buf, S \ {First(S)})
<1>1. PICK g \in [SUBSET S -> Nat] : Sums(g, buf, S)
  BY SumExists
<1>2. ASSUME NEW R \in SUBSET S PROVE Sum(buf, R) = g[R]
  <2>1. IsFiniteSet(R) /\ Lengths(buf, R)
    BY FS_Subset DEF Lengths
  <2>2. \E h : Sums(h, buf, R)
    BY <2>1, SumExists
  <2> DEFINE h == CHOOSE f : Sums(f, buf, R)
  <2>3. Sums(h, buf, R)
    BY <2>2
  <2>4. Sum(buf, R) = h[R]
    BY SumIs
  <2> HIDE DEF h
  <2> QED
    BY <1>1, <2>3, <2>4, SumUnique
<1>3. \A s \in SUBSET S : g[s] = IF s = {} THEN 0 ELSE buf[First(s)].len + g[s \ {First(s)}]
  BY <1>1 DEF Sums
<1>4. S \in SUBSET S /\ {} \in SUBSET S /\ S \ {First(S)} \in SUBSET S
  OBVIOUS
<1>5. g[S] \in Nat /\ g[{}] = 0
  BY <1>1, <1>3, <1>4
<1> QED
  BY <1>2, <1>3, <1>4, <1>5

\* The sum over a set depends only on the lengths of its members.
LEMMA SumSame ==
    ASSUME NEW S, IsFiniteSet(S), NEW buf, Lengths(buf, S), NEW new,
           \A b \in S : new[b].len = buf[b].len
    PROVE  Sum(new, S) = Sum(buf, S)
<1> DEFINE T == {n \in Nat : \A s \in SUBSET S : Cardinality(s) = n => Sum(new, s) = Sum(buf, s)}
<1>0. \A s \in SUBSET S : /\ IsFiniteSet(s) /\ Cardinality(s) \in Nat
                          /\ Lengths(buf, s) /\ Lengths(new, s)
  BY FS_Subset, FS_CardinalityType DEF Lengths
<1>1. 0 \in T
  <2>1. \A s \in SUBSET S : Cardinality(s) = 0 => s = {}
    BY <1>0, FS_EmptySet
  <2>2. \A s \in SUBSET S : s = {} => Sum(new, s) = Sum(buf, s)
    BY <1>0, SumStep
  <2> QED
    BY <2>1, <2>2
<1>2. ASSUME NEW n \in Nat, n \in T PROVE n + 1 \in T
  <2>1. ASSUME NEW s \in SUBSET S, Cardinality(s) = n + 1 PROVE Sum(new, s) = Sum(buf, s)
    <3>1. s # {} /\ IsFiniteSet(s) /\ Lengths(buf, s) /\ Lengths(new, s)
      BY <1>0, <2>1, FS_EmptySet
    <3>2. Cardinality(s \ {First(s)}) = n /\ s \ {First(s)} \in SUBSET S /\ First(s) \in S
      <4>1. First(s) \in s /\ Cardinality(s \ {First(s)}) = Cardinality(s) - 1
        BY <3>1, FirstIs
      <4> QED
        BY <2>1, <4>1
    <3>3. Sum(new, s \ {First(s)}) = Sum(buf, s \ {First(s)})
      BY <1>2, <3>2
    <3>4. new[First(s)].len = buf[First(s)].len
      BY <3>2
    <3>5. /\ Sum(new, s) = new[First(s)].len + Sum(new, s \ {First(s)})
          /\ Sum(buf, s) = buf[First(s)].len + Sum(buf, s \ {First(s)})
      BY <3>1, SumStep
    <3> QED
      BY <3>3, <3>4, <3>5
  <2> QED
    BY <2>1
<1>3. \A n \in Nat : n \in T
  <2> HIDE DEF T
  <2> QED
    BY <1>1, <1>2, Induction
<1> QED
  BY <1>0, <1>3

\* One more member adds its length.
LEMMA SumAdd ==
    ASSUME NEW S, IsFiniteSet(S), NEW b, b \notin S, NEW buf, Lengths(buf, S \cup {b})
    PROVE  Sum(buf, S \cup {b}) = Sum(buf, S) + buf[b].len
<1> DEFINE T == {n \in Nat : \A s \in SUBSET (S \cup {b}), x \in S \cup {b} :
                     Cardinality(s) = n /\ x \notin s
                        => Sum(buf, s \cup {x}) = Sum(buf, s) + buf[x].len}
<1>0. \A s \in SUBSET (S \cup {b}) :
         IsFiniteSet(s) /\ Cardinality(s) \in Nat /\ Lengths(buf, s) /\ Sum(buf, s) \in Nat
  <2>1. IsFiniteSet(S \cup {b})
    BY FS_AddElement
  <2>2. \A s \in SUBSET (S \cup {b}) : IsFiniteSet(s) /\ Cardinality(s) \in Nat
    BY <2>1, FS_Subset, FS_CardinalityType
  <2>3. \A s \in SUBSET (S \cup {b}) : Lengths(buf, s)
    BY DEF Lengths
  <2> QED
    BY <2>2, <2>3, SumStep
<1>1. ASSUME NEW n \in Nat, \A m \in Nat : m < n => m \in T PROVE n \in T
  <2>1. ASSUME NEW s \in SUBSET (S \cup {b}), NEW x \in S \cup {b}, Cardinality(s) = n, x \notin s
        PROVE  Sum(buf, s \cup {x}) = Sum(buf, s) + buf[x].len
    <3> DEFINE u == s \cup {x}
               y == First(u)
    <3>1. u \in SUBSET (S \cup {b}) /\ u # {} /\ IsFiniteSet(u) /\ Lengths(buf, u)
      BY <1>0
    <3>2. y \in u /\ y \in S \cup {b}
      BY <3>1, FirstIs
    <3>3. Sum(buf, u) = buf[y].len + Sum(buf, u \ {y})
      BY <3>1, SumStep
    <3>4. buf[x].len \in Nat /\ buf[y].len \in Nat /\ Sum(buf, s) \in Nat
      BY <1>0, <3>2 DEF Lengths
    <3>5. CASE y = x
      <4>1. u \ {y} = s
        BY <2>1, <3>5
      <4> HIDE DEF u, y
      <4>2. Sum(buf, u) = buf[x].len + Sum(buf, s)
        BY <3>3, <3>5, <4>1
      <4>3. Sum(buf, u) = Sum(buf, s) + buf[x].len
        BY <3>4, <4>2
      <4> QED
        BY <4>3 DEF u
    <3>6. CASE y # x
      <4> DEFINE w == s \ {y}
      <4>1. y \in s /\ u \ {y} = w \cup {x} /\ s = w \cup {y} /\ x \notin w /\ y \notin w
        BY <2>1, <3>2, <3>6
      <4>2. w \in SUBSET (S \cup {b}) /\ Cardinality(w) \in Nat /\ Cardinality(w) < n
        <5>1. Cardinality(w) = n - 1 /\ w \in SUBSET (S \cup {b})
          BY <1>0, <2>1, <4>1, FS_RemoveElement
        <5>2. Cardinality(w) \in Nat
          BY <1>0, <5>1
        <5> QED
          BY <5>1, <5>2
      <4>3. Cardinality(w) \in T
        BY <1>1, <4>2
      <4> HIDE DEF w, y, u
      <4>4. Sum(buf, w \cup {x}) = Sum(buf, w) + buf[x].len
        BY <4>1, <4>2, <4>3
      <4>5. Sum(buf, w \cup {y}) = Sum(buf, w) + buf[y].len
        BY <3>2, <4>1, <4>2, <4>3
      <4>6. Sum(buf, w) \in Nat
        BY <1>0, <4>2
      <4>7. Sum(buf, u) = buf[y].len + (Sum(buf, w) + buf[x].len)
        BY <3>3, <4>1, <4>4
      <4>8. Sum(buf, s) = Sum(buf, w) + buf[y].len
        BY <4>1, <4>5
      <4>9. Sum(buf, u) = Sum(buf, s) + buf[x].len
        BY <3>4, <4>6, <4>7, <4>8
      <4> QED
        BY <4>9 DEF u
    <3> QED
      BY <3>5, <3>6
  <2> QED
    BY <2>1
<1>2. \A n \in Nat : n \in T
  <2> HIDE DEF T
  <2> SUFFICES ASSUME Nat \ T # {} PROVE FALSE
    OBVIOUS
  <2>1. PICK k \in Nat \ T : \A i \in Nat \ T : k <= i
    BY Least
  <2>2. \A m \in Nat : m < k => m \in T
    BY <2>1
  <2> QED
    BY <1>1, <2>1, <2>2
<1>3. Cardinality(S) \in T /\ S \in SUBSET (S \cup {b}) /\ b \in S \cup {b}
  BY <1>0, <1>2
<1> QED
  BY <1>3

-----------------------------------------------------------------------------
(* The fragments of a packet. *)

Piece == [off : Nat, len : Nat]

\* Alignment rounds down by less than a unit.
LEMMA AlignIs ==
    ASSUME NEW n \in Int
    PROVE  Align(n) \in Int /\ Align(n) <= n /\ n - Unit < Align(n)
<1>1. Unit \in Nat /\ Unit > 0
  BY SicslowpanAssumption
<1>2. n % Unit \in 0 .. Unit - 1
  BY <1>1
<1> QED
  BY <1>1, <1>2 DEF Align

\* A middle fragment is not empty, and not longer than the last one may be.
LEMMA PayloadIs ==
    /\ fragn_max_payload \in Nat /\ fragn_max_payload > 0
    /\ last_fragn_max_payload \in Nat /\ fragn_max_payload <= last_fragn_max_payload
<1>1. Unit \in Nat /\ Unit > 0 /\ MacMax - FragnHdr \in Int /\ MacMax - FragnHdr >= Unit
  BY SicslowpanAssumption
<1>2. Align(MacMax - FragnHdr) \in Int /\ Align(MacMax - FragnHdr) <= MacMax - FragnHdr
      /\ (MacMax - FragnHdr) - Unit < Align(MacMax - FragnHdr)
  BY <1>1, AlignIs
<1> DEFINE a == Align(MacMax - FragnHdr)
           m == MacMax - FragnHdr
<1>3. a \in Int /\ m \in Int /\ a <= m /\ m - Unit < a /\ m >= Unit
  BY <1>1, <1>2
<1> HIDE DEF a, m
<1>4. a \in Nat /\ a > 0 /\ m \in Nat /\ a <= m
  BY <1>1, <1>3
<1> QED
  BY <1>4 DEF a, m, fragn_max_payload, last_fragn_max_payload

\* Quotients, one divisor apart.
LEMMA QuotientStep ==
    ASSUME NEW d \in Nat, d > 0, NEW a \in Nat
    PROVE  /\ a \div d \in Nat
           /\ a < d => a \div d = 0
           /\ a >= d => a \div d = 1 + ((a - d) \div d)
OBVIOUS

\* The length of the fragment that begins at byte done.
Cut(len, done) ==
    IF len - done > last_fragn_max_payload THEN fragn_max_payload ELSE len - done

\* No fragment is empty or goes beyond the packet.
LEMMA CutIs ==
    ASSUME NEW len \in Nat, NEW done \in 0 .. len, done # len
    PROVE  Cut(len, done) \in Nat /\ Cut(len, done) > 0 /\ done + Cut(len, done) \in 0 .. len
<1>1. len - done \in Nat /\ len - done > 0
  OBVIOUS
<1>2. CASE len - done > last_fragn_max_payload
  BY <1>1, <1>2, PayloadIs DEF Cut
<1>3. CASE ~(len - done > last_fragn_max_payload)
  BY <1>1, <1>3, PayloadIs DEF Cut
<1> QED
  BY <1>2, <1>3

\* The fragments from byte done on, as a function g of the other ones.
RestFrom(g, len, done) ==
    IF done = len THEN <<>>
    ELSE <<[off |-> done \div Unit, len |-> Cut(len, done)]>> \o g[done + Cut(len, done)]

Rests(g, len) == g = [done \in 0 .. len |-> RestFrom(g, len, done)]

\* The recursive function of Pieces.
LEMMA PiecesIs ==
    ASSUME NEW len
    PROVE  Pieces(len) = <<[off |-> 0, len |-> UncompLen + frag1_payload]>>
                            \o (CHOOSE g : Rests(g, len))[UncompLen + frag1_payload]
BY DEF Pieces, Rests, RestFrom, Cut

\* There is such a function: by induction over the number of bytes that are left.
LEMMA RestExists ==
    ASSUME NEW len \in Nat
    PROVE  \E g : Rests(g, len)
<1> DEFINE Left(n) == {done \in 0 .. len : len - done <= n}
           T == {n \in Nat : \E g : \A done \in Left(n) : g[done] = RestFrom(g, len, done)}
<1>1. 0 \in T
  <2> DEFINE g == [done \in Left(0) |-> <<>>]
  <2>1. \A done \in Left(0) : g[done] = RestFrom(g, len, done)
    BY DEF RestFrom
  <2> QED
    BY <2>1
<1>2. ASSUME NEW n \in Nat, n \in T PROVE n + 1 \in T
  <2>1. PICK g : \A done \in Left(n) : g[done] = RestFrom(g, len, done)
    BY <1>2
  <2> DEFINE h == [done \in Left(n + 1) |-> RestFrom(g, len, done)]
  <2>2. ASSUME NEW done \in Left(n) PROVE done \in Left(n + 1) /\ h[done] = g[done]
    BY <2>1
  <2>3. ASSUME NEW done \in Left(n + 1), done # len
        PROVE  done + Cut(len, done) \in Left(n)
    <3>1. /\ Cut(len, done) \in Nat /\ Cut(len, done) > 0
          /\ done + Cut(len, done) \in 0 .. len /\ done \in 0 .. len /\ len - done <= n + 1
      BY <2>3, CutIs
    <3> QED
      BY <3>1
  <2>4. ASSUME NEW done \in Left(n + 1) PROVE RestFrom(h, len, done) = RestFrom(g, len, done)
    <3> HIDE DEF h, Left
    <3> QED
      BY <2>2, <2>3 DEF RestFrom
  <2>5. \A done \in Left(n + 1) : h[done] = RestFrom(g, len, done)
    OBVIOUS
  <2>6. \A done \in Left(n + 1) : h[done] = RestFrom(h, len, done)
    <3> HIDE DEF h, Left
    <3> QED
      BY <2>4, <2>5
  <2> HIDE DEF h, Left
  <2> QED
    BY <2>6
<1>3. len \in T
  <2> HIDE DEF T
  <2> QED
    BY <1>1, <1>2, Induction
<1>4. Left(len) = 0 .. len
  OBVIOUS
<1>5. PICK g : \A done \in 0 .. len : g[done] = RestFrom(g, len, done)
  BY <1>3, <1>4
<1> DEFINE h == [done \in 0 .. len |-> g[done]]
<1>6. ASSUME NEW done \in 0 .. len PROVE RestFrom(h, len, done) = g[done]
  <2>1. CASE done = len
    BY <1>5, <2>1 DEF RestFrom
  <2>2. CASE done # len
    <3>1. done + Cut(len, done) \in 0 .. len
      BY <2>2, CutIs
    <3>2. h[done + Cut(len, done)] = g[done + Cut(len, done)]
      BY <3>1
    <3> HIDE DEF h
    <3> QED
      BY <1>5, <2>2, <3>2 DEF RestFrom
  <2> QED
    BY <2>1, <2>2
<1>7. h = [done \in 0 .. len |-> RestFrom(h, len, done)]
  <2>1. [done \in 0 .. len |-> RestFrom(h, len, done)] = [done \in 0 .. len |-> g[done]]
    <3> HIDE DEF h
    <3> QED
      BY <1>6
  <2> QED
    BY <2>1
<1> QED
  BY <1>7 DEF Rests

\* The number of fragments for k bytes after the first one.
Count(k) ==
    IF k = 0 THEN 0
    ELSE IF k > last_fragn_max_payload
         THEN 2 + ((k - last_fragn_max_payload) - 1) \div fragn_max_payload ELSE 1

\* Each fragment leaves one fewer to be made.
LEMMA CountStep ==
    ASSUME NEW len \in Nat, NEW done \in 0 .. len, done # len
    PROVE  /\ Count(len - (done + Cut(len, done))) \in Nat
           /\ Count(len - done) = 1 + Count(len - (done + Cut(len, done)))
<1> DEFINE k == len - done
           j == len - (done + Cut(len, done))
           last == last_fragn_max_payload
           mid == fragn_max_payload
<1>1. k \in Nat /\ k > 0 /\ last \in Nat /\ mid \in Nat /\ mid > 0 /\ mid <= last
  BY PayloadIs
<1>2. CASE k > last
  <2>1. Cut(len, done) = mid
    BY <1>2 DEF Cut
  <2>2. j = k - mid
    BY <1>1, <2>1
  <2> HIDE DEF k, j, last, mid
  <2> DEFINE a == (k - last) - 1
             b == (j - last) - 1
  <2>3. a \in Nat /\ j \in Nat /\ j > 0 /\ b = a - mid /\ (j > last <=> a >= mid)
    BY <1>1, <1>2, <2>2
  <2>4. Count(k) = 2 + (a \div mid)
    BY <1>1, <1>2 DEF Count, last, mid
  <2>5. Count(j) = IF j > last THEN 2 + (b \div mid) ELSE 1
    BY <2>3 DEF Count, last, mid
  <2> HIDE DEF a, b
  <2>6. /\ a \div mid \in Nat
        /\ a < mid => a \div mid = 0
        /\ a >= mid => a \div mid = 1 + (b \div mid)
    BY <1>1, <2>3, QuotientStep
  <2>7. CASE j > last
    <3>1. b \in Nat /\ b \div mid \in Nat
      BY <1>1, <2>3, <2>7, QuotientStep
    <3> QED
      BY <2>3, <2>4, <2>5, <2>6, <2>7, <3>1 DEF k, j
  <2>8. CASE ~(j > last)
    <3>1. a < mid
      BY <1>1, <2>3, <2>8
    <3> QED
      BY <2>4, <2>5, <2>6, <2>8, <3>1 DEF k, j
  <2> QED
    BY <2>7, <2>8
<1>3. CASE ~(k > last)
  <2>1. Cut(len, done) = k
    BY <1>3 DEF Cut
  <2>2. j = 0
    BY <1>1, <2>1
  <2> HIDE DEF j, k
  <2>3. Count(j) = 0 /\ Count(k) = 1
    BY <1>1, <1>3, <2>2 DEF Count
  <2> QED
    BY <2>3 DEF j, k
<1> QED
  BY <1>2, <1>3

\* What the loop of output makes of the bytes after the first fragment.
LEMMA RestIs ==
    ASSUME NEW len \in Nat, NEW g, Rests(g, len)
    PROVE  \A done \in 0 .. len : g[done] \in Seq(Piece) /\ Len(g[done]) = Count(len - done)
<1> DEFINE Good(done) == g[done] \in Seq(Piece) /\ Len(g[done]) = Count(len - done)
           T == {n \in Nat : \A done \in 0 .. len : len - done <= n => Good(done)}
<1>1. \A done \in 0 .. len : g[done] = RestFrom(g, len, done)
  BY DEF Rests
<1>2. len \in 0 .. len /\ Good(len)
  <2>1. len \in 0 .. len /\ len - len = 0
    OBVIOUS
  <2>2. g[len] = <<>>
    BY <1>1, <2>1 DEF RestFrom
  <2>3. Count(0) = 0
    BY DEF Count
  <2> QED
    BY <2>1, <2>2, <2>3
<1>3. 0 \in T
  <2>1. \A done \in 0 .. len : len - done <= 0 => done = len
    OBVIOUS
  <2> HIDE DEF Good
  <2> QED
    BY <1>2, <2>1
<1>4. ASSUME NEW n \in Nat, n \in T PROVE n + 1 \in T
  <2>1. ASSUME NEW done \in 0 .. len, len - done <= n + 1 PROVE Good(done)
    <3>1. CASE done = len
      BY <1>2, <3>1
    <3>2. CASE done # len
      <4> DEFINE c == Cut(len, done)
                 p == [off |-> done \div Unit, len |-> c]
                 r == g[done + c]
      <4>1. c \in Nat /\ c > 0 /\ done + c \in 0 .. len
        BY <3>2, CutIs
      <4> HIDE DEF c
      <4>2. len - (done + c) <= n
        BY <2>1, <4>1
      <4>3. Good(done + c)
        <5> HIDE DEF Good
        <5> QED
          BY <1>4, <4>1, <4>2
      <4>4. p \in Piece
        <5>1. done \in Nat /\ Unit \in Nat /\ Unit > 0
          BY SicslowpanAssumption
        <5>2. done \div Unit \in Nat
          BY <5>1, QuotientStep
        <5> QED
          BY <4>1, <5>2 DEF Piece
      <4>5. g[done] = <<p>> \o r
        BY <1>1, <3>2 DEF RestFrom, c
      <4> HIDE DEF p
      <4>6. r \in Seq(Piece) /\ <<p>> \in Seq(Piece) /\ Len(<<p>>) = 1
        BY <4>3, <4>4
      <4>7. g[done] \in Seq(Piece) /\ Len(g[done]) = 1 + Len(r)
        <5> HIDE DEF r
        <5> QED
          BY <4>5, <4>6, ConcatProperties
      <4>8. Count(len - done) = 1 + Count(len - (done + c))
        BY <3>2, CountStep DEF c
      <4> QED
        BY <4>3, <4>7, <4>8
    <3> QED
      BY <3>1, <3>2
  <2> HIDE DEF Good
  <2> QED
    BY <2>1
<1>5. len \in T
  <2> HIDE DEF T
  <2> QED
    BY <1>3, <1>4, Induction
<1> HIDE DEF Good
<1>6. \A done \in 0 .. len : Good(done)
  BY <1>5
<1> QED
  BY <1>6 DEF Good

\* The fragments that output makes are as many as it has computed in advance.
LEMMA CountIsRight ==
    ASSUME NEW len \in UipLen, frag_needed(len), frag1_payload >= 0
    PROVE  Pieces(len) \in Seq(Piece) /\ Len(Pieces(len)) = fragment_count(len)
<1> DEFINE first == UncompLen + frag1_payload
           g == CHOOSE f : Rests(f, len)
           p == [off |-> 0, len |-> first]
<1>1. /\ len \in Nat /\ UncompLen \in Nat /\ HdrLen \in Nat /\ Frag1Hdr \in Nat /\ MacMax \in Nat
      /\ len - UncompLen + HdrLen > MacMax
  BY SicslowpanAssumption DEF frag_needed
<1>2. frag1_payload \in Int /\ frag1_payload <= MacMax - HdrLen - Frag1Hdr
  BY <1>1, AlignIs DEF frag1_payload
<1>3. frag1_payload \in Nat /\ first \in 0 .. len /\ first # len
  BY <1>1, <1>2
<1>4. Rests(g, len)
  BY <1>1, RestExists
<1>5. Pieces(len) = <<p>> \o g[first]
  BY PiecesIs
<1> HIDE DEF g
<1>6. g[first] \in Seq(Piece) /\ Len(g[first]) = Count(len - first)
  <2> HIDE DEF first
  <2> QED
    BY <1>1, <1>3, <1>4, RestIs
<1>7. <<p>> \in Seq(Piece) /\ Len(<<p>>) = 1
  <2>1. p \in Piece
    BY <1>3 DEF Piece
  <2> HIDE DEF p
  <2> QED
    BY <2>1
<1> HIDE DEF p
<1>8. Pieces(len) \in Seq(Piece) /\ Len(Pieces(len)) = 1 + Count(len - first)
  <2> HIDE DEF first
  <2> QED
    BY <1>5, <1>6, <1>7, ConcatProperties
<1>9. 1 + Count(len - first) = fragment_count(len)
  <2> DEFINE k == len - first
             last == last_fragn_max_payload
             middle == (len - UncompLen) - frag1_payload - last
  <2>1. last \in Nat /\ fragn_max_payload \in Nat /\ fragn_max_payload > 0
    BY PayloadIs
  <2>2. k \in Nat /\ k # 0 /\ middle = k - last
    BY <1>1, <1>3, <2>1
  <2>3. fragment_count(len) =
          IF middle > 0 THEN 2 + 1 + (middle - 1) \div fragn_max_payload ELSE 2
    BY DEF fragment_count
  <2>4. Count(k) = IF k > last THEN 2 + ((k - last) - 1) \div fragn_max_payload ELSE 1
    BY <2>2 DEF Count
  <2> HIDE DEF k, middle, last
  <2>5. CASE middle > 0
    <3>1. k > last /\ middle - 1 \in Nat
      BY <2>1, <2>2, <2>5
    <3>2. (middle - 1) \div fragn_max_payload \in Nat
      BY <2>1, <3>1, QuotientStep
    <3>3. fragment_count(len) = 3 + (middle - 1) \div fragn_max_payload
      BY <2>3, <2>5, <3>2
    <3>4. Count(k) = 2 + (middle - 1) \div fragn_max_payload
      BY <2>2, <2>4, <3>1
    <3>5. 1 + Count(k) = fragment_count(len)
      BY <3>2, <3>3, <3>4
    <3> QED
      BY <3>5 DEF k
  <2>6. CASE ~(middle > 0)
    <3>1. ~(k > last)
      BY <2>1, <2>2, <2>6
    <3>2. 1 + Count(k) = fragment_count(len)
      BY <2>3, <2>4, <2>6, <3>1
    <3> QED
      BY <3>2 DEF k
  <2> QED
    BY <2>5, <2>6
<1> QED
  BY <1>8, <1>9

\* Where a fragment begins, in bytes.
Start(p) == Unit * p.off

\* Offsets are exact for multiples of Unit.
LEMMA Exact ==
    ASSUME NEW n \in Nat, n % Unit = 0
    PROVE  Unit * (n \div Unit) = n
<1>1. Unit \in Nat /\ Unit > 0
  BY SicslowpanAssumption
<1> QED
  BY <1>1

LEMMA Multiples ==
    ASSUME NEW a \in Int, a % Unit = 0, NEW b \in Int, b % Unit = 0
    PROVE  (a + b) % Unit = 0
<1> DEFINE j == a \div Unit
           k == b \div Unit
<1>1. Unit \in Nat /\ Unit > 0
  BY SicslowpanAssumption
<1>2. j \in Int /\ k \in Int /\ a = Unit * j /\ b = Unit * k
  BY <1>1
<1> HIDE DEF j, k
<1>3. a + b = Unit * (j + k)
  BY <1>1, <1>2
<1>4. \A m \in Int : (Unit * m) % Unit = 0
  BY <1>1
<1> QED
  BY <1>2, <1>3, <1>4

LEMMA Aligned ==
    ASSUME NEW n \in Int
    PROVE  Align(n) % Unit = 0
<1>1. Unit \in Nat /\ Unit > 0
  BY SicslowpanAssumption
<1> QED
  BY <1>1 DEF Align

\* The fragments s lie between the bytes a and z, in the order of the list.
Inside(s, a, z) ==
    \A i \in 1 .. Len(s) : /\ a <= Start(s[i]) /\ s[i].len > 0
                           /\ Start(s[i]) + s[i].len <= z
Before(p, q) == Start(p) + p.len <= Start(q)
InRow(s) == \A i, j \in 1 .. Len(s) : i < j => Before(s[i], s[j])

\* A fragment begins at a byte.
LEMMA StartIs ==
    ASSUME NEW p \in Piece
    PROVE  Start(p) \in Nat /\ p.len \in Nat
<1>1. Unit \in Nat /\ p.off \in Nat /\ p.len \in Nat
  BY SicslowpanAssumption DEF Piece
<1> QED
  BY <1>1 DEF Start

\* One more fragment, in front of the others.
LEMMA InFront ==
    ASSUME NEW p \in Piece, NEW r \in Seq(Piece), NEW a \in Nat, NEW z \in Nat,
           Start(p) = a, p.len > 0, a + p.len <= z, Inside(r, a + p.len, z), InRow(r)
    PROVE  Inside(<<p>> \o r, a, z) /\ InRow(<<p>> \o r)
<1> DEFINE s == <<p>> \o r
<1>1. Len(r) \in Nat /\ Len(<<p>>) = 1 /\ <<p>> \in Seq(Piece) /\ <<p>>[1] = p
  BY LenProperties
<1>2. Len(s) = Len(r) + 1 /\ s[1] = p /\ \A i \in 2 .. Len(s) : s[i] = r[i - 1] /\ i - 1 \in 1 .. Len(r)
  BY <1>1, ConcatProperties
<1>3. p.len \in Nat /\ \A i \in 1 .. Len(r) : Start(r[i]) \in Nat /\ r[i].len \in Nat
  BY StartIs, ElementOfSeq
<1> HIDE DEF s
<1>4. \A i \in 1 .. Len(s) : i = 1 \/ i \in 2 .. Len(s)
  BY <1>1, <1>2
<1>5. Inside(s, a, z)
  <2> SUFFICES ASSUME NEW i \in 1 .. Len(s)
               PROVE  a <= Start(s[i]) /\ s[i].len > 0 /\ Start(s[i]) + s[i].len <= z
    BY DEF Inside
  <2>1. CASE i = 1
    BY <1>2, <1>3, <2>1
  <2>2. CASE i \in 2 .. Len(s)
    <3> DEFINE q == r[i - 1]
    <3>1. s[i] = q /\ a + p.len <= Start(q) /\ q.len > 0 /\ Start(q) + q.len <= z
          /\ Start(q) \in Nat
      BY <1>2, <1>3, <2>2 DEF Inside
    <3> HIDE DEF q
    <3> QED
      BY <1>3, <3>1
  <2> QED
    BY <1>4, <2>1, <2>2
<1>6. InRow(s)
  <2> SUFFICES ASSUME NEW i \in 1 .. Len(s), NEW j \in 1 .. Len(s), i < j
               PROVE  Before(s[i], s[j])
    BY DEF InRow
  <2>1. j \in 2 .. Len(s) /\ s[j] = r[j - 1] /\ j - 1 \in 1 .. Len(r)
    BY <1>2
  <2>2. CASE i = 1
    BY <1>2, <2>1, <2>2 DEF Inside, Before
  <2>3. CASE i \in 2 .. Len(s)
    <3>1. s[i] = r[i - 1] /\ i - 1 \in 1 .. Len(r) /\ i - 1 < j - 1
      BY <1>2, <2>3
    <3> QED
      BY <2>1, <3>1 DEF InRow
  <2> QED
    BY <1>4, <2>2, <2>3
<1> QED
  BY <1>5, <1>6 DEF s

\* The loop of output cuts the bytes from done on into fragments that do not overlap.
LEMMA RestInRow ==
    ASSUME NEW len \in Nat, NEW g, Rests(g, len)
    PROVE  \A done \in 0 .. len : done = len \/ done % Unit = 0
               => Inside(g[done], done, len) /\ InRow(g[done])
<1> DEFINE Good(done) == Inside(g[done], done, len) /\ InRow(g[done])
           Begins(done) == done = len \/ done % Unit = 0
           T == {n \in Nat : \A done \in 0 .. len : len - done <= n /\ Begins(done) => Good(done)}
<1>1. \A done \in 0 .. len : g[done] = RestFrom(g, len, done)
  BY DEF Rests
<1>2. len \in 0 .. len /\ Good(len)
  <2>1. len \in 0 .. len
    OBVIOUS
  <2>2. g[len] = <<>>
    BY <1>1, <2>1 DEF RestFrom
  <2> QED
    BY <2>1, <2>2 DEF Inside, InRow
<1>3. 0 \in T
  <2>1. \A done \in 0 .. len : len - done <= 0 => done = len
    OBVIOUS
  <2> HIDE DEF Good, Begins
  <2> QED
    BY <1>2, <2>1
<1>4. ASSUME NEW n \in Nat, n \in T PROVE n + 1 \in T
  <2>1. ASSUME NEW done \in 0 .. len, len - done <= n + 1, Begins(done) PROVE Good(done)
    <3>1. CASE done = len
      BY <1>2, <3>1
    <3>2. CASE done # len
      <4> DEFINE c == Cut(len, done)
                 p == [off |-> done \div Unit, len |-> c]
                 r == g[done + c]
      <4>1. c \in Nat /\ c > 0 /\ done + c \in 0 .. len /\ done % Unit = 0
        BY <2>1, <3>2, CutIs
      <4>2. Begins(done + c)
        <5>1. CASE c = fragn_max_payload
          <6>1. MacMax - FragnHdr \in Int
            BY SicslowpanAssumption
          <6>2. c % Unit = 0
            BY <5>1, <6>1, Aligned DEF fragn_max_payload
          <6> HIDE DEF c
          <6> QED
            BY <4>1, <6>2, Multiples
        <5>2. CASE c = len - done
          BY <4>1, <5>2
        <5> QED
          BY <5>1, <5>2 DEF Cut
      <4> HIDE DEF c
      <4>3. len - (done + c) <= n
        BY <2>1, <4>1
      <4>4. Good(done + c)
        <5> HIDE DEF Good, Begins
        <5> QED
          BY <1>4, <4>1, <4>2, <4>3
      <4>5. p \in Piece /\ Start(p) = done /\ p.len = c
        <5>1. done \in Nat /\ Unit \in Nat /\ Unit > 0
          BY SicslowpanAssumption
        <5>2. done \div Unit \in Nat
          BY <5>1, QuotientStep
        <5>3. Unit * (done \div Unit) = done
          BY <4>1, <5>1, Exact
        <5> QED
          BY <4>1, <5>2, <5>3 DEF Piece, Start
      <4>6. g[done] = <<p>> \o r
        BY <1>1, <3>2 DEF RestFrom, c
      <4>7. r \in Seq(Piece)
        BY <4>1, RestIs
      <4>8. done \in Nat /\ done + c <= len
        BY <4>1
      <4> HIDE DEF p
      <4>9. Inside(r, done + p.len, len) /\ InRow(r)
        BY <4>4, <4>5
      <4> HIDE DEF r
      <4>10. Inside(<<p>> \o r, done, len) /\ InRow(<<p>> \o r)
        BY <4>1, <4>5, <4>7, <4>8, <4>9, InFront
      <4> QED
        BY <4>6, <4>10
    <3> QED
      BY <3>1, <3>2
  <2> HIDE DEF Good, Begins
  <2> QED
    BY <2>1
<1>5. len \in T
  <2> HIDE DEF T
  <2> QED
    BY <1>3, <1>4, Induction
<1> HIDE DEF Good
<1>6. \A done \in 0 .. len : Begins(done) => Good(done)
  <2>1. \A done \in 0 .. len : len - done <= len
    OBVIOUS
  <2> HIDE DEF Begins
  <2> QED
    BY <1>5, <2>1
<1> QED
  BY <1>6 DEF Good

\* The places of the fragments of a packet.
Parts(len) == {Pieces(len)[i] : i \in 1 .. Len(Pieces(len))}

\* The fragments of a packet are parts of it that do not overlap.
LEMMA PartsApart ==
    ASSUME NEW len \in UipLen, frag_needed(len), frag1_payload >= 0
    PROVE  /\ Parts(len) \subseteq Piece
           /\ \A p \in Parts(len) : Start(p) + p.len <= len
           /\ \A p, q \in Parts(len) : p = q \/ Before(p, q) \/ Before(q, p)
<1> DEFINE first == UncompLen + frag1_payload
           g == CHOOSE f : Rests(f, len)
           p1 == [off |-> 0, len |-> first]
           s == Pieces(len)
<1>1. /\ len \in Nat /\ UncompLen \in Nat /\ HdrLen \in Nat /\ Frag1Hdr \in Nat /\ MacMax \in Nat
      /\ len - UncompLen + HdrLen > MacMax /\ UncompLen % Unit = 0 /\ Unit \in Nat
  BY SicslowpanAssumption DEF frag_needed
<1>2. frag1_payload \in Int /\ frag1_payload <= MacMax - HdrLen - Frag1Hdr /\ frag1_payload % Unit = 0
  BY <1>1, AlignIs, Aligned DEF frag1_payload
<1>3. first \in 0 .. len /\ first \in Nat /\ first <= len
  BY <1>1, <1>2
<1>4. first % Unit = 0
  <2>1. UncompLen \in Int /\ UncompLen % Unit = 0 /\ frag1_payload \in Int /\ frag1_payload % Unit = 0
    BY <1>1, <1>2
  <2> QED
    BY <2>1, Multiples, Zenon
<1>5. Rests(g, len)
  BY <1>1, RestExists
<1>6. s = <<p1>> \o g[first]
  BY PiecesIs
<1> HIDE DEF g, first
<1>7. Inside(g[first], first, len) /\ InRow(g[first]) /\ g[first] \in Seq(Piece)
  BY <1>1, <1>3, <1>4, <1>5, RestInRow, RestIs
<1>8. s \in Seq(Piece)
  BY CountIsRight
<1> DEFINE r == g[first]
<1>9. p1 \in Piece /\ Start(p1) = 0 /\ p1.len = first
  <2>1. Unit * 0 = 0
    BY <1>1
  <2> QED
    BY <1>3, <2>1 DEF Piece, Start
<1> HIDE DEF r, p1, s
<1>10. Len(r) \in Nat /\ Len(<<p1>>) = 1 /\ <<p1>> \in Seq(Piece) /\ <<p1>>[1] = p1 /\ r \in Seq(Piece)
  BY <1>7, <1>9, LenProperties DEF r
<1>11. /\ Len(s) = Len(r) + 1 /\ s[1] = p1
       /\ \A i \in 2 .. Len(s) : s[i] = r[i - 1] /\ i - 1 \in 1 .. Len(r)
  BY <1>6, <1>10, ConcatProperties DEF r
<1>12. \A i \in 1 .. Len(s) : s[i] \in Piece /\ Start(s[i]) \in Nat /\ s[i].len \in Nat
  BY <1>8, StartIs, ElementOfSeq
<1>13. \A i \in 1 .. Len(s) : i = 1 \/ i \in 2 .. Len(s)
  BY <1>10, <1>11
<1>14. ASSUME NEW i \in 1 .. Len(s) PROVE Start(s[i]) + s[i].len <= len
  <2>1. CASE i = 1
    BY <1>3, <1>9, <1>11, <2>1
  <2>2. CASE i \in 2 .. Len(s)
    BY <1>7, <1>11, <2>2 DEF Inside, r
  <2> QED
    BY <1>13, <2>1, <2>2
<1>15. ASSUME NEW i \in 1 .. Len(s), NEW j \in 1 .. Len(s), i < j PROVE Before(s[i], s[j])
  <2>1. j \in 2 .. Len(s) /\ s[j] = r[j - 1] /\ j - 1 \in 1 .. Len(r)
    BY <1>11, <1>15
  <2>2. CASE i = 1
    <3>1. first <= Start(s[j])
      BY <1>7, <2>1 DEF Inside, r
    <3> QED
      BY <1>3, <1>9, <1>11, <2>2, <3>1 DEF Before
  <2>3. CASE i \in 2 .. Len(s)
    <3>1. s[i] = r[i - 1] /\ i - 1 \in 1 .. Len(r) /\ i - 1 < j - 1
      BY <1>11, <1>15, <2>3
    <3> QED
      BY <1>7, <2>1, <3>1 DEF InRow, r
  <2> QED
    BY <1>13, <2>2, <2>3
<1>16. Parts(len) = {s[i] : i \in 1 .. Len(s)}
  BY DEF Parts, s
<1>17. ASSUME NEW p \in Parts(len), NEW q \in Parts(len)
       PROVE  p = q \/ Before(p, q) \/ Before(q, p)
  <2>1. PICK i \in 1 .. Len(s) : p = s[i]
    BY <1>16
  <2>2. PICK j \in 1 .. Len(s) : q = s[j]
    BY <1>16
  <2>3. i < j \/ i = j \/ j < i
    OBVIOUS
  <2> QED
    BY <1>15, <2>1, <2>2, <2>3
<1> QED
  BY <1>12, <1>14, <1>16, <1>17

-----------------------------------------------------------------------------
(* The senders. *)

Pkt == Sender \X Nat
FrameType == [pkt : Pkt, tag : Nat, size : Nat, off : Nat, len : Nat]

\* The MAC's queues hold frames, and output has not run out of queue buffers.
SendInv ==
    /\ my_tag \in [Sender -> Nat]
    /\ packets \in [Sender -> Nat]
    /\ queue \in [Sender -> Seq(FrameType)]
    /\ shortage = FALSE

\* output
LEMMA OutputSends ==
    ASSUME SendInv, NEW s \in Sender, output(s)
    PROVE  SendInv'
<1>1. my_tag[s] \in Nat /\ packets[s] \in Nat /\ queue[s] \in Seq(FrameType)
  BY DEF SendInv
<1>2. packets' \in [Sender -> Nat]
  BY <1>1 DEF SendInv, output
<1>3. PICK len \in UipLen :
        IF ~frag_needed(len) THEN SendWhole(s, len)
        ELSE EnoughFree(s, len) /\ frag1_payload >= 0 /\ SendFragments(s, len)
  BY DEF output
<1>4. len \in Nat
  BY SicslowpanAssumption
<1>5. ASSUME NEW size \in Nat, NEW p \in Piece PROVE Frame(s, size, p) \in FrameType
  BY <1>1 DEF Frame, FrameType, Piece, Pkt
<1>6. ASSUME NEW frames \in Seq(FrameType), NEW n \in 0 .. Len(frames), Enqueue(s, frames, n)
      PROVE  queue' \in [Sender -> Seq(FrameType)]
  <2>1. SubSeq(frames, 1, n) \in Seq(FrameType)
    BY SubSeqProperties
  <2>2. queue[s] \o SubSeq(frames, 1, n) \in Seq(FrameType)
    BY <1>1, <2>1, ConcatProperties
  <2>3. queue' = [queue EXCEPT ![s] = queue[s] \o SubSeq(frames, 1, n)]
    BY <1>6 DEF Enqueue
  <2> QED
    BY <2>2, <2>3 DEF SendInv
<1>7. CASE ~frag_needed(len)
  <2> DEFINE p == [off |-> 0, len |-> len]
             frames == <<Frame(s, 0, p)>>
  <2>1. Enqueue(s, frames, 1) /\ UNCHANGED <<my_tag, shortage>>
    BY <1>3, <1>7 DEF SendWhole
  <2>2. Frame(s, 0, p) \in FrameType
    BY <1>4, <1>5 DEF Piece
  <2>3. frames \in Seq(FrameType) /\ 1 \in 0 .. Len(frames)
    <3> DEFINE f == Frame(s, 0, p)
    <3> HIDE DEF f
    <3>1. f \in FrameType => <<f>> \in Seq(FrameType) /\ 1 \in 0 .. Len(<<f>>)
      OBVIOUS
    <3> QED
      BY <2>2, <3>1 DEF f
  <2> HIDE DEF frames
  <2>4. queue' \in [Sender -> Seq(FrameType)]
    BY <1>6, <2>1, <2>3
  <2> QED
    BY <1>2, <2>1, <2>4 DEF SendInv
<1>8. CASE frag_needed(len)
  <2> DEFINE pieces == Pieces(len)
             frames == [i \in DOMAIN pieces |-> Frame(s, len, pieces[i])]
  <2>1. EnoughFree(s, len) /\ frag1_payload >= 0 /\ SendFragments(s, len)
    BY <1>3, <1>8
  <2>2. pieces \in Seq(Piece) /\ Len(pieces) = fragment_count(len) /\ Len(pieces) \in Nat
    BY <1>8, <2>1, CountIsRight, LenProperties
  <2>3. /\ shortage' = (shortage \/ ~Affordable(s, Len(frames)))
        /\ my_tag' = [my_tag EXCEPT ![s] = (@ + 1) % TagSpace]
        /\ \E n \in {k \in 0 .. Len(frames) : Affordable(s, k)} : Enqueue(s, frames, n)
    BY <2>1 DEF SendFragments
  <2> HIDE DEF pieces
  <2>4. frames \in Seq(FrameType) /\ Len(frames) = Len(pieces)
    <3>1. DOMAIN pieces = 1 .. Len(pieces) /\ \A i \in DOMAIN pieces : pieces[i] \in Piece
      BY <2>2, LenProperties, ElementOfSeq
    <3>2. \A i \in 1 .. Len(pieces) : Frame(s, len, pieces[i]) \in FrameType
      BY <1>4, <1>5, <3>1
    <3>3. frames \in [1 .. Len(pieces) -> FrameType]
      BY <3>1, <3>2
    <3> HIDE DEF frames
    <3>4. frames \in Seq(FrameType)
      BY <2>2, <3>3
    <3>5. DOMAIN frames = 1 .. Len(frames) /\ Len(frames) \in Nat
      BY <3>4, LenProperties
    <3> QED
      BY <2>2, <3>3, <3>4, <3>5
  <2> HIDE DEF frames
  <2>5. queue' \in [Sender -> Seq(FrameType)]
    BY <1>6, <2>3, <2>4
  <2>6. Affordable(s, Len(frames))
    <3>1. Len(queue[s]) \in Nat /\ QueueBufs \in Nat
      BY <1>1, LenProperties, SicslowpanAssumption
    <3>2. Free(s) \in Int /\ Free(s) - 1 >= Len(frames) /\ Len(frames) \in Nat
      BY <2>1, <2>2, <2>4, <3>1 DEF EnoughFree, Free
    <3> QED
      BY <3>2 DEF Affordable
  <2>7. shortage' = FALSE
    BY <2>3, <2>6 DEF SendInv
  <2>8. my_tag' \in [Sender -> Nat]
    <3>1. TagSpace \in Nat /\ TagSpace > 0
      BY SicslowpanAssumption
    <3>2. (my_tag[s] + 1) % TagSpace \in Nat
      BY <1>1, <3>1
    <3> QED
      BY <2>3, <3>2 DEF SendInv
  <2> QED
    BY <1>2, <2>5, <2>7, <2>8 DEF SendInv
<1> QED
  BY <1>7, <1>8

\* The MAC takes frames from the queues, and a restart empties one.
LEMMA SendInvNext ==
    ASSUME SendInv, [Next]_vars
    PROVE  SendInv'
<1>1. CASE UNCHANGED sendVars
  BY <1>1 DEF SendInv, sendVars
<1>2. ASSUME NEW s \in Sender, queue[s] # <<>>, queue' = [queue EXCEPT ![s] = Tail(@)],
             UNCHANGED <<my_tag, packets, shortage>>
      PROVE  SendInv'
  <2>1. queue[s] \in Seq(FrameType)
    BY DEF SendInv
  <2>2. Tail(queue[s]) \in Seq(FrameType)
    BY <1>2, <2>1, HeadTailProperties
  <2>3. queue' \in [Sender -> Seq(FrameType)]
    BY <1>2, <2>2 DEF SendInv
  <2> QED
    BY <1>2, <2>3 DEF SendInv
<1>3. ASSUME NEW s \in Sender, Restart(s) PROVE SendInv'
  <2>1. queue' \in [Sender -> Seq(FrameType)]
    BY <1>3 DEF SendInv, Restart
  <2> QED
    BY <1>3, <2>1 DEF SendInv, Restart
<1>4. ASSUME NEW s \in Sender, output(s) PROVE SendInv'
  BY <1>4, OutputSends
<1>5. ASSUME NEW s \in Sender, Transmit(s) \/ Lose(s) PROVE SendInv'
  BY <1>2, <1>5 DEF Transmit, Lose
<1>6. ASSUME NEW s \in Sender, Duplicate(s) PROVE SendInv'
  BY <1>1, <1>6 DEF Duplicate
<1>7. ASSUME NEW i \in Context, Expire(i) PROVE SendInv'
  BY <1>1, <1>7 DEF Expire
<1>8. CASE UNCHANGED vars
  BY <1>1, <1>8 DEF vars
<1> QED
  BY <1>3, <1>4, <1>5, <1>6, <1>7, <1>8 DEF Next

\* SendInv is an invariant.
LEMMA SendInvariant == Spec => []SendInv
<1>1. Init => SendInv
  BY DEF Init, SendInv
<1> QED
  BY <1>1, SendInvNext, PTL DEF Spec

\* For packets and frames of any lengths and any number of queue buffers, the number of
\* fragments that output computes with a division is the number that its loop makes, so
\* that it does not run out of queue buffers in the middle of a packet.
THEOREM FragmentationQueuebufsSuffice == Spec => []QueuebufsSuffice
<1>1. SendInv => QueuebufsSuffice
  BY DEF SendInv, QueuebufsSuffice
<1> QED
  BY <1>1, SendInvariant, PTL

-----------------------------------------------------------------------------
(* The receiver. *)

FirstPart == [pkt : Pkt, off : {0}, len : Nat]
ContextType == [len : Nat, tag : Nat, sender : Sender \cup {NULL}, reassembled_len : Nat,
                expired : BOOLEAN, first : FirstPart \cup {NULL}]
BufferType == [index : Nat, off : Nat, len : Nat, pkt : Pkt \cup {NULL}]
RxType == [info : [Context -> ContextType], buf : [Buffer -> BufferType]]

\* A buffer in use belongs to a context in use.
Owned(r) ==
    \A b \in Buffer : r.buf[b].len > 0 =>
        r.buf[b].index \in Context /\ r.info[r.buf[b].index].len > 0

\* A context in use has counted its first fragment and its buffers.
Counted(r) ==
    \A i \in Context : r.info[i].len > 0 =>
        /\ r.info[i].first \in FirstPart
        /\ r.info[i].reassembled_len = r.info[i].first.len + Sum(r.buf, BuffersOf(r, i))

RxOK(r) == r \in RxType /\ Owned(r) /\ Counted(r)

\* Sums over the buffers of a context.
LEMMA BuffersFinite ==
    ASSUME NEW r \in RxType, NEW i
    PROVE  /\ IsFiniteSet(BuffersOf(r, i)) /\ BuffersOf(r, i) \subseteq Buffer
           /\ Lengths(r.buf, Buffer) /\ Lengths(r.buf, BuffersOf(r, i))
<1>1. IsFiniteSet(Buffer)
  <2>1. Buffers \in Nat
    BY SicslowpanAssumption
  <2> QED
    BY <2>1, FS_Interval DEF Buffer
<1>2. BuffersOf(r, i) \subseteq Buffer
  BY DEF BuffersOf
<1>3. \A b \in Buffer : r.buf[b].len \in Nat
  BY DEF RxType, BufferType
<1> QED
  BY <1>1, <1>2, <1>3, FS_Subset DEF Lengths

\* clear_fragments
LEMMA ClearKeeps ==
    ASSUME NEW r, RxOK(r), NEW S, S \subseteq Context
    PROVE  /\ RxOK(clear_fragments(r, S))
           /\ \A i \in Context \ S : clear_fragments(r, S).info[i] = r.info[i]
<1> DEFINE c == clear_fragments(r, S)
<1>1. /\ c.info = [i \in Context |-> IF i \in S THEN FreeContext ELSE r.info[i]]
      /\ c.buf = [b \in Buffer |-> IF r.buf[b].index \in S THEN FreeBuffer ELSE r.buf[b]]
      /\ c = [info |-> c.info, buf |-> c.buf]
  BY DEF clear_fragments
<1> HIDE DEF c
<1>2. r \in RxType /\ (\A i \in Context : r.info[i] \in ContextType)
                   /\ (\A b \in Buffer : r.buf[b] \in BufferType)
  BY DEF RxOK, RxType
<1>3. FreeContext \in ContextType /\ FreeContext.len = 0
  BY DEF FreeContext, ContextType
<1>4. FreeBuffer \in BufferType /\ FreeBuffer.len = 0 /\ FreeBuffer.index = 0
  BY DEF FreeBuffer, BufferType
<1>5. c.info \in [Context -> ContextType] /\ c.buf \in [Buffer -> BufferType]
  BY <1>1, <1>2, <1>3, <1>4
<1>6. c \in RxType
  BY <1>1, <1>5 DEF RxType
<1>7. \A i \in Context : /\ i \in S => c.info[i].len = 0
                         /\ i \notin S => c.info[i] = r.info[i]
  BY <1>1, <1>3
<1>8. \A b \in Buffer : /\ r.buf[b].index \in S => c.buf[b].len = 0
                        /\ r.buf[b].index \notin S => c.buf[b] = r.buf[b]
  BY <1>1, <1>4
<1>9. Owned(c)
  <2> SUFFICES ASSUME NEW b \in Buffer, c.buf[b].len > 0
               PROVE  c.buf[b].index \in Context /\ c.info[c.buf[b].index].len > 0
    BY DEF Owned
  <2>1. r.buf[b].index \notin S /\ c.buf[b] = r.buf[b]
    BY <1>8
  <2> QED
    BY <1>7, <2>1 DEF RxOK, Owned
<1>10. Counted(c)
  <2> SUFFICES ASSUME NEW i \in Context, c.info[i].len > 0
               PROVE  /\ c.info[i].first \in FirstPart
                      /\ c.info[i].reassembled_len =
                            c.info[i].first.len + Sum(c.buf, BuffersOf(c, i))
    BY DEF Counted
  <2>1. i \notin S /\ c.info[i] = r.info[i]
    BY <1>7
  <2>2. BuffersOf(c, i) = BuffersOf(r, i)
    <3>1. ASSUME NEW b \in Buffer
          PROVE  (c.buf[b].len > 0 /\ c.buf[b].index = i)
                    <=> (r.buf[b].len > 0 /\ r.buf[b].index = i)
      <4>1. CASE r.buf[b].index \in S
        BY <1>8, <2>1, <4>1
      <4>2. CASE r.buf[b].index \notin S
        BY <1>8, <4>2
      <4> QED
        BY <4>1, <4>2
    <3> QED
      BY <3>1 DEF BuffersOf
  <2>3. \A b \in BuffersOf(r, i) : c.buf[b].len = r.buf[b].len
    BY <1>8, <2>1 DEF BuffersOf
  <2>4. Sum(c.buf, BuffersOf(r, i)) = Sum(r.buf, BuffersOf(r, i))
    BY <1>2, <2>3, BuffersFinite, SumSame
  <2> QED
    BY <2>1, <2>2, <2>4 DEF RxOK, Counted
<1> QED
  BY <1>6, <1>7, <1>9, <1>10 DEF RxOK, c

\* Contexts and buffers that a search may find.
LEMMA SearchIs ==
    /\ \A S \in SUBSET Context : (S = {} /\ Lowest(S) = 0) \/ Lowest(S) \in S
    /\ \A S \in SUBSET Buffer : (S = {} /\ Lowest(S) = 0) \/ Lowest(S) \in S
    /\ 0 \notin Context /\ 0 \notin Buffer
<1>1. Context \subseteq Nat /\ Buffer \subseteq Nat
  BY SicslowpanAssumption DEF Context, Buffer
<1>2. 0 \notin Context /\ 0 \notin Buffer
  BY SicslowpanAssumption DEF Context, Buffer
<1> QED
  BY <1>1, <1>2, LowestIs

\* The first fragment of a packet.
LEMMA FirstKeeps ==
    ASSUME NEW r, RxOK(r), NEW f \in FrameType
    PROVE  RxOK(FirstFragment(r, f))
<1> DEFINE c == clear_fragments(r, TimedOut(r))
           i == Lowest(Unused(c))
           new == [len |-> f.size, tag |-> f.tag, sender |-> f.pkt[1],
                   reassembled_len |-> f.len, expired |-> FALSE,
                   first |-> [pkt |-> f.pkt, off |-> 0, len |-> f.len]]
           d == [c EXCEPT !.info[i] = new]
<1>1. RxOK(c)
  BY ClearKeeps DEF TimedOut
<1>2. FirstFragment(r, f) = IF i = 0 THEN c ELSE d
  BY DEF FirstFragment
<1>3. i = 0 \/ i \in Unused(c)
  BY SearchIs DEF Unused
<1> HIDE DEF c, i
<1>4. CASE i = 0
  BY <1>1, <1>2, <1>4
<1>5. CASE i # 0
  <2>1. i \in Context /\ c.info[i].len = 0
    BY <1>3, <1>5 DEF Unused
  <2>2. /\ new \in ContextType /\ new.first \in FirstPart
        /\ new.reassembled_len = f.len /\ new.first.len = f.len /\ f.len \in Nat
    BY DEF FrameType, ContextType, FirstPart, Pkt
  <2> HIDE DEF new
  <2>3. d \in RxType /\ d.info = [c.info EXCEPT ![i] = new] /\ d.buf = c.buf
    BY <1>1, <2>1, <2>2 DEF RxOK, RxType
  <2> HIDE DEF d
  <2>4. d.info[i] = new /\ \A j \in Context : j # i => d.info[j] = c.info[j]
    BY <1>1, <2>1, <2>3 DEF RxOK, RxType
  <2>5. \A b \in Buffer : c.buf[b].len > 0 => c.buf[b].index # i
    <3>1. ~(c.info[i].len > 0)
      BY <2>1
    <3> QED
      BY <1>1, <3>1 DEF RxOK, Owned
  <2>6. Owned(d)
    BY <1>1, <2>3, <2>4, <2>5 DEF RxOK, Owned
  <2>7. \A j : BuffersOf(d, j) = BuffersOf(c, j)
    BY <2>3 DEF BuffersOf
  <2>8. Counted(d)
    <3> SUFFICES ASSUME NEW j \in Context, d.info[j].len > 0
                 PROVE  /\ d.info[j].first \in FirstPart
                        /\ d.info[j].reassembled_len =
                              d.info[j].first.len + Sum(d.buf, BuffersOf(d, j))
      BY DEF Counted
    <3>1. CASE j = i
      <4>1. BuffersOf(d, i) = {}
        BY <2>5, <2>7 DEF BuffersOf
      <4>2. Sum(d.buf, {}) = 0
        BY <2>3, BuffersFinite, SumStep
      <4> QED
        BY <2>2, <2>4, <3>1, <4>1, <4>2
    <3>2. CASE j # i
      BY <1>1, <2>3, <2>4, <2>7, <3>2 DEF RxOK, Counted
    <3> QED
      BY <3>1, <3>2
  <2> QED
    BY <1>2, <1>5, <2>3, <2>6, <2>8 DEF RxOK
<1> QED
  BY <1>4, <1>5

\* d is r with fragment f of context i in buffer b.
Stored(d, r, i, f, b) ==
    /\ d \in RxType
    /\ d.buf[b] = [index |-> i, off |-> f.off, len |-> f.len, pkt |-> f.pkt]
    /\ \A a \in Buffer : a # b => d.buf[a] = r.buf[a]
    /\ \A j \in Context : j # i => d.info[j] = r.info[j]
    /\ d.info[i].reassembled_len = r.info[i].reassembled_len + f.len
    /\ d.info[i].first = r.info[i].first /\ d.info[i].len = r.info[i].len
    /\ d.info[i].tag = r.info[i].tag /\ d.info[i].sender = r.info[i].sender

\* store_fragment stores the fragment if it finds a buffer.
LEMMA StoreIs ==
    ASSUME NEW r \in RxType, NEW i \in Context, NEW f \in FrameType
    PROVE  \/ FreeBuffers(r) = {} /\ store_fragment(r, i, f) = r
           \/ \E b \in FreeBuffers(r) : Stored(store_fragment(r, i, f), r, i, f, b)
<1> DEFINE b == Lowest(FreeBuffers(r))
           new == [index |-> i, off |-> f.off, len |-> f.len, pkt |-> f.pkt]
           count == r.info[i].reassembled_len + f.len
           d == [r EXCEPT !.buf[b] = new, !.info[i].reassembled_len = @ + f.len]
<1>1. store_fragment(r, i, f) = IF b = 0 THEN r ELSE d
  BY DEF store_fragment
<1>2. (FreeBuffers(r) = {} /\ b = 0) \/ (b \in FreeBuffers(r) /\ b # 0)
  BY SearchIs DEF FreeBuffers
<1> HIDE DEF b
<1>3. CASE FreeBuffers(r) = {} /\ b = 0
  BY <1>1, <1>3
<1>4. CASE b \in FreeBuffers(r) /\ b # 0
  <2>1. b \in Buffer
    BY <1>4 DEF FreeBuffers
  <2>2. f.len \in Nat /\ f.off \in Nat /\ f.pkt \in Pkt /\ i \in Nat
    BY SicslowpanAssumption DEF FrameType, Context
  <2>3. new \in BufferType
    BY <2>2 DEF BufferType
  <2>4. r.info[i] \in ContextType /\ r.info[i].reassembled_len \in Nat
    BY DEF RxType, ContextType
  <2>5. count \in Nat
    BY <2>2, <2>4
  <2> DEFINE info == [r.info[i] EXCEPT !.reassembled_len = count]
  <2>6. info \in ContextType
    <3> HIDE DEF count
    <3> QED
      BY <2>4, <2>5, Zenon DEF ContextType
  <2>7. /\ info.reassembled_len = count /\ info.first = r.info[i].first /\ info.len = r.info[i].len
        /\ info.tag = r.info[i].tag /\ info.sender = r.info[i].sender
    <3> HIDE DEF count
    <3> QED
      BY <2>4 DEF ContextType
  <2>8. /\ d.info = [r.info EXCEPT ![i] = info] /\ d.buf = [r.buf EXCEPT ![b] = new]
        /\ d = [info |-> d.info, buf |-> d.buf]
    <3> DEFINE e == [r EXCEPT !.buf[b] = new]
    <3> HIDE DEF new
    <3>1. e.info = r.info /\ e.buf = [r.buf EXCEPT ![b] = new] /\ e = [info |-> e.info, buf |-> e.buf]
      BY DEF RxType
    <3>2. d = [e EXCEPT !.info[i].reassembled_len = @ + f.len]
      OBVIOUS
    <3>3. d = [e EXCEPT !.info = [e.info EXCEPT ![i] =
                                    [e.info[i] EXCEPT !.reassembled_len = @ + f.len]]]
      BY <3>2
    <3>4. d = [e EXCEPT !.info = [e.info EXCEPT ![i] = info]]
      BY <3>1, <3>3
    <3> HIDE DEF e, d, info
    <3>5. d.info = [e.info EXCEPT ![i] = info] /\ d.buf = e.buf
          /\ d = [info |-> d.info, buf |-> d.buf]
      BY <3>1, <3>4
    <3> QED
      BY <3>1, <3>5
  <2> HIDE DEF d, new, info
  <2>9. d \in RxType
    BY <2>1, <2>3, <2>6, <2>8 DEF RxType
  <2>10. d.info[i] = info /\ \A j \in Context : j # i => d.info[j] = r.info[j]
    BY <2>8 DEF RxType
  <2>11. d.buf[b] = new /\ \A a \in Buffer : a # b => d.buf[a] = r.buf[a]
    BY <2>1, <2>8 DEF RxType
  <2> QED
    BY <1>1, <1>4, <2>7, <2>9, <2>10, <2>11 DEF Stored, new
<1> QED
  BY <1>2, <1>3, <1>4

\* store_fragment
LEMMA StoreKeeps ==
    ASSUME NEW r, RxOK(r), NEW i \in Context, r.info[i].len > 0, NEW f \in FrameType
    PROVE  RxOK(store_fragment(r, i, f))
<1> DEFINE d == store_fragment(r, i, f)
<1>1. r \in RxType /\ r.info[i].reassembled_len \in Nat /\ f.len \in Nat
  BY DEF RxOK, RxType, ContextType, FrameType
<1>2. d = r \/ \E b \in FreeBuffers(r) : Stored(d, r, i, f, b)
  BY <1>1, StoreIs
<1> HIDE DEF d
<1>3. ASSUME NEW b \in FreeBuffers(r), Stored(d, r, i, f, b) PROVE RxOK(d)
  <2>1. b \in Buffer /\ r.buf[b].len = 0
    BY DEF FreeBuffers
  <2>2. d \in RxType /\ d.info[i].reassembled_len = r.info[i].reassembled_len + f.len
    BY <1>3 DEF Stored
  <2>3. d.buf[b].len = f.len /\ d.buf[b].index = i
    BY <1>3 DEF Stored
  <2>4. \A a \in Buffer : a # b => d.buf[a] = r.buf[a]
    BY <1>3 DEF Stored
  <2>5. /\ \A j \in Context : j # i => d.info[j] = r.info[j]
        /\ \A j \in Context : d.info[j].len = r.info[j].len /\ d.info[j].first = r.info[j].first
    BY <1>3 DEF Stored
  <2>6. Owned(d)
    <3> SUFFICES ASSUME NEW a \in Buffer, d.buf[a].len > 0
                 PROVE  d.buf[a].index \in Context /\ d.info[d.buf[a].index].len > 0
      BY DEF Owned
    <3>1. CASE a = b
      BY <2>3, <2>5, <3>1
    <3>2. CASE a # b
      BY <2>4, <2>5, <3>2 DEF RxOK, Owned
    <3> QED
      BY <3>1, <3>2
  <2>7. /\ ~(r.buf[b].len > 0)
        /\ \A j : b \notin BuffersOf(r, j)
    BY <2>1 DEF BuffersOf
  <2>8. ASSUME NEW j PROVE Sum(d.buf, BuffersOf(r, j)) = Sum(r.buf, BuffersOf(r, j))
    <3>1. \A a \in BuffersOf(r, j) : d.buf[a].len = r.buf[a].len
      BY <2>4, <2>7 DEF BuffersOf
    <3> QED
      BY <1>1, <3>1, BuffersFinite, SumSame
  <2>9. Counted(d)
    <3> SUFFICES ASSUME NEW j \in Context, d.info[j].len > 0
                 PROVE  /\ d.info[j].first \in FirstPart
                        /\ d.info[j].reassembled_len =
                              d.info[j].first.len + Sum(d.buf, BuffersOf(d, j))
      BY DEF Counted
    <3>1. /\ r.info[j].first \in FirstPart
          /\ r.info[j].reassembled_len = r.info[j].first.len + Sum(r.buf, BuffersOf(r, j))
      BY <2>5 DEF RxOK, Counted
    <3>2. CASE j # i
      <4>1. BuffersOf(d, j) = BuffersOf(r, j)
        BY <2>3, <2>4, <2>7, <3>2 DEF BuffersOf
      <4> QED
        BY <2>5, <2>8, <3>1, <3>2, <4>1
    <3>3. CASE j = i
      <4> DEFINE own == BuffersOf(r, i)
      <4>1. Sum(d.buf, BuffersOf(d, i)) = Sum(r.buf, own) + f.len
        <5>1. CASE f.len > 0
          <6>1. BuffersOf(d, i) = own \cup {b}
            BY <2>1, <2>3, <2>4, <5>1 DEF BuffersOf
          <6>2. Lengths(d.buf, own \cup {b}) /\ IsFiniteSet(own) /\ b \notin own
            BY <1>1, <2>2, <2>7, <6>1, BuffersFinite
          <6>3. Sum(d.buf, own \cup {b}) = Sum(d.buf, own) + d.buf[b].len
            <7> HIDE DEF own
            <7> QED
              BY <6>2, SumAdd
          <6> QED
            BY <2>3, <2>8, <6>1, <6>3
        <5>2. CASE ~(f.len > 0)
          <6>1. f.len = 0
            BY <1>1, <5>2
          <6>2. BuffersOf(d, i) = own
            BY <2>3, <2>4, <2>7, <5>2 DEF BuffersOf
          <6>3. Sum(r.buf, own) \in Nat
            BY <1>1, BuffersFinite, SumStep
          <6> HIDE DEF own
          <6> QED
            BY <2>8, <6>1, <6>2, <6>3 DEF own
        <5> QED
          BY <5>1, <5>2
      <4>2. r.info[i].first.len \in Nat /\ Sum(r.buf, own) \in Nat
        BY <1>1, <3>1, <3>3, BuffersFinite, SumStep DEF FirstPart
      <4>3. d.info[i].reassembled_len = r.info[i].first.len + (Sum(r.buf, own) + f.len)
        <5> HIDE DEF own
        <5>1. r.info[i].reassembled_len = r.info[i].first.len + Sum(r.buf, own)
          BY <3>1, <3>3 DEF own
        <5> QED
          BY <1>1, <2>2, <4>2, <5>1
      <4> HIDE DEF own
      <4> QED
        BY <2>5, <3>1, <3>3, <4>1, <4>3
    <3> QED
      BY <3>2, <3>3
  <2> QED
    BY <2>2, <2>6, <2>9 DEF RxOK
<1> QED
  BY <1>2, <1>3 DEF d

\* Another fragment, for a context in use.
LEMMA NextKeeps ==
    ASSUME NEW r, RxOK(r), NEW i \in Context, r.info[i].len > 0, NEW f \in FrameType
    PROVE  RxOK(NextFragment(r, i, f))
<1> DEFINE S == TimedOut(r) \ {i}
           c == IF FreeBuffers(r) = {} THEN clear_fragments(r, S) ELSE r
<1>1. S \subseteq Context /\ i \in Context \ S
  BY DEF TimedOut
<1>2. RxOK(c) /\ c.info[i].len > 0
  <2> HIDE DEF S
  <2> QED
    BY <1>1, ClearKeeps
<1>3. NextFragment(r, i, f) = store_fragment(c, i, f)
  BY DEF NextFragment
<1> HIDE DEF c
<1> QED
  BY <1>2, <1>3, StoreKeeps

\* input, whichever frame it gets.
LEMMA InputKeeps ==
    ASSUME RxOK(rx), NEW f \in FrameType, input(f)
    PROVE  RxOK(rx')
<1>1. f.size \in Nat /\ f.off \in Nat
  BY DEF FrameType
<1>2. CASE UNCHANGED rx
  BY <1>2
<1>3. CASE rx' = FirstFragment(rx, f)
  BY <1>3, FirstKeeps
<1>4. ASSUME Session(rx, f) # 0, Receive(NextFragment(rx, Session(rx, f), f), Session(rx, f), f)
      PROVE  RxOK(rx')
  <2> DEFINE i == Session(rx, f)
             r == NextFragment(rx, i, f)
  <2>1. i \in Context /\ rx.info[i].len > 0
    BY <1>4, SearchIs DEF Session
  <2> HIDE DEF i
  <2>2. RxOK(r)
    BY <2>1, NextKeeps
  <2>3. rx' = r \/ rx' = clear_fragments(r, {i})
    BY <1>4 DEF Receive, i
  <2> HIDE DEF r
  <2>4. RxOK(clear_fragments(r, {i}))
    BY <2>1, <2>2, ClearKeeps
  <2> QED
    BY <2>2, <2>3, <2>4
<1>5. CASE f.size = 0
  BY <1>2, <1>5 DEF input
<1>6. CASE f.size > 0 /\ f.off = 0
  BY <1>1, <1>3, <1>6 DEF input
<1>7. CASE f.size > 0 /\ f.off > 0 /\ Session(rx, f) = 0
  BY <1>1, <1>2, <1>7 DEF input
<1>8. CASE f.size > 0 /\ f.off > 0 /\ Session(rx, f) # 0
  BY <1>1, <1>4, <1>8 DEF input
<1> QED
  BY <1>1, <1>5, <1>6, <1>7, <1>8

\* The expiry of a reassembly timer is only noted.
LEMMA ExpireKeeps ==
    ASSUME RxOK(rx), NEW i \in Context, Expire(i)
    PROVE  RxOK(rx')
<1> DEFINE info == [rx.info[i] EXCEPT !.expired = TRUE]
<1>1. rx \in RxType /\ rx.info[i] \in ContextType
  BY DEF RxOK, RxType
<1>2. info \in ContextType
  BY <1>1, Zenon DEF ContextType
<1>3. /\ info.reassembled_len = rx.info[i].reassembled_len
      /\ info.first = rx.info[i].first /\ info.len = rx.info[i].len
  BY <1>1 DEF ContextType
<1>4. rx' = [rx EXCEPT !.info = [rx.info EXCEPT ![i] = info]]
  BY DEF Expire
<1> HIDE DEF info
<1>5. rx' \in RxType /\ rx'.info = [rx.info EXCEPT ![i] = info] /\ rx'.buf = rx.buf
  BY <1>1, <1>2, <1>4 DEF RxType
<1>6. \A j \in Context : /\ rx'.info[j].len = rx.info[j].len
                         /\ rx'.info[j].first = rx.info[j].first
                         /\ rx'.info[j].reassembled_len = rx.info[j].reassembled_len
  BY <1>1, <1>3, <1>5 DEF RxType
<1>7. Owned(rx')
  BY <1>5, <1>6 DEF RxOK, Owned
<1>8. \A j : BuffersOf(rx', j) = BuffersOf(rx, j)
  BY <1>5 DEF BuffersOf
<1>9. Counted(rx')
  BY <1>5, <1>6, <1>8 DEF RxOK, Counted
<1> QED
  BY <1>5, <1>7, <1>9 DEF RxOK

\* At the start all contexts and buffers are free.
LEMMA RxInit ==
    ASSUME Init
    PROVE  RxOK(rx)
<1>1. FreeContext \in ContextType /\ FreeContext.len = 0
  BY DEF FreeContext, ContextType
<1>2. FreeBuffer \in BufferType /\ FreeBuffer.len = 0
  BY DEF FreeBuffer, BufferType
<1>3. rx = [info |-> [i \in Context |-> FreeContext], buf |-> [b \in Buffer |-> FreeBuffer]]
  BY DEF Init
<1>4. rx \in RxType
  BY <1>1, <1>2, <1>3 DEF RxType
<1>5. /\ \A i \in Context : ~(rx.info[i].len > 0)
      /\ \A b \in Buffer : ~(rx.buf[b].len > 0)
  BY <1>1, <1>2, <1>3
<1> QED
  BY <1>4, <1>5 DEF RxOK, Owned, Counted

\* Every step keeps the receiver's contexts and buffers in order.
LEMMA RxNext ==
    ASSUME SendInv, RxOK(rx), [Next]_vars
    PROVE  RxOK(rx')
<1>1. CASE UNCHANGED rx
  BY <1>1
<1>2. ASSUME NEW s \in Sender, queue[s] # <<>>, input(Head(queue[s])) PROVE RxOK(rx')
  <2>1. queue[s] \in Seq(FrameType)
    BY DEF SendInv
  <2>2. Head(queue[s]) \in FrameType
    BY <1>2, <2>1, HeadTailProperties
  <2> QED
    BY <1>2, <2>2, InputKeeps
<1>3. ASSUME NEW i \in Context, Expire(i) PROVE RxOK(rx')
  BY <1>3, ExpireKeeps
<1>4. ASSUME NEW s \in Sender, Transmit(s) \/ Duplicate(s) PROVE RxOK(rx')
  BY <1>2, <1>4 DEF Transmit, Duplicate
<1>5. ASSUME NEW s \in Sender, output(s) \/ Lose(s) \/ Restart(s) PROVE RxOK(rx')
  BY <1>1, <1>5 DEF output, Lose, Restart
<1>6. CASE UNCHANGED vars
  BY <1>1, <1>6 DEF vars
<1> QED
  BY <1>3, <1>4, <1>5, <1>6 DEF Next

RxInv == RxOK(rx)

\* RxInv is an invariant.
LEMMA RxInvariant == Spec => []RxInv
<1>1. Init => RxInv
  BY RxInit DEF RxInv
<1>2. SendInv /\ RxInv /\ [Next]_vars => RxInv'
  BY RxNext DEF RxInv
<1> QED
  BY <1>1, <1>2, SendInvariant, PTL DEF Spec

\* For any number of contexts, buffers and senders, and frames of any lengths, no fragment
\* buffer leaks and no context's count is wrong, whatever is lost, repeated or timed out
\* and however the fragments of the packets interleave.
THEOREM ReassemblyCountsMatchBuffers == Spec => []CountsMatchBuffers
<1>1. RxInv => CountsMatchBuffers
  <2> SUFFICES ASSUME RxOK(rx) PROVE CountsMatchBuffers
    BY DEF RxInv
  <2>1. \A b \in Buffer : rx.buf[b].len > 0 => rx.info[rx.buf[b].index].len > 0
    BY DEF RxOK, Owned
  <2>2. ASSUME NEW i \in Context \ Unused(rx)
        PROVE  rx.info[i].reassembled_len =
                 rx.info[i].first.len + MapThenSumSet(LAMBDA b : rx.buf[b].len, BuffersOf(rx, i))
    <3>1. rx.info[i].len \in Nat /\ rx.info[i].len # 0 /\ i \in Context
      BY DEF RxOK, RxType, ContextType, Unused
    <3>2. rx.info[i].len > 0
      BY <3>1
    <3>3. rx.info[i].reassembled_len = rx.info[i].first.len + Sum(rx.buf, BuffersOf(rx, i))
      BY <3>1, <3>2 DEF RxOK, Counted
    <3> QED
      BY <3>3 DEF Sum
  <2> QED
    BY <2>1, <2>2 DEF CountsMatchBuffers
<1> QED
  BY <1>1, RxInvariant, PTL

-----------------------------------------------------------------------------
(* The bytes of fragments that do not overlap. *)

Placed(p) == p.off \in Nat /\ p.len \in Nat
Apart(p, q) == Before(p, q) \/ Before(q, p)

\* As many as its length says.
LEMMA BytesIs ==
    ASSUME NEW p, Placed(p)
    PROVE  /\ Start(p) \in Nat
           /\ Bytes(p) = Start(p) .. Start(p) + p.len - 1
           /\ IsFiniteSet(Bytes(p)) /\ Cardinality(Bytes(p)) = p.len
<1> DEFINE a == Start(p)
           n == p.len
<1>1. Unit \in Nat /\ p.off \in Nat /\ n \in Nat
  BY SicslowpanAssumption DEF Placed
<1>2. a \in Nat
  BY <1>1 DEF Start
<1>3. Bytes(p) = {a + k : k \in 0 .. n - 1}
  BY DEF Bytes, Start
<1> HIDE DEF a, n
<1>4. {a + k : k \in 0 .. n - 1} = a .. a + n - 1
  <2>1. \A x \in a .. a + n - 1 : x - a \in 0 .. n - 1 /\ x = a + (x - a)
    BY <1>1, <1>2
  <2>2. \A k \in 0 .. n - 1 : a + k \in a .. a + n - 1
    BY <1>1, <1>2
  <2> QED
    BY <2>1, <2>2
<1>5. IsFiniteSet(a .. a + n - 1) /\ Cardinality(a .. a + n - 1) = n
  <2>1. a \in Int /\ a + n - 1 \in Int
    BY <1>1, <1>2
  <2>2. /\ IsFiniteSet(a .. a + n - 1)
        /\ Cardinality(a .. a + n - 1) = IF a > a + n - 1 THEN 0 ELSE (a + n - 1) - a + 1
    BY <2>1, FS_Interval
  <2> QED
    BY <1>1, <1>2, <2>2
<1> QED
  BY <1>2, <1>3, <1>4, <1>5 DEF a, n

\* Fragments that do not overlap have no byte in common.
LEMMA ApartIs ==
    ASSUME NEW p, Placed(p), NEW q, Placed(q), Apart(p, q)
    PROVE  Bytes(p) \cap Bytes(q) = {}
<1>1. /\ Start(p) \in Nat /\ Start(q) \in Nat /\ p.len \in Nat /\ q.len \in Nat
      /\ Bytes(p) = Start(p) .. Start(p) + p.len - 1 /\ Bytes(q) = Start(q) .. Start(q) + q.len - 1
  BY BytesIs DEF Placed
<1> QED
  BY <1>1 DEF Apart, Before

BytesIn(buf, S) == UNION {Bytes(buf[b]) : b \in S}

\* Buffers that do not overlap have as many bytes as their lengths add up to.
LEMMA BytesAddUp ==
    ASSUME NEW S, IsFiniteSet(S), NEW buf, \A b \in S : Placed(buf[b]),
           \A a, b \in S : a # b => Apart(buf[a], buf[b])
    PROVE  IsFiniteSet(BytesIn(buf, S)) /\ Cardinality(BytesIn(buf, S)) = Sum(buf, S)
<1> DEFINE Good(s) == IsFiniteSet(BytesIn(buf, s)) /\ Cardinality(BytesIn(buf, s)) = Sum(buf, s)
           T == {n \in Nat : \A s \in SUBSET S : Cardinality(s) = n => Good(s)}
<1>0. \A s \in SUBSET S : IsFiniteSet(s) /\ Cardinality(s) \in Nat /\ Lengths(buf, s)
  BY FS_Subset, FS_CardinalityType DEF Lengths, Placed
<1>1. 0 \in T
  <2>1. \A s \in SUBSET S : Cardinality(s) = 0 => s = {}
    BY <1>0, FS_EmptySet
  <2>2. BytesIn(buf, {}) = {}
    BY DEF BytesIn
  <2>3. Sum(buf, {}) = 0
    BY <1>0, SumStep
  <2>4. Good({})
    BY <2>2, <2>3, FS_EmptySet
  <2> HIDE DEF Good
  <2> QED
    BY <2>1, <2>4
<1>2. ASSUME NEW n \in Nat, n \in T PROVE n + 1 \in T
  <2>1. ASSUME NEW s \in SUBSET S, Cardinality(s) = n + 1 PROVE Good(s)
    <3> DEFINE b == First(s)
               w == s \ {b}
    <3>1. s # {} /\ IsFiniteSet(s)
      BY <1>0, <2>1, FS_EmptySet
    <3>2. b \in s /\ w \in SUBSET S /\ Cardinality(w) = n /\ Lengths(buf, s)
      BY <1>0, <2>1, <3>1, FirstIs
    <3>3. Good(w)
      <4> HIDE DEF Good, w
      <4> QED
        BY <1>2, <3>2
    <3>4. Sum(buf, s) = buf[b].len + Sum(buf, w)
      BY <1>0, <3>1, SumStep
    <3>5. IsFiniteSet(Bytes(buf[b])) /\ Cardinality(Bytes(buf[b])) = buf[b].len /\ buf[b].len \in Nat
      BY <3>2, BytesIs DEF Placed
    <3>6. BytesIn(buf, s) = BytesIn(buf, w) \cup Bytes(buf[b])
      BY <3>2 DEF BytesIn
    <3>7. BytesIn(buf, w) \cap Bytes(buf[b]) = {}
      <4>1. \A a \in w : Bytes(buf[a]) \cap Bytes(buf[b]) = {}
        BY <3>2, ApartIs
      <4> QED
        BY <4>1 DEF BytesIn
    <3> DEFINE B == BytesIn(buf, w)
               C == Bytes(buf[b])
    <3>8. IsFiniteSet(B) /\ Cardinality(B) = Sum(buf, w) /\ Cardinality(B) \in Nat
      BY <3>3, FS_CardinalityType
    <3> HIDE DEF b, w, B, C
    <3>9. /\ IsFiniteSet(B \cup C)
          /\ Cardinality(B \cup C) = Cardinality(B) + Cardinality(C) - Cardinality(B \cap C)
      BY <3>5, <3>8, FS_Union DEF C
    <3>10. Cardinality(B \cap C) = 0
      BY <3>7, FS_EmptySet DEF B, C
    <3>11. Cardinality(B \cup C) = Sum(buf, s)
      BY <3>4, <3>5, <3>8, <3>9, <3>10 DEF C
    <3> QED
      BY <3>6, <3>9, <3>11 DEF B, C
  <2> HIDE DEF Good
  <2> QED
    BY <2>1
<1>3. Cardinality(S) \in T /\ S \in SUBSET S
  <2>1. Cardinality(S) \in Nat
    BY FS_CardinalityType
  <2> HIDE DEF T
  <2> QED
    BY <1>1, <1>2, <2>1, Induction
<1> HIDE DEF Good
<1>4. Good(S)
  BY <1>3
<1> QED
  BY <1>4 DEF Good

\* Fragments of a packet that do not overlap and are as long as it are the whole of it.
LEMMA AllBytes ==
    ASSUME NEW len \in Nat, NEW S, IsFiniteSet(S), NEW buf, NEW x, Placed(x),
           \A b \in S : Placed(buf[b]) /\ Apart(x, buf[b]) /\ Start(buf[b]) + buf[b].len <= len,
           \A a, b \in S : a # b => Apart(buf[a], buf[b]),
           Start(x) + x.len <= len, x.len + Sum(buf, S) >= len
    PROVE  Bytes(x) \cup BytesIn(buf, S) = 0 .. len - 1
<1> DEFINE B == BytesIn(buf, S)
           C == Bytes(x)
<1>1. IsFiniteSet(B) /\ Cardinality(B) = Sum(buf, S) /\ Cardinality(B) \in Nat
  BY BytesAddUp, FS_CardinalityType
<1>2. IsFiniteSet(C) /\ Cardinality(C) = x.len /\ x.len \in Nat
  BY BytesIs DEF Placed
<1>3. C \cap B = {}
  <2>1. \A b \in S : Bytes(x) \cap Bytes(buf[b]) = {}
    BY ApartIs
  <2> QED
    BY <2>1 DEF BytesIn
<1>4. ASSUME NEW y, Placed(y), Start(y) + y.len <= len PROVE Bytes(y) \subseteq 0 .. len - 1
  <2>1. Start(y) \in Nat /\ y.len \in Nat /\ Bytes(y) = Start(y) .. Start(y) + y.len - 1
    BY <1>4, BytesIs DEF Placed
  <2> QED
    BY <1>4, <2>1
<1>5. C \cup B \subseteq 0 .. len - 1
  <2>1. C \subseteq 0 .. len - 1 /\ \A b \in S : Bytes(buf[b]) \subseteq 0 .. len - 1
    BY <1>4
  <2> QED
    BY <2>1 DEF BytesIn
<1>6. IsFiniteSet(0 .. len - 1) /\ Cardinality(0 .. len - 1) = len
  <2>1. /\ IsFiniteSet(0 .. len - 1)
        /\ Cardinality(0 .. len - 1) = IF 0 > len - 1 THEN 0 ELSE (len - 1) - 0 + 1
    BY FS_Interval
  <2> QED
    BY <2>1
<1> HIDE DEF B, C
<1>7. /\ IsFiniteSet(C \cup B)
      /\ Cardinality(C \cup B) = Cardinality(C) + Cardinality(B) - Cardinality(C \cap B)
  BY <1>1, <1>2, FS_Union
<1>8. Cardinality(C \cup B) >= len /\ Cardinality(C \cup B) \in Nat
  BY <1>1, <1>2, <1>3, <1>7, FS_EmptySet
<1>9. Cardinality(C \cup B) <= Cardinality(0 .. len - 1)
  BY <1>5, <1>6, FS_Subset
<1>10. Cardinality(0 .. len - 1) = Cardinality(C \cup B)
  BY <1>6, <1>8, <1>9
<1>11. C \cup B = 0 .. len - 1
  BY <1>5, <1>6, <1>10, FS_Subset
<1> QED
  BY <1>11 DEF B, C

-----------------------------------------------------------------------------
(* Where the parts of a packet come from. *)

PlaceOf(f) == [off |-> f.off, len |-> f.len]

\* K is a set of fragments that were sent: all that are queued and perhaps others.  A
\* fragment is a part of its packet, and a packet has one size; until the sender restarts,
\* a tag names one packet.
Sent(K) ==
    /\ K \subseteq FrameType
    /\ \A s \in Sender : \A j \in 1 .. Len(queue[s]) : queue[s][j].size > 0 => queue[s][j] \in K
    /\ \A x \in K : /\ x.size \in UipLen /\ frag_needed(x.size) /\ frag1_payload >= 0
                    /\ PlaceOf(x) \in Parts(x.size)
                    /\ x.pkt[2] < packets[x.pkt[1]]
    /\ \A x, y \in K : x.pkt = y.pkt => x.size = y.size

Tagged(K) ==
    /\ \A x \in K : x.tag < my_tag[x.pkt[1]]
    /\ \A x, y \in K : x.pkt[1] = y.pkt[1] /\ x.tag = y.tag => x.pkt = y.pkt
    /\ \A s \in Sender : my_tag[s] <= packets[s] /\ packets[s] <= MaxPackets

\* What a context has of a packet, in itself or in a buffer, is fragment x.
From(x, part, context) ==
    /\ part.pkt = x.pkt /\ part.off = x.off /\ part.len = x.len
    /\ context.tag = x.tag /\ context.sender = x.pkt[1]

\* The contexts and buffers in use have fragments of K, the first ones in the contexts.
Received(r, K) ==
    /\ \A i \in Context : r.info[i].len > 0 =>
          \E x \in K : x.off = 0 /\ From(x, r.info[i].first, r.info[i])
    /\ \A b \in Buffer : r.buf[b].len > 0 =>
          \E x \in K : x.off > 0 /\ From(x, r.buf[b], r.info[r.buf[b].index])

\* clear_fragments
LEMMA ClearReceived ==
    ASSUME NEW K, NEW r, RxOK(r), Received(r, K), NEW S, S \subseteq Context
    PROVE  Received(clear_fragments(r, S), K)
<1> DEFINE c == clear_fragments(r, S)
<1>1. /\ \A i \in Context : c.info[i] = IF i \in S THEN FreeContext ELSE r.info[i]
      /\ \A b \in Buffer : c.buf[b] = IF r.buf[b].index \in S THEN FreeBuffer ELSE r.buf[b]
  BY DEF clear_fragments
<1> HIDE DEF c
<1>2. FreeContext.len = 0 /\ FreeBuffer.len = 0
  BY DEF FreeContext, FreeBuffer
<1>3. ASSUME NEW i \in Context, c.info[i].len > 0
      PROVE  \E x \in K : x.off = 0 /\ From(x, c.info[i].first, c.info[i])
  <2>1. c.info[i] = r.info[i]
    BY <1>1, <1>2, <1>3
  <2> QED
    BY <1>3, <2>1 DEF Received
<1>4. ASSUME NEW b \in Buffer, c.buf[b].len > 0
      PROVE  \E x \in K : x.off > 0 /\ From(x, c.buf[b], c.info[c.buf[b].index])
  <2>1. c.buf[b] = r.buf[b] /\ r.buf[b].index \notin S
    BY <1>1, <1>2, <1>4
  <2>2. r.buf[b].index \in Context
    BY <1>4, <2>1 DEF RxOK, Owned
  <2>3. c.info[r.buf[b].index] = r.info[r.buf[b].index]
    BY <1>1, <2>1, <2>2
  <2> QED
    BY <1>4, <2>1, <2>3 DEF Received
<1>5. Received(c, K)
  BY <1>3, <1>4 DEF Received
<1> QED
  BY <1>5 DEF c

\* The first fragment of a packet.
LEMMA FirstReceived ==
    ASSUME NEW K, NEW r, RxOK(r), Received(r, K), NEW f \in FrameType, f \in K, f.off = 0
    PROVE  Received(FirstFragment(r, f), K)
<1> DEFINE c == clear_fragments(r, TimedOut(r))
           i == Lowest(Unused(c))
           new == [len |-> f.size, tag |-> f.tag, sender |-> f.pkt[1],
                   reassembled_len |-> f.len, expired |-> FALSE,
                   first |-> [pkt |-> f.pkt, off |-> 0, len |-> f.len]]
           d == [c EXCEPT !.info[i] = new]
<1>1. RxOK(c) /\ Received(c, K)
  BY ClearKeeps, ClearReceived DEF TimedOut
<1>2. FirstFragment(r, f) = IF i = 0 THEN c ELSE d
  BY DEF FirstFragment
<1>3. i = 0 \/ i \in Unused(c)
  BY SearchIs DEF Unused
<1> HIDE DEF c, i
<1>4. CASE i = 0
  BY <1>1, <1>2, <1>4
<1>5. CASE i # 0
  <2>1. i \in Context /\ c.info[i].len = 0
    BY <1>3, <1>5 DEF Unused
  <2>2. From(f, new.first, new)
    BY DEF From
  <2> HIDE DEF new
  <2>3. d.info = [c.info EXCEPT ![i] = new] /\ d.buf = c.buf
    BY <1>1, <2>1 DEF RxOK, RxType
  <2> HIDE DEF d
  <2>4. d.info[i] = new /\ \A j \in Context : j # i => d.info[j] = c.info[j]
    BY <1>1, <2>1, <2>3 DEF RxOK, RxType
  <2>5. \A b \in Buffer : c.buf[b].len > 0 => c.buf[b].index # i /\ c.buf[b].index \in Context
    <3>1. ~(c.info[i].len > 0)
      BY <2>1
    <3> QED
      BY <1>1, <3>1 DEF RxOK, Owned
  <2>6. ASSUME NEW j \in Context, d.info[j].len > 0
        PROVE  \E x \in K : x.off = 0 /\ From(x, d.info[j].first, d.info[j])
    <3>1. CASE j = i
      BY <2>2, <2>4, <3>1
    <3>2. CASE j # i
      BY <1>1, <2>4, <2>6, <3>2 DEF Received
    <3> QED
      BY <3>1, <3>2
  <2>7. ASSUME NEW b \in Buffer, d.buf[b].len > 0
        PROVE  \E x \in K : x.off > 0 /\ From(x, d.buf[b], d.info[d.buf[b].index])
    BY <1>1, <2>3, <2>4, <2>5, <2>7 DEF Received
  <2> QED
    BY <1>2, <1>5, <2>6, <2>7 DEF Received
<1> QED
  BY <1>4, <1>5

\* store_fragment, of another fragment of the packet of context i.
LEMMA StoreReceived ==
    ASSUME NEW K, NEW r, RxOK(r), Received(r, K), NEW i \in Context, NEW f \in FrameType,
           f \in K, f.off > 0, r.info[i].tag = f.tag, r.info[i].sender = f.pkt[1]
    PROVE  LET d == store_fragment(r, i, f)
           IN  /\ Received(d, K)
               /\ d.info[i].reassembled_len > r.info[i].reassembled_len
                     => \E b \in BuffersOf(d, i) : d.buf[b].pkt = f.pkt
<1> DEFINE d == store_fragment(r, i, f)
<1>1. r \in RxType /\ r.info[i].reassembled_len \in Nat /\ f.len \in Nat
  BY DEF RxOK, RxType, ContextType, FrameType
<1>2. \/ FreeBuffers(r) = {} /\ d = r
      \/ \E b \in FreeBuffers(r) : Stored(d, r, i, f, b)
  BY <1>1, StoreIs
<1> HIDE DEF d
<1>3. CASE d = r
  <2>1. ~(d.info[i].reassembled_len > r.info[i].reassembled_len)
    BY <1>1, <1>3
  <2> QED
    BY <1>3, <2>1 DEF d
<1>4. ASSUME NEW b \in FreeBuffers(r), Stored(d, r, i, f, b)
      PROVE  /\ Received(d, K)
             /\ d.info[i].reassembled_len > r.info[i].reassembled_len
                   => \E a \in BuffersOf(d, i) : d.buf[a].pkt = f.pkt
  <2>1. b \in Buffer
    BY DEF FreeBuffers
  <2>2. d.buf[b].index = i /\ d.buf[b].off = f.off /\ d.buf[b].len = f.len /\ d.buf[b].pkt = f.pkt
    BY <1>4 DEF Stored
  <2>3. \A j \in Context : /\ d.info[j].first = r.info[j].first /\ d.info[j].len = r.info[j].len
                           /\ d.info[j].tag = r.info[j].tag /\ d.info[j].sender = r.info[j].sender
    BY <1>4 DEF Stored
  <2>4. ASSUME NEW j \in Context, d.info[j].len > 0
        PROVE  \E x \in K : x.off = 0 /\ From(x, d.info[j].first, d.info[j])
    BY <2>3, <2>4 DEF Received, From
  <2>5. ASSUME NEW a \in Buffer, d.buf[a].len > 0
        PROVE  \E x \in K : x.off > 0 /\ From(x, d.buf[a], d.info[d.buf[a].index])
    <3>1. CASE a = b
      BY <2>2, <2>3, <3>1 DEF From
    <3>2. CASE a # b
      <4>1. d.buf[a] = r.buf[a]
        BY <1>4, <3>2 DEF Stored
      <4>2. r.buf[a].index \in Context
        BY <2>5, <4>1 DEF RxOK, Owned
      <4> QED
        BY <2>3, <2>5, <4>1, <4>2 DEF Received, From
    <3> QED
      BY <3>1, <3>2
  <2>6. ASSUME d.info[i].reassembled_len > r.info[i].reassembled_len
        PROVE  \E a \in BuffersOf(d, i) : d.buf[a].pkt = f.pkt
    <3>1. f.len > 0
      <4>1. d.info[i].reassembled_len = r.info[i].reassembled_len + f.len
        BY <1>4 DEF Stored
      <4> QED
        BY <1>1, <2>6, <4>1
    <3> QED
      BY <2>1, <2>2, <3>1 DEF BuffersOf
  <2> QED
    BY <2>4, <2>5, <2>6 DEF Received
<1> QED
  BY <1>2, <1>3, <1>4 DEF d

\* Another fragment of the packet of context i.
LEMMA NextReceived ==
    ASSUME NEW K, NEW r, RxOK(r), Received(r, K), NEW i \in Context, r.info[i].len > 0,
           NEW f \in FrameType, f \in K, f.off > 0,
           r.info[i].tag = f.tag, r.info[i].sender = f.pkt[1]
    PROVE  LET d == NextFragment(r, i, f)
           IN  /\ Received(d, K) /\ RxOK(d) /\ d.info[i].len > 0
               /\ d.info[i].reassembled_len > r.info[i].reassembled_len
                     => \E b \in BuffersOf(d, i) : d.buf[b].pkt = f.pkt
<1> DEFINE S == TimedOut(r) \ {i}
           c == IF FreeBuffers(r) = {} THEN clear_fragments(r, S) ELSE r
           d == NextFragment(r, i, f)
<1>1. S \subseteq Context /\ i \in Context \ S
  BY DEF TimedOut
<1>2. RxOK(c) /\ Received(c, K) /\ c.info[i] = r.info[i]
  <2> HIDE DEF S
  <2> QED
    BY <1>1, ClearKeeps, ClearReceived
<1>3. d = store_fragment(c, i, f)
  BY DEF NextFragment
<1> HIDE DEF c, d
<1>4. /\ Received(d, K)
      /\ d.info[i].reassembled_len > c.info[i].reassembled_len
            => \E b \in BuffersOf(d, i) : d.buf[b].pkt = f.pkt
  BY <1>2, <1>3, StoreReceived
<1>5. RxOK(d)
  BY NextKeeps DEF d
<1>6. d.info[i].len > 0
  <2>1. c \in RxType
    BY <1>2 DEF RxOK
  <2>2. d.info[i].len = c.info[i].len
    BY <1>3, <2>1, StoreIs DEF Stored
  <2> QED
    BY <1>2, <2>2
<1> QED
  BY <1>2, <1>4, <1>5, <1>6 DEF d

\* What may be given to the IP layer.
Allowed(u, restarted) ==
    /\ Whole(u) \/ u.twice \/ Cardinality(Sources(u)) > 1
    /\ Cardinality(Sources(u)) > 1 => restarted /\ Cardinality({k[1] : k \in Sources(u)}) = 1

\* Context i is complete: its lengths add up to the size of the packet of one of its
\* buffers.
LEMMA AssembledIs ==
    ASSUME NEW K, Sent(K), NEW r, RxOK(r), Received(r, K), NEW i \in Context, r.info[i].len > 0,
           NEW f \in K, NEW c \in BuffersOf(r, i), r.buf[c].pkt = f.pkt,
           r.info[i].reassembled_len >= f.size, NEW restarted, restarted \/ Tagged(K)
    PROVE  Allowed(Assembled(r, i, f.size), restarted)
<1> DEFINE S == BuffersOf(r, i)
           x == r.info[i].first
           piece(b) == [pkt |-> r.buf[b].pkt, off |-> r.buf[b].off, len |-> r.buf[b].len]
           u == Assembled(r, i, f.size)
<1>1. /\ u.size = f.size /\ u.pieces = {x} \cup {piece(b) : b \in S}
      /\ u.twice = (\E a, b \in S : a # b /\ piece(a) = piece(b))
  BY DEF Assembled
<1> HIDE DEF u
<1>2. \A b \in S : b \in Buffer /\ r.buf[b].len > 0 /\ r.buf[b].index = i
  BY DEF BuffersOf
<1>3. PICK y \in K : y.off = 0 /\ From(y, x, r.info[i])
  BY DEF Received
<1>4. \A b \in S : \E z \in K : z.off > 0 /\ From(z, r.buf[b], r.info[i])
  BY <1>2 DEF Received
<1>5. Sources(u) = {x.pkt} \cup {r.buf[b].pkt : b \in S}
  <2>1. \A b \in S : piece(b).pkt = r.buf[b].pkt
    OBVIOUS
  <2> HIDE DEF piece, S
  <2> QED
    BY <1>1, <2>1 DEF Sources
<1> DEFINE P == Sources(u)
<1>6. Cardinality({k[1] : k \in P}) = 1
  <2>1. \A k \in P : k[1] = r.info[i].sender
    BY <1>3, <1>4, <1>5 DEF From
  <2>2. {k[1] : k \in P} = {r.info[i].sender}
    BY <1>5, <2>1
  <2> QED
    BY <2>2, FS_Singleton
<1>7. CASE \A b \in S : r.buf[b].pkt = x.pkt
  <2>1. P = {x.pkt}
    BY <1>5, <1>7
  <2>2. ~(Cardinality(P) > 1)
    <3>1. Cardinality(P) = 1
      BY <2>1, FS_Singleton
    <3> QED
      BY <3>1
  <2>3. x.pkt = f.pkt
    BY <1>7
  <2> DEFINE len == f.size
  <2>4. ASSUME NEW z \in K, z.pkt = f.pkt PROVE z.size = len /\ PlaceOf(z) \in Parts(len)
    BY <2>4 DEF Sent
  <2>5. /\ Parts(len) \subseteq Piece
        /\ \A p \in Parts(len) : Start(p) + p.len <= len
        /\ \A p, q \in Parts(len) : p = q \/ Before(p, q) \/ Before(q, p)
    BY PartsApart DEF Sent
  <2>6. len \in Nat
    BY DEF Sent, FrameType
  <2> HIDE DEF len
  <2>7. ASSUME NEW p, PlaceOf(p) \in Parts(len)
        PROVE  Placed(p) /\ Start(p) + p.len <= len
    <3>1. PlaceOf(p).off = p.off /\ PlaceOf(p).len = p.len
      BY DEF PlaceOf
    <3>2. Start(PlaceOf(p)) = Start(p) /\ PlaceOf(p) \in Piece
      BY <2>5, <2>7, <3>1 DEF Start
    <3> QED
      BY <2>5, <2>7, <3>1, <3>2 DEF Placed, Piece
  <2>8. ASSUME NEW p, NEW q, PlaceOf(p) \in Parts(len), PlaceOf(q) \in Parts(len),
               PlaceOf(p) # PlaceOf(q)
        PROVE  Apart(p, q)
    <3>1. /\ PlaceOf(p).off = p.off /\ PlaceOf(p).len = p.len
          /\ PlaceOf(q).off = q.off /\ PlaceOf(q).len = q.len
      BY DEF PlaceOf
    <3>2. Start(PlaceOf(p)) = Start(p) /\ Start(PlaceOf(q)) = Start(q)
      BY <3>1 DEF Start
    <3>3. Before(PlaceOf(p), PlaceOf(q)) \/ Before(PlaceOf(q), PlaceOf(p))
      BY <2>5, <2>8
    <3> QED
      BY <3>1, <3>2, <3>3 DEF Apart, Before
  <2>9. PlaceOf(x) \in Parts(len) /\ x.off = 0
    <3>1. PlaceOf(y) \in Parts(len)
      BY <1>3, <2>3, <2>4 DEF From
    <3>2. PlaceOf(x) = PlaceOf(y) /\ x.off = 0
      BY <1>3 DEF From, PlaceOf
    <3> QED
      BY <3>1, <3>2
  <2>10. ASSUME NEW b \in S PROVE PlaceOf(r.buf[b]) \in Parts(len) /\ r.buf[b].off > 0
    <3>1. PICK z \in K : z.off > 0 /\ From(z, r.buf[b], r.info[i])
      BY <1>4
    <3>2. PlaceOf(z) \in Parts(len)
      BY <1>7, <2>3, <2>4, <3>1 DEF From
    <3>3. PlaceOf(r.buf[b]) = PlaceOf(z) /\ r.buf[b].off > 0
      BY <3>1 DEF From, PlaceOf
    <3> QED
      BY <3>2, <3>3
  <2>11. ASSUME ~u.twice PROVE Whole(u)
    <3>1. ASSUME NEW a \in S, NEW b \in S, a # b PROVE Apart(r.buf[a], r.buf[b])
      <4>1. piece(a) # piece(b)
        BY <1>1, <2>11, <3>1
      <4>2. r.buf[a].pkt = r.buf[b].pkt
        BY <1>7
      <4>3. PlaceOf(r.buf[a]) # PlaceOf(r.buf[b])
        BY <4>1, <4>2 DEF PlaceOf
      <4> QED
        BY <2>8, <2>10, <4>3
    <3>2. ASSUME NEW b \in S
          PROVE  Placed(r.buf[b]) /\ Apart(x, r.buf[b]) /\ Start(r.buf[b]) + r.buf[b].len <= len
      <4>1. PlaceOf(x) # PlaceOf(r.buf[b])
        <5>1. x.off = 0 /\ r.buf[b].off > 0 /\ ~(0 > 0)
          BY <2>9, <2>10
        <5>2. x.off # r.buf[b].off
          BY <5>1
        <5> QED
          BY <5>2 DEF PlaceOf
      <4> QED
        BY <2>7, <2>8, <2>9, <2>10, <4>1
    <3>3. IsFiniteSet(S) /\ x.len + Sum(r.buf, S) >= len
      <4>1. r.info[i].reassembled_len = x.len + Sum(r.buf, S)
        BY DEF RxOK, Counted
      <4> QED
        BY <4>1, BuffersFinite DEF RxOK, len
    <3>4. Placed(x) /\ Start(x) + x.len <= len
      BY <2>7, <2>9
    <3> DEFINE buf == r.buf
    <3> HIDE DEF S, x, buf
    <3>5. Bytes(x) \cup BytesIn(buf, S) = 0 .. len - 1
      BY <2>6, <3>1, <3>2, <3>3, <3>4, AllBytes DEF buf
    <3>6. \A b \in S : Bytes(piece(b)) = Bytes(buf[b])
      BY DEF Bytes, buf
    <3> HIDE DEF piece
    <3>7. UNION {Bytes(p) : p \in u.pieces} = Bytes(x) \cup BytesIn(buf, S)
      BY <1>1, <3>6 DEF BytesIn
    <3> QED
      BY <1>1, <3>5, <3>7 DEF Whole, len
  <2> QED
    BY <2>2, <2>11 DEF Allowed, u
<1>8. CASE \E b \in S : r.buf[b].pkt # x.pkt
  <2>1. PICK b \in S : r.buf[b].pkt # x.pkt
    BY <1>8
  <2>2. ~Tagged(K)
    <3>1. PICK z \in K : z.off > 0 /\ From(z, r.buf[b], r.info[i])
      BY <1>4
    <3>2. z.pkt[1] = y.pkt[1] /\ z.tag = y.tag /\ z.pkt # y.pkt
      BY <1>3, <2>1, <3>1 DEF From
    <3> QED
      BY <3>2 DEF Tagged
  <2>3. IsFiniteSet(P)
    <3> DEFINE D == S \cup {0}
               h == [d \in D |-> IF d = 0 THEN x.pkt ELSE r.buf[d].pkt]
    <3>1. IsFiniteSet(D)
      BY BuffersFinite, FS_AddElement DEF RxOK
    <3>2. 0 \notin S
      BY <1>2, SearchIs
    <3>3. h[0] = x.pkt /\ \A d \in S : h[d] = r.buf[d].pkt
      BY <3>2
    <3>4. h \in [D -> P]
      BY <1>5
    <3>5. \A p \in P : \E d \in D : h[d] = p
      <4> HIDE DEF h, S
      <4> QED
        BY <1>5, <3>3
    <3> HIDE DEF h, D, P
    <3>6. h \in Surjection(D, P)
      BY <3>4, <3>5 DEF Surjection
    <3> QED
      BY <3>1, <3>6, FS_Surjection
  <2>4. Cardinality(P) > 1
    <3>1. x.pkt \in P /\ r.buf[b].pkt \in P
      BY <1>5
    <3> HIDE DEF P
    <3>2. Cardinality(P) \in Nat
      BY <2>3, FS_CardinalityType
    <3>3. Cardinality(P) # 0
      BY <2>3, <3>1, FS_EmptySet
    <3>4. Cardinality(P) # 1
      BY <2>1, <2>3, <3>1, FS_Singleton
    <3> QED
      BY <3>2, <3>3, <3>4
  <2> QED
    BY <1>6, <2>2, <2>4 DEF Allowed, u
<1> QED
  BY <1>7, <1>8

\* input, of a frame that was sent: what goes up, and what the contexts have then.
LEMMA InputAllowed ==
    ASSUME NEW K, Sent(K), RxOK(rx), Received(rx, K), NEW f \in FrameType,
           f.size > 0 => f \in K, input(f), NEW restarted, restarted \/ Tagged(K)
    PROVE  Received(rx', K) /\ (up' # NULL => Allowed(up', restarted))
<1>1. f.size \in Nat /\ f.off \in Nat /\ f.len \in Nat
  BY DEF FrameType
<1>2. CASE f.size = 0
  <2> DEFINE p == [pkt |-> f.pkt, off |-> 0, len |-> f.len]
             u == [size |-> f.len, pieces |-> {p}, twice |-> FALSE]
  <2>1. up' = u /\ UNCHANGED rx
    BY <1>2 DEF input
  <2>2. u.size = f.len /\ u.pieces = {p} /\ p.pkt = f.pkt /\ p.off = 0 /\ p.len = f.len
    OBVIOUS
  <2> HIDE DEF u, p
  <2>3. Bytes(p) = 0 .. f.len - 1
    <3>1. Placed(p)
      BY <1>1, <2>2 DEF Placed
    <3>2. Start(p) = 0
      <4>1. Unit \in Nat
        BY SicslowpanAssumption
      <4>2. Unit * 0 = 0
        BY <4>1
      <4> QED
        BY <2>2, <4>2 DEF Start
    <3> QED
      BY <1>1, <2>2, <3>1, <3>2, BytesIs
  <2>4. Whole(u)
    BY <2>2, <2>3 DEF Whole
  <2>5. ~(Cardinality(Sources(u)) > 1)
    <3>1. Sources(u) = {f.pkt}
      BY <2>2 DEF Sources
    <3>2. Cardinality(Sources(u)) = 1
      BY <3>1, FS_Singleton
    <3> QED
      BY <3>2
  <2> QED
    BY <2>1, <2>4, <2>5 DEF Allowed
<1>3. CASE f.size > 0 /\ f.off = 0
  <2>1. up' = NULL /\ rx' = FirstFragment(rx, f)
    BY <1>1, <1>3 DEF input
  <2> QED
    BY <1>3, <2>1, FirstReceived
<1>4. CASE f.size > 0 /\ f.off > 0 /\ Session(rx, f) = 0
  <2>1. up' = NULL /\ UNCHANGED rx
    BY <1>1, <1>4 DEF input
  <2> QED
    BY <2>1
<1>5. CASE f.size > 0 /\ f.off > 0 /\ Session(rx, f) # 0
  <2> DEFINE i == Session(rx, f)
             r == NextFragment(rx, i, f)
  <2>1. Receive(r, i, f)
    BY <1>1, <1>5 DEF input
  <2>2. i \in Context /\ rx.info[i].len > 0 /\ rx.info[i].tag = f.tag /\ rx.info[i].sender = f.pkt[1]
    BY <1>5, SearchIs DEF Session
  <2> HIDE DEF i
  <2>3. /\ Received(r, K) /\ RxOK(r) /\ r.info[i].len > 0
        /\ r.info[i].reassembled_len > rx.info[i].reassembled_len
              => \E b \in BuffersOf(r, i) : r.buf[b].pkt = f.pkt
    BY <1>5, <2>2, NextReceived
  <2> HIDE DEF r
  <2>4. CASE /\ r.info[i].reassembled_len > rx.info[i].reassembled_len
             /\ r.info[i].reassembled_len >= f.size
    <3>1. up' = Assembled(r, i, f.size) /\ rx' = clear_fragments(r, {i})
      BY <2>1, <2>4 DEF Receive
    <3>2. Received(clear_fragments(r, {i}), K)
      BY <2>2, <2>3, ClearReceived
    <3>3. PICK c \in BuffersOf(r, i) : r.buf[c].pkt = f.pkt
      BY <2>3, <2>4
    <3>4. Allowed(Assembled(r, i, f.size), restarted)
      BY <1>5, <2>2, <2>3, <2>4, <3>3, AssembledIs
    <3> QED
      BY <3>1, <3>2, <3>4
  <2>5. CASE ~(/\ r.info[i].reassembled_len > rx.info[i].reassembled_len
               /\ r.info[i].reassembled_len >= f.size)
    BY <2>1, <2>3, <2>5 DEF Receive
  <2> QED
    BY <2>4, <2>5
<1> QED
  BY <1>1, <1>2, <1>3, <1>4, <1>5

\* The frames in a queue to which the first n of some others are added.
LEMMA AddedFrames ==
    ASSUME NEW q \in Seq(FrameType), NEW frames \in Seq(FrameType), NEW n \in 0 .. Len(frames)
    PROVE  LET new == q \o SubSeq(frames, 1, n)
           IN  \A j \in 1 .. Len(new) : \/ \E k \in 1 .. Len(q) : new[j] = q[k]
                                        \/ \E k \in 1 .. Len(frames) : new[j] = frames[k]
<1> DEFINE t == SubSeq(frames, 1, n)
           new == q \o t
<1>1. Len(q) \in Nat /\ Len(frames) \in Nat /\ n \in Nat /\ n <= Len(frames)
  BY LenProperties
<1>2. t \in Seq(FrameType) /\ Len(t) = n /\ \A k \in 1 .. n : t[k] = frames[k]
  <2>1. \A k \in 1 .. n : 1 + k - 1 = k
    BY <1>1
  <2> QED
    BY <1>1, <2>1, SubSeqProperties
<1> HIDE DEF t
<1>3. /\ Len(new) = Len(q) + n
      /\ \A j \in 1 .. Len(q) : new[j] = q[j]
      /\ \A j \in Len(q) + 1 .. Len(q) + n : new[j] = t[j - Len(q)]
  BY <1>1, <1>2, ConcatProperties
<1> HIDE DEF new
<1>4. ASSUME NEW j \in 1 .. Len(new)
      PROVE  \/ \E k \in 1 .. Len(q) : new[j] = q[k]
             \/ \E k \in 1 .. Len(frames) : new[j] = frames[k]
  <2>1. CASE j \in 1 .. Len(q)
    BY <1>3, <2>1
  <2>2. CASE j \in Len(q) + 1 .. Len(q) + n
    <3>1. j - Len(q) \in 1 .. n /\ j - Len(q) \in 1 .. Len(frames)
      BY <1>1, <2>2
    <3> QED
      BY <1>2, <1>3, <2>2, <3>1
  <2>3. j \in 1 .. Len(q) \/ j \in Len(q) + 1 .. Len(q) + n
    BY <1>1, <1>3
  <2> QED
    BY <2>1, <2>2, <2>3
<1> QED
  BY <1>4 DEF new, t

\* output: the fragments of one more packet, with a tag of its own.
LEMMA OutputSent ==
    ASSUME SendInv, NEW K, Sent(K), NEW restarted, restarted \/ Tagged(K), NEW s \in Sender, output(s)
    PROVE  \E L : K \subseteq L /\ Sent(L)' /\ (restarted \/ Tagged(L)')
<1> DEFINE m == packets[s]
           t == my_tag[s]
<1>1. t \in Nat /\ m \in Nat /\ queue[s] \in Seq(FrameType) /\ m < MaxPackets
  BY DEF SendInv, output
<1>2. MaxPackets \in Nat /\ TagSpace \in Nat /\ MaxPackets < TagSpace
  BY SicslowpanAssumption
<1>3. /\ packets \in [Sender -> Nat] /\ packets' = [packets EXCEPT ![s] = m + 1]
      /\ packets'[s] = m + 1 /\ \A a \in Sender : a # s => packets'[a] = packets[a]
  BY DEF SendInv, output
<1>4. \A x \in K : x \in FrameType /\ x.pkt[1] \in Sender /\ x.pkt[2] \in Nat /\ x.tag \in Nat
                   /\ x.pkt \in Pkt
  BY DEF Sent, FrameType, Pkt
<1>5. \A x \in K : x.pkt[2] < packets'[x.pkt[1]]
  <2> SUFFICES ASSUME NEW x \in K PROVE x.pkt[2] < packets'[x.pkt[1]]
    OBVIOUS
  <2>1. x.pkt[1] \in Sender /\ x.pkt[2] \in Nat /\ x.pkt[2] < packets[x.pkt[1]]
    BY <1>4 DEF Sent
  <2>2. CASE x.pkt[1] = s
    BY <1>1, <1>3, <2>1, <2>2
  <2>3. CASE x.pkt[1] # s
    BY <1>3, <2>1, <2>3
  <2> QED
    BY <2>2, <2>3
<1>6. PICK len \in UipLen :
        IF ~frag_needed(len) THEN SendWhole(s, len)
        ELSE EnoughFree(s, len) /\ frag1_payload >= 0 /\ SendFragments(s, len)
  BY DEF output
<1>7. len \in Nat /\ len > 0
  <2>1. len \in Nat /\ UncompLen \in Nat /\ len > UncompLen
    BY SicslowpanAssumption
  <2> QED
    BY <2>1
<1>8. ASSUME NEW size \in Nat, NEW p \in Piece
      PROVE  /\ Frame(s, size, p) \in FrameType
             /\ Frame(s, size, p).size = size /\ Frame(s, size, p).pkt = <<s, m>>
             /\ Frame(s, size, p).tag = t /\ PlaceOf(Frame(s, size, p)) = p
  BY <1>1 DEF Frame, FrameType, Piece, Pkt, PlaceOf
<1>9. ASSUME NEW frames \in Seq(FrameType), NEW n \in 0 .. Len(frames), Enqueue(s, frames, n),
             NEW a \in Sender, NEW j \in 1 .. Len(queue'[a])
      PROVE  \/ \E k \in 1 .. Len(queue[a]) : queue'[a][j] = queue[a][k]
             \/ \E k \in 1 .. Len(frames) : queue'[a][j] = frames[k]
  <2> DEFINE new == queue[s] \o SubSeq(frames, 1, n)
  <2>1. queue' = [queue EXCEPT ![s] = new]
    BY <1>9 DEF Enqueue
  <2>2. \A i \in 1 .. Len(new) : \/ \E k \in 1 .. Len(queue[s]) : new[i] = queue[s][k]
                                 \/ \E k \in 1 .. Len(frames) : new[i] = frames[k]
    BY <1>1, AddedFrames
  <2> HIDE DEF new
  <2>3. queue'[s] = new /\ \A b \in Sender : b # s => queue'[b] = queue[b]
    BY <2>1 DEF SendInv
  <2>4. CASE a = s
    <3>1. queue'[a] = new /\ j \in 1 .. Len(new)
      BY <1>9, <2>3, <2>4
    <3> QED
      BY <2>2, <2>4, <3>1
  <2>5. CASE a # s
    <3>1. queue'[a] = queue[a] /\ j \in 1 .. Len(queue[a])
      BY <1>9, <2>3, <2>5
    <3> QED
      BY <3>1
  <2> QED
    BY <2>4, <2>5
<1>10. CASE ~frag_needed(len)
  <2> DEFINE p == [off |-> 0, len |-> len]
             f == Frame(s, 0, p)
  <2>1. Enqueue(s, <<f>>, 1) /\ UNCHANGED my_tag
    BY <1>6, <1>10 DEF SendWhole
  <2>2. f \in FrameType /\ f.size = 0
    BY <1>7, <1>8 DEF Piece
  <2> HIDE DEF f
  <2>3. <<f>> \in Seq(FrameType) /\ 1 \in 0 .. Len(<<f>>) /\ \A k \in 1 .. Len(<<f>>) : <<f>>[k] = f
    BY <2>2
  <2>4. \A a \in Sender : \A j \in 1 .. Len(queue'[a]) : queue'[a][j].size > 0 => queue'[a][j] \in K
    <3> SUFFICES ASSUME NEW a \in Sender, NEW j \in 1 .. Len(queue'[a]), queue'[a][j].size > 0
                 PROVE  queue'[a][j] \in K
      OBVIOUS
    <3>1. \/ \E k \in 1 .. Len(queue[a]) : queue'[a][j] = queue[a][k]
          \/ \E k \in 1 .. Len(<<f>>) : queue'[a][j] = <<f>>[k]
      BY <1>9, <2>1, <2>3
    <3>2. ~(0 > 0)
      OBVIOUS
    <3>3. queue'[a][j] # f
      BY <2>2, <3>2
    <3> QED
      BY <2>3, <3>1, <3>3 DEF Sent
  <2>5. Sent(K)'
    BY <1>5, <2>4 DEF Sent
  <2>6. ASSUME Tagged(K) PROVE Tagged(K)'
    <3>1. \A a \in Sender : my_tag'[a] <= packets'[a] /\ packets'[a] <= MaxPackets
      <4> SUFFICES ASSUME NEW a \in Sender
                   PROVE  my_tag[a] <= packets'[a] /\ packets'[a] <= MaxPackets
        BY <2>1
      <4>1. my_tag[a] <= packets[a] /\ packets[a] <= MaxPackets /\ my_tag[a] \in Nat /\ packets[a] \in Nat
        BY <2>6 DEF Tagged, SendInv
      <4> QED
        BY <1>1, <1>2, <1>3, <4>1
    <3> QED
      BY <2>1, <2>6, <3>1 DEF Tagged
  <2> QED
    BY <2>5, <2>6
<1>11. CASE frag_needed(len)
  <2> DEFINE pieces == Pieces(len)
             frames == [i \in DOMAIN pieces |-> Frame(s, len, pieces[i])]
             new == {frames[k] : k \in 1 .. Len(frames)}
  <2>1. frag1_payload >= 0 /\ SendFragments(s, len)
    BY <1>6, <1>11
  <2>2. pieces \in Seq(Piece) /\ Len(pieces) \in Nat
    BY <1>11, <2>1, CountIsRight, LenProperties
  <2>3. /\ my_tag' = [my_tag EXCEPT ![s] = (t + 1) % TagSpace]
        /\ \E n \in 0 .. Len(frames) : Enqueue(s, frames, n)
    BY <2>1 DEF SendFragments
  <2>4. Parts(len) = {pieces[k] : k \in 1 .. Len(pieces)}
    BY DEF Parts
  <2> HIDE DEF pieces
  <2>5. DOMAIN pieces = 1 .. Len(pieces) /\ \A k \in 1 .. Len(pieces) : pieces[k] \in Piece
    BY <2>2, LenProperties, ElementOfSeq
  <2>6. \A k \in 1 .. Len(pieces) : frames[k] = Frame(s, len, pieces[k])
    BY <2>5
  <2>7. frames \in Seq(FrameType) /\ Len(frames) = Len(pieces)
    <3>1. frames \in [1 .. Len(pieces) -> FrameType]
      BY <1>7, <1>8, <2>5
    <3> HIDE DEF frames
    <3>2. frames \in Seq(FrameType)
      BY <2>2, <3>1
    <3>3. DOMAIN frames = 1 .. Len(frames) /\ Len(frames) \in Nat
      BY <3>2, LenProperties
    <3> QED
      BY <2>2, <3>1, <3>2, <3>3
  <2> HIDE DEF frames
  <2>8. ASSUME NEW x \in new
        PROVE  /\ x \in FrameType /\ x.size = len /\ x.pkt = <<s, m>> /\ x.tag = t
               /\ PlaceOf(x) \in Parts(len) /\ x.pkt[1] = s /\ x.pkt[2] = m
    <3>1. PICK k \in 1 .. Len(pieces) : x = Frame(s, len, pieces[k])
      BY <2>6, <2>7, <2>8
    <3>2. pieces[k] \in Piece /\ pieces[k] \in Parts(len)
      BY <2>4, <2>5
    <3>3. x \in FrameType /\ x.size = len /\ x.pkt = <<s, m>> /\ x.tag = t /\ PlaceOf(x) = pieces[k]
      BY <1>7, <1>8, <3>1, <3>2
    <3>4. <<s, m>>[1] = s /\ <<s, m>>[2] = m
      OBVIOUS
    <3> HIDE DEF m, t, new
    <3> QED
      BY <3>2, <3>3, <3>4
  <2>9. PICK L : L = K \cup new
    OBVIOUS
  <2>10. \A a \in Sender : \A j \in 1 .. Len(queue'[a]) : queue'[a][j].size > 0 => queue'[a][j] \in L
    <3> SUFFICES ASSUME NEW a \in Sender, NEW j \in 1 .. Len(queue'[a]), queue'[a][j].size > 0
                 PROVE  queue'[a][j] \in L
      OBVIOUS
    <3>1. \/ \E k \in 1 .. Len(queue[a]) : queue'[a][j] = queue[a][k]
          \/ \E k \in 1 .. Len(frames) : queue'[a][j] = frames[k]
      BY <1>9, <2>3, <2>7
    <3> QED
      BY <2>9, <3>1 DEF Sent
  <2> HIDE DEF new
  <2>11. \A x \in K : x.pkt # <<s, m>>
    <3> SUFFICES ASSUME NEW x \in K, x.pkt = <<s, m>> PROVE FALSE
      OBVIOUS
    <3>1. x.pkt[2] < packets[x.pkt[1]]
      BY DEF Sent
    <3> QED
      BY <1>1, <3>1
  <2>12. Sent(L)'
    <3>1. L \subseteq FrameType
      BY <1>4, <2>9, <2>8
    <3>2. ASSUME NEW x \in L
          PROVE  /\ x.size \in UipLen /\ frag_needed(x.size) /\ frag1_payload >= 0
                 /\ PlaceOf(x) \in Parts(x.size) /\ x.pkt[2] < packets'[x.pkt[1]]
      <4>1. CASE x \in K
        BY <1>5, <4>1 DEF Sent
      <4>2. CASE x \in new
        BY <1>1, <1>3, <1>11, <2>1, <2>8, <4>2
      <4> QED
        BY <2>9, <4>1, <4>2
    <3>3. ASSUME NEW x \in L, NEW y \in L, x.pkt = y.pkt PROVE x.size = y.size
      BY <2>9, <2>8, <2>11, <3>3 DEF Sent
    <3> QED
      BY <2>10, <3>1, <3>2, <3>3 DEF Sent
  <2>13. ASSUME Tagged(K) PROVE Tagged(L)'
    <3>1. t <= m
      BY <2>13 DEF Tagged
    <3>2. (t + 1) % TagSpace = t + 1
      BY <1>1, <1>2, <3>1
    <3>3. my_tag'[s] = t + 1 /\ \A a \in Sender : a # s => my_tag'[a] = my_tag[a]
      BY <2>3, <3>2 DEF SendInv
    <3>4. ASSUME NEW x \in L PROVE x.tag < my_tag'[x.pkt[1]]
      <4>1. CASE x \in K
        <5>1. x.tag < my_tag[x.pkt[1]] /\ x.tag \in Nat /\ x.pkt[1] \in Sender
          BY <1>4, <2>13, <4>1 DEF Tagged
        <5>2. CASE x.pkt[1] = s
          BY <1>1, <3>3, <5>1, <5>2
        <5>3. CASE x.pkt[1] # s
          BY <3>3, <5>1, <5>3
        <5> QED
          BY <5>2, <5>3
      <4>2. CASE x \in new
        BY <1>1, <2>8, <3>3, <4>2
      <4> QED
        BY <2>9, <4>1, <4>2
    <3>5. ASSUME NEW x \in L, NEW y \in L, x.pkt[1] = y.pkt[1], x.tag = y.tag PROVE x.pkt = y.pkt
      <4>1. \A z \in K : z.pkt[1] = s => z.tag # t
        <5> SUFFICES ASSUME NEW z \in K, z.pkt[1] = s, z.tag = t PROVE FALSE
          OBVIOUS
        <5>1. t < t
          BY <2>13 DEF Tagged
        <5> QED
          BY <1>1, <5>1
      <4>2. CASE x \in K /\ y \in K
        BY <2>13, <3>5, <4>2 DEF Tagged
      <4>3. CASE x \in new /\ y \in new
        BY <2>8, <4>3
      <4>4. CASE x \in new /\ y \in K
        BY <2>8, <3>5, <4>1, <4>4
      <4>5. CASE x \in K /\ y \in new
        BY <2>8, <3>5, <4>1, <4>5
      <4> QED
        BY <2>9, <4>2, <4>3, <4>4, <4>5
    <3>6. ASSUME NEW a \in Sender PROVE my_tag'[a] <= packets'[a] /\ packets'[a] <= MaxPackets
      <4>1. my_tag[a] <= packets[a] /\ packets[a] <= MaxPackets
        BY <2>13 DEF Tagged
      <4>2. CASE a = s
        BY <1>1, <1>2, <1>3, <3>1, <3>3, <4>2
      <4>3. CASE a # s
        BY <1>3, <3>3, <4>1, <4>3
      <4> QED
        BY <4>2, <4>3
    <3> QED
      BY <3>4, <3>5, <3>6 DEF Tagged
  <2> QED
    BY <2>9, <2>12, <2>13
<1> QED
  BY <1>10, <1>11

\* The MAC takes a frame from a queue.
LEMMA TakenSent ==
    ASSUME SendInv, NEW K, Sent(K), NEW s \in Sender, queue[s] # <<>>,
           queue' = [queue EXCEPT ![s] = Tail(@)], UNCHANGED packets
    PROVE  Sent(K)'
<1> DEFINE q == queue[s]
<1>1. q \in Seq(FrameType) /\ Len(q) \in Nat
  BY LenProperties DEF SendInv
<1>2. Len(Tail(q)) = Len(q) - 1 /\ \A j \in 1 .. Len(Tail(q)) : Tail(q)[j] = q[j + 1]
  BY <1>1, HeadTailProperties
<1>3. queue'[s] = Tail(q) /\ \A a \in Sender : a # s => queue'[a] = queue[a]
  BY DEF SendInv
<1>4. ASSUME NEW a \in Sender, NEW j \in 1 .. Len(queue'[a]), queue'[a][j].size > 0
      PROVE  queue'[a][j] \in K
  <2>1. CASE a = s
    <3>1. queue'[a] = Tail(q) /\ j \in 1 .. Len(Tail(q))
      BY <1>3, <1>4, <2>1
    <3>2. j + 1 \in 1 .. Len(q) /\ queue'[a][j] = q[j + 1]
      <4> DEFINE t == Tail(q)
      <4> HIDE DEF t, q
      <4>1. Len(t) = Len(q) - 1 /\ j \in 1 .. Len(t) /\ t[j] = q[j + 1] /\ queue'[a] = t
        BY <1>2, <3>1 DEF t
      <4>2. j \in 1 .. Len(q) - 1 /\ Len(q) \in Nat
        BY <1>1, <4>1
      <4>3. j + 1 \in 1 .. Len(q)
        BY <4>2
      <4> QED
        BY <4>1, <4>3
    <3> QED
      BY <1>4, <2>1, <3>2 DEF Sent
  <2>2. CASE a # s
    BY <1>3, <1>4, <2>2 DEF Sent
  <2> QED
    BY <2>1, <2>2
<1> QED
  BY <1>4 DEF Sent

\* All that is queued and all that was received was sent, and what was given to the IP layer
\* last is whole, or has an excuse.
WholeInv ==
    /\ restarts \in Nat
    /\ \E K : Sent(K) /\ Received(rx, K) /\ (restarts > 0 \/ Tagged(K))
    /\ WholeUnlessRepeated

\* At the start nothing was sent.
LEMMA WholeInit ==
    ASSUME Init
    PROVE  WholeInv
<1>1. /\ \A s \in Sender : queue[s] = <<>> /\ packets[s] = 0 /\ my_tag[s] = 0
      /\ restarts = 0 /\ up = NULL
  BY DEF Init
<1>2. MaxPackets \in Nat
  BY SicslowpanAssumption
<1>3. FreeContext.len = 0 /\ FreeBuffer.len = 0
  BY DEF FreeContext, FreeBuffer
<1>4. /\ \A i \in Context : ~(rx.info[i].len > 0)
      /\ \A b \in Buffer : ~(rx.buf[b].len > 0)
  BY <1>3 DEF Init
<1>5. Received(rx, {})
  BY <1>4 DEF Received
<1>6. Sent({})
  <2>1. \A s \in Sender : \A j \in 1 .. Len(queue[s]) : FALSE
    BY <1>1
  <2> QED
    BY <2>1 DEF Sent
<1>7. Tagged({})
  BY <1>1, <1>2 DEF Tagged
<1> QED
  BY <1>1, <1>5, <1>6, <1>7 DEF WholeInv, WholeUnlessRepeated

\* Every step keeps WholeInv.
LEMMA WholeNext ==
    ASSUME SendInv, RxInv, WholeInv, [Next]_vars
    PROVE  WholeInv'
<1>0. RxOK(rx)
  BY DEF RxInv
<1>1. PICK K : Sent(K) /\ Received(rx, K) /\ (restarts > 0 \/ Tagged(K))
  BY DEF WholeInv
<1>2. restarts \in Nat
  BY DEF WholeInv
<1>3. ASSUME UNCHANGED <<rx, restarts>>, up' = NULL, NEW L, K \subseteq L, Sent(L)',
             restarts > 0 \/ Tagged(L)'
      PROVE  WholeInv'
  <2>1. Received(rx, L)
    BY <1>1, <1>3 DEF Received
  <2>2. Received(rx, L)'
    BY <1>3, <2>1 DEF Received
  <2> QED
    BY <1>2, <1>3, <2>2 DEF WholeInv, WholeUnlessRepeated
<1>4. ASSUME NEW s \in Sender, queue[s] # <<>>, input(Head(queue[s])), UNCHANGED restarts,
             Sent(K)', Tagged(K) => Tagged(K)'
      PROVE  WholeInv'
  <2> DEFINE f == Head(queue[s])
  <2>1. queue[s] \in Seq(FrameType) /\ Len(queue[s]) \in Nat
    BY LenProperties DEF SendInv
  <2>2. f \in FrameType /\ f = queue[s][1] /\ 1 \in 1 .. Len(queue[s])
    BY <1>4, <2>1, HeadTailProperties
  <2>3. f.size > 0 => f \in K
    BY <1>1, <2>2 DEF Sent
  <2> HIDE DEF f
  <2>4. input(f)
    BY <1>4 DEF f
  <2>5. Received(rx', K) /\ (up' # NULL => Allowed(up', restarts > 0))
    BY <1>0, <1>1, <2>2, <2>3, <2>4, InputAllowed
  <2>6. Received(rx, K)'
    BY <2>5 DEF Received
  <2>7. WholeUnlessRepeated'
    BY <1>4, <2>5 DEF Allowed, WholeUnlessRepeated, Whole, Sources, Bytes
  <2> QED
    BY <1>1, <1>2, <1>4, <2>6, <2>7 DEF WholeInv
<1>5. ASSUME NEW s \in Sender, output(s) PROVE WholeInv'
  <2>1. UNCHANGED <<rx, restarts>> /\ up' = NULL
    BY <1>5 DEF output
  <2>2. PICK L : K \subseteq L /\ Sent(L)' /\ (restarts > 0 \/ Tagged(L)')
    BY <1>1, <1>5, OutputSent
  <2> QED
    BY <1>3, <2>1, <2>2
<1>6. ASSUME NEW s \in Sender, Transmit(s) PROVE WholeInv'
  <2>1. Sent(K)'
    BY <1>1, <1>6, TakenSent DEF Transmit
  <2>2. Tagged(K) => Tagged(K)'
    BY <1>6 DEF Transmit, Tagged
  <2> QED
    BY <1>4, <1>6, <2>1, <2>2 DEF Transmit
<1>7. ASSUME NEW s \in Sender, Lose(s) PROVE WholeInv'
  <2>1. Sent(K)'
    BY <1>1, <1>7, TakenSent DEF Lose
  <2>2. Tagged(K) => Tagged(K)'
    BY <1>7 DEF Lose, Tagged
  <2>3. UNCHANGED <<rx, restarts>> /\ up' = NULL
    BY <1>7 DEF Lose
  <2> QED
    BY <1>1, <1>3, <2>1, <2>2, <2>3
<1>8. ASSUME NEW s \in Sender, Duplicate(s) PROVE WholeInv'
  <2>1. Sent(K)'
    BY <1>1, <1>8 DEF Duplicate, sendVars, Sent
  <2>2. Tagged(K) => Tagged(K)'
    BY <1>8 DEF Duplicate, sendVars, Tagged
  <2> QED
    BY <1>4, <1>8, <2>1, <2>2 DEF Duplicate
<1>9. ASSUME NEW s \in Sender, Restart(s) PROVE WholeInv'
  <2>1. queue' = [queue EXCEPT ![s] = <<>>] /\ UNCHANGED <<packets, rx>> /\ up' = NULL
        /\ restarts' = restarts + 1
    BY <1>9 DEF Restart
  <2>2. queue'[s] = <<>> /\ \A a \in Sender : a # s => queue'[a] = queue[a]
    BY <2>1 DEF SendInv
  <2>3. \A a \in Sender : \A j \in 1 .. Len(queue'[a]) : queue'[a][j].size > 0 => queue'[a][j] \in K
    <3> SUFFICES ASSUME NEW a \in Sender, NEW j \in 1 .. Len(queue'[a]), queue'[a][j].size > 0
                 PROVE  queue'[a][j] \in K
      OBVIOUS
    <3>1. CASE a = s
      <4>1. Len(queue'[a]) = 0
        BY <2>2, <3>1
      <4> QED
        BY <4>1
    <3>2. CASE a # s
      BY <1>1, <2>2, <3>2 DEF Sent
    <3> QED
      BY <3>1, <3>2
  <2>4. Sent(K)'
    BY <1>1, <2>1, <2>3 DEF Sent
  <2>5. Received(rx, K)'
    BY <1>1, <2>1 DEF Received
  <2>6. restarts' \in Nat /\ restarts' > 0
    BY <1>2, <2>1
  <2> QED
    BY <2>1, <2>4, <2>5, <2>6 DEF WholeInv, WholeUnlessRepeated
<1>10. ASSUME NEW i \in Context, Expire(i) PROVE WholeInv'
  <2> DEFINE info == [rx.info[i] EXCEPT !.expired = TRUE]
  <2>1. rx \in RxType /\ rx.info[i] \in ContextType
    BY <1>0 DEF RxOK, RxType
  <2>2. /\ info.len = rx.info[i].len /\ info.tag = rx.info[i].tag
        /\ info.sender = rx.info[i].sender /\ info.first = rx.info[i].first
    BY <2>1 DEF ContextType
  <2>3. rx' = [rx EXCEPT !.info = [rx.info EXCEPT ![i] = info]]
    BY <1>10 DEF Expire
  <2> HIDE DEF info
  <2>4. rx'.info = [rx.info EXCEPT ![i] = info] /\ rx'.buf = rx.buf
    BY <2>1, <2>3 DEF RxType
  <2>5. \A j \in Context : /\ rx'.info[j].len = rx.info[j].len /\ rx'.info[j].tag = rx.info[j].tag
                           /\ rx'.info[j].sender = rx.info[j].sender
                           /\ rx'.info[j].first = rx.info[j].first
    BY <2>1, <2>2, <2>4 DEF RxType
  <2>6. \A b \in Buffer : rx.buf[b].len > 0 => rx.buf[b].index \in Context
    BY <1>0 DEF RxOK, Owned
  <2>7. \A j \in Context : rx'.info[j].len > 0 =>
           \E x \in K : x.off = 0 /\ From(x, rx'.info[j].first, rx'.info[j])
    BY <1>1, <2>5 DEF Received, From
  <2>8. \A b \in Buffer : rx'.buf[b].len > 0 =>
           \E x \in K : x.off > 0 /\ From(x, rx'.buf[b], rx'.info[rx'.buf[b].index])
    BY <1>1, <2>4, <2>5, <2>6 DEF Received, From
  <2>9. Received(rx, K)'
    BY <2>7, <2>8 DEF Received
  <2>10. UNCHANGED <<my_tag, queue, packets, restarts>> /\ up' = NULL
    BY <1>10 DEF Expire, sendVars
  <2>11. Sent(K)' /\ (Tagged(K) => Tagged(K)')
    BY <1>1, <2>10 DEF Sent, Tagged
  <2> QED
    BY <1>1, <1>2, <2>9, <2>10, <2>11 DEF WholeInv, WholeUnlessRepeated
<1>11. CASE UNCHANGED vars
  <2>1. UNCHANGED <<my_tag, queue, packets, rx, up, restarts>>
    BY <1>11 DEF vars, sendVars
  <2>2. Sent(K)' /\ Received(rx, K)' /\ (Tagged(K) => Tagged(K)')
    BY <1>1, <2>1 DEF Sent, Received, Tagged
  <2>3. WholeUnlessRepeated'
    BY <2>1 DEF WholeInv, WholeUnlessRepeated, Whole, Sources, Bytes
  <2> QED
    BY <1>1, <1>2, <2>1, <2>2, <2>3 DEF WholeInv
<1> QED
  BY <1>5, <1>6, <1>7, <1>8, <1>9, <1>10, <1>11 DEF Next

\* For packets and frames of any lengths, any number of senders, contexts and buffers, and
\* however fragments are lost, repeated, timed out and interleaved: input, which only counts
\* bytes, gives the IP layer whole packets, unless a fragment was received twice, and parts of
\* one packet, unless its sender has restarted and used the tag again.  SicslowpanAssumption
\* excludes that my_tag comes round, which has the same effect as a restart.
THEOREM ReassemblyWholeUnlessRepeated == Spec => []WholeUnlessRepeated
<1>1. WholeInv => WholeUnlessRepeated
  BY DEF WholeInv
<1> QED
  BY <1>1, WholeInit, WholeNext, SendInvariant, RxInvariant, PTL DEF Spec
=============================================================================
