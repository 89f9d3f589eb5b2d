--------------------------- MODULE RingBufProofs ---------------------------
(***************************************************************************)
(* For every legal buffer size, the ring buffer of os/lib/ringbuf.c keeps  *)
(* its invariant and implements the bounded queue of BoundedFifo.          *)
(***************************************************************************)
EXTENDS RingBuf, TLAPS

-----------------------------------------------------------------------------
(* Arithmetic of the two index registers.                                  *)

\* Advancing a pointer with "+ 1 & mask" adds one or wraps to 0.
LEMMA MaskSucc ==
    ASSUME NEW a \in Index
    PROVE  /\ Mask(a + 1) = IF a + 1 = Size THEN 0 ELSE a + 1
           /\ Mask(a + 1) \in Index
BY SizeAssumption DEF Mask, Index

\* "(put_ptr - get_ptr) & mask" is the distance from get_ptr to put_ptr.
LEMMA MaskDiff ==
    ASSUME NEW a \in Index, NEW b \in Index
    PROVE  /\ Mask(a - b) = IF a >= b THEN a - b ELSE a - b + Size
           /\ Mask(a - b) \in Index
BY SizeAssumption DEF Mask, Index

\* The slot of the i-th element, counted from get_ptr.
LEMMA MaskOffset ==
    ASSUME NEW a \in Index, NEW i \in 1 .. Size
    PROVE  /\ Mask(a + i - 1) = IF a + i - 1 < Size THEN a + i - 1
                                                   ELSE a + i - 1 - Size
           /\ Mask(a + i - 1) \in Index
BY SizeAssumption DEF Mask, Index


\* A put adds one element and a get takes one away.
LEMMA DistanceSteps ==
    ASSUME NEW p \in Index, NEW g \in Index
    PROVE  /\ Mask(p - g) \in Index
           /\ Mask(p - g) = 0 <=> p = g
           /\ Mask(p - g) < mask => Mask(Mask(p + 1) - g) = Mask(p - g) + 1
           /\ Mask(p - g) > 0 => Mask(p - Mask(g + 1)) = Mask(p - g) - 1
<1> DEFINE p1 == IF p + 1 = Size THEN 0 ELSE p + 1
           g1 == IF g + 1 = Size THEN 0 ELSE g + 1
<1>1. Mask(p + 1) = p1 /\ p1 \in Index /\ Mask(g + 1) = g1 /\ g1 \in Index
  BY MaskSucc
<1>2. Mask(p - g) = IF p >= g THEN p - g ELSE p - g + Size
  BY MaskDiff
<1>3. Mask(p1 - g) = IF p1 >= g THEN p1 - g ELSE p1 - g + Size
  BY <1>1, MaskDiff
<1>4. Mask(p - g1) = IF p >= g1 THEN p - g1 ELSE p - g1 + Size
  BY <1>1, MaskDiff
<1> QED
  BY <1>1, <1>2, <1>3, <1>4, SizeAssumption DEF Index, mask

-----------------------------------------------------------------------------
\* The pointers, the array and the locals keep their types, a producer past its
\* test still finds a free slot, and a consumer past its test still finds an
\* element that nobody overwrites (ringbuf_put, ringbuf_get).
THEOREM RingBufInv == Spec => []Inv
<1> USE DEF Inv, TypeOK, ringbuf_elements, TakenValueStable
<1>1. ringbuf_init => Inv
  BY SizeAssumption DEF ringbuf_init, Index
<1>2. Inv /\ [Next]_vars => Inv'
  <2> SUFFICES ASSUME Inv, [Next]_vars PROVE Inv'
    OBVIOUS
  <2> USE DEF producerVars, consumerVars
  <2>a. Mask(put_ptr - get_ptr) \in Index
    BY DistanceSteps
  <2>d. Mask(put_ptr - get_ptr) \in 0 .. mask /\ mask \in Int
    BY <2>a, SizeAssumption DEF Index, mask
  <2>1. CASE \E c \in Byte : PutCheck(c)
    BY <2>1, <2>d DEF PutCheck
  <2>2. CASE PutStore
    <3>1. getPc = "advance" => put_ptr # get_ptr
      BY DistanceSteps
    <3> QED
      BY <2>2, <3>1 DEF PutStore
  <2>3. CASE PutAdvance
    <3>1. put_ptr' \in Index
      BY <2>3, MaskSucc DEF PutAdvance
    <3>2. Mask(put_ptr' - get_ptr) = Mask(put_ptr - get_ptr) + 1
      BY <2>3, DistanceSteps DEF PutAdvance
    <3> QED
      BY <2>3, <3>1, <3>2, <2>d DEF PutAdvance
  <2>4. CASE GetCheck
    BY <2>4 DEF GetCheck
  <2>5. CASE GetLoad
    BY <2>5 DEF GetLoad
  <2>6. CASE GetAdvance
    <3>1. get_ptr' \in Index
      BY <2>6, MaskSucc DEF GetAdvance
    <3>2. Mask(put_ptr - get_ptr') = Mask(put_ptr - get_ptr) - 1
      BY <2>6, DistanceSteps DEF GetAdvance
    <3> QED
      BY <2>6, <3>1, <3>2, <2>d DEF GetAdvance
  <2>7. CASE UNCHANGED vars
    BY <2>7 DEF vars
  <2> QED
    BY <2>1, <2>2, <2>3, <2>4, <2>5, <2>6, <2>7 DEF Next
<1> QED
  BY <1>1, <1>2, PTL DEF Spec

\* While both functions are past their tests the buffer is neither empty nor full, so
\* ringbuf_put and ringbuf_get work on different slots, for every buffer size.
THEOREM RingBufSlotsDisjoint == Spec => []SlotsDisjoint
<1>1. Inv => SlotsDisjoint
  <2> SUFFICES ASSUME Inv, getPc # "idle" PROVE put_ptr # get_ptr
    BY DEF SlotsDisjoint
  <2>1. put_ptr \in Index /\ get_ptr \in Index /\ Mask(put_ptr - get_ptr) > 0
    BY DEF Inv, TypeOK, ringbuf_elements
  <2> QED
    BY <2>1, DistanceSteps
<1> QED
  BY <1>1, RingBufInv, PTL

-----------------------------------------------------------------------------
\* A sequence is the function of its elements.
LEMMA SeqIsFunction ==
    ASSUME NEW S, NEW s \in Seq(S)
    PROVE  s = [i \in 1 .. Len(s) |-> s[i]]
OBVIOUS

\* Contents is a sequence of ringbuf_elements bytes.
LEMMA ContentsSeq ==
    ASSUME TypeOK
    PROVE  /\ ringbuf_elements \in 0 .. mask
           /\ mask \in Nat
           /\ Contents \in Seq(Byte)
           /\ Len(Contents) = ringbuf_elements
           /\ \A i \in 1 .. ringbuf_elements :
                 Contents[i] = data[Mask(get_ptr + i - 1)]
<1>0. ringbuf_elements \in Index
  BY DistanceSteps DEF TypeOK, ringbuf_elements
<1>1. ringbuf_elements \in 0 .. mask /\ mask \in Nat /\ mask + 1 = Size
  BY <1>0, SizeAssumption DEF Index, mask
<1>2. \A i \in 1 .. ringbuf_elements : Mask(get_ptr + i - 1) \in Index
  BY <1>1, MaskOffset, SizeAssumption DEF TypeOK
<1>3. Contents \in [1 .. ringbuf_elements -> Byte]
  BY <1>2 DEF TypeOK, Contents
<1> QED
  BY <1>1, <1>3 DEF Contents

\* The slot that ringbuf_put writes lies just behind the last element, and an
\* element keeps its slot, one place nearer the front, when get_ptr advances.
LEMMA SlotOf ==
    ASSUME TypeOK
    PROVE  /\ \A i \in 1 .. ringbuf_elements : Mask(get_ptr + i - 1) # put_ptr
           /\ Mask(get_ptr + (ringbuf_elements + 1) - 1) = put_ptr
           /\ \A i \in 1 .. ringbuf_elements :
                 Mask(Mask(get_ptr + 1) + i - 1) = Mask(get_ptr + (i + 1) - 1)
<1> USE SizeAssumption DEF Index
<1>1. /\ put_ptr \in 0 .. Size - 1 /\ get_ptr \in 0 .. Size - 1
      /\ Size \in Nat \ {0}
  BY DEF TypeOK
<1>2. ringbuf_elements = IF put_ptr >= get_ptr THEN put_ptr - get_ptr
                                               ELSE put_ptr - get_ptr + Size
  BY <1>1, MaskDiff DEF ringbuf_elements
<1>3. ASSUME NEW i \in 1 .. ringbuf_elements
      PROVE  /\ Mask(get_ptr + i - 1) # put_ptr
             /\ Mask(Mask(get_ptr + 1) + i - 1) = Mask(get_ptr + (i + 1) - 1)
  <2>1. i \in 1 .. Size /\ i + 1 \in 1 .. Size
    BY <1>1, <1>2
  <2>2. Mask(get_ptr + i - 1) = IF get_ptr + i - 1 < Size
                                THEN get_ptr + i - 1
                                ELSE get_ptr + i - 1 - Size
    BY <1>1, <2>1, MaskOffset
  <2>3. Mask(get_ptr + (i + 1) - 1) = IF get_ptr + i < Size
                                      THEN get_ptr + i
                                      ELSE get_ptr + i - Size
    BY <1>1, <2>1, MaskOffset
  <2>4. /\ Mask(get_ptr + 1) \in Index
        /\ Mask(get_ptr + 1) = IF get_ptr + 1 = Size THEN 0 ELSE get_ptr + 1
    BY <1>1, MaskSucc
  <2>5. Mask(Mask(get_ptr + 1) + i - 1) =
          IF Mask(get_ptr + 1) + i - 1 < Size
          THEN Mask(get_ptr + 1) + i - 1
          ELSE Mask(get_ptr + 1) + i - 1 - Size
    BY <2>1, <2>4, MaskOffset
  <2> QED
    BY <1>1, <1>2, <2>1, <2>2, <2>3, <2>4, <2>5
<1>4. Mask(get_ptr + (ringbuf_elements + 1) - 1) = put_ptr
  <2> DEFINE last == ringbuf_elements + 1
  <2>1. last \in 1 .. Size
    BY <1>1, <1>2
  <2>2. Mask(get_ptr + last - 1) = IF get_ptr + last - 1 < Size
                                   THEN get_ptr + last - 1
                                   ELSE get_ptr + last - 1 - Size
    <3> HIDE DEF last
    <3> QED
      BY <1>1, <2>1, MaskOffset
  <2> QED
    BY <1>1, <1>2, <2>2
<1> QED
  BY <1>3, <1>4

\* ringbuf_put and ringbuf_get, interleaved at every access to the shared
\* fields, behave as an atomic bounded queue of Size - 1 elements.
THEOREM RingBufRefinesFifo == Spec => ImplementsFifo
<1>1. ringbuf_init => Fifo!FifoInit
  <2> SUFFICES ASSUME ringbuf_init PROVE Contents = <<>>
    BY DEF ringbuf_init, Fifo!FifoInit
  <2>1. TypeOK
    BY SizeAssumption DEF ringbuf_init, TypeOK, Index
  <2>2. ringbuf_elements = 0
    BY <2>1, DistanceSteps DEF ringbuf_init, ringbuf_elements, TypeOK
  <2> QED
    BY <2>1, <2>2, ContentsSeq
<1>2. Inv /\ Inv' /\ [Next]_vars => [Fifo!FifoNext]_(Fifo!fifoVars)
  <2> SUFFICES ASSUME Inv, Inv', [Next]_vars
               PROVE  Fifo!FifoNext \/ UNCHANGED <<Contents, putResult, getResult, got>>
    BY DEF Fifo!fifoVars
  <2> USE DEF producerVars, consumerVars
  <2>t. TypeOK /\ TypeOK'
    BY DEF Inv
  <2>c. /\ ringbuf_elements \in 0 .. mask
        /\ mask \in Nat
        /\ Contents \in Seq(Byte)
        /\ Len(Contents) = ringbuf_elements
        /\ \A i \in 1 .. ringbuf_elements :
              Contents[i] = data[Mask(get_ptr + i - 1)]
    BY <2>t, ContentsSeq
  <2>s. /\ \A i \in 1 .. ringbuf_elements : Mask(get_ptr + i - 1) # put_ptr
        /\ Mask(get_ptr + (ringbuf_elements + 1) - 1) = put_ptr
        /\ \A i \in 1 .. ringbuf_elements :
              Mask(Mask(get_ptr + 1) + i - 1) = Mask(get_ptr + (i + 1) - 1)
    BY <2>t, SlotOf
  <2>1. ASSUME NEW c \in Byte, PutCheck(c)
        PROVE  Fifo!FifoNext \/ UNCHANGED <<Contents, putResult, getResult, got>>
    <3>1. UNCHANGED Contents
      BY <2>1 DEF PutCheck, Contents, ringbuf_elements
    <3>2. CASE ringbuf_elements = mask
      BY <2>1, <2>c, <3>1, <3>2
      DEF PutCheck, Fifo!FifoNext, Fifo!PutRefused
    <3>3. CASE ringbuf_elements # mask
      BY <2>1, <3>1, <3>3 DEF PutCheck
    <3> QED
      BY <3>2, <3>3
  <2>2. CASE PutStore
    <3>1. UNCHANGED <<ringbuf_elements, get_ptr>>
      BY <2>2 DEF PutStore, ringbuf_elements
    <3>2. \A i \in 1 .. ringbuf_elements :
             /\ Mask(get_ptr + i - 1) \in Index
             /\ data'[Mask(get_ptr + i - 1)] = data[Mask(get_ptr + i - 1)]
      <4>1. \A i \in 1 .. ringbuf_elements : Mask(get_ptr + i - 1) \in Index
        BY <2>t, <2>c, MaskOffset, SizeAssumption DEF TypeOK, mask
      <4> QED
        BY <4>1, <2>s, <2>2, <2>t DEF PutStore, TypeOK
    <3>3. UNCHANGED Contents
      BY <3>1, <3>2 DEF Contents
    <3> QED
      BY <2>2, <3>3 DEF PutStore
  <2>3. CASE PutAdvance
    <3>1. /\ ringbuf_elements < mask
          /\ ringbuf_elements' = ringbuf_elements + 1
          /\ putArg = data[put_ptr]
      BY <2>3, <2>t, DistanceSteps DEF PutAdvance, Inv, TypeOK, ringbuf_elements
    <3>2. Contents' = [i \in 1 .. ringbuf_elements + 1 |->
                         data[Mask(get_ptr + i - 1)]]
      BY <2>3, <3>1 DEF PutAdvance, Contents
    <3>3. Contents' = Append(Contents, putArg)
      BY <2>c, <2>s, <3>1, <3>2
    <3>4. Fifo!Put(putArg)
      BY <2>3, <2>c, <3>1, <3>3 DEF PutAdvance, Fifo!Put
    <3> QED
      BY <3>4, <2>t DEF Fifo!FifoNext, TypeOK
  <2>4. CASE GetCheck
    <3>1. UNCHANGED Contents
      BY <2>4 DEF GetCheck, Contents, ringbuf_elements
    <3>2. CASE ringbuf_elements > 0
      BY <2>4, <3>1, <3>2 DEF GetCheck
    <3>3. CASE ~(ringbuf_elements > 0)
      <4>1. Contents = <<>>
        BY <2>c, <3>3
      <4> QED
        BY <2>4, <3>1, <3>3, <4>1 DEF GetCheck, Fifo!FifoNext, Fifo!GetRefused
    <3> QED
      BY <3>2, <3>3
  <2>5. CASE GetLoad
    BY <2>5 DEF GetLoad, Contents, ringbuf_elements
  <2>6. CASE GetAdvance
    <3>1. /\ ringbuf_elements > 0
          /\ ringbuf_elements' = ringbuf_elements - 1
          /\ getLocal = data[get_ptr]
      BY <2>6, <2>t, DistanceSteps
      DEF GetAdvance, Inv, TypeOK, ringbuf_elements, TakenValueStable
    <3>2. Contents' = [i \in 1 .. ringbuf_elements - 1 |->
                         data[Mask(Mask(get_ptr + 1) + i - 1)]]
      BY <2>6, <3>1 DEF GetAdvance, Contents
    <3>3. Contents' = Tail(Contents)
      <4>1. /\ Tail(Contents) \in Seq(Byte)
            /\ Len(Tail(Contents)) = ringbuf_elements - 1
            /\ \A i \in 1 .. ringbuf_elements - 1 :
                  Tail(Contents)[i] = Contents[i + 1]
        BY <2>c, <3>1
      <4>2. \A i \in 1 .. ringbuf_elements - 1 :
               Contents[i + 1] = data[Mask(Mask(get_ptr + 1) + i - 1)]
        BY <2>c, <2>s
      <4>3. Tail(Contents) = [i \in 1 .. Len(Tail(Contents)) |-> Tail(Contents)[i]]
        BY <4>1, SeqIsFunction
      <4> QED
        BY <3>2, <4>1, <4>2, <4>3
    <3>4. Head(Contents) = getLocal /\ Contents # <<>>
      <4>1. Mask(get_ptr + 1 - 1) = get_ptr
        BY <2>t, SizeAssumption DEF TypeOK, Index, Mask
      <4> QED
        BY <2>c, <3>1, <4>1
    <3> QED
      BY <2>6, <3>3, <3>4 DEF GetAdvance, Fifo!FifoNext, Fifo!Get
  <2>7. CASE UNCHANGED vars
    BY <2>7 DEF vars, Contents, ringbuf_elements
  <2> QED
    BY <2>1, <2>2, <2>3, <2>4, <2>5, <2>6, <2>7 DEF Next
<1> QED
  BY <1>1, <1>2, RingBufInv, PTL DEF Spec, ImplementsFifo, Fifo!FifoSpec
=============================================================================
