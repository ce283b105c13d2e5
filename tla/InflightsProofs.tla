--------------------------- MODULE InflightsProofs --------------------------
(***************************************************************************)
(* Inflights never panics and is a bounded FIFO queue, for every set of    *)
(* capacities and values.  Everything rests on RingLayout, which says      *)
(* where in the Vec the elements are; it has one lemma for each operation, *)
(* and so has the refinement.                                              *)
(***************************************************************************)
EXTENDS Inflights, SequenceTheorems, TLAPS

-----------------------------------------------------------------------------
\* The invariant

LEMMA InvInit == Init => RingLayout
BY InflightsAssumption DEF Init, RingLayout, TypeOK, LazyAllocation, None

LEMMA InvAdd ==
    ASSUME RingLayout, NEW v \in Values, Add(v)
    PROVE  RingLayout'
<1> USE DEF None
<1>1. TypeOK
  BY DEF RingLayout
<1> DEFINE next == Wrapped(start + count)
<1>2. next \in Nat /\ next <= Len(buffer) /\ next < cap /\ count < cap
  BY <1>1 DEF RingLayout, TypeOK, Add, Full, Wrapped
<1>3. CASE next = Len(buffer)
  <2>1. buffer' = Append(buffer, v)
    BY <1>3 DEF Add
  <2>2. buffer' \in Seq(Values) /\ Len(buffer') = Len(buffer) + 1
    BY <2>1, <1>1, AppendProperties DEF TypeOK
  <2> QED
    BY <1>1, <1>2, <1>3, <2>2 DEF RingLayout, TypeOK, Add, Full, Wrapped, LazyAllocation
<1>4. CASE next # Len(buffer)
  <2>1. buffer' = [buffer EXCEPT ![next + 1] = v]
    BY <1>4 DEF Add
  <2>2. next + 1 \in 1..Len(buffer)
    BY <1>1, <1>2, <1>4, LenProperties DEF TypeOK
  <2>3. buffer' \in Seq(Values) /\ Len(buffer') = Len(buffer)
    BY <2>1, <2>2, <1>1, ExceptSeq DEF TypeOK
  <2>4. IF start + (count + 1) <= cap THEN start + (count + 1) <= Len(buffer)
        ELSE Len(buffer) = cap
    BY <1>1, <1>2, <1>4 DEF RingLayout, TypeOK, Wrapped
  <2> QED
    BY <1>1, <1>2, <2>3, <2>4 DEF RingLayout, TypeOK, Add, LazyAllocation
<1> QED
  BY <1>3, <1>4

LEMMA InvFree ==
    ASSUME RingLayout, NEW n \in 1..count, Free(n)
    PROVE  RingLayout'
<1> USE DEF None
<1>1. TypeOK /\ n \in Nat /\ 1 <= n /\ n <= count
  BY DEF RingLayout, TypeOK
<1>2. CASE n = count /\ incoming_cap # None
  BY <1>1, <1>2, EmptySeq DEF RingLayout, TypeOK, Free, LazyAllocation
<1>3. CASE ~(n = count /\ incoming_cap # None)
  BY <1>1, <1>3 DEF RingLayout, TypeOK, Free, LazyAllocation, Wrapped
<1> QED
  BY <1>2, <1>3

LEMMA InvReset == ASSUME RingLayout, Reset PROVE RingLayout'
<1> USE DEF None
<1>1. TypeOK
  BY DEF RingLayout
<1>2. start' = 0 /\ count' = 0 /\ buffer' = <<>> /\ incoming_cap' = None
  BY DEF Reset
<1>3. cap' \in Nat /\ allocated' \in BOOLEAN
  BY <1>1 DEF Reset, TypeOK
<1>4. buffer' \in Seq(Values) /\ Len(buffer') = 0
  BY <1>2
<1> QED
  BY <1>2, <1>3, <1>4 DEF RingLayout, TypeOK, LazyAllocation

LEMMA InvMaybeFreeBuffer == ASSUME RingLayout, MaybeFreeBuffer PROVE RingLayout'
<1> USE DEF None
<1>1. TypeOK
  BY DEF RingLayout
<1>2. start' = 0 /\ count' = 0 /\ buffer' = <<>> /\ incoming_cap' = None
  BY DEF RingLayout, TypeOK, MaybeFreeBuffer
<1>3. cap' \in Nat /\ allocated' \in BOOLEAN
  BY <1>1 DEF MaybeFreeBuffer, TypeOK
<1>4. buffer' \in Seq(Values) /\ Len(buffer') = 0
  BY <1>2
<1> QED
  BY <1>2, <1>3, <1>4 DEF RingLayout, TypeOK, LazyAllocation

\* A buffer that has wrapped around, laid out from its start.
LEMMA UnrolledProperties ==
    ASSUME RingLayout, start + count > cap
    PROVE  /\ Unrolled \in Seq(Values)
           /\ Len(Unrolled) = count
           /\ \A k \in 1..count : Unrolled[k] = Element(k)
<1> DEFINE tail == SubSeq(buffer, start + 1, Len(buffer))
           front == SubSeq(buffer, 1, count - (cap - start))
<1>1. TypeOK /\ Len(buffer) = cap /\ start < cap /\ count <= cap
  BY DEF RingLayout, TypeOK
<1>2. /\ tail \in Seq(Values)
      /\ Len(tail) = cap - start
      /\ \A k \in 1..(cap - start) : tail[k] = buffer[start + k]
  <2> start + 1 \in Int /\ Len(buffer) \in Int
    BY <1>1 DEF TypeOK
  <2>1. \A k \in (start + 1)..Len(buffer) : buffer[k] \in Values
    BY <1>1, ElementOfSeq DEF TypeOK
  <2>2. /\ tail \in Seq(Values)
        /\ Len(tail) = IF start + 1 <= Len(buffer) THEN Len(buffer) - (start + 1) + 1 ELSE 0
        /\ \A k \in 1..(Len(buffer) - (start + 1) + 1) : tail[k] = buffer[start + 1 + k - 1]
    BY <2>1, SubSeqProperties
  <2> QED
    BY <1>1, <2>2 DEF TypeOK
<1>3. /\ front \in Seq(Values)
      /\ Len(front) = count - (cap - start)
      /\ \A k \in 1..(count - (cap - start)) : front[k] = buffer[k]
  <2> 1 \in Int /\ count - (cap - start) \in Int
    BY <1>1 DEF TypeOK
  <2>1. \A k \in 1..(count - (cap - start)) : buffer[k] \in Values
    BY <1>1, ElementOfSeq DEF TypeOK
  <2>2. /\ front \in Seq(Values)
        /\ Len(front) = IF 1 <= count - (cap - start)
                        THEN count - (cap - start) - 1 + 1 ELSE 0
        /\ \A k \in 1..(count - (cap - start) - 1 + 1) : front[k] = buffer[1 + k - 1]
    BY <2>1, SubSeqProperties
  <2> QED
    BY <1>1, <2>2 DEF TypeOK
<1>4. /\ Unrolled \in Seq(Values)
      /\ Len(Unrolled) = Len(tail) + Len(front)
      /\ \A k \in 1..(Len(tail) + Len(front)) :
            Unrolled[k] = IF k <= Len(tail) THEN tail[k] ELSE front[k - Len(tail)]
  BY <1>2, <1>3, ConcatProperties DEF Unrolled
<1>5. Len(tail) + Len(front) = count
  BY <1>1, <1>2, <1>3 DEF TypeOK
<1>6. ASSUME NEW k \in 1..count
      PROVE  Unrolled[k] = Element(k)
  <2>1. CASE k <= cap - start
    <3>1. Unrolled[k] = tail[k]
      BY <1>1, <1>2, <1>4, <1>5, <2>1 DEF TypeOK
    <3>2. tail[k] = buffer[start + k]
      BY <1>1, <1>2, <2>1 DEF TypeOK
    <3>3. Wrapped(start + k - 1) + 1 = start + k
      BY <1>1, <2>1 DEF TypeOK, Wrapped
    <3> QED
      BY <3>1, <3>2, <3>3 DEF Element
  <2>2. CASE k > cap - start
    <3>1. Unrolled[k] = front[k - (cap - start)]
      BY <1>1, <1>2, <1>4, <1>5, <2>2 DEF TypeOK
    <3>2. front[k - (cap - start)] = buffer[k - (cap - start)]
      BY <1>1, <1>3, <2>2 DEF TypeOK
    <3>3. Wrapped(start + k - 1) + 1 = k - (cap - start)
      BY <1>1, <2>2 DEF TypeOK, Wrapped
    <3> QED
      BY <3>1, <3>2, <3>3 DEF Element
  <2> QED
    BY <1>1, <2>1, <2>2 DEF TypeOK
<1> QED
  BY <1>4, <1>5, <1>6

LEMMA InvSetCap ==
    ASSUME RingLayout, NEW c \in Caps, SetCap(c)
    PROVE  RingLayout'
<1> USE DEF None
<1>1. TypeOK /\ c \in Nat
  BY InflightsAssumption DEF RingLayout
<1>2. CASE GrowCap(c) /\ start + count <= cap
  BY <1>1, <1>2 DEF RingLayout, TypeOK, GrowCap, LazyAllocation
<1>3. CASE GrowCap(c) /\ start + count > cap
  <2>1. buffer' = Unrolled /\ start' = 0 /\ allocated' = TRUE
    BY <1>1, <1>3 DEF GrowCap, TypeOK
  <2>2. buffer' \in Seq(Values) /\ Len(buffer') = count
    BY <1>3, <2>1, UnrolledProperties
  <2> QED
    BY <1>1, <1>3, <2>1, <2>2 DEF RingLayout, TypeOK, GrowCap, LazyAllocation
<1>4. CASE c < cap /\ ShrinkEmpty(c)
  BY <1>1, <1>4, EmptySeq DEF RingLayout, TypeOK, ShrinkEmpty, LazyAllocation
<1>5. CASE c < cap /\ ShrinkLater(c)
  BY <1>1, <1>5 DEF RingLayout, TypeOK, ShrinkLater, LazyAllocation
<1>6. CASE KeepCap(c)
  BY <1>1, <1>6 DEF RingLayout, TypeOK, KeepCap, LazyAllocation
<1>7. start + count <= cap \/ start + count > cap
  BY <1>1 DEF TypeOK
<1> QED
  BY <1>2, <1>3, <1>4, <1>5, <1>6, <1>7 DEF SetCap

LEMMA InvNext == RingLayout /\ [Next]_vars => RingLayout'
<1> SUFFICES ASSUME RingLayout, [Next]_vars PROVE RingLayout'
  OBVIOUS
<1>1. ASSUME NEW v \in Values, Add(v) PROVE RingLayout'
  BY <1>1, InvAdd
<1>2. ASSUME NEW v, FreeTo(v) PROVE RingLayout'
  BY <1>2, InvFree DEF FreeTo
<1>3. CASE FreeFirstOne
  BY <1>3, <1>2 DEF FreeFirstOne
<1>4. CASE Reset
  BY <1>4, InvReset
<1>5. CASE MaybeFreeBuffer
  BY <1>5, InvMaybeFreeBuffer
<1>6. ASSUME NEW c \in Caps, SetCap(c) PROVE RingLayout'
  BY <1>6, InvSetCap
<1>7. CASE UNCHANGED vars
  BY <1>7 DEF RingLayout, TypeOK, LazyAllocation, vars
<1> QED
  BY <1>1, <1>2, <1>3, <1>4, <1>5, <1>6, <1>7 DEF Next

\* The layout of the ring buffer holds whatever is done with it.
THEOREM InflightsInvariance == Spec => []RingLayout
<1>1. Init => RingLayout
  BY InvInit
<1>2. RingLayout /\ [Next]_vars => RingLayout'
  BY InvNext
<1> QED
  BY <1>1, <1>2, PTL DEF Spec

LEMMA InvNoPanic == RingLayout => RingNoPanic
<1> SUFFICES ASSUME RingLayout PROVE RingNoPanic
  OBVIOUS
<1>1. TypeOK
  BY DEF RingLayout
<1>2. LazyAllocation
  BY DEF RingLayout
<1>3. NextInBuffer
  BY <1>1 DEF RingLayout, TypeOK, NextInBuffer, Full, Wrapped
<1>4. GrowsWell
  BY <1>1 DEF RingLayout, TypeOK, GrowsWell
<1>5. \A k \in 1..count : Wrapped(start + k - 1) < Len(buffer)
  BY <1>1 DEF RingLayout, TypeOK, Wrapped
<1> QED
  BY <1>2, <1>3, <1>4, <1>5 DEF RingNoPanic

\* No assertion of add and set_cap fails and no index is out of range.
THEOREM InflightsPanicFreedom == Spec => []RingNoPanic
<1>1. RingLayout => RingNoPanic
  BY InvNoPanic
<1> QED
  BY <1>1, InflightsInvariance, PTL

-----------------------------------------------------------------------------
\* The refinement

\* Every element lies in the Vec; together they are a sequence.
LEMMA ElementsType ==
    ASSUME RingLayout
    PROVE  /\ Elements \in Seq(Values)
           /\ Len(Elements) = count
           /\ \A k \in 1..count : Elements[k] = Element(k)
<1>1. TypeOK
  BY DEF RingLayout
<1>2. ASSUME NEW k \in 1..count PROVE Element(k) \in Values
  <2>1. Wrapped(start + k - 1) + 1 \in 1..Len(buffer)
    BY <1>1 DEF RingLayout, TypeOK, Wrapped
  <2> QED
    BY <1>1, <2>1, ElementOfSeq DEF TypeOK, Element
<1>3. Elements \in [1..count -> Values]
  BY <1>2 DEF Elements
<1>4. count \in Nat
  BY <1>1 DEF TypeOK
<1>5. Elements \in Seq(Values)
  BY <1>3, <1>4, SeqDef
<1>6. Len(Elements) = count
  BY <1>3, <1>4, <1>5, LenProperties
<1> QED
  BY <1>5, <1>6 DEF Elements

\* A sequence is the function on its indexes.
LEMMA SeqIsFunction ==
    ASSUME NEW S, NEW s \in Seq(S)
    PROVE  s = [k \in 1..Len(s) |-> s[k]]
BY LenProperties

LEMMA RefineInit == Init => Q!QInit
<1> SUFFICES ASSUME Init PROVE Q!QInit
  OBVIOUS
<1>1. Elements = <<>>
  BY DEF Init, Elements
<1>2. EffectiveCap = Cap
  BY DEF Init, EffectiveCap
<1> QED
  BY <1>1, <1>2 DEF Q!QInit

LEMMA RefineAdd ==
    ASSUME RingLayout, NEW v \in Values, Add(v)
    PROVE  Q!Put(v)
<1> USE DEF None
<1>1. TypeOK /\ count < cap
  BY DEF RingLayout, TypeOK, Add, Full
<1>2. Len(Elements) < EffectiveCap
  BY <1>1, ElementsType DEF Add, Full, EffectiveCap, TypeOK
<1>3. UNCHANGED EffectiveCap
  BY DEF Add, EffectiveCap
<1> DEFINE next == Wrapped(start + count)
<1>4. next \in Nat /\ next <= Len(buffer)
  BY <1>1 DEF RingLayout, TypeOK, Wrapped
<1>5. /\ buffer'[next + 1] = v
      /\ \A i \in 1..Len(buffer) : i # next + 1 => buffer'[i] = buffer[i]
  <2>1. CASE next = Len(buffer)
    BY <2>1, <1>1, AppendProperties DEF Add, TypeOK
  <2>2. CASE next # Len(buffer)
    <3>1. buffer' = [buffer EXCEPT ![next + 1] = v]
      BY <2>2 DEF Add
    <3>2. next + 1 \in 1..Len(buffer)
      BY <1>1, <1>4, <2>2, LenProperties DEF TypeOK
    <3> QED
      BY <1>1, <3>1, <3>2, ExceptSeq DEF TypeOK
  <2> QED
    BY <2>1, <2>2
<1>6. Elements' = [k \in 1..(count + 1) |-> buffer'[Wrapped(start + k - 1) + 1]]
  BY DEF Elements, Element, Wrapped, Add
<1>7. ASSUME NEW k \in 1..(count + 1)
      PROVE  buffer'[Wrapped(start + k - 1) + 1] = Append(Elements, v)[k]
  <2>1. CASE k = count + 1
    <3>1. Wrapped(start + k - 1) = next
      BY <2>1, <1>1 DEF TypeOK
    <3>2. Append(Elements, v)[count + 1] = v
      BY ElementsType, AppendProperties
    <3> QED
      BY <2>1, <3>1, <3>2, <1>5
  <2>2. CASE k # count + 1
    <3>1. k \in 1..count
      BY <2>2, <1>1 DEF TypeOK
    <3>2. Wrapped(start + k - 1) + 1 \in 1..Len(buffer)
      BY <1>1, <3>1 DEF RingLayout, TypeOK, Wrapped
    <3>3. Wrapped(start + k - 1) + 1 # next + 1
      BY <1>1, <3>1 DEF RingLayout, TypeOK, Wrapped
    <3>4. Append(Elements, v)[k] = Element(k)
      BY <3>1, ElementsType, AppendProperties
    <3> QED
      BY <1>5, <3>2, <3>3, <3>4 DEF Element
  <2> QED
    BY <2>1, <2>2
<1>8. Append(Elements, v) = [k \in 1..(count + 1) |-> Append(Elements, v)[k]]
  <2>1. Append(Elements, v) \in Seq(Values) /\ Len(Append(Elements, v)) = count + 1
    BY ElementsType, AppendProperties
  <2> QED
    BY <2>1, SeqIsFunction
<1>9. Elements' = Append(Elements, v)
  BY <1>6, <1>7, <1>8, Zenon
<1> QED
  BY <1>2, <1>3, <1>9 DEF Q!Put

\* Freeing n elements takes the first n from the queue and keeps the limit.
LEMMA RefineFree ==
    ASSUME RingLayout, NEW n \in 1..count, Free(n)
    PROVE  /\ Elements' = SubSeq(Elements, n + 1, Len(Elements))
           /\ UNCHANGED EffectiveCap
<1> USE DEF None
<1>1. TypeOK /\ n \in Nat /\ 1 <= n /\ n <= count
  BY DEF RingLayout, TypeOK
<1>2. UNCHANGED EffectiveCap
  BY <1>1 DEF Free, EffectiveCap, RingLayout, TypeOK
<1> DEFINE rest == SubSeq(Elements, n + 1, Len(Elements))
<1>3. /\ rest \in Seq(Values)
      /\ Len(rest) = count - n
      /\ \A k \in 1..(count - n) : rest[k] = Element(n + k)
  <2>1. \A k \in (n + 1)..count : Elements[k] \in Values
    BY <1>1, ElementsType, ElementOfSeq DEF TypeOK
  <2>2. /\ rest \in Seq(Values)
        /\ Len(rest) = IF n + 1 <= count THEN count - (n + 1) + 1 ELSE 0
        /\ \A k \in 1..(count - (n + 1) + 1) : rest[k] = Elements[n + 1 + k - 1]
    BY <1>1, <2>1, ElementsType, SubSeqProperties DEF TypeOK
  <2>3. ASSUME NEW k \in 1..(count - n) PROVE rest[k] = Element(n + k)
    <3>1. n + 1 + k - 1 = n + k /\ n + k \in 1..count /\ k \in 1..(count - (n + 1) + 1)
      BY <1>1 DEF TypeOK
    <3> QED
      BY <2>2, <3>1, ElementsType
  <2>4. Len(rest) = count - n
    BY <1>1, <2>2 DEF TypeOK
  <2> HIDE DEF rest
  <2> QED
    BY <2>2, <2>3, <2>4
<1>4. rest = [k \in 1..(count - n) |-> Element(n + k)]
  BY <1>3, SeqIsFunction
<1>5. Elements' = [k \in 1..(count - n) |-> Element(k)']
  BY DEF Elements, Free
<1>6. ASSUME NEW k \in 1..(count - n)
      PROVE  Element(k)' = Element(n + k)
  <2>1. ~(n = count /\ incoming_cap # None)
    BY <1>1 DEF TypeOK
  <2>2. start' = Wrapped(start + n) /\ cap' = cap /\ buffer' = buffer
    BY <2>1 DEF Free
  <2>3. Element(k)' = buffer[Wrapped(Wrapped(start + n) + k - 1) + 1]
    BY <2>2 DEF Element, Wrapped
  <2>4. Wrapped(Wrapped(start + n) + k - 1) = Wrapped(start + (n + k) - 1)
    BY <1>1 DEF RingLayout, TypeOK, Wrapped
  <2> QED
    BY <2>3, <2>4 DEF Element
<1>7. Elements' = rest
  BY <1>4, <1>5, <1>6, Zenon
<1> QED
  BY <1>2, <1>7

LEMMA RefineFreeTo ==
    ASSUME RingLayout, NEW v, FreeTo(v)
    PROVE  Q!TakeUpTo(v)
<1>1. PICK n \in 1..count :
         /\ \A k \in 1..n : Element(k) <= v
         /\ n < count => v < Element(n + 1)
         /\ Free(n)
  BY DEF FreeTo
<1>2. count \in Nat /\ n \in 0..Len(Elements)
  BY ElementsType DEF RingLayout, TypeOK
<1>3. \A k \in 1..n : Elements[k] <= v
  BY <1>1, <1>2, ElementsType
<1>4. n < Len(Elements) => v < Elements[n + 1]
  BY <1>1, <1>2, ElementsType
<1>5. Elements' = SubSeq(Elements, n + 1, Len(Elements)) /\ UNCHANGED EffectiveCap
  BY <1>1, RefineFree
<1> QED
  BY <1>2, <1>3, <1>4, <1>5 DEF Q!TakeUpTo, Q!IsPrefixUpTo

LEMMA RefineEmpty ==
    ASSUME RingLayout, Reset \/ MaybeFreeBuffer
    PROVE  Elements' = <<>> /\ UNCHANGED EffectiveCap
<1>1. count' = 0
  BY DEF Reset, MaybeFreeBuffer
<1>2. Elements' = <<>>
  BY <1>1 DEF Elements
<1>3. UNCHANGED EffectiveCap
  BY DEF Reset, MaybeFreeBuffer, EffectiveCap
<1> QED
  BY <1>2, <1>3

LEMMA RefineSetCap ==
    ASSUME RingLayout, NEW c \in Caps, SetCap(c)
    PROVE  Q!SetLimit(c)
<1> USE DEF None
<1>1. TypeOK /\ c \in Nat
  BY InflightsAssumption DEF RingLayout
<1>2. EffectiveCap' = c
  BY <1>1 DEF SetCap, GrowCap, ShrinkEmpty, ShrinkLater, KeepCap, EffectiveCap
<1>3. count' = count
  BY DEF SetCap, GrowCap, ShrinkEmpty, ShrinkLater, KeepCap
<1>4. Elements' = [k \in 1..count |-> Element(k)']
  BY <1>3 DEF Elements
<1>5. ASSUME NEW k \in 1..count PROVE Element(k)' = Element(k)
  <2>1. CASE GrowCap(c) /\ start + count <= cap
    <3>1. start' = start /\ buffer' = buffer /\ cap' = c /\ cap < c
      BY <2>1 DEF GrowCap
    <3>2. ~(start + k - 1 >= c) /\ ~(start + k - 1 >= cap)
      BY <1>1, <2>1, <3>1 DEF TypeOK
    <3>3. Wrapped(start + k - 1)' = start + k - 1
      BY <3>1, <3>2 DEF Wrapped
    <3>4. Wrapped(start + k - 1) = start + k - 1
      BY <3>2 DEF Wrapped
    <3> QED
      BY <3>1, <3>3, <3>4, Zenon DEF Element
  <2>2. CASE GrowCap(c) /\ start + count > cap
    <3>1. start' = 0 /\ buffer' = Unrolled /\ cap' = c /\ cap < c
      BY <1>1, <2>2 DEF GrowCap, TypeOK
    <3>2. ~(0 + k - 1 >= c) /\ 0 + k - 1 + 1 = k
      BY <1>1, <3>1 DEF RingLayout, TypeOK
    <3>3. Wrapped(start + k - 1)' + 1 = k
      BY <3>1, <3>2 DEF Wrapped
    <3>4. Element(k)' = Unrolled[k]
      BY <3>1, <3>3, Zenon DEF Element
    <3> QED
      BY <2>2, <3>4, UnrolledProperties
  <2>3. CASE ShrinkEmpty(c)
    BY <2>3, <1>1 DEF ShrinkEmpty, TypeOK
  <2>4. CASE ShrinkLater(c) \/ KeepCap(c)
    BY <2>4 DEF ShrinkLater, KeepCap, Element, Wrapped
  <2>5. start + count <= cap \/ start + count > cap
    BY <1>1 DEF TypeOK
  <2> QED
    BY <2>1, <2>2, <2>3, <2>4, <2>5 DEF SetCap
<1>6. Elements' = Elements
  BY <1>4, <1>5, Zenon DEF Elements
<1> QED
  BY <1>2, <1>6 DEF Q!SetLimit

LEMMA RefineNext == RingLayout /\ [Next]_vars => [Q!QNext]_Q!qvars
<1> SUFFICES ASSUME RingLayout, [Next]_vars PROVE [Q!QNext]_Q!qvars
  OBVIOUS
<1>1. ASSUME NEW v \in Values, Add(v) PROVE Q!QNext
  BY <1>1, RefineAdd DEF Q!QNext
<1>2. ASSUME NEW v \in Values, FreeTo(v) PROVE Q!QNext
  BY <1>2, RefineFreeTo DEF Q!QNext
<1>3. CASE FreeFirstOne
  <2>1. TypeOK /\ 1 \in 1..count
    BY <1>3 DEF RingLayout, TypeOK, FreeFirstOne
  <2>2. Element(1) \in Values
    BY <2>1, ElementsType, ElementOfSeq
  <2> QED
    BY <1>3, <2>2, <1>2 DEF FreeFirstOne
<1>4. CASE Reset
  BY <1>4, RefineEmpty DEF Q!QNext, Q!Clear
<1>5. CASE MaybeFreeBuffer
  BY <1>5, RefineEmpty DEF Q!QNext, Q!Clear
<1>6. ASSUME NEW c \in Caps, SetCap(c) PROVE Q!QNext
  BY <1>6, RefineSetCap DEF Q!QNext
<1>7. CASE UNCHANGED vars
  BY <1>7 DEF vars, Q!qvars, Elements, Element, Wrapped, EffectiveCap
<1> QED
  BY <1>1, <1>2, <1>3, <1>4, <1>5, <1>6, <1>7 DEF Next

\* The ring buffer implements the bounded queue.
THEOREM InflightsRefinement == Spec => ImplementsQueue
<1>1. Init => Q!QInit
  BY RefineInit
<1>2. RingLayout /\ [Next]_vars => [Q!QNext]_Q!qvars
  BY RefineNext
<1> QED
  BY <1>1, <1>2, InflightsInvariance, PTL DEF Spec, ImplementsQueue, Q!QSpec
=============================================================================
