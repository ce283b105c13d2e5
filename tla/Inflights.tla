----------------------------- MODULE Inflights ------------------------------
(***************************************************************************)
(* Inflights (tracker/inflights.rs): the ring buffer of the append         *)
(* messages on their way to one peer.  It is allocated on first use, freed *)
(* when the leader wants its memory back, and changes its capacity while   *)
(* it holds elements: a larger capacity takes effect at once, a smaller    *)
(* one waits in incoming_cap until the buffer is empty.                    *)
(*                                                                         *)
(* buffer is the Vec: it grows up to cap elements and keeps those that     *)
(* were freed.  Offsets into it begin at 0, as in the code.                *)
(***************************************************************************)
EXTENDS Integers, Sequences

CONSTANTS Cap,      \* Config::max_inflight_msgs
          Caps,     \* the capacities adjust_max_inflight_msgs may ask for
          Values    \* indexes of entries

ASSUME InflightsAssumption ==
    /\ Cap \in Nat
    /\ Caps \subseteq Nat
    /\ Values \subseteq Nat

VARIABLES start, count, buffer, cap, incoming_cap,
          allocated     \* buffer.capacity() > 0

vars == <<start, count, buffer, cap, incoming_cap, allocated>>

None == -1

Init ==
    /\ start = 0
    /\ count = 0
    /\ buffer = <<>>
    /\ cap = Cap
    /\ incoming_cap = None
    /\ allocated = (Cap > 0)

Full == count = cap \/ (incoming_cap # None /\ count >= incoming_cap)

\* Offset i after at most one turn.
Wrapped(i) == IF i >= cap THEN i - cap ELSE i

\* The k-th element, counted from 1, in the order they were added.
Element(k) == buffer[Wrapped(start + k - 1) + 1]

-----------------------------------------------------------------------------

Add(v) ==
    /\ ~Full
    /\ LET next == Wrapped(start + count)
       IN  buffer' = IF next = Len(buffer) THEN Append(buffer, v)
                     ELSE [buffer EXCEPT ![next + 1] = v]
    /\ count' = count + 1
    /\ allocated' = TRUE
    /\ UNCHANGED <<start, cap, incoming_cap>>

\* Mutant: one element too many is taken off the count.
FreeOneMore(n) ==
    /\ count' = count - n - 1
    /\ start' = Wrapped(start + n)
    /\ UNCHANGED <<buffer, cap, incoming_cap, allocated>>

\* free_to(v) frees n elements, and the capacity that was waiting takes effect
\* when none is left.
Free(n) ==
    /\ count' = count - n
    /\ incoming_cap' = IF n = count THEN None ELSE incoming_cap
    /\ IF n = count /\ incoming_cap # None
       THEN /\ start' = 0
            /\ cap' = incoming_cap
            /\ buffer' = <<>>
            /\ allocated' = (incoming_cap > 0)
       ELSE /\ start' = Wrapped(start + n)
            /\ UNCHANGED <<cap, buffer, allocated>>

FreeTo(v) ==
    /\ count > 0
    /\ Element(1) <= v
    /\ \E n \in 1..count :
          /\ \A k \in 1..n : Element(k) <= v
          /\ n < count => v < Element(n + 1)
          /\ Free(n)

FreeFirstOne == count > 0 /\ FreeTo(Element(1))

\* Mutant: the start is not reset.
ResetBufferOnly ==
    /\ count' = 0
    /\ buffer' = <<>>
    /\ allocated' = FALSE
    /\ cap' = IF incoming_cap = None THEN cap ELSE incoming_cap
    /\ incoming_cap' = None
    /\ UNCHANGED start

Reset ==
    /\ count' = 0
    /\ start' = 0
    /\ buffer' = <<>>
    /\ allocated' = FALSE
    /\ cap' = IF incoming_cap = None THEN cap ELSE incoming_cap
    /\ incoming_cap' = None

MaybeFreeBuffer ==
    /\ count = 0
    /\ start' = 0
    /\ buffer' = <<>>
    /\ allocated' = FALSE
    /\ UNCHANGED <<count, cap, incoming_cap>>

\* Mutant: the two parts of the buffer are swapped.
UnrolledSwapped ==
    SubSeq(buffer, 1, count - (cap - start)) \o SubSeq(buffer, start + 1, Len(buffer))

\* The elements of a buffer that has wrapped around, from its start.
Unrolled ==
    SubSeq(buffer, start + 1, Len(buffer)) \o SubSeq(buffer, 1, count - (cap - start))

GrowCap(c) ==
    /\ cap < c
    /\ cap' = c
    /\ incoming_cap' = None
    /\ IF start + count <= cap
       THEN UNCHANGED <<start, buffer, allocated>>
       ELSE start' = 0 /\ buffer' = Unrolled /\ allocated' = TRUE
    /\ UNCHANGED count

ShrinkEmpty(c) ==
    /\ count = 0
    /\ start' = 0
    /\ buffer' = <<>>
    /\ cap' = c
    /\ incoming_cap' = None
    /\ allocated' = (allocated /\ c > 0)
    /\ UNCHANGED count

ShrinkLater(c) ==
    /\ count > 0
    /\ incoming_cap' = c
    /\ UNCHANGED <<start, count, buffer, cap, allocated>>

KeepCap(c) ==
    /\ c = cap
    /\ incoming_cap' = None
    /\ UNCHANGED <<start, count, buffer, cap, allocated>>

SetCap(c) ==
    \/ GrowCap(c)
    \/ c < cap /\ (ShrinkEmpty(c) \/ ShrinkLater(c))
    \/ KeepCap(c)

Next ==
    \/ \E v \in Values : Add(v) \/ FreeTo(v)
    \/ FreeFirstOne
    \/ Reset
    \/ MaybeFreeBuffer
    \/ \E c \in Caps : SetCap(c)

Spec == Init /\ [][Next]_vars

-----------------------------------------------------------------------------

\* The type of every variable (struct Inflights, tracker/inflights.rs:5-19).
TypeOK ==
    /\ start \in Nat
    /\ count \in Nat
    /\ buffer \in Seq(Values)
    /\ cap \in Nat
    /\ incoming_cap \in Nat \cup {None}
    /\ allocated \in BOOLEAN

\* The debug_asserts of add on a buffer that is not allocated.
LazyAllocation ==
    ~allocated => start = 0 /\ count = 0 /\ buffer = <<>> /\ incoming_cap = None

\* add finds its place inside the Vec or at its end.
NextInBuffer == ~Full => Wrapped(start + count) <= Len(buffer)

\* Growing finds a Vec that is full if it has wrapped around (the debug_assert
\* of set_cap), and never asks for less than it has.
GrowsWell == (start + count > cap => Len(buffer) = cap) /\ Len(buffer) <= cap

\* Whatever add, free_to and set_cap are called for next, none of their
\* assertions fails and none of their indexes and differences is out of range,
\* after any history of capacities, wrap-arounds and freed buffers.
RingNoPanic ==
    /\ LazyAllocation
    /\ NextInBuffer
    /\ GrowsWell
    /\ \A k \in 1..count : Wrapped(start + k - 1) < Len(buffer)

\* The inductive invariant (see InflightsProofs): the elements begin at start,
\* and either lie in the Vec without a break or the Vec has grown to cap and
\* they go on at its front; a capacity waits only while there are elements.
RingLayout ==
    /\ TypeOK
    /\ LazyAllocation
    /\ count <= cap
    /\ start < cap \/ start = 0
    /\ Len(buffer) <= cap
    /\ IF start + count <= cap THEN start + count <= Len(buffer) ELSE Len(buffer) = cap
    /\ incoming_cap # None => count > 0 /\ incoming_cap < cap

\* The queue the buffer stands for, and its limit.
Elements == [k \in 1..count |-> Element(k)]
EffectiveCap == IF incoming_cap = None THEN cap ELSE incoming_cap

Q == INSTANCE BoundedQueue WITH
        Limit <- Cap, Limits <- Caps, queue <- Elements, limit <- EffectiveCap

\* The ring buffer is a bounded FIFO queue: through wrap-arounds, changes of
\* the capacity and reallocations no element is lost, changed or reordered,
\* and it is full exactly when the limit asked for last is reached.
ImplementsQueue == Q!QSpec
=============================================================================
