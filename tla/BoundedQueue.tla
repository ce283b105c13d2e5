---------------------------- MODULE BoundedQueue ----------------------------
(***************************************************************************)
(* What Inflights (tracker/inflights.rs) promises to a leader: a queue of  *)
(* the last indexes of the append messages on their way to one peer, with  *)
(* a limit that may change at any time.  A lower limit takes effect at     *)
(* once and drops nothing that is queued.                                  *)
(***************************************************************************)
EXTENDS Integers, Sequences

CONSTANTS Limit,    \* the limit to begin with
          Limits,   \* the limits it may be given
          Values    \* the indexes put into the queue

VARIABLES queue, limit

qvars == <<queue, limit>>

QInit == queue = <<>> /\ limit = Limit

Put(v) ==
    /\ Len(queue) < limit
    /\ queue' = Append(queue, v)
    /\ UNCHANGED limit

\* The longest prefix of n elements of which none exceeds v.
IsPrefixUpTo(n, v) ==
    /\ \A k \in 1..n : queue[k] <= v
    /\ n < Len(queue) => v < queue[n + 1]

TakeUpTo(v) ==
    /\ \E n \in 0..Len(queue) :
          /\ IsPrefixUpTo(n, v)
          /\ queue' = SubSeq(queue, n + 1, Len(queue))
    /\ UNCHANGED limit

Clear == queue' = <<>> /\ UNCHANGED limit

SetLimit(c) == limit' = c /\ UNCHANGED queue

QNext ==
    \/ \E v \in Values : Put(v) \/ TakeUpTo(v)
    \/ Clear
    \/ \E c \in Limits : SetLimit(c)

QSpec == QInit /\ [][QNext]_qvars
=============================================================================
