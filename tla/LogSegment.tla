----------------------------- MODULE LogSegment -----------------------------
(***************************************************************************)
(* A contiguous piece of a raft log.  The code keeps one as a Vec<Entry>   *)
(* next to the index of its first element (Unstable::offset, the index of  *)
(* MemStorageCore::entries[0]); here it is a record                        *)
(*     [lo, hi, ent]    ent a function from lo..hi to the entries          *)
(* which is empty exactly when hi = lo - 1.  An entry is                   *)
(*     [term, type, size]   type = "normal" or "conf", size = data.len()   *)
(* and its index is its position.                                          *)
(***************************************************************************)
EXTENDS Integers

Entry == [term : Nat, type : {"normal", "conf"}, size : Nat]

IsSegment(s) ==
    /\ s = [lo |-> s.lo, hi |-> s.hi, ent |-> s.ent]
    /\ s.lo \in Nat \ {0}
    /\ s.hi \in Nat
    /\ s.lo <= s.hi + 1
    /\ s.ent \in [s.lo..s.hi -> Entry]

IsEmpty(s) == s.hi < s.lo

Has(s, i) == s.lo <= i /\ i <= s.hi

\* An empty segment whose next entry has index i.
EmptyAt(i) == [lo |-> i, hi |-> i - 1, ent |-> [k \in i..(i-1) |-> k]]

\* The one-entry segment that holds e at index i.
Single(i, e) == [lo |-> i, hi |-> i, ent |-> [k \in i..i |-> e]]

\* s cut off before t.lo, then t.  Meant for s.lo <= t.lo <= s.hi + 1.
Splice(s, t) ==
    [lo  |-> s.lo,
     hi  |-> t.hi,
     ent |-> [k \in s.lo..t.hi |-> IF k < t.lo THEN s.ent[k] ELSE t.ent[k]]]

\* s without its entries below i.  Meant for s.lo <= i <= s.hi + 1.
From(s, i) == [lo |-> i, hi |-> s.hi, ent |-> [k \in i..s.hi |-> s.ent[k]]]

\* s and t hold the same entry at every index both have.
Agree(s, t) == \A i \in s.lo..s.hi : Has(t, i) => s.ent[i] = t.ent[i]
=============================================================================
