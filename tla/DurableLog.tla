----------------------------- MODULE DurableLog -----------------------------
(***************************************************************************)
(* What a raft group of one voter promises to the application: a log whose *)
(* entries, once decided, neither change nor disappear, not even in a      *)
(* crash; a state machine that takes exactly this log, entry by entry, in  *)
(* order and once; and read indexes that never go back and that cover all  *)
(* the state machine has already taken.                                    *)
(***************************************************************************)
EXTENDS Naturals, Sequences, SequencesExt

VARIABLES
    decided,   \* the decided entries
    taken,     \* how many of them the state machine has taken
    read       \* the highest read index given to a client

dvars == <<decided, taken, read>>

DInit == decided = <<>> /\ taken = 0 /\ read = 0

\* One or more entries are decided: with one voter, they are on its disk.
Decide ==
    /\ IsStrictPrefix(decided, decided')
    /\ UNCHANGED <<taken, read>>

Take ==
    /\ taken < Len(decided)
    /\ taken' = taken + 1
    /\ UNCHANGED <<decided, read>>

Read ==
    /\ read' \in read..Len(decided)
    /\ taken <= read'
    /\ UNCHANGED <<decided, taken>>

DNext == Decide \/ Take \/ Read

DSpec == DInit /\ [][DNext]_dvars
=============================================================================
