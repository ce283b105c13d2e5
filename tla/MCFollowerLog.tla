--------------------------- MODULE MCFollowerLog ---------------------------
(* Bounds of the runs of FollowerLog.                                      *)
EXTENDS FollowerLog

\* Logs of three entries let persisted stand two above a conflict. Three terms let the
\* follower have entries of a later term than the leader's at that index, several in a
\* row, and let an entry be written, replaced and written again.
MCBounds == {[index |-> 3, term |-> 2, records |-> 2],
             [index |-> 3, term |-> 3, records |-> 0],
             [index |-> 2, term |-> 3, records |-> 2]}

Late == {[index |-> 2, term |-> 3, records |-> 3]}
Long == {[index |-> 3, term |-> 2, records |-> 2]}
=============================================================================
