----------------------------- MODULE MCTracker ------------------------------
EXTENDS Tracker, TLC

\* Peers differ in nothing but their progress, group and vote.
Peers == Permutations(Ids)
=============================================================================
