----------------------------- MODULE MCElection -----------------------------
(* Constants and symmetry of the runs of Election.                         *)
EXTENDS Election, TLC

Settings(repairs, settings, terms, disrupts, asks) ==
    [repaired |-> repairs, config |-> settings, max_term |-> terms,
     max_disruptions |-> disrupts, transfers |-> asks, forgets |-> TRUE]

\* Crashes and overwritten logs need three terms; a candidate that meets a lease needs
\* four timers that run out.
Mended ==
    LET leases == {"pre_vote", "check_quorum"}
    IN  {Settings({"new_message", "send_term", "find_conflict"}, {}, 3, 3, TRUE),
         Settings(Defects, leases, 2, 3, TRUE), Settings(Defects, leases, 2, 4, FALSE)}

AsWritten == {Settings({}, {}, 2, 2, TRUE)}

\* Everything is mended but find_conflict.
Cut == {Settings(Defects \ {"find_conflict"}, {}, 4, 4, TRUE)}

Peers == Permutations(Server)
=============================================================================
