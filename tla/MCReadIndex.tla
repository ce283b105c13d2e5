---------------------------- MODULE MCReadIndex ----------------------------
(* Constants and symmetry of the run of ReadIndex.                         *)
EXTENDS ReadIndex, TLC

TwoTerms(opt, twice, commits) ==
    [option |-> opt, repeats |-> twice, max_term |-> 2, max_commits |-> commits]

\* Requests that come twice have a smaller instance, and so has the lease.
MCScenarios ==
    {[option |-> "Safe", repeats |-> FALSE, max_term |-> 3, max_commits |-> 2],
     TwoTerms("Safe", TRUE, 1), TwoTerms("LeaseBased", FALSE, 2)}

Leases == {TwoTerms("LeaseBased", FALSE, 2)}

Same == Permutations(Server) \cup Permutations(Read)
=============================================================================
