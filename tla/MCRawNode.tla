----------------------------- MODULE MCRawNode ------------------------------
EXTENDS RawNodeInv

\* Payloads of two sizes, for the limit on uncommitted entries.
MCProposals == {[type |-> "normal", size |-> 2], [type |-> "conf", size |-> 1]}
=============================================================================
