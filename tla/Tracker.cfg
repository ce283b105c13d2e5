CONSTANTS
    Ids = {a, b, c, d}
    Groups = {1, 2}
    MaxMatched = 2
SYMMETRY Peers
SPECIFICATION Spec
INVARIANTS
    CommittedIsReplicated
    VoteStandsAsCast
PROPERTIES
    DecidedStaysDecided
