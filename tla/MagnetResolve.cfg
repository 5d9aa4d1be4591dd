\* No limit, or one of four pauses: up to three rounds with pauses of 1, 2 and
\* 3.  Two of three peers have the metadata, a dictionary of two pieces, the last
\* one short; those out of reach may do anything.
CONSTANTS
    a1 = a1
    a2 = a2
    a3 = a3
    Addrs = {a1, a2, a3}
    NoPeer = NoPeer
    Holders = {a1, a2}
    PieceSize = 2
    Genuine <- MCGenuine
    MaxDepth = 3
    Payloads <- MCPayloads
    MaxSize = 4
    Budgets = {4}
    NoBudget = NoBudget
    MaxPause = 3
SPECIFICATION FairSpec
INVARIANTS
    TypeOK
    HonestPeerSuffices
    GivesUpHonestly
PROPERTIES
    SearchEnds
    HolderIsFound
