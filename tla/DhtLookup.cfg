\* Three nodes, one of which may be named under two ids, and all of them more than
\* once, in one reply too; two per round, buckets of one.
CONSTANTS
    Nodes <- SomeNodes
    Entries <- SomeEntries
    Bootstrap <- HostEntries
    PeerAddrs = {p1}
    BatchSize = 2
    MaxRounds = 3
    Want = 1
    K = 1
    Bucket <- OddAndEven
    Attempts = 3
    NoEntry = NoEntry
    Stranger = Stranger
    MaxNamed = 3
    MaxCopies = 2
    MaxBuffer = 4
SPECIFICATION Spec
INVARIANTS
    NobodyForgotten
    FewQueries
    FewStraysDoNoHarm
