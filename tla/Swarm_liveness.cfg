\* Two addresses, the first perhaps a seed; two pieces, one job per piece: a
\* piece the other peer keeps is a piece the seed cannot be given.
CONSTANTS
    a1 = a1
    a2 = a2
    Seed = a1
    Addrs = {a1, a2}
    Pieces <- TwoPieces
    NoJob = NoJob
    EndgameDup = 1
    MaxPeers = 2
    MaxEmptyRounds = 2
    MaxVerifyFailures = 2
    MaxRechecks = 0
    MaxDamage = 0
SPECIFICATION SeedSpec
INVARIANT EndgameCap
PROPERTIES
    SeedFinishesUnlessDropped
    EndsWhenAlone
