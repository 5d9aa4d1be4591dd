\* The limit with no assumption on ids: one failed final check is enough.
CONSTANTS
    a1 = a1
    a2 = a2
    a3 = a3
    Addrs = {a1, a2, a3}
    Pieces <- OnePiece
    NoJob = NoJob
    EndgameDup = 2
    MaxPeers = 2
    MaxEmptyRounds = 2
    MaxVerifyFailures = 2
    MaxRechecks = 2
    MaxDamage = 1
SPECIFICATION Spec
INVARIANT PeerLimit
