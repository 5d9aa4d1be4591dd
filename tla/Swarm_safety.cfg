\* Three addresses, room for two, two pieces that both may fetch at once.  The
\* files are damaged twice, so that run() is entered a second time with peers,
\* connectors and addresses left over, and a second failed check ends the
\* download.
CONSTANTS
    a1 = a1
    a2 = a2
    a3 = a3
    Addrs = {a1, a2, a3}
    Pieces <- TwoPieces
    NoJob = NoJob
    EndgameDup = 2
    MaxPeers = 2
    MaxEmptyRounds = 2
    MaxVerifyFailures = 2
    MaxRechecks = 1
    MaxDamage = 2
SYMMETRY Interchangeable
SPECIFICATION Spec
INVARIANTS
    TypeOK
    AvailabilityExact
    ActiveExact
    JobsMissing
    WorkConserving
    PeerLimitWithUniqueIds
    Advertised
    DownloadedExact
    GivesUpHonestly
PROPERTY
    ImplementsDownloader
