\* Three blocks, two in flight at once.  The clocks are shorter than the real ones, in
\* ticks of 15 s: requests time out after 2 (30 s), peers after 4 (6 in the code), and
\* an announce takes up to 6, longer than that, as with two dead UDP trackers.
CONSTANTS
    b1 = b1
    b2 = b2
    b3 = b3
    p1 = p1
    p2 = p2
    Blocks = {b1, b2, b3}
    Pieces = {p1, p2}
    NoJob = NoJob
    Depth = 2
    BlockTimeout = 2
    SnubTimeout = 4
    MaxVerifyFailures = 2
    MaxAnnounce = 6
SPECIFICATION FairSpec
INVARIANT Partition
PROPERTIES
    ListensBeforeDropping
    JobEnds
