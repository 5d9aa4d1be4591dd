\* Two tiers, of three trackers, one of them UDP, and of one.  A u32 has four
\* bits: the power of two saturates at 2 ^ 4 and the counter of failures one step
\* later; intervals may be 0.
CONSTANTS
    Tiers <- TwoTiers
    UdpTrackers = {"b"}
    MaxBackoff = 6
    Width = 4
    DefaultInterval = 3
    MaxFailures = 5
    Intervals = {0, 2}
    Replies <- MCReplies
    MaxDepth = 4
    Endpoints <- MCEndpoints
    Endpoints6 <- MCEndpoints6
    Ips = {40, 50}
SPECIFICATION FairSpec
PROPERTIES
    OutcomeIsTrue
    PausesGrow
    UpIsAnswering
