\* Three peers for one regular and one optimistic slot; three choke intervals
\* make an optimistic one, as in the code (10 s and 30 s).
CONSTANTS
    Ids <- ThreeIds
    NoId = NoId
    RegularSlots = 1
    OptimisticInterval = 3
    MaxRate = 1
SPECIFICATION Spec
INVARIANT UploadSlots
PROPERTY SlotsEarned
