\* Three peers, one regular slot: the others take the optimistic slot from
\* each other.
CONSTANTS
    Ids <- ThreeIds
    NoId = NoId
    RegularSlots = 1
    OptimisticInterval = 3
    MaxRate = 0
SPECIFICATION Spec
PROPERTY OptimisticSlotIsHeld
