\* Two torrents of the same name and two pieces in three files; any number of
\* runs and of damages.
CONSTANTS
    Torrents = {t, u}
    Junk = Junk
    None = None
    Torn = Torn
    Lengths <- MCLengths
    Ends <- MCEnds
    PieceLength = 3
    MaxServed = 2
SPECIFICATION Spec
INVARIANTS
    TypeOK
    OursOnDisk
    ServedIsRight
PROPERTIES
    OthersUntouched
    CompleteIsWhole
    NoRefetch
