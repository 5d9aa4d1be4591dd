\* Ten scripts; bytes come two at a time at most.
CONSTANTS
    Bad = Bad
    MaxFrame = 1048576
    Scripts <- MCScripts
    MaxAvail = 2
    MaxInbox = 2
    MaxOutbox = 1
SPECIFICATION Spec
PROPERTIES
    ImplementsLink
    ReportsBack
    ThreadsEnd
