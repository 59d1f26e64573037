SPECIFICATION Spec
CONSTANTS
    Options <- OneSocket
    Addresses <- TwoAddresses
    Numbers = 2
    QueueBound = 2
INVARIANTS
    AliasFollows
PROPERTIES
    UnsentKept
    StopIsSeen
CHECK_DEADLOCK FALSE
