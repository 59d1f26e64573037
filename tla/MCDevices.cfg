SPECIFICATION Spec
CONSTANTS
    Device = {lo0, ed0, ed1}
    Lo = lo0
    Word <- MCWord
    Empty = ""
    Typed <- MCTyped
    Default <- MCDefault
    Leased = "lease"
    Router = "router"
    Class = "class"
    Quick <- MCQuick
    MaxRecords = 3
SYMMETRY Interchangeable
INVARIANTS
    TypeOK
    LoopbackFirst
    StaticInForce
    ExternalHasGateway
PROPERTIES
    RecordsStay
    BootRoutesThroughExternal
    BootStartsDhcp
