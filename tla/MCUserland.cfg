INIT MCInit
NEXT MCNext
CONSTANTS
    Bases = {"a", "b"}
    Parts <- MCParts
    GzipCommands <- MCGzipCommands
    GzipDisks <- MCGzipDisks
    PingOptions <- MCPingOptions
    DupCheck = 2
    SeqNumbers = 4
    MaxSent = 4
    MaxCopies = 2
    MaxNoise = 1
    PwdRuns = {1, 2}
    PwdCases <- MCPwdCases
    PwdCalls <- MCPwdCalls
    Sessions = {1, 2}
    Editor = 1
    Raw <- MCRaw
    RawQuoted <- MCRawQuoted
    HostText <- MCHostText
    PortText <- MCHostText
    EditorLines = 2
    AddressBits = 2
    PortSlots = 4
    IcmpTypes = 32
    LogLimit = 100
    NatdLines <- MCNatdLines
    NatdFiles <- MCNatdFiles
    NatdPorts = 16
    NatdService = 8
    RouteSessions <- MCRouteSessions
    RouteHosts <- MCRouteHosts
    RouteLinks <- MCRouteLinks
    RouteNear <- MCRouteNear
    RouteOthers <- MCRouteOthers
INVARIANTS
    GzipLossless
    TextsKept
    ListIsRule
    GrepSelects
    DdWrites
    KeepsRules
    DatabasesWhole
    PingCounts
    RedirectsAsTyped
    TarRestores
    Formats
    LabelsAsTyped
    RoutesAsTyped
CHECK_DEADLOCK FALSE
