SPECIFICATION ConsoleSpec
CONSTANTS
    Width = 2
    MaxPorts = 2
    MaxType = 32
    VerboseLimit = 100
    HostText <- MCHost
    PortText <- MCPort
    MaxLines = 1
INVARIANTS
    FocusShown
    MarksShown
PROPERTIES
    AddedIsShown
    ImplementsFirewall
