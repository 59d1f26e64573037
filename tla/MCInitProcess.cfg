\* Two daemons, and enough login children for both servers and every death that MaxStray
\* allows: Spawn is never out of process ids.
SPECIFICATION FairSpec
CONSTANTS
    Login = {l1, l2, l3, l4, l5}
    Daemon = {natd, dhclient}
    MaxStray = 2
CHECK_DEADLOCK FALSE
INVARIANTS
    LoginsAccounted
    NeverWaitsAlone
PROPERTY
    SessionReturns
