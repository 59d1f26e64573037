SPECIFICATION Spec
CONSTANTS
    Device = {ed0, ed1}
    NoDev = NoDev
    Body <- MCBody
    Form <- MCForm
    Command <- MCCommand
    Raw <- MCRaw
    Refused <- MCRefused
    Flush <- MCFlush
    Cut <- MCCut
    Basic <- MCBasic
    MaxLines = 2
SYMMETRY Interchangeable
INVARIANTS
    TypeOK
    ChainIsScript
    DivertNamesNatDevice
PROPERTIES
    NatLeavesRules
    SaveThenImport
