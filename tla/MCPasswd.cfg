\* Two passwords besides the CD's, and room for one run that finds another's mpw.tmp and one
\* more after it.
SPECIFICATION Spec
CONSTANTS
    Password = {stock, p1, p2}
    Default = stock
    MaxEntries = 3
INVARIANTS
    CleanRunSets
    CleanRunArchived
