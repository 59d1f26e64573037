\* Three contents of /etc: the defaults and two others, so that an old archive differs from
\* both the present settings and the defaults.
SPECIFICATION FairSpec
CONSTANTS
    Setting = {defaults, s1, s2}
    Default = defaults
    Mixed = mixed
    None = none
    Torn = torn
INVARIANTS
    CleanSaveSaves
PROPERTIES
    ImplementsStore
    CommandsEnd
