CONSTANTS
    MaxEvents = 4
SPECIFICATION FairSpec
INVARIANTS
    GapTypeOK
    OneThingAtATime
    IdleIsIdle
    FaultsAreLate
    FlagsAgree
PROPERTIES
    ComesBack
