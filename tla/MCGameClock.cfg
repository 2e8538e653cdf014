CONSTANTS
    Device = {d1}
    MaxScore = 1
    ClockWrap = 5
    CountTicks = 1
    GameTicks = 1
    WaterTicks = 1
    WatchdogTicks = 2
    AgeLimit = 5
SPECIFICATION MCSpec
INVARIANTS
    ClockTypeOK
    PhasesAreBounded
PROPERTIES
    PhasesRunTheirTime
    GamesEnd
