CONSTANTS
    Device = {d1}
    MaxScore = 2
SPECIFICATION Spec
INVARIANTS
    TypeOK
    FreshGame
    VerdictIsFinal
    WaterOnlyForLoser
PROPERTY StopCompletes
