CONSTANTS
    Buffer = {b1, b2}
    Nothing = nothing
    ImageSizes = {1, 3}
    NoticeTargets = {1, 2}
    DirectLimit = 2
SPECIFICATION FairSpec
INVARIANTS
    DfuTypeOK
    OnAirWhenAlone
    BuffersComeBack
    ReportIsRight
    NoticeOnTime
    SuccessMeansStored
PROPERTIES
    
    FinalIsAnswered
    NewAppStarts
