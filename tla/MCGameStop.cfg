CONSTANTS
    Device = {d1}
    MaxScore = 2
SPECIFICATION Spec
PROPERTY StopIsKept
