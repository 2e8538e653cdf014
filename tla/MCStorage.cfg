CONSTANTS
    Empty = 3
    Default = 1
SPECIFICATION FairSpec
INVARIANTS
    StorageTypeOK
    OnlyErasureLoses
    StoredIsRead
PROPERTIES
    ImplementsValue
    StoresEnd
