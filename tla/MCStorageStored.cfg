CONSTANTS
    Empty = 3
    Default = 1
SPECIFICATION Spec
INVARIANTS
    StoredComesBack
