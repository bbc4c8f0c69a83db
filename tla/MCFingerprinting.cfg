SPECIFICATION HashSpec
CONSTANTS
    Base = 10
    Mod = 13
    Alphabets <- MCAlphabets
    MaxLength = 5
    MaxWindow = 3
    MaxStride = 3
INVARIANTS
    
    WindowsAreExact
    WindowIsFound
CHECK_DEADLOCK FALSE
