SPECIFICATION Spec
CONSTANTS
    File <- MCFile
    Rule <- MCRule
    Context <- MCContext
    Path <- MCPath
    RootOf <- MCRoot
    NowPath = now
    Value <- MCValue
    Text <- MCText
    Size <- MCSize
    Epoch <- MCEpoch
    Glob <- MCGlob
    MaxPatternLen = 5
    Missing = Missing
    Malformed = Malformed
    Null = Null
    Absent = Absent
    LoadError = LoadError
    NoEvaluator = NoEvaluator
    residency = residency
    jurisdiction = jurisdiction
    query = query
    now = now
    bare = bare
    eu = eu
    us = us
    day1 = day1
    day9 = day9
    long = long
    none = none
    glob = glob
INVARIANTS
    PolicyTypeOK
    FileIsEnforced
    FiredIsTrace
CHECK_DEADLOCK FALSE
