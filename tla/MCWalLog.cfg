CONSTANTS
    p1 = p1
    i1 = i1
    NP = NP
    NI = NI
    Pages <- MCPages
    Images <- MCImages
    NoPage <- NP
    NoImg <- NI
    Threshold = 1
    MaxTxn = 3
    MaxLsn = 6
SPECIFICATION Spec
INVARIANTS
    TypeOK
    LsnContiguous
    CountersMatchLog
    OpenTxnsRetained
PROPERTIES
    DropsOnlyCheckpointed
