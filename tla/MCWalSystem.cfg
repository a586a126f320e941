CONSTANTS
    pa = pa
    pb = pb
    i0 = i0
    i1 = i1
    i2 = i2
    NP = NP
    NI = NI
    Pages <- MCPages
    Images <- MCImages
    NoPage <- NP
    NoImg <- NI
    Img0 = i0
    InuseMod = 4
    Threshold = 1
    MaxTxn = 3
    MaxLsn = 6
SPECIFICATION SSpec
INVARIANTS
    InuseCountsHolders
    JournaledLogged
    SysCountersMatchLog
PROPERTIES
    RecoveredOnlyCommitted
    RecoveryIdempotent
