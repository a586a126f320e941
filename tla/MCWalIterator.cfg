\* Threshold 1 rotates at every commit, so that MaxLsn 5 reaches two
\* rotations (begin/commit/checkpoint twice) before the log is walked.
CONSTANTS
    p1 = p1
    i1 = i1
    NP = NP
    NI = NI
    Pages <- MCPages
    Images <- MCImages
    NoPage <- NP
    NoImg <- NI
    Threshold = 1
    MaxTxn = 3
    MaxLsn = 5
SPECIFICATION ISpec
INVARIANTS
    IterTypeOK
    WalkIsNewestFirst
