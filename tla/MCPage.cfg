CONSTANTS
    pa = pa
    pb = pb
    PageIds <- MCPageIds
    InuseMod = 4
SPECIFICATION PSpec
INVARIANTS
    PageTypeOK
    TypeIsLastSet
PROPERTIES
    OtherFlagsSurviveUndirty
