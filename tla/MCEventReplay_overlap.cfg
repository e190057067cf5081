CONSTANTS
    k1 = k1
    k2 = k2
    v1 = v1
    none = none
    Keys <- MCKeys
    Vals <- MCVals
    NoVal = none
    MaxRev <- MCMaxRev
    MaxDeltas <- MCMaxDeltas
    DeltaChains <- MCDeltaChains
SPECIFICATION Spec
INVARIANT
    NoSpuriousFailure
