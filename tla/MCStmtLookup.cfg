SPECIFICATION Spec
CONSTANTS
    k1 = k1
    k2 = k2
    k3 = k3
    v1 = v1
    v2 = v2
    Workers = {w1, w2}
    NoWorker = NoWorker
    Keys = {k1, k2, k3}
    NoKey = NoKey
    Values = {v1, v2, k1, 0}
    BaseTypes = {v1}
    Rows <- MCRows
    Offered <- AllLookups
    MaxCalls = 1
SYMMETRY Symmetry
INVARIANTS
    TypeOK
    IsolatedLookupCorrect
    CrashOnlyByInterference
