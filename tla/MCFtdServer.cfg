SPECIFICATION FairSpec
CONSTANTS
    Workers = {w1, w2, w3}
    Sessions = {s1, s2}
    NoSession = NoSession
INVARIANTS
    TypeOK
    AcceptChainSingle
    MembersExclusive
    RefsCountOwners
    ReadsOnConnected
PROPERTIES
    AcceptRearmed
    SignalEndsProcess
    BrokenConnectionFreed
