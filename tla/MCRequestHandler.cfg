SPECIFICATION Spec
CONSTANTS
    Workers = {w1, w2}
    Functions <- MCFunctions
    Response <- MCResponse
    Requests <- MCRequests
    Items <- MCItems
    Typed <- MCTyped
    Values = {1, 2}
    Null = Null
    NoValue = NoValue
    Tables <- MCTables
    StatusResults = {0, 1}
    MaxRequests = 2
INVARIANTS
    TypeOK
    AnswersOwnCall
    CalledOnce
    OnlyUnreadKills
PROPERTIES
    EveryRequestEnds
