SPECIFICATION ItemSpec
CONSTANTS
    IntMax = 127
    WordMax = 127
    Places = 2
    MaxExp = 3
    FloatMax = 9999999
    MaxText = 3
    MaxLength = 4
    Items <- MCItems
    Texts <- MCTexts
    Tails <- MCTails
INVARIANTS
    FillsItsPlace
    ReadAsWritten
    NumberAsNamed
    FloatAsWritten
