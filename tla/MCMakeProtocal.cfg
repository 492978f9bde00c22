SPECIFICATION Spec
CONSTANTS
    Docs <- MCDocs
    IntMax <- MCIntMax
INVARIANTS
    TypeOK
    FinishedExact
    Unambiguous
    PackagesFitTids
PROPERTIES
    ReaderSeesOneDocument
