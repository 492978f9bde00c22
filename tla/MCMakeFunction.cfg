SPECIFICATION Spec
CONSTANTS
    Docs <- MCDocs
    Broken <- MCBroken
INVARIANTS
    TypeOK
    FinishedExact
PROPERTIES
    ReaderSeesOneDocument
