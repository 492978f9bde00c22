SPECIFICATION Spec
CONSTANTS
    Packages <- MCPackages
    Fields <- MCFields
    Items <- MCItems
    Requests <- MCRequests
INVARIANTS
    OccurrencesKept
    ValuesSound
