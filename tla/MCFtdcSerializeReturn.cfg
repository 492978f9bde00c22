SPECIFICATION Spec
CONSTANTS
    FTDC_CONTENT_MAX_LENGTH = 5
    FieldHeader = 1
    Packages <- MCPackages
    Counts = {0, 1, 2, 3}
INVARIANT AllFieldsReturned
