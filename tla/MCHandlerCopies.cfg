SPECIFICATION CopiesSpec
CONSTANTS
    s1 = s1
    s2 = s2
    s3 = s3
    Classes <- MCClasses
    Sessions = {s1, s2, s3}
INVARIANTS
    NothingLeft
    WholeUntilDropped
    AloneDefined
