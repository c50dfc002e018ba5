SPECIFICATION Spec
CONSTANTS
    Nodes = {n1, n2, n3, n4}
    Room = {n5, n6, n7, n8}
    NULL = NULL
    DANGLING = DANGLING
    FREE = FREE
    BAD = BAD
    Names <- MCNames
    Texts <- MCTexts
    Keys <- MCKeys
    Values <- MCValues
    AttributeSets <- MCAttributeSets
    InitialLength = 8
    MaxHeld = 2
INVARIANTS RefsExact LinksTrue NoLeak ReadsTrue 
PROPERTIES DocumentSpec
CHECK_DEADLOCK FALSE
SYMMETRY Addresses
