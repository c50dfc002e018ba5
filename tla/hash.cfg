SPECIFICATION Spec
CONSTANTS
    Keys = {"a", "b", "c", "d", "e"}
    Values = {v1, v2, v3, v4}
    NULL = NULL
    Length = 3
    HashKey <- HashThree
    Iterators = {i1, i2}
    MaxUsers = 2
INVARIANTS TableInv IteratorExact
PROPERTIES MapSpec
