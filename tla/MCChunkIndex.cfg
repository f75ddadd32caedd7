CONSTANTS
    a = a
    b = b
    c = c
    d = d
    zero = zero
    ZeroHash = zero
    MaxRunBytes = 4
    dup_key <- TruncatedKey
    Half = 8
    K = 3
    PerKey = 4
    Word = 4
    Powers <- PowersOfTwo
    Inputs <- SmallInputs
SPECIFICATION MCSpec
INVARIANTS
    TypeOK
    NoFalseNegative
    ProbesDistinct
    IndexExact
    GroupsInOrder
