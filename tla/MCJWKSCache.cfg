CONSTANTS
    rsa = rsa
    ec = ec
    okp = okp
    Kid = {rsa, okp}
    KeyType <- MCKeyType
    JWT <- MCTokens
    Request = {q1, q2}
    CacheTTL = 2
    MaxFetch = 1
    MaxClock = 4
    Absent = Absent
SPECIFICATION Spec
SYMMETRY Symmetry
INVARIANTS
    TypeOK
    WithdrawnKeysDie
    PublishedKeysFound
PROPERTY ServedKeysStay
