CONSTANTS
    rsa = rsa
    ec = ec
    okp = okp
    Kid = {rsa, ec}
    KeyType <- MCKeyType
    JWT <- MCIssuerTokens
    Request = {q1, q2}
    CacheTTL = 2
    MaxFetch = 1
    MaxClock = 1
    Absent = Absent
SPECIFICATION Spec
INVARIANTS
    NotFoundMeansNotFetched
