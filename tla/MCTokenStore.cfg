CONSTANTS
    Replica = {r1, r2}
    Token = {t1}
    Request = {q1, q2}
    ApiKey = ApiKey
    NoCredential = NoCredential
    TTL = 1
    MaxClock = 3
    Absent = Absent
SPECIFICATION FairSpec
INVARIANTS
    TypeOK
    DeliveredTokensKept
    NoSpuriousRejection
PROPERTIES
    AdmittedWithinTTL
    ImplementsLiveTokens
    LapsedTokensPurged
