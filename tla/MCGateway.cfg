CONSTANTS
    Text = {"", " ", "a", "b"}
    Token = {"own", "other"}
    Own = "own"
    MaxForgets = 2
SPECIFICATION FairSpec
INVARIANTS
    TypeOK
    AccessIsProved
    TwoRefusalsMeanRevoked
PROPERTY
    RenewingClientServed
