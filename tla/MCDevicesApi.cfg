CONSTANTS
    NodeId = {n1}
    UserId = {u1}
    Request = {q1, q2}
    MaxFaults = 2
SPECIFICATION FairSpec
INVARIANTS
    TypeOK
    OnlyServerErrorsAreAmbiguous
PROPERTIES
    NotFoundMeansAbsent
    DeletionsEnd
