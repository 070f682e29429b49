CONSTANTS
    u1 = u1
    u2 = u2
    UserId = {u1, u2}
    NameOf <- MCNameOf
    KeyId = {k1}
    TailnetNames = {"-", "alice", ""}
    Tailnet = {"-", "alice", ""}
    Request = {q1, q2}
    Absent = Absent
    RefusalCodes = {"Unauthenticated", "FailedPrecondition"}
    MaxFaults = 2
SPECIFICATION FairSpec
INVARIANTS
    TypeOK
    AnswersAreTrue
PROPERTIES
    NeverDeletedUsable
    OtherTailnetsUntouched
    DeletionConverges
