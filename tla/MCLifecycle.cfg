CONSTANTS
    Request = {q1, q2}
    HeadscaleCalls = 2
SPECIFICATION FairSpec
INVARIANTS
    TypeOK
    LostExchangeWaitedTwice
PROPERTIES
    DrainCostsNoAnswer
    SignalEndsProcess
    AbandonedHandlersEnd
