CONSTANTS
    c1 = c1
    c2 = c2
    r1 = r1
    r2 = r2
    r3 = r3
    Client = {c1, c2}
    Rule = {r1, r2, r3}
    NoRule = NoRule
    FaultCode = {"Unavailable", "DeadlineExceeded", "Canceled", "Internal", "Unknown"}
    MaxFaults = 2
SYMMETRY Symmetry
SPECIFICATION Spec
INVARIANTS
    TypeOK
    TurnsKeepRules
