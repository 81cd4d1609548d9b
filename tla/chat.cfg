SPECIFICATION Spec
CHECK_DEADLOCK FALSE
CONSTANTS
    t1 = t1
    t2 = t2
    t3 = t3
    s1 = s1
    Turns <- ThreeTurns
    Sessions = {s1}
    NoSession = NoSession
    BadSession = BadSession
    Stateless = Stateless
    NoKey = NoKey
    Max = 4
    InMemory = FALSE
    MayFail <- Everything
SYMMETRY Alike
INVARIANTS WholeTurns AnsweredTurnsStay SeesThePast InOrder ChatInv
