SPECIFICATION FairSpec
CONSTANTS
    ctx1 = ctx1
    ctx2 = ctx2
    NoContext = NoContext
    Contexts <- TwoContexts
    MaxSteps = 4
    RecursionLimit = 16
CHECK_DEADLOCK FALSE
INVARIANTS AgentInv NeverOverruns AnswerMatchesContext
PROPERTY AlwaysAnswers
