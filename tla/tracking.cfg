SPECIFICATION Spec
CHECK_DEADLOCK FALSE
CONSTANTS
    c1 = c1
    c2 = c2
    c3 = c3
    Calls <- ThreeCalls
    Kinds = {"llm", "retrieval"}
    MaxWork = 2
SYMMETRY Alike
INVARIANTS TrackingInv OwnRunOnly FinishedRunsAreTrue RecordingGoesOn
