SPECIFICATION FairSpec
CONSTANTS
    Workers = {w1, w2}
    N = 3
    Window = 2
    MaxSignals = 1
INVARIANTS TypeOK LentOut LockHeld OutcomesReported SignalReported
PROPERTIES StopBoundary Ends
