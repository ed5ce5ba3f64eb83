CONSTANTS
    Texts = {"hi"}
    First = 1
    Limit = 1
    Window = 1
    Skew = 0
    Zone = 0
    MaxSends = 2
    MaxTime = 3
    MaxFaults = 2
SPECIFICATION Spec
CONSTRAINT TypingBound
INVARIANTS
    ShownOnce
    OptimisticReplaced
    HistoryFound
    TypingBacked
