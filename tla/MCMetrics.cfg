SPECIFICATION MetricsSpec
CONSTANTS
    p1 = p1
    p2 = p2
    NoSeries = NoSeries
    NoCaller = NoCaller
    Callers <- MCCallers
    Work <- MCWork
    Labels = {"a", "b"}
    Bounds <- MCBounds
INVARIANTS
    NothingLost
    ScrapeTruthful
PROPERTIES
    CallsReturn
CHECK_DEADLOCK FALSE
