\* Three requests; no map, a map of one entry, and one without a bound.
CONSTANTS
    Requests = {1, 2, 3}
    Default = Default
    None = None
    Shards = 2
    Sizes = {0, 1}
    Unbounded = Unbounded
    Timeout = 1
    MaxTime = 1
SPECIFICATION MCSpec
INVARIANTS OneInFlight SizeBound SomeoneRuns
PROPERTIES RecentStays
\* All requests are answered and the clock has stopped.
CHECK_DEADLOCK FALSE
