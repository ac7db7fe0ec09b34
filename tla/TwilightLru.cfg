\* The same requests: two of them find the map of one entry full, and the first
\* removes the entry before the second looks for it.
CONSTANTS
    Requests = {1, 2, 3}
    Default = Default
    None = None
    Shards = 2
    Sizes = {1}
    Unbounded = Unbounded
    Timeout = 1
    MaxTime = 1
SPECIFICATION MCSpec
INVARIANTS NeverEmpty
CHECK_DEADLOCK FALSE
