\* Two workers; two of: two requests, a reload, faults.
CONSTANTS
    Worker = {w1, w2}
    Request = {r1, r2}
    Budget = 2
SPECIFICATION Spec
INVARIANTS OncePerRequest AloneIsExact NotIdentifiedTwice ReloadOnce
PROPERTIES TrafficEnds
\* All requests are shown and the relay is quiet.
CHECK_DEADLOCK FALSE
