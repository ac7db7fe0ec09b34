\* Four reactions to two messages; create, delete and create again.
CONSTANTS
    Handlers = {h1, h2, h3, h4}
    Messages = {m1, m2}
    Commands = {c1, c2, c3}
    MaxFaults = 1
SPECIFICATION Spec
INVARIANTS SafeStays DoubleNeedsRace BoardAgrees
\* All reactions and commands are done.
CHECK_DEADLOCK FALSE
