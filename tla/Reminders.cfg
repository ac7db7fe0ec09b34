\* Three reminders, three faults.
CONSTANTS
    Reminders = {r1, r2, r3}
    MaxFaults = 3
SPECIFICATION RSpec
INVARIANTS Accounted
PROPERTIES DeliversOnce
\* All reminders are delivered or lost.
CHECK_DEADLOCK FALSE
