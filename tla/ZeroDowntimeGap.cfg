\* Two workers per container, no faults: the first worker that is ready takes
\* the keys of every range.
CONSTANTS
    NoEvent = NoEvent
    Ranges = {low, high}
    EventNames = {onMessage}
    Message = {}
    MaxDeploys = 2
    MaxFaults = 0
SPECIFICATION Spec
PROPERTIES NoServiceGap
\* The last container serves on and nothing is left to do within the bounds.
CHECK_DEADLOCK FALSE
