\* One worker per container: three deployments, one fault, one gateway event.
CONSTANTS
    NoEvent = NoEvent
    Ranges = {low}
    EventNames = {onMessage, onReady}
    Message = {m1}
    MaxDeploys = 3
    MaxFaults = 1
SPECIFICATION Spec
INVARIANTS OneAnswer OwnedIsAnswered ClaimBeforeRelease UncheckedOwnsAll
PROPERTIES NoServiceGap HandoverCompletes KeepsOwner
\* The last container serves on and nothing is left to do within the bounds.
CHECK_DEADLOCK FALSE
