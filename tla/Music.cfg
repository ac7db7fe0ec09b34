\* Two play commands of up to two tracks each, one fault.
CONSTANTS
    Requests = {play1, play2}
    MaxTracks = 2
    MaxDispatchers = 4
    MaxFaults = 1
SPECIFICATION Spec
INVARIANTS OneConnection RegisteredIsLive ClosedHoldsNothing DonePlays
PROPERTIES KeepsSlot OrphanEnds
\* All commands are done and the last dispatcher has gone, or waits for good.
CHECK_DEADLOCK FALSE
