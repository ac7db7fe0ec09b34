\* Up to three ranges, of one shard, of several, and with a shorter last one;
\* two faults.
CONSTANTS
    Totals = {1, 3, 5, 17}
    CoreCounts = {2, 4}
    MaxWorkers = 5
    MaxFaults = 2
SPECIFICATION Spec
INVARIANTS ShardsDisjoint
PROPERTIES AllHosted OneDownAllDown
\* All is launched and nothing happens, or all is down.
CHECK_DEADLOCK FALSE
