SPECIFICATION Spec
CONSTANTS
    Ids = {a}
    Readers = {r1}
    TTL = 2
    MaxPuts = 1
    MaxWriteTicks = 1
    MaxReadTicks = 1
    MaxPending = 2
    MaxFaults = 0
INVARIANT MissIsNone
