\* The six attempts of the code for one delivery: three processes, leases that the
\* two clocks make shorter or longer, two crashes or lost updates.
SPECIFICATION FairSpec
CONSTANTS
    d1 = d1  d2 = d2  w1 = w1  w2 = w2  w3 = w3
    Deliveries = {d1}
    Workers = {w1, w2, w3}
    BatchSize = 1
    AttemptLimit = 6
    RetryIntervals <- GrowingIntervals
    Unrequestable = {}
    Leases = {0, 1}
    MaxFaults = 2
INVARIANT AttemptsBounded
PROPERTY EventuallySettled
