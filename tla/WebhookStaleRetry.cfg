\* Two processes and no fault at all: one is slower than its lease.
SPECIFICATION Spec
CONSTANTS
    d1 = d1  d2 = d2  w1 = w1  w2 = w2  w3 = w3
    Deliveries = {d1}
    Workers = {w1, w2}
    BatchSize = 1
    AttemptLimit = 6
    RetryIntervals <- GrowingIntervals
    Unrequestable = {}
    Leases = {1}
    MaxFaults = 0
PROPERTY DeliveredStays
