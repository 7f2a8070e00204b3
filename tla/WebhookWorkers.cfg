\* Two processes, two deliveries in one batch, one of them to an endpoint whose URL makes
\* no request, one crash or lost update.
SPECIFICATION Spec
CONSTANTS
    d1 = d1  d2 = d2  w1 = w1  w2 = w2  w3 = w3
    Deliveries = {d1, d2}
    Workers = {w1, w2}
    BatchSize = 2
    AttemptLimit = 3
    RetryIntervals <- FlatIntervals
    Unrequestable = {d2}
    Leases = {1}
    MaxFaults = 1
SYMMETRY WorkerSymmetry
INVARIANTS
    TypeOK ClaimsAreDistinct PostsAreCounted DeliveredWasAccepted ExhaustedWasTried
