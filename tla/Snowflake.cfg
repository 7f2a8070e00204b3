\* Two ids per millisecond, a clock of six milliseconds that starts before the epoch
\* and is set back once, and one restart of each process.
SPECIFICATION FairSpec
CONSTANTS
    g1 = g1  g2 = g2  c1 = c1  c2 = c2  c3 = c3
    Generators = {g1, g2}
    Callers = {c1, c2, c3}
    GeneratorOf <- MCGeneratorOf
    NodeId <- MCNodeId
    Nodes = 2
    SeqSize = 2
    Epoch = 2
    Start = 1
    LastCall = 3
    MaxClock = 5
    MaxCalls <- MCMaxCalls
    MaxStepsBack = 1
    MaxRestarts = 1
INVARIANTS TypeOK IdsAreUnique
PROPERTIES ImplementsIdSource EveryCallReturns
