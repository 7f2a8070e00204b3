\* Two payments and a void of one invoice, and the worker that announces them; a request, and
\* the worker, may die.
SPECIFICATION NarrowSpec
CONSTANTS
    r1 = r1  r2 = r2  b1 = b1  i1 = i1  k1 = k1  k2 = k2  t1 = t1  e1 = e1  w1 = w1
    PayRequests = {r1, r2}
    VoidRequests = {v1}
    Businesses = {b1}
    Invoices = {i1}
    Keys = {k1, k2}
    Tokens = {t1}
    Endpoints = {e1}
    InitialEndpoints = {e1}
    InvoiceOwner <- MCInvoiceOwner
    EndpointOwner <- MCEndpointOwner
    PayInputs <- MCPayInputs
    VoidInputs <- MCVoidInputs
    MayAbort = {r1}
    UnrequestableEndpoints = {}
    Workers = {w1}
    BatchSize = 1
    AttemptLimit = 1
    RetryIntervals <- MCRetryIntervals
    Leases = {1}
    MaxFaults = 1
INVARIANT AcceptedIsTrue
PROPERTIES AllAnswered OutcomesAreAnnounced
