\* Three pay requests and a void on two invoices of one business, the other business
\* asking for one of them; any request may fail.
SPECIFICATION RaceSpec
CONSTANTS
    r1 = r1  r2 = r2  r3 = r3
    b1 = b1  b2 = b2  i1 = i1  i2 = i2
    k1 = k1  k2 = k2  t1 = t1  t2 = t2  e1 = e1  e2 = e2
    PayRequests = {r1, r2, r3}
    VoidRequests = {v1}
    Businesses = {b1, b2}
    Invoices = {i1, i2}
    Keys = {k1, k2}
    Tokens = {t1, t2}
    Endpoints = {e1, e2}
    InitialEndpoints = {e1}
    InvoiceOwner <- MCInvoiceOwner
    EndpointOwner <- MCEndpointOwner
    PayInputs <- AllInputs
    VoidInputs <- OwnVoid
    MayAbort = {r1, r2, r3}
SYMMETRY RequestSymmetry
INVARIANTS
    TypeOK NoDoubleCharge KeyChargesOnce ReplayAgrees AnswerIsTruthful
    PaidExactlyOnce OutboxMatchesAttempts TenantIsolation StuckIsDetected
PROPERTIES VoidIsTerminal ImplementsLedger
