\* One payment and one void of the same open invoice.
SPECIFICATION Spec
CONSTANTS
    r1 = r1  r2 = r2  r3 = r3
    b1 = b1  b2 = b2  i1 = i1  i2 = i2
    k1 = k1  k2 = k2  t1 = t1  t2 = t2  e1 = e1  e2 = e2
    PayRequests = {r1}
    VoidRequests = {v1}
    Businesses = {b1}
    Invoices = {i1}
    Keys = {k1}
    Tokens = {t1}
    Endpoints = {}
    InitialEndpoints = {}
    InvoiceOwner <- MCInvoiceOwner
    EndpointOwner <- MCEndpointOwner
    PayInputs <- OneKeyInputs
    VoidInputs <- OwnVoid
    MayAbort = {}
PROPERTY PaidIsTerminal
