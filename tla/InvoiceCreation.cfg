\* One request, every list of up to two items of a four-bit integer.
SPECIFICATION Spec
CONSTANTS
    r1 = r1  b1 = b1  b2 = b2  c1 = c1  c2 = c2  e1 = e1  e2 = e2  e3 = e3
    CreateRequests = {r1}
    Businesses = {b1, b2}
    Customers = {c1, c2}
    Endpoints = {e1, e2, e3}
    CustomerOwner <- MCCustomerOwner
    EndpointOwner <- MCEndpointOwner
    InitialEndpoints = {e1, e2}
    Half = 8
    CreateInputs <- MCCreateInputs
INVARIANTS
    TypeOK TotalsAreExact OverflowIsReal CreatedIsAnnounced TenantIsolation
    AnswersAreTruthful
