\* Three requests of two businesses, served by two processes that may restart; they
\* ask for every public id there is, and for the aliases of it.
SPECIFICATION Spec
CONSTANTS
    r1 = r1  r2 = r2  r3 = r3  b1 = b1  b2 = b2
    HalfSize = 4
    ExclusiveOr <- BitXor
    Multiplier = 3
    Base = 3
    Kinds = {"cus", "whe"}
    RoundKeys <- MCRoundKeys
    Requests = {r1, r2, r3}
    Businesses = {b1, b2}
    Processes = {p1, p2}
    Ids <- MCIds
    Below <- MCBelow
    Inputs <- MCInputs
SYMMETRY RequestSymmetry
INVARIANTS TypeOK PublicIdsNameOneResource LookupIsExact
PROPERTY ShownIsFound
