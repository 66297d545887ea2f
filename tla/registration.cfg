SPECIFICATION MCSpec
CONSTANTS
    Workers = {w1}
    Profiles = {p1, p2}
    Brands = {b1, b2}
    Campaigns = {c1, c2}
    Numbers = {n1, n2}
    Products = {v1, v2}
    MaxFaults = 1
    None = None
INVARIANTS
    ApprovedIsVetted
    
PROPERTIES
    PendingSettles
CHECK_DEADLOCK FALSE
