SPECIFICATION Spec
CONSTANTS
    a1 = a1  a2 = a2  a3 = a3  r1 = r1  r2 = r2  r3 = r3  e1 = e1  e2 = e2
    s1 = s1  s2 = s2  x = x  y = y  z = z
    NoOne = NoOne
    Sections <- TwoSections
    Points <- ThreePoints
    PointIds <- SharedPoint
    Hours <- Clock
    Attempts <- TwoAttempts
    Requests <- TwoRequests
    RequestOf <- TwoOf
    Wants <- TwoWants
    Needs <- NoNeeds
    Partners = {}
    MaxFaults = 0
INVARIANTS
    NoDoubleBooking
