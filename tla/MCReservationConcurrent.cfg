SPECIFICATION Spec
CONSTANTS
    h1 = h1  h2 = h2  p1 = p1  p2 = p2  p3 = p3  v1 = v1  d1 = d1  e1 = e1
    NoOne = NoOne
    Handlers <- TwoHandlers
    Parents  <- ThreeParents
    Primary  = p1
    Vehicles <- OneVehicle
    Ports    = {}
    Partners = {}
    Rows <- AllOurs
    MaxIds = 3
    MaxFaults = 1
    MaxOps = 3
INVARIANTS
    ParentsSplitOneWay
PROPERTIES
    DeletedStaysDeleted
    ReopenedByStaleRead
