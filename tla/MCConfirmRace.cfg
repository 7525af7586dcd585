SPECIFICATION Spec
CONSTANTS
    h1 = h1  h2 = h2  p1 = p1  p2 = p2  p3 = p3  v1 = v1  d1 = d1  e1 = e1
    NoOne = NoOne
    Handlers <- TwoHandlers
    Parents  <- OneParent
    Primary  = p1
    Vehicles <- OneVehicle
    Ports    = {}
    Partners = {}
    Rows <- AllOurs
    MaxIds = 2
    MaxFaults = 0
    MaxOps = 2
PROPERTIES
    OnlyPendingIsReserved
