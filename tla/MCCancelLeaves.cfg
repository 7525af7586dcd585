SPECIFICATION Spec
CONSTANTS
    h1 = h1  h2 = h2  p1 = p1  p2 = p2  p3 = p3  v1 = v1  d1 = d1  e1 = e1
    NoOne = NoOne
    Handlers <- OneHandler
    Parents  <- OneParent
    Primary  = p1
    Vehicles <- OneVehicle
    Ports    <- OnePort
    Partners <- OnePartner
    Rows <- FromPartner
    MaxIds = 2
    MaxFaults = 0
    MaxOps = 2
INVARIANTS
    CancelFreesAll
