SPECIFICATION Spec
CONSTANTS
    p1 = p1  p2 = p2  home = home  peer = peer  o1 = o1  o2 = o2  x = x  y = y  v = v  d = d
    Procs <- TwoProcs
    Admins <- TwoAdmins
    Own <- HomeOnly
    Uasls <- Ways
    AdminOf <- Who
    Vehicles <- Aircraft
    Ports <- Docks
    Asks <- Some
    MaxOps = 3
    MaxFaults = 1
INVARIANTS TypeOK OwnRoutable OwnStaysOwn AskedIsStored
PROPERTIES NothingForgotten
