SPECIFICATION Spec
CONSTANTS
    r1 = r1
    r2 = r2
    g1 = g1
    g2 = g2
    Runs <- OneRun
    Groups <- OneGroup
    MaxDue = 1
    MaxStarts = 2
    MaxFaults = 1
    MaxChanges = 0
INVARIANT NoDoublePayment
