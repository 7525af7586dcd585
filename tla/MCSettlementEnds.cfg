SPECIFICATION Spec
CONSTANTS
    r1 = r1
    r2 = r2
    g1 = g1
    g2 = g2
    Runs <- TwoRuns
    Groups <- OneGroup
    MaxDue = 1
    MaxStarts = 3
    MaxFaults = 2
    MaxChanges = 1
PROPERTY RunEnds
