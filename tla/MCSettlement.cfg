SPECIFICATION Spec
CONSTANTS
    r1 = r1
    r2 = r2
    g1 = g1
    g2 = g2
    Runs <- TwoRuns
    Groups <- TwoGroups
    MaxDue = 1
    MaxStarts = 3
    MaxFaults = 1
    MaxChanges = 1
INVARIANTS TypeOK SubmittedWasPaid SuccessIsComplete SubmittedTotalWasCharged ChargesBounded
PROPERTIES SubmittedIsFinal
