SPECIFICATION FairSpec
CONSTANTS
    Runs = {r1}
    Cancels = {c1}
    Runners = {w1, w2}
    MaxAttempts = 2
    Concurrency = 1
    MaxClaims = 4
    MaxFaults = 1
CONSTRAINT FaultOrCancel
PROPERTIES EveryCommandSettles EveryDrainEnds
