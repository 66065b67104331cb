SPECIFICATION Spec
CONSTANTS
    Runs = {r1}
    Cancels = {c1}
    Runners = {w1}
    MaxAttempts = 3
    Concurrency = 1
    MaxClaims = 3
    MaxFaults = 1
INVARIANTS VisibleMachine PromptOnce OutcomesAgree NoLeak CompletedIsClean
PROPERTIES CancelSticks
