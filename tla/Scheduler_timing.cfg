\* The timing constants of the code; two requests that block the loop in turn.
SPECIFICATION Spec
CONSTANTS
    Drone = {d1}
    Request = {r1, r2}
    Threshold = 5
    Period = 4
    RequestTimeout = 10
    MaxDrains = 0
    MaxCrashes = 1
    MaxRestarts = 1
    MaxInbox = 8
    Lossy = FALSE
    Prompt = TRUE
INVARIANT SteadyDroneIsCandidate
PROPERTY ClaimIsRecent
