\* Lost messages, any delay; seconds shrunk.
SPECIFICATION FairSpec
CONSTANTS
    Drone = {d1}
    Request = {r1, r2}
    Threshold = 1
    Period = 1
    RequestTimeout = 1
    MaxDrains = 1
    MaxCrashes = 1
    MaxRestarts = 1
    MaxInbox = 1
    Lossy = TRUE
    Prompt = FALSE
INVARIANT ScheduledIsSpawned
PROPERTIES DrainTakesEffect RequestIsAnswered
