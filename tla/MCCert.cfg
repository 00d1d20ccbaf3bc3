\* Several renewals, failing attempts, crashes; and two drones that answer
\* challenges under one name, with the times of the code in units of 5 seconds.
SPECIFICATION MCSpec
CONSTANTS
    Lifetime = 5
    Margin = 2
    BootAttempts = 5
    SameDir = TRUE
    MaxChain = 2
    MaxIssues = 4
    MaxCrashes = 2
    MaxWriteErrors = 1
    Client = {c1, c2}
    TxtTtl = 12
    Polls = 3
    MaxCall = 1
    MaxTxtDelay = 2
    MaxLost = 1
    MaxAttempts = 2
INVARIANTS SettledPairMatches ExpiredMeansFailing
PROPERTY StoredValueIsFound
