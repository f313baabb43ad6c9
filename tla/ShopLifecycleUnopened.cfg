SPECIFICATION LifeFairSpec
CONSTANTS
    PurgeRow = {1, 2, 3, 4}
    Purger = {r1}
    MaxAttempts = 2
    MaxUninstalls = 2
    MaxEvents = 2
    Crossings = {"unopened"}
PROPERTY
    GoneIsPurged
