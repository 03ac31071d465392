\* Two pushes that queue for the lock, any mix of faults.
SPECIFICATION FairSpec
CONSTANTS
    Tasks = {t1}
    Pushes = {p1, p2}
    None = None
    Faults = {"unreached", "lost", "hidden", "crash"}
    MaxAttempts = 2
    MaxVersion = 1
    MaxIssues = 1

PROPERTY EveryPushEnds
CHECK_DEADLOCK FALSE
