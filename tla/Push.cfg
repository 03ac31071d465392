\* One task, two pushes at once, any mix of faults.
SPECIFICATION Spec
CONSTANTS
    Tasks = {t1}
    Pushes = {p1, p2}
    None = None
    Faults = {"unreached", "lost", "hidden", "crash"}
    MaxAttempts = 2
    MaxVersion = 2
    MaxIssues = 2

SYMMETRY Symmetry
INVARIANTS
    TypeOK
    OneIssuePerTask
    SyncedIsTrue
    IssueInvariant
CHECK_DEADLOCK FALSE
