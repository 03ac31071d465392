\* One meeting, two requests at once, one worker that may crash at any time.
SPECIFICATION Spec
CONSTANTS
    Meetings = {m1}
    Tasks = {t1}
    Workers = {w1}
    Requests = {r1, r2}
    None = None
    MaxJobs = 2
    MaxAttempts = 2
    TrashDays = 0

SYMMETRY Symmetry
INVARIANTS
    TypeOK
    RunningJobHasWorker
    AttemptsBounded
    QueuedMeetingHasJob
    JobInvariant
    ReviewIsHonest
PROPERTY LifeSpec
