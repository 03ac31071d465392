\* Two meetings waiting, one worker that may crash at any time.
SPECIFICATION QueuedSpec
CONSTANTS
    Meetings = {m1, m2}
    Tasks = {}
    Workers = {w1}
    Requests = {}
    None = None
    MaxJobs = 2
    MaxAttempts = 2
    TrashDays = 0

PROPERTIES
    EveryJobEnds
    QueuedMeetingMoves
