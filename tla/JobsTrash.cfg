\* The trash with its retention sweep next to one request and one worker.
SPECIFICATION Spec
CONSTANTS
    Meetings = {m1}
    Tasks = {t1}
    Workers = {w1}
    Requests = {r1}
    None = None
    MaxJobs = 1
    MaxAttempts = 2
    TrashDays = 1

INVARIANT PurgedStaysEmpty
