\* A double click on Process.
SPECIFICATION Spec
CONSTANTS
    Meetings = {m1}
    Tasks = {}
    Workers = {w1}
    Requests = {r1, r2}
    None = None
    MaxJobs = 2
    MaxAttempts = 2
    TrashDays = 0

INVARIANT OneActiveJob
