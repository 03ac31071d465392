\* One meeting with two sources, two uploads and a listener next to its job.
SPECIFICATION Spec
CONSTANTS
    Sources = {mic, speaker}
    Uploads = {u1, u2}
    Listeners = {g1}
    Worker = worker
    None = None
    Stores = {"local", "s3"}
    MaxVersions = 2
    MaxCrashes = 1

SYMMETRY Symmetry
INVARIANTS
    TypeOK
    FinishedIsWhole
    CopyIsFresh
    AckedIsStored
    PurgeLeavesNothing
