\* Two recordings, two uploads at once, an app that may be quit or killed.
SPECIFICATION Spec
CONSTANTS
    Dirs = {d1, d2}
    Threads = {t1, t2}
    Clicks = {r1, r2}
    None = None
    Modes = {"local", "remote"}
    MaxTurns = 2

SYMMETRY Symmetry
INVARIANTS
    TypeOK
    UploadedIsWhole
    RecordingIsLight
    SlotIsFreed

\* With the bounds used up the app waits for a user who does nothing more.
CHECK_DEADLOCK FALSE
