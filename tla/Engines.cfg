\* Two processes at work on one folder, each of which may stop at any point.
SPECIFICATION Spec
CONSTANTS
    Procs = {p1, p2}
    Blocks = 2
    Inodes = {i1, i2, i3, i4}
    None = None
    Faults = {"stop", "disk"}
    MaxStarts = 3

SYMMETRY Symmetry
INVARIANTS
    AcceptedModelIsWhole
    MarkerTellsTheTruth
    ConversionLoads
CHECK_DEADLOCK FALSE
