\* Two requests at once among two accounts at the provider and two addresses;
\* the first of them is a super admin of the settings.
SPECIFICATION Spec
CONSTANTS
    Users = {u1, u2}
    Subs = {a, b}
    Emails = {boss, ann}
    Requests = {r1, r2}
    None = None
    Superadmins = {boss}
    Allowed = {ann}
    MaxFlows = 2
    DesktopFlows = {2}
    Patches <- PatchBodies
    MaxSessions = 2
    MaxCodes = 1
    MaxOffs = 1

SYMMETRY Symmetry
INVARIANTS
    TypeOK
    SingleUse
    PersonKept
    OffEndsSessions
    AdminRemains
CHECK_DEADLOCK FALSE
