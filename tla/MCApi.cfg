CONSTANTS
    Users = {alice, root}
    Admins = {root}
    Nobody = Nobody
    Clients = {here}
    Requests = {r1, r2}
    Routes = {"nowhere", "googleLogin", "uploadMedia", "createReport", "resolveReport", "blockUser", "unblockUser", "banUser"}
    Limit <- MCLimit
    Window = 1
    MaxTime = 1
    MaxFaults = 1
SPECIFICATION Spec
CHECK_DEADLOCK FALSE
INVARIANTS
    RefusedLeavesNoTrace
    LimitHeld
PROPERTIES
    EffectsAuthorized
    WorkEnds
