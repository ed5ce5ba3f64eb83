CONSTANTS
    Users = {u1, u2, u3}
    GroupOps = {r1, r2, r3}
    MaxVersion = 1
    MaxFaults = 1
SPECIFICATION GroupSpec
SYMMETRY Symmetry
CHECK_DEADLOCK FALSE
INVARIANTS
    GroupHasChat
    StrayAdminsExplained
PROPERTIES
    MembershipMerges
