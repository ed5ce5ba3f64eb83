CONSTANTS
    Users = {alice, bob}
    NoUser = NoUser
    Lists = {pinnedBy, isMutedBy}
    Requests = {r1, r2}
    Limit = 1
    MaxChats = 3
    MaxVersion = 1
    MaxFaults = 1
SPECIFICATION Spec
CONSTRAINT ReadingBound
SYMMETRY Symmetry
CHECK_DEADLOCK FALSE
INVARIANTS
    PagingFindsUntouched
PROPERTIES
    OpenFindsChat
    OthersFlagsKept
    ToggleFlips
