CONSTANTS
    alice = alice
    bob = bob
    carol = carol
    a1 = a1
    b1 = b1
    Users = {alice, bob, carol}
    Sockets = {a1, b1}
    Owner <- MCOwner
    Sends = {s1}
    GroupOps = {r1}
    NoMessage = NoMessage
    NoUser = NoUser
    MaxVersion = 0
    MaxFaults = 1
SPECIFICATION GroupMessagingSpec
SYMMETRY Symmetry
CHECK_DEADLOCK FALSE
INVARIANTS
    SteadyMembersCounted
    PurgeIsFinal
    SteadyMembersReceive
    StoredUntilPurged
