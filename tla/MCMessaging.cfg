CONSTANTS
    alice = alice
    bob = bob
    a1 = a1
    b1 = b1
    s1 = s1
    s2 = s2
    Users = {alice, bob}
    Sockets = {a1, b1}
    Owner <- MCOwner
    Sends = {s1, s2}
    NoMessage = NoMessage
    NoUser = NoUser
    MaxFaults = 1
SPECIFICATION LiveSpec
INVARIANTS
    AnnouncedIsRecorded
    LastMessageStored
    LastMessageNoRegress
    UnreadCountsBounded
    SteadyRecipientsReceive
PROPERTIES
    ImplementsChatLog
    SendsAreAnswered
