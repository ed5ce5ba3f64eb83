CONSTANTS
    alice = alice
    bob = bob
    a1 = a1
    a2 = a2
    b1 = b1
    Users = {alice, bob}
    Sockets = {a1, a2, b1}
    Owner <- MCOwner
    MaxFaults = 2
SPECIFICATION LiveSpec
INVARIANTS
    PresenceExact
PROPERTIES
    OfflineEventually
