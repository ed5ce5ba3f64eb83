CONSTANTS
    Identities = {alice, bob}
    Founders = {bob}
    NoIdentity = NoIdentity
    Phones = {phone}
    NoPhone = NoPhone
    Requests = {r1, r2, r3}
    MaxName = 1
    MaxTime = 1
    MaxFaults = 1
SPECIFICATION Spec
CHECK_DEADLOCK FALSE
INVARIANTS
    AccountsDistinct
    SessionsApart
    NoSessionAfterLogout
    BannedGetNothing
    PushesAccountedFor
PROPERTIES
    RequestsEnd
