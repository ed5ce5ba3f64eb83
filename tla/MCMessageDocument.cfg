CONSTANTS
    alice = alice
    bob = bob
    r1 = r1
    r2 = r2
    r3 = r3
    r4 = r4
    Users = {alice, bob}
    Sender = alice
    Moderators = {bob}
    Requests = {r1, r2, r3, r4}
    Emojis = {"heart", "laugh"}
    Texts = {"hi", "hello"}
    Original = "hi"
    Tombstone = "deleted"
SPECIFICATION Spec
CHECK_DEADLOCK FALSE
SYMMETRY RequestSymmetry
INVARIANTS
    EventsTrue
    EditHistoryKept
PROPERTIES
    DeletionIsFinal
    OthersReactionsKept
    MarksSurvive
