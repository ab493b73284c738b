SPECIFICATION Spec
CONSTANTS
    Cap = 20
    Lens <- MCLens
    MaxMsgs = 4
INVARIANTS
    UnreadIntact
    UnreadCovered
PROPERTIES
    ImplementsChannel
    EventuallyTaken
