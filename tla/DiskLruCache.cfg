CONSTANTS
    Keys = {k1, k2}
    Clients = {c1, c2}
    Lengths = {1, 3}
    MaxSize = 2
    NoClient = NoClient
    Replayed = Replayed
    NoFile = NoFile
    Partial = Partial
    PartialLength = 1
    MaxEdits = 2
    MaxOpens = 3
SPECIFICATION Spec
INVARIANTS
    SizeAccounting
    JournalComplete
PROPERTIES
    NoPartialValue
    EditorNotDisplaced
    CleanupTrims
\* The run ends when the last opening was used up.
CHECK_DEADLOCK FALSE
