CONSTANTS
    Nul = "nul"
    ReplacementCharacter <- MCReplacementCharacter
    Level <- MCLevel
    Definitions = {}
    Bullets <- NoBullets
    LinkTo <- NoLinks
    InitialTexts = {}
    ComposedTexts <- OrphanTexts
    Fragments <- OrphanFragments
    NewBodies <- NoTexts
    MaxPool = 2
    MaxEdits = 1
SPECIFICATION Spec
INVARIANTS ChildrenArrive
CHECK_DEADLOCK FALSE
