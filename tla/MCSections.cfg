CONSTANTS
    Nul = "nul"
    ReplacementCharacter <- MCReplacementCharacter
    Level <- MCLevel
    Definitions = {"R"}
    Bullets <- NoBullets
    LinkTo <- NoLinks
    InitialTexts <- MCTexts
    ComposedTexts <- PairTexts
    Fragments <- MCFragments
    NewBodies <- MCBodies
    MaxPool = 2
    MaxEdits = 2
SPECIFICATION Spec
INVARIANTS TargetsFound
PROPERTIES ImplementsOutline
CHECK_DEADLOCK FALSE
