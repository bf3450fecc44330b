SPECIFICATION MCSpec

CONSTANTS
    Nul = Nul
    ReplacementCharacter <- MCReplacementCharacter
    Level <- MCLevel
    Definitions = {}
    Bullets <- MCBullets
    LinkTo <- MCLinkTo
    Slug <- MCSlug
    Suffix <- MCSuffix
    IdOf <- MCIdOf
    Titles <- NoTitles
    InitialTexts <- TableTexts
    ComposedTexts = {}
    Fragments <- MCFragments
    NewBodies <- NoBodies
    MaxPool = 1
    MaxEdits = 1
    Documents = {}

INVARIANTS
    TablesFollow

CHECK_DEADLOCK FALSE
