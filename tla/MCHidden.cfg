SPECIFICATION MCSpec

CONSTANTS
    Nul = Nul
    ReplacementCharacter <- MCReplacementCharacter
    Level <- MCLevel
    Definitions = {}
    Bullets <- MCBullets
    LinkTo <- MCLinkTo
    Slug <- MCSlug
    Suffix <- MCSuffix
    IdOf <- MCIdOf
    Titles <- NoTitles
    InitialTexts = {}
    ComposedTexts = {}
    Fragments <- MCFragments
    NewBodies <- NoBodies
    MaxPool = 1
    MaxEdits = 1
    Documents <- HiddenDocuments

PROPERTIES
    EditsOneEntry

CHECK_DEADLOCK FALSE
