SPECIFICATION MCSpec

CONSTANTS
    Nul = Nul
    ReplacementCharacter <- MCReplacementCharacter
    Level <- MCLevel
    Definitions = {}
    Bullets <- MCBullets
    LinkTo <- MCLinkTo
    Slug <- MCSlug
    Suffix <- MCSuffix
    IdOf <- MCIdOf
    Titles <- MCTitles
    InitialTexts = {}
    ComposedTexts <- MCTexts
    Fragments <- MCFragments
    NewBodies <- MCBodies
    MaxPool = 2
    MaxEdits = 1
    Documents <- MCDocuments

INVARIANTS
    AnchorsLeast
    SyncedIsFresh
    ContinuityTruthful
    HeadingEditsLocal

PROPERTIES
    EditsOneEntry

CHECK_DEADLOCK FALSE
