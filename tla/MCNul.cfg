CONSTANTS
    Nul = "nul"
    ReplacementCharacter <- MCReplacementCharacter
    Files <- NulFiles
    Texts <- NulTexts
    Targets <- NoTargets
    NoDocument = NoDocument
    MaxPool = 1
    MaxPatches = 1
    MaxWrites = 0
    MaxSaved = 0
    InlineTexts = {}
SPECIFICATION ParagraphSpec
INVARIANTS SurvivorsFollow
CHECK_DEADLOCK FALSE
