CONSTANTS
    Nul = "nul"
    ReplacementCharacter <- MCReplacementCharacter
    Files <- MCFiles
    Texts <- MCTexts
    Targets <- MCTargets
    NoDocument = NoDocument
    MaxPool = 2
    MaxPatches = 4
    MaxWrites = 2
    MaxSaved = 1
    InlineTexts <- MCInlineTexts
SPECIFICATION MCSpec
INVARIANTS SurvivorsFollow RangesFollow RewrittenFollow Commute ResolverExact RoundTrip PruningExact
PROPERTIES NoLostUpdate
CHECK_DEADLOCK FALSE
