CONSTANTS
    Docs <- MCDocs
    Contents <- MCContents
    EntryChoices <- MCEntries
    LimitChoices <- MCLimits
    Other = Other
    Elsewhere = Other
    BadEntry = 7
    MaxEdits = 2
SPECIFICATION FairSpec
INVARIANTS TypeOK LoadedOnce WithinBudgets Closed ShortestDepth StaticAnswer
PROPERTIES ImplementsCrawl Returns
CHECK_DEADLOCK FALSE
