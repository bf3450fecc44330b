CONSTANTS
    Nul = "nul"
    ReplacementCharacter <- MCReplacementCharacter
    InitialTexts <- MCTexts
    ItemFragments <- MCItemFragments
    ItemContents <- MCItemContents
    RowFragments <- MCRowFragments
    NewColumns <- MCNewColumns
    CellContents <- MCCellContents
    Paragraphs <- MCParagraphs
    QuotedLines <- MCQuotedLines
    FenceContents <- MCFenceContents
    Infos <- MCInfos
    KeyBytes <- MCKeyBytes
    Keys <- MCKeys
    Values <- MCValues
    MaxEdits = 2
SPECIFICATION Spec
INVARIANTS ItemsTrue RowsHold
PROPERTIES EditsOneTree EditsOneTable EditsOneBlock EditsOneField
CHECK_DEADLOCK FALSE
