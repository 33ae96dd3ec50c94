\* Budget 5: lines of 2 and 2 fill it exactly, 2 and 3 miss it by the newline,
\* and a line of 7 exceeds it alone.
SPECIFICATION ExtractionSpec
CONSTANTS
    MaxChunkChars = 5
    TypedLines <- MCTypedLines
    MaxEdits = 1
    MaxHeadingChars = 7
    SubsetTags <- MCSubsetTags
    Segments <- MCSegments
    MaxPdfPages = 2
    MaxSegments = 3
INVARIANTS
    TypeOK
    NothingLost
    WithinBudget
    SplitOnlyWhenFull
    CitesItsStart
    
    TiesOnlyMoveHeadings
    
PROPERTY
    ImplementsChunking
CHECK_DEADLOCK FALSE
