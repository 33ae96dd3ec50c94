\* One job, two workers, three transcriptions, two editing sessions
\* that save two edits, aborts and processes that die.
SPECIFICATION Spec
CONSTANTS
    Jobs = {j1}
    MaxAttempts = 3
    AbortStatuses = {"running"}
    Workers = {w1, w2}
    Editors = {e1, e2}
    Texts = {Empty, Long}
    Empty = Empty
    Short = Short
    Long = Long
    ChunkCount <- MCChunkCount
    EmbedBatch = 2
    MaxEdits = 2
SYMMETRY Symmetry
INVARIANTS
    TypeOK
    SucceededStepHasOutput
    EmbedsWhatIsStored
    ChunksMatchTranscript
PROPERTY SoleSessionSavesItsText
CHECK_DEADLOCK FALSE
