\* An editing session opened before the job is validated and saved after.
SPECIFICATION Spec
CONSTANTS
    Jobs = {j1}
    MaxAttempts = 1
    AbortStatuses = {}
    Workers = {w1}
    Editors = {e1}
    Texts = {Empty, Short, Long}
    Empty = Empty
    Short = Short
    Long = Long
    ChunkCount <- MCChunkCount
    EmbedBatch = 2
    MaxEdits = 1
PROPERTY TranscriptFinalAfterValidation
CHECK_DEADLOCK FALSE
