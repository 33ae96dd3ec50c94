\* A run aborted while a worker executes it.
SPECIFICATION Spec
CONSTANTS
    Jobs = {j1}
    MaxAttempts = 2
    AbortStatuses = {"running"}
    Workers = {w1}
    Editors = {e1}
    Texts = {Empty, Short, Long}
    Empty = Empty
    Short = Short
    Long = Long
    ChunkCount <- MCChunkCount
    EmbedBatch = 2
    MaxEdits = 0
PROPERTY AbortedRunWritesNothing
CHECK_DEADLOCK FALSE
