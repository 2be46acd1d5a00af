\* _store_chunks as it is.
SPECIFICATION Spec
CONSTANTS
    w1 = w1
    d1 = d1
    Documents = {d1}
    Workers = {w1}
    MaxChunks = 2
    Confidences = {79, 80}
    None = None
    Threshold = 80
    RowInScope = FALSE
    WorkersCrash = FALSE
PROPERTY
    FailedWasNotExtracted
CHECK_DEADLOCK FALSE
