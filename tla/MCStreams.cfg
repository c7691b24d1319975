CONSTANTS
    KWS_RING_BUFF_LEN = 7
    MODEL_CHUNK_SIZE = 3
    Frames = {1, 2}
    SleepOutlastsWrite = TRUE
    Lens <- RingLen
    Bytes <- CellNumbers
    MaxCall = 2
    AEC_VAD_FRAME_SIZE = 32
    AEC_VAD_RING_BUFF_LEN = 800
    Calls <- UpToFrame
    Callers = {c1}
    Types <- EveryType
    KV_PAGES = 2
    UF_PAGES = 1
    RCD_PAGES = 1
    FILE_PAGES = 6
    MaxWrites = 3
    MaxCrashes = 2
    TotalLen = 12
    KEEP = 2
    PackLens = {3, 4, 5, 6}
    MaxSessions = 2
SPECIFICATION StreamsSpec
CHECK_DEADLOCK FALSE
INVARIANTS ChunksConsecutive NothingDiscarded StreamsInsideBuffers  FileMatchesProgress
PROPERTY DetectionContinues
