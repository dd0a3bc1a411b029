\* One caller, one content of 5 bytes, chunk sizes 2, 3 and 4 (3, 2 and 2 chunks);
\* the upload limiter lets nothing of more than 3 bytes through.
SPECIFICATION FairSpec
CONSTANTS
    Uploads = {u1}
    a = a
    b = b
    Sources <- OneSource
    SizeOf <- OneSize
    AskedSizes <- Sizes2to4
    DefaultChunkSize = 2
    MinChunkSize = 1
    MaxChunkSize = 4
    ParralUpload = 2
    DefaultConcurrency = 1
    MaxConcurrentUploadChunks = 3
    Burst = 3
    NoEntry = NoEntry
    NoChunk = NoChunk
INVARIANTS
    VisibleIsWhole
    HiddenWhileUploading
    AckedIsDurable
    NoResend
    RecordedHasLanded
PROPERTIES
    ImplementsPublication
    ProgressNeverShrinks
    UploadReturns
