\* Three calls that upload or delete one object.
SPECIFICATION Spec
CONSTANTS
    b1 = b1
    b2 = b2
    k1 = k1
    k2 = k2
    i1 = i1
    Upload = {c1, c2, c3}
    Bucket = {b1, b2}
    Key = {k1, k2}
    IdemKey = {i1}
    None = None
    NoIdem = NoIdem
    UploadAsk <- TwoBucketAsk
    DeleteAsk <- MCDeleteAsk
    BatchAsk <- MCBatchAsk
    CopyAsk = {}
    Configs <- PostUploadConfig
    BatchLimit = 1
    MaxEntries = 1
    Ttl = 1
    MaxTime = 1
INVARIANTS
    TrustedAnswer NoWithdrawnAnswer CachedWasAccepted RemovedMeansRemoved
PROPERTIES RetryIsAnswered
CHECK_DEADLOCK FALSE
SYMMETRY CallSymmetry
