\* Two calls, any of the operations each.
SPECIFICATION FairSpec
CONSTANTS
    b1 = b1
    b2 = b2
    k1 = k1
    k2 = k2
    i1 = i1
    Upload = {c1, c2}
    Bucket = {b1}
    Key = {k1, k2}
    IdemKey = {i1}
    None = None
    NoIdem = NoIdem
    UploadAsk <- MCUploadAsk
    DeleteAsk <- MCDeleteAsk
    BatchAsk <- AnyBatchAsk
    CopyAsk <- MCCopyAsk
    Configs <- AnyConfig
    BatchLimit = 1
    MaxEntries = 1
    Ttl = 1
    MaxTime = 1
INVARIANTS TypeOK AbortedIsFinal SourceReleased BatchAccounts
PROPERTIES OnlyCallerCodeHangs
CHECK_DEADLOCK FALSE
