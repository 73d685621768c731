\* One upload and one delete of the same object, no scanner, no expiry.
SPECIFICATION Spec
CONSTANTS
    b1 = b1
    b2 = b2
    k1 = k1
    k2 = k2
    i1 = i1
    Upload = {c1, c2}
    Bucket = {b1}
    Key = {k1}
    IdemKey = {i1}
    None = None
    NoIdem = NoIdem
    UploadAsk <- MCUploadAsk
    DeleteAsk <- MCDeleteAsk
    BatchAsk = {}
    CopyAsk = {}
    Configs <- PlainConfig
    BatchLimit = 1
    MaxEntries = 1
    Ttl = 1
    MaxTime = 0
INVARIANT AnsweredWhileStored
CHECK_DEADLOCK FALSE
