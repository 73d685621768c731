\* Four cache keys over a cap of two; entries live two ticks of three.
SPECIFICATION Spec
CONSTANTS
    IdemKey = {i1, i2}
    Key = {k1, k2}
    Bucket = {b1}
    Upload = {u1, u2}
    MaxEntries = 2
    Ttl = 2
    MaxTime = 3
INVARIANTS TypeOK WithinCapacity RecencyOrder
PROPERTIES LossHasACause ImplementsUploadMemory
