\* Two calls over one key, with refused arguments of each kind.
SPECIFICATION Spec
CONSTANTS
    k = k
    Call = {c1, c2}
    Key = {k}
    BadKey = BadKey
    Ask <- MCAsk
    Whitelist <- MCWhitelist
    DefaultTtl = 1
    ConfiguredMax = 3
    Ceiling = 2
    MaxParts = 2
    SentTypes <- MCSentTypes
    ClientErrors <- MCClientErrors
    Unset = Unset
    NoObject = NoObject
    MaxTime = 3
INVARIANTS TypeOK StoredTypesAllowed UrlsExpire PartsCanBeCompleted RefusedOpensNothing
CHECK_DEADLOCK FALSE
