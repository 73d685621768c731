\* One caller, five objects of two versions, pages of at most three.
SPECIFICATION Spec
CONSTANTS
    e1 = e1
    e2 = e2
    RawPrefix <- MCRawPrefix
    Order <- MCOrder
    Starts <- MCStarts
    Etag = {e1, e2}
    Versions <- MCVersions
    Absent = Absent
    Ask <- MCAsk
    MaxListKeys = 3
    Unset = Unset
    ClientErrors <- MCClientErrors
INVARIANTS TypeOK AnswersWereTrue OneVersion ListingComplete
CHECK_DEADLOCK FALSE
