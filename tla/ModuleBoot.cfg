\* Every way to give the options, small limits.
SPECIFICATION Spec
CONSTANTS
    Region = "region"
    Endpoint <- MCEndpoint
    CustomDomain <- MCCustomDomain
    Unset = Unset
    NaN = NaN
    MinPartSize = 5
    MaxTtl = 7
    Timeout = 3
    Given <- MCGiven
INVARIANTS HooksFindTheClient ClientsReleased OptionsWork
CHECK_DEADLOCK FALSE
