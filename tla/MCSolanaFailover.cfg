SPECIFICATION FairSpec
CONSTANTS
    N = 3
    Caller = {a, b}
INVARIANT NoEndpointOverlooked
PROPERTY CallsReturn
