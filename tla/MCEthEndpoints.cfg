SPECIFICATION FairSpec
CONSTANTS
    N = 2
    Caller = {c1}
    Requests = {"block", "latest"}
    MaxFailures = 1
INVARIANTS
    SteadyEndpointIsFound
PROPERTIES
    ClientWasHealthy
    HealthConverges
