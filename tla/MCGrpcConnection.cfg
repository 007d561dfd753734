SPECIFICATION GrpcFairSpec
CONSTANTS
    MaxRetries = 5
    BaseBackoff = 1000
    MaxBackoff = 30000
    MaxRestarts = 3
    MaxPending = 3
    MaxCrashes = 2
INVARIANTS
    RegistryFollowsClient
    BackoffFollowsRetries
PROPERTY ClientComesBack
