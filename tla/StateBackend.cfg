SPECIFICATION FairStoreSpec
CONSTANTS
    Content = {a, b, c}
    MaxStateGeneration = 4
    target_store_epoch = 2
    target_auth_profile = 2
    InitialEpoch = 1
    InitialProfile = 1
    NoState = NoState
INVARIANT Recoverable
PROPERTIES ImplementsStore RedundancyRestored
