SPECIFICATION FairSpec
CONSTANTS
    max_attempts = 2
    Version <- OldAndNew
    minimum_secure_version = 1
    MaxGeneration = 7
    Nonce = {1}
    Failure = {"signature", "artifact", "entry", "health", "runtime"}
    NoBoot = NoBoot
INVARIANTS StateOk LoopsBounded FreshSuccess ActiveBootable
PROPERTY InflightSettles
