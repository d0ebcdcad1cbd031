SPECIFICATION FairSpec
CONSTANTS
    Clients = {k1, k2}
    Threads = {t1, t2, t3}
    Ops <- MCOps
    MaxRetries = 2
    MaxOps = 1
    None = None
INVARIANTS
    OneOwner
    NoLeak
PROPERTIES
    ExhaustedMeansBusy
    OpsEnd
CHECK_DEADLOCK FALSE
