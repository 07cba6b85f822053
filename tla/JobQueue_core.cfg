SPECIFICATION FairSpec
CONSTANTS
    Jobs = {j1}
    Workers = {w1, w2}
    Pools <- OnePool
    Client = client
    None = none
    MaxAttempts = 2
    LeaseLengths = {1, 2}
    Delays = {1}
    FailureCodes = {c1}
    LeaseExpired = lease_expired
    MaxLag = 1
    MaxRevision = 3
INVARIANTS
    TypeOK
    AttemptBudget
    LeaseExclusive
    RepliesTruthful
    EventsExplainRow
PROPERTIES
    ImplementsLifecycle
    EveryJobSettles
