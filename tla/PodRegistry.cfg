\* The DPA boots over what its last life has left, workers start before, during and
\* after that, are killed anywhere, and one is started again.
CONSTANTS
    w1 = w1  w2 = w2  again = again
    A = A  B = B  n1 = n1  n2 = n2
    Workers <- MCWorkers
    Names <- MCNames
    NameOf <- MCNameOf
    Services <- MCServices
    ServiceOf <- MCServiceOf
    r1 = r1
    Routers <- MCRouters
    Lookers <- MCLookers
    RandomIds <- MCRandomIds
    OldCounters <- NoCounter
    OldTables <- Leftovers
    Early <- MCEarly
    Mortal <- MCMortal
    None = None
SPECIFICATION FairSpec
INVARIANT TypeOK IdsDiffer Findable OwnResources
PROPERTY NoFalseRefusal Discovered
CHECK_DEADLOCK FALSE
