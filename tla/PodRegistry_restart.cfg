\* All restart together: a worker may register before the DPA has booted.
CONSTANTS
    w1 = w1  w2 = w2  again = again
    A = A  B = B  n1 = n1  n2 = n2
    Workers <- MCWorkers
    Names <- MCNames
    NameOf <- MCNameOf
    Services <- MCServices
    ServiceOf <- MCServiceOf
    r1 = r1
    Routers <- MCRouters
    Lookers <- MCLookers
    RandomIds <- MCRandomIds
    OldCounters <- NoCounter
    OldTables <- Leftovers
    Early <- MCEarly
    Mortal <- MCMortal
    None = None
SPECIFICATION Spec
INVARIANT Assembled
CHECK_DEADLOCK FALSE
