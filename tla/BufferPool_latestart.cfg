\* A host TX pool: a second worker of the service starts while the slots of the
\* first are in use.
CONSTANTS
    w1 = w1  w2 = w2  dpa = dpa
    t1 = t1  t2 = t2  tx = tx  rx = rx
    x = x  y = y
    Procs <- HostProcs
    Threads <- HostThreads
    ProcOf <- HostProcOf
    Writers <- HostWriters
    Readers <- HostReaders
    Creators <- HostCreators
    LateStart = TRUE
    NumSlots = 2
    Data <- MCData
    Blank = Blank  Garbled = Garbled  NoThread = NoThread  NoData = NoData
SPECIFICATION Spec
INVARIANT Exclusive
CHECK_DEADLOCK FALSE
