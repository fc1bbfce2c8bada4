\* A host TX pool of two slots: two workers of the service write, the DPA reads;
\* a worker may start late, while no slot is in use, and any process may die.
CONSTANTS
    w1 = w1  w2 = w2  dpa = dpa
    t1 = t1  t2 = t2  tx = tx  rx = rx
    x = x  y = y
    Procs <- HostProcs
    Threads <- HostThreads
    ProcOf <- HostProcOf
    Writers <- HostWriters
    Readers <- HostReaders
    Creators <- HostCreators
    LateStart = FALSE
    NumSlots = 2
    Data <- MCData
    Blank = Blank  Garbled = Garbled  NoThread = NoThread  NoData = NoData
SPECIFICATION Spec
INVARIANT TypeOK Exclusive UsedSlotsAreMarked MessagesIntact MarkedSlotsAreUsed
SYMMETRY HostSymmetry
CHECK_DEADLOCK FALSE
