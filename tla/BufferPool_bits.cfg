\* The same two threads of the DPA: the slots they get, instead of the contents.
CONSTANTS
    w1 = w1  w2 = w2  dpa = dpa
    t1 = t1  t2 = t2  tx = tx  rx = rx
    x = x  y = y
    Procs <- DpuProcs
    Threads <- DpuThreads
    ProcOf <- DpuProcOf
    Writers <- DpuWriters
    Readers <- DpuReaders
    Creators <- DpuCreators
    LateStart = FALSE
    NumSlots = 2
    Data <- MCData
    Blank = Blank  Garbled = Garbled  NoThread = NoThread  NoData = NoData
SPECIFICATION Spec
INVARIANT Exclusive
CHECK_DEADLOCK FALSE
