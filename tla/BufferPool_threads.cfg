\* The DPU TX header pool, shared by the two polling threads of the DPA through
\* one mmap object: copy_buffer() of one thread against read() and free() of the
\* other.
CONSTANTS
    w1 = w1  w2 = w2  dpa = dpa
    t1 = t1  t2 = t2  tx = tx  rx = rx
    x = x  y = y
    Procs <- DpuProcs
    Threads <- DpuThreads
    ProcOf <- DpuProcOf
    Writers <- DpuWriters
    Readers <- DpuReaders
    Creators <- DpuCreators
    LateStart = FALSE
    NumSlots = 2
    Data <- MCData
    Blank = Blank  Garbled = Garbled  NoThread = NoThread  NoData = NoData
SPECIFICATION Spec
INVARIANT MessagesIntact
CHECK_DEADLOCK FALSE
