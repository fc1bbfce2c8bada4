\* Three processes, two descriptors, a ring of two slots: wrap-around, full and
\* empty ring, and a death at every step.  Under fair
\* scheduling every put() and get() returns.
CONSTANTS
    p1 = p1  p2 = p2  p3 = p3
    d1 = d1  d2 = d2
    Procs <- MCProcs
    Descs <- MCDescs
    MaxDescriptors = 2
    NoProc = NoProc
    NoDesc = NoDesc
SPECIFICATION FairSpec
INVARIANT TypeOK HeaderInv
PROPERTY ImplementsQueue CallsReturn
CHECK_DEADLOCK FALSE
