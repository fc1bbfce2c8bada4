\* Pools of one slot and rings of two descriptors: every alloc() may find its pool
\* full.  One request has no body, one response is too big.
CONSTANTS
    a = a  b1 = b1  b2 = b2
    A = A  B = B  NoOne = NoOne
    r1 = r1  r2 = r2  r3 = r3  r4 = r4
    Workers <- MCWorkers
    Services <- MCServices
    ServiceOf <- MCServiceOf
    WorkersOf <- MCWorkersOf
    Requests <- MCRequests
    Origin <- MCOrigin
    Target <- MCTarget
    EmptyBody <- EmptyRequest
    TooBig <- BigAnswer
    NumSlots = 1
    MaxDescriptors = 2
    Bridge = Bridge
    DpaTx = DpaTx  DpaRx = DpaRx  Arm = Arm
    Dpu = Dpu  None = None  Free = Free
SPECIFICATION FairSpec
INVARIANT Custody AtMostOnce Addressed
PROPERTY WorkersNeverLeak AllSettled
CHECK_DEADLOCK FALSE
