\* A request without body from worker to worker, resources in plenty.
CONSTANTS
    a = a  b1 = b1  b2 = b2
    A = A  B = B  NoOne = NoOne
    r1 = r1  r2 = r2  r3 = r3  r4 = r4
    Workers <- PairWorkers
    Services <- MCServices
    ServiceOf <- PairServiceOf
    WorkersOf <- PairWorkersOf
    Requests <- PairRequests
    Origin <- PairOrigin
    Target <- PairTarget
    EmptyBody <- EmptyRequest
    TooBig <- NoMessages
    NumSlots = 2
    MaxDescriptors = 2
    Bridge = Bridge
    DpaTx = DpaTx  DpaRx = DpaRx  Arm = Arm
    Dpu = Dpu  None = None  Free = Free
SPECIFICATION Spec
PROPERTY ReleasesNotMissed
CHECK_DEADLOCK FALSE
