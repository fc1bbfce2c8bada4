\* Rings of one descriptor and pools of two slots: every put() may find its ring
\* full.  Whatever is lost, nothing hangs.
CONSTANTS
    a = a  b1 = b1  b2 = b2
    A = A  B = B  NoOne = NoOne
    r1 = r1  r2 = r2  r3 = r3  r4 = r4
    Workers <- PairWorkers
    Services <- MCServices
    ServiceOf <- PairServiceOf
    WorkersOf <- PairWorkersOf
    Requests <- PairRequests
    Origin <- PairOrigin
    Target <- PairTarget
    EmptyBody <- NoMessages
    TooBig <- NoMessages
    NumSlots = 2
    MaxDescriptors = 1
    Bridge = Bridge
    DpaTx = DpaTx  DpaRx = DpaRx  Arm = Arm
    Dpu = Dpu  None = None  Free = Free
SPECIFICATION FairSpec
INVARIANT TypeOK ClosedClientsForgotten
PROPERTY LeaksOnlyWithLoss LossIsExcused AllSettled
CHECK_DEADLOCK FALSE
