\* Two requests, one of any shape; two functions at a time; an answer may be lost,
\* a submission may raise, and a response may be dropped.
CONSTANTS
    r1 = r1  r2 = r2
    Requests <- MCRequests
    Handlers <- MCHandlers
    ThreadPoolSize = 2
    TxMayFill = TRUE
    MaxLost = 1
    None = None
SPECIFICATION FairSpec
INVARIANTS TypeOK EngineAgrees OutstandingIsDue OutstandingOnce AnswerIsFinal FailureReported
PROPERTY AllAnswered
CHECK_DEADLOCK FALSE
