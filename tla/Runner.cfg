\* Two rounds of two requests, one thread per service, calls that fail and break.
CONSTANTS
    s0 = s0  s1 = s1  s2 = s2  s3 = s3  plain = plain  other = other
    Services <- MCServices
    Carries <- MCCarries
    Groups <- MCGroups
    Grpc <- MCGrpc
    Faulty <- MCFaulty
    Flaky <- MCFlaky
    Threads = 1
    Workload <- MCWorkload
    Rounds = 2
    PoolSize = 2
    Modes <- BothModes
    None = None
SPECIFICATION FairSpec
INVARIANT TypeOK FailuresReach NothingLeftBehind
PROPERTY TimingErrorsJustified RoundReported RunEnds
CHECK_DEADLOCK FALSE
