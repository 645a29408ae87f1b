\* Every in-flight request returns, under the fairness of FairSpec.
CONSTANTS
    N = 2
    MaxCount = 2
    ErrorThreshold = 2
    SuccessfulChecksForFailback = 2
    MaxRetries = 2
    r1 = r1
    r2 = r2
    Requests <- MCOneRequest

SPECIFICATION FairSpec

PROPERTY RequestsComplete
