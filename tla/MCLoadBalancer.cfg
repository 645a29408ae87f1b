\* The failover core with one request goroutine racing the scheduler.
CONSTANTS
    N = 3
    MaxCount = 2
    ErrorThreshold = 2
    SuccessfulChecksForFailback = 1
    MaxRetries = 2
    r1 = r1
    r2 = r2
    Requests <- MCOneRequest

SPECIFICATION Spec

INVARIANT TypeOK
INVARIANT CountersExclusive
INVARIANT DemotedNotServed
PROPERTY FailbackAfterPass
