\* Metrics enabled: the scheduler and one request goroutine each make up to
\* two metric calls.  Expected: the process is brought down.
CONSTANTS
    r1 = r1
    sched = sched
    Requests <- MCRequests
    Scheduler <- sched
    MaxCalls = 2

SPECIFICATION Spec

INVARIANT NoCrash

CHECK_DEADLOCK FALSE
