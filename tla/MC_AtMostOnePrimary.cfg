\* Violation run: AtMostOnePrimary.
CONSTANTS
    N = 3
    MaxCount = 2
    ErrorThreshold = 2
    SuccessfulChecksForFailback = 2
    MaxRetries = 2
    r1 = r1
    r2 = r2
    Requests <- MCOneRequest

SPECIFICATION Spec

INVARIANT AtMostOnePrimary
