\* A POST whose first attempt fails: the first attempt consumed r.Body, so
\* the next node is sent an empty body, the transport fails and the proxy
\* answers 502 for it, where scenario 2 expects the backup to answer.
CONSTANTS
    Attempts = 2
    Interim = {}
    FinalCodes = {201, 404}
    MaxChunks = 2
    c1 = c1
    c2 = c2
    errBody = errBody
    Chunks <- MCChunks
    ErrorBody <- errBody
    forbBody = forbBody
    ForbiddenBody <- forbBody
    ValidPaths <- MCValidPaths
    Paths <- MCEndpointPath
    WithBody = TRUE

SPECIFICATION Spec

INVARIANT RetryForwardsBody

CHECK_DEADLOCK FALSE
