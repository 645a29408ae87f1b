\* One request with any path of up to seven symbols; two attempts, backends that may send a 103 Early Hints
\* before a 201, 404 or 502, bodies of up to two chunks, a POST body, and mid-body
\* failures.  The handler returns or aborts, so the run has final states.
CONSTANTS
    Attempts = 2
    Interim = {103}
    FinalCodes = {201, 404}
    MaxChunks = 2
    c1 = c1
    c2 = c2
    errBody = errBody
    Chunks <- MCChunks
    ErrorBody <- errBody
    forbBody = forbBody
    ForbiddenBody <- forbBody
    ValidPaths <- MCValidPaths
    Paths <- MCPaths
    WithBody = TRUE

SPECIFICATION Spec

INVARIANT TypeOK
INVARIANT OneResponse
PROPERTY ValidatorAdmitsEndpoints

CHECK_DEADLOCK FALSE
