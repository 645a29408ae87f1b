--------------------------- MODULE ResponseRecorder ---------------------------
(***************************************************************************)
(* The bytes of one HTTP request through handleHTTPRequest: every attempt  *)
(* runs the node's httputil.ReverseProxy against a fresh responseRecorder; *)
(* the handler then flushes the recorder to the client's                   *)
(* http.ResponseWriter on success (copyToResponseWriter), or discards it   *)
(* and goes on, answering the canonical 502 once the attempts are used up. *)
(*                                                                         *)
(* The reverse proxy is the environment.  It calls WriteHeader once for    *)
(* every interim 1xx response the backend sends (forwarded through         *)
(* Got1xxResponse since Go 1.20), then WriteHeader with the final status   *)
(* (502 from its ErrorHandler when the round trip fails), then Write once  *)
(* per body chunk.  A read error while it streams the body makes it panic  *)
(* with http.ErrAbortHandler, which unwinds the handler and makes net/http *)
(* abort the client connection.  The client's writer follows net/http: a   *)
(* 1xx WriteHeader is informational and fixes nothing, the first other     *)
(* status is final, and a Write before any status implies 200.  Headers    *)
(* are left out; the deadline branches are LoadBalancer's.                 *)
(*                                                                         *)
(* The request first goes through ServeHTTP, which answers 403 to a path  *)
(* the endpoint validator rejects.  The request is not a WebSocket        *)
(* upgrade: that branch is LoadBalancer's and WebSocketSession's.         *)
(***************************************************************************)
EXTENDS Naturals, Sequences, SequencesExt, EndpointValidator

CONSTANTS
    Attempts,     \* min(len(healthyNodes), max_retries): attempts per request
    Interim,      \* 1xx statuses a backend may send before its final one
    FinalCodes,   \* final statuses a backend (or the proxy's 502) may give
    Chunks,       \* body chunks
    MaxChunks,    \* body chunks per response, at most
    ErrorBody,    \* the body http.Error writes for the canonical 502
    ForbiddenBody,\* the body http.Error writes for a rejected path
    Paths,        \* r.URL.Path of the request
    WithBody      \* the client's request carries a body (a POST)

ASSUME /\ Attempts \in Nat \ {0} /\ MaxChunks \in Nat
       /\ Interim \subseteq 100..199 /\ FinalCodes \subseteq 200..599
       /\ WithBody \in BOOLEAN

Codes == Interim \cup FinalCodes \cup {502}

\* HTTPStatusSuccessMin <= code < HTTPStatusSuccessMax: 2xx and 3xx.
IsSuccess(code) == code >= 200 /\ code < 400

\* A call the reverse proxy makes on the writer of its attempt.
Call == [op : {"header"}, code : Codes] \cup
        [op : {"write"}, data : {<<d>> : d \in Chunks}]

\* A net/http response as the client receives it; status 0: none sent yet.
Response == [status : Codes \cup {0, 200, 403},
             body : Seq(Chunks \cup {ErrorBody, ForbiddenBody})]
NoResponse == [status |-> 0, body |-> <<>>]

-----------------------------------------------------------------------------
(* The client's http.ResponseWriter (net/http's response).                 *)

\* One call on the writer: a 1xx is sent as an interim response and fixes
\* nothing; a second final status is superfluous and ignored; a Write
\* before any status sends 200 first.
NetWrite(w, call) ==
    IF call.op = "header"
      THEN IF call.code \in 100..199 \/ w.status # 0 THEN w
           ELSE [w EXCEPT !.status = call.code]
      ELSE [status |-> IF w.status = 0 THEN 200 ELSE w.status,
            body |-> w.body \o call.data]

\* When the handler returns without a status net/http sends 200.
Finished(w) == IF w.status = 0 THEN [w EXCEPT !.status = 200] ELSE w

\* What the client would receive had the proxy written to it directly.
Direct(calls) == Finished(FoldLeft(NetWrite, NoResponse, calls))

-----------------------------------------------------------------------------
(* responseRecorder                                                        *)

EmptyRecorder == [statusCode |-> 0, body |-> <<>>]

\* WriteHeader: the first status written is kept.
RecWriteHeader(rr, code) ==
    IF rr.statusCode = 0 THEN [rr EXCEPT !.statusCode = code] ELSE rr

\* Write: a Write before any status records 200; the data is appended.
RecWrite(rr, data) ==
    [statusCode |-> IF rr.statusCode = 0 THEN 200 ELSE rr.statusCode,
     body |-> rr.body \o data]

\* The recorder as the proxy's calls leave it.
RecCall(rr, call) ==
    IF call.op = "header" THEN RecWriteHeader(rr, call.code)
                          ELSE RecWrite(rr, call.data)

\* copyToResponseWriter: WriteHeader(statusCode) if one was recorded, then
\* one Write of the whole body.
CopyToResponseWriter(rr, w) ==
    LET w1 == IF rr.statusCode # 0
                THEN NetWrite(w, [op |-> "header", code |-> rr.statusCode])
                ELSE w
    IN NetWrite(w1, [op |-> "write", data |-> rr.body])

\* http.Error(w, body, code): the status, then the body.
HttpError(w, code, body) ==
    NetWrite(NetWrite(w, [op |-> "header", code |-> code]),
             [op |-> "write", data |-> <<body>>])

\* http.Error(w, "All beacon nodes unavailable", 502).
CanonicalError(w) == HttpError(w, 502, ErrorBody)

\* http.Error(w, "Invalid Beacon Chain API endpoint", 403).
Forbidden(w) == HttpError(w, 403, ForbiddenBody)

-----------------------------------------------------------------------------
VARIABLES
    att,      \* loop index i + 1 of the attempt in progress
    ppc,      \* where the attempt's reverse proxy is: "header", "body", "done"
    sent,     \* the calls the current attempt's proxy made on its writer
    rr,       \* the current attempt's responseRecorder
    answers,  \* answers[i]: what attempt i's backend answered (history)
    hpc,      \* handler: "serve", "attempt", "returned" or "aborted"
    path,     \* r.URL.Path
    client,   \* what the client's http.ResponseWriter has sent
    bodyLeft  \* r.Body has not been read yet

rrVars == <<att, ppc, sent, rr, answers, hpc, path, client, bodyLeft>>

TypeOK ==
    /\ att \in 1..Attempts
    /\ ppc \in {"header", "body", "done"}
    /\ sent \in Seq(Call) /\ Len(sent) <= 2 * MaxChunks + 1
    /\ rr \in [statusCode : Codes \cup {0}, body : Seq(Chunks)]
    /\ Len(rr.body) <= MaxChunks
    /\ answers \in Seq(Response) /\ Len(answers) <= Attempts
    /\ hpc \in {"serve", "attempt", "returned", "aborted"}
    /\ path \in Seq(STRING)
    /\ client \in Response
    /\ bodyLeft \in BOOLEAN

\* A request arrives; its first attempt will start with
\* recorder := &responseRecorder{}.
Init ==
    /\ att = 1
    /\ ppc = "header"
    /\ sent = <<>>
    /\ rr = EmptyRecorder
    /\ answers = <<>>
    /\ hpc = "serve"
    /\ path \in Paths
    /\ client = NoResponse
    /\ bodyLeft = WithBody

\* ServeHTTP: a path the validator rejects is answered 403; any other goes
\* on to handleHTTPRequest.
ServeHTTP ==
    /\ hpc = "serve"
    /\ IF IsValidBeaconEndpoint(path)
         THEN /\ hpc' = "attempt"
              /\ UNCHANGED client
         ELSE /\ client' = Forbidden(client)
              /\ hpc' = "returned"
    /\ UNCHANGED <<att, ppc, sent, rr, answers, path, bodyLeft>>

\* The proxy's call reaches the recorder.
ProxyCall(call) ==
    /\ sent' = Append(sent, call)
    /\ rr' = RecCall(rr, call)

\* An interim 1xx response of the backend, forwarded by Got1xxResponse.
ProxyInterimResponse(code) ==
    /\ hpc = "attempt" /\ ppc = "header"
    /\ Len(sent) < MaxChunks
    /\ ProxyCall([op |-> "header", code |-> code])
    /\ UNCHANGED <<att, ppc, answers, hpc, client, bodyLeft, path>>

\* Every attempt forwards the same *http.Request: the transport reads (and
\* closes) r.Body when it sends it, and no attempt rewinds it.
BodyIntact == WithBody => bodyLeft

\* The final status: the backend's, or 502 from the ErrorHandler when the
\* round trip fails (before the body is sent, as on a dial error, or after).
\* With the body already consumed the transport cannot send the request
\* (ContentLength mismatch, read on a closed body): always the 502.
ProxyResponseHeader(code) ==
    /\ hpc = "attempt" /\ ppc = "header"
    /\ \/ /\ BodyIntact
          /\ bodyLeft' \in IF code = 502 THEN {bodyLeft, FALSE} ELSE {FALSE}
       \/ /\ ~BodyIntact
          /\ code = 502
          /\ UNCHANGED bodyLeft
    /\ ProxyCall([op |-> "header", code |-> code])
    /\ ppc' = "body"
    /\ UNCHANGED <<att, answers, hpc, client, path>>

\* copyResponse: one chunk of the backend's body.
ProxyBodyChunk(d) ==
    /\ hpc = "attempt" /\ ppc = "body"
    /\ Len(SelectSeq(sent, LAMBDA c : c.op = "write")) < MaxChunks
    /\ ProxyCall([op |-> "write", data |-> <<d>>])
    /\ UNCHANGED <<att, ppc, answers, hpc, client, bodyLeft, path>>

\* The body ends; ServeHTTP returns to attemptNodeRequest.
ProxyBodyDone ==
    /\ hpc = "attempt" /\ ppc = "body"
    /\ ppc' = "done"
    /\ UNCHANGED <<att, sent, rr, answers, hpc, client, bodyLeft, path>>

\* Reading the backend's body fails (connection reset, attempt context
\* cancelled): panic(http.ErrAbortHandler) unwinds handleHTTPRequest and
\* net/http aborts the client connection.
ProxyCopyAbort ==
    /\ hpc = "attempt" /\ ppc = "body"
    /\ hpc' = "aborted"
    /\ UNCHANGED <<att, ppc, sent, rr, answers, client, bodyLeft, path>>

\* Bug variant of NextAttempt: the recorder of the failed attempt is kept.
NextAttemptReuseRecorder ==
    /\ att' = att + 1
    /\ ppc' = "header"
    /\ sent' = <<>>
    /\ UNCHANGED rr

\* Go on with attempt att + 1: a fresh recorder.
NextAttempt ==
    /\ att' = att + 1
    /\ ppc' = "header"
    /\ sent' = <<>>
    /\ rr' = EmptyRecorder

\* Bug variant of AttemptResult: the recorder is flushed whatever its
\* status.
AttemptResultFlushAlways ==
    /\ hpc = "attempt" /\ ppc = "done"
    /\ answers' = Append(answers, Direct(sent))
    /\ LET flushed == CopyToResponseWriter(rr, client) IN
       IF IsSuccess(rr.statusCode)
         THEN /\ client' = flushed
              /\ hpc' = "returned"
              /\ UNCHANGED <<att, ppc, sent, rr, bodyLeft, path>>
         ELSE IF att < Attempts
                THEN /\ NextAttempt
                     /\ client' = flushed
                     /\ UNCHANGED <<hpc, bodyLeft, path>>
                ELSE /\ client' = CanonicalError(flushed)
                     /\ hpc' = "returned"
                     /\ UNCHANGED <<att, ppc, sent, rr, bodyLeft, path>>

\* lastStatusCode = recorder.statusCode: on success copyToResponseWriter and
\* return; otherwise on to the next node while attempts remain, else
\* http.Error 502.
AttemptResult ==
    /\ hpc = "attempt" /\ ppc = "done"
    /\ answers' = Append(answers, Direct(sent))
    /\ IF IsSuccess(rr.statusCode)
         THEN /\ client' = CopyToResponseWriter(rr, client)
              /\ hpc' = "returned"
              /\ UNCHANGED <<att, ppc, sent, rr, bodyLeft, path>>
         ELSE IF att < Attempts
                THEN /\ NextAttempt
                     /\ UNCHANGED <<hpc, client, bodyLeft, path>>
                ELSE /\ client' = CanonicalError(client)
                     /\ hpc' = "returned"
                     /\ UNCHANGED <<att, ppc, sent, rr, bodyLeft, path>>

Next ==
    \/ ServeHTTP
    \/ \E c \in Interim : ProxyInterimResponse(c)
    \/ \E c \in FinalCodes \cup {502} : ProxyResponseHeader(c)
    \/ \E d \in Chunks : ProxyBodyChunk(d)
    \/ ProxyBodyDone
    \/ ProxyCopyAbort
    \/ AttemptResult

Spec == Init /\ [][Next]_rrVars

-----------------------------------------------------------------------------
\* Spec 4.5 and 5(a): once the handler returns, the client has received
\* exactly one attempt's response, and a successful one, or else the
\* canonical 502; never the bytes of a failed attempt, never a mixture.
OneResponse ==
    hpc = "returned" =>
        \/ client = CanonicalError(NoResponse)
        \/ client = Forbidden(NoResponse)
        \/ \E i \in 1..Len(answers) :
               client = answers[i] /\ IsSuccess(client.status)

\* Spec 4.5 step 1 and scenario 4: a request is turned away with 403 exactly
\* when its path is not one of the whitelisted Beacon API endpoints (up to
\* surrounding whitespace and trailing slashes); every endpoint reaches a
\* backend.  IsValidBeaconEndpoint's trimming and regular expressions
\* against the segment-wise reference IsEndpoint.
ValidatorAdmitsEndpoints ==
    [][ (hpc = "serve" /\ hpc' # "serve") =>
          ((hpc' = "returned" /\ client' = Forbidden(NoResponse))
              <=> ~IsEndpoint(path)) ]_rrVars

\* Spec 4.5 and end-to-end scenario 2: when a request falls through to the
\* next node, that node is sent the client's request as received, body
\* included, so it can answer it.
RetryForwardsBody == (hpc = "attempt" /\ ppc = "header") => BodyIntact

=============================================================================
