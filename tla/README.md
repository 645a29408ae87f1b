# TLA+ models of consensus-proxy

These TLA+ modules model the failover core of consensus-proxy. That core is a
reverse HTTP/WebSocket proxy in front of a set of Ethereum beacon nodes. The
TLC configurations here check the models. All line references are to `src/`.

## 1. Inventory of the system

| Component | Source | State | Operations |
|---|---|---|---|
| Backend state (`BeaconNode`) | package `beaconnode`, `unnamed/part_000`; construction in `cmd/loadbalancer/loadbalancer.go:29-78` | `Priority` (under the node's own RWMutex), `OriginalPriority` (immutable), atomic `ConsecutiveErrors`, `ConsecutiveSuccesses`, `TotalFailures`, `Requests`, `LastCheck` | `IncrementError`, `ResetErrors`, `IncrementSuccess`, `ResetSuccesses`, `SetPriority`, `IsPrimary`, `IsBackup` |
| Healthy list | `loadbalancer.go:18-26,86-90` | `lb.healthyNodes`, guarded by `lb.mu` (RWMutex) | `GetHealthyNodes` (read lock, returns the slice) |
| Health-check scheduler | `cmd/loadbalancer/health_check.go` | resultsChan, `newHealthyBackups` (locals of one pass) | `StartupHealthCheck` (once, before serving), `performHealthCheck` on each tick: probe the backups concurrently, collect the results, then under `lb.mu` do failback, priority restoration, promotion and rebuild |
| HTTP routing engine | `cmd/loadbalancer/response_recorder.go:63-322` | per request: the snapshot of the list, loop index, overall deadline context | `ServeHTTP`, `handleHTTPRequest`, `checkRequestTimeout`, `attemptNodeRequest`, `handleSuccessResponse`, `handleNodeError` (5xx: count; primary over threshold: `SetPriority(len(nodes))` outside `lb.mu`, then remove under `lb.mu`), `handleAllNodesFailed` |
| WebSocket proxier | `cmd/loadbalancer/websocket_handler.go` | snapshot, dial loop, and the two pump goroutines sharing `errChan` (capacity 2) | `handleWebSocket`, `connectToUpstreamWebSocket` (same demotion rule; the error count is read without `atomic`), `proxyWebSocketMessages` |
| Response recorder | `response_recorder.go:1-61` | status, headers, body of one attempt | `WriteHeader`, `Write`, `copyToResponseWriter` |
| Rate limiter | `cmd/ratelimit/ratelimit.go` | per-IP sliding window of timestamps, cleanup ticker | `Allow`, `cleanup`, `Middleware` |
| Endpoint validator | `cmd/validator/validator.go` | the compiled patterns (immutable) | `IsValidBeaconEndpoint`: trim whitespace, trim trailing `/`, reject empty, match the anchored patterns |
| Metrics client | `cmd/metrics/client.go` | three unguarded maps from metric name to Prometheus vector, plus the global registry | `Incr`, `Timing`, `Gauge`: look up, on a miss register with `promauto` and store, then `WithLabelValues` |
| main, healthz | `main.go`, `cmd/handlers` | none | start-up glue, route set-up, a constant `/healthz` |

**How the parts interact.** Every HTTP request runs in its own goroutine. It
copies the healthy list under the read lock and walks it in order. A failing
primary is demoted: first its priority is written under the node's own mutex,
then it is filtered out of the list under `lb.mu`. The scheduler is a single
ticker goroutine, so its passes never overlap. It probes every node with
priority > 0 and takes `lb.mu` for its transition block. Inside that block it
reads and writes node priorities. Nothing stops a request's demotion from
landing in the middle of the block: the request's priority write does not need
`lb.mu`.

**What makes it correct** (spec sections 3, 4.4, 4.5 and 8):
- at most one primary, and the primary is in the healthy list;
- the list is sorted by priority and has no duplicates;
- a node's consecutive errors and successes are never both positive once the calls on it are complete;
- a demoted primary leaves rotation;
- failback happens once the threshold is reached;
- every request ends with exactly one response (502 or 504 on failure);
- every request terminates.

## 2. Modules

| Module | Models | Composes |
|---|---|---|
| `BeaconNode` | per-node state and its atomic operations, one step per atomic access | — |
| `LoadBalancer` | the healthy list, `lb.mu`, the request goroutines (HTTP and WebSocket connect) and the scheduler goroutine | extends `BeaconNode` |
| `MCLoadBalancer` | model values for request goroutines, symmetry set | extends `LoadBalancer` |
| `WebSocketSession` | one WebSocket session after a successful dial: client upgrade, the two pumps, `errChan`, the deferred closes | — (starts where `LoadBalancer`'s `DialWebSocket` finishes with "ws") |
| `RateLimitWindow` | abstract specification of the limiter: a per-client log of the admissions inside the window | — |
| `RateLimiter` | `cmd/ratelimit`: buckets with lazy pruning, `Allow`, `Middleware`, the cleanup goroutine, `Close` | instantiates `RateLimitWindow` with a refinement mapping |
| `MCRateLimiter` | model values for client IPs, symmetry set | extends `RateLimiter` |
| `ResponseRecorder` | `responseRecorder` and the per-attempt result handling of `handleHTTPRequest`: the reverse proxy's calls into a fresh recorder, the flush on success, the canonical 502, and the `net/http` writer semantics of the client's connection | — (status and body level; the node choice is `LoadBalancer`'s) |
| `MCResponseRecorder` | model values for body chunks, three patterns, the set of request paths | extends `ResponseRecorder` |
| `EndpointValidator` | `IsValidBeaconEndpoint` as operators, with the reference `IsEndpoint` | — (extended by `ResponseRecorder`) |
| `MetricsClient` | the Prometheus client as the scheduler and the request goroutines call it | — |
| `MCMetricsClient` | model values for the goroutines | extends `MetricsClient` |

### How the state and actions correspond to the code

- **Node state.**
  - `priority`, `consecutiveErrors` and `consecutiveSuccesses` are functions over `Nodes == 0..N-1`.
  - A node's index is its `OriginalPriority`, as `New` sets it.
  - The counters saturate at `MaxCount`. This is sound because every decision compares them with a threshold ≤ `MaxCount`.
  - Each operator of `BeaconNode` is one atomic access of `unnamed/part_000`. `IncrementError` is two: `IncrementErrorCount` (the `AddInt64` of line 66) and `IncrementErrorReset` (the `StoreInt64` of line 69). A caller takes them as two steps.
- **Healthy list.**
  - `healthyNodes` is a sequence of node indices.
  - `lbLock` is "hc" while the scheduler holds `lb.mu`.
  - A request's own write section (the removal) is a single step that needs the lock to be free.
- **Request goroutine `r`.**
  - `req[r]` holds the goroutine's locals: pc, kind, snapshot, index, loaded error count and deadline.
  - `resp[r]` is what the client got.
  - The actions follow the handler's control flow:
    - `RejectEndpoint` (403);
    - `StartHTTP` (snapshot);
    - `AllNodesFailed` (502);
    - `RequestContextDone` (`ctx.Done()`, which returns without writing);
    - `NoTimeRemaining` (504);
    - `AttemptNode`: the 2xx branch resets errors and finishes; the 4xx branch goes to the next node; the 5xx branch does the first atomic of `IncrementError`;
    - `IncrementErrorDone`: the second atomic (successes to 0); `LoadErrors`: the `atomic.LoadInt64` of line 221 (HTTP only; the WebSocket loop reads the count at its check);
    - `CheckDemotion`;
    - `DemotePrimary`: the unlocked `SetPriority(len(nodes))`;
    - `RemoveFromHealthy`: filtering the node out under `lb.mu`;
    - `StartWebSocket` (503 on an empty list) and `DialWebSocket` (the dial loop, 502 when exhausted).
  - `DeadlineElapses` is the clock. It moves the deadline from live to passed (`remainingTimeout <= 0`) and then to fired (`overallCtx.Done()` closed).
- **Scheduler.**
  - `HealthCheckTick` collects the backups.
  - `ProbeResult(n)` takes one result in any arrival order: healthy means `IncrementSuccess` (line 171), and `ProbeResetErrors` then does `ResetErrors` and the append (172-173); `applying` holds the node in between. Unhealthy means `ResetSuccesses`.
  - The locked block is split into three steps so that a request's `DemotePrimary` can fall between them:
    - `Failback` locks and makes the failback decision;
    - `RestorePriorities` is the restore loop;
    - `RebuildHealthyNodes` finds the current primary, promotes if there is none, rebuilds the list and unlocks.
- **Startup.** `Init` is the state after `New` and a successful `StartupHealthCheck`: any non-empty set of healthy nodes, sorted by priority.
- **Environment.** What a backend answers (probe result, status class, dial outcome) is the environment's free choice. One more outcome of an attempt is the overall deadline firing during the round trip: the reverse proxy then records a 502, which `handleNodeError` counts. `req[r].last` keeps the class of the last attempt (`lastStatusCode`).
- **WebSocket session.**
  - `open[c]` tracks the two connections. `pc[p]` is where each pump is. `errChan` counts the buffered errors. `hpc` is where the handler is.
  - `sent`, `read` and `delivered` count messages per direction; payloads are left out.
  - Steps: `Upgrade` (starts the pumps, or fails and returns). Each pump does `ReadMessage` or `ReadError`, `WriteMessage`, and `SendError` (blocks while `errChan` is full). The handler does `ReceiveError`, then `CloseClient` and `CloseUpstream` (the defers, last-in first-out).
  - `PeerSend` and `PeerClose` are the environment.
- **Rate limiter.**
  - `clients[ip]` is the bucket (`requests`, `lastSeen`), or `NoBucket`. `now` is a discrete clock, one tick per minute in the cfgs.
  - `Middleware(ip)` is one `Allow` under `rl.mu`: create the bucket, set `lastSeen`, drop timestamps not after `now - window`, admit iff fewer than `rps` remain.
  - `Cleanup` drops buckets with `lastSeen` before `now - 5 min`. It may fire at any instant, which includes the code's one-minute ticker.
  - The refinement mapping gives each client the abstract log of the timestamps its bucket holds inside the window. A missing bucket is an empty log.
- **Response recorder.**
  - `rr` is the recorder record (`statusCode`, `body`). `RecWriteHeader` keeps the first status, and `RecWrite` defaults it to 200 and appends (`response_recorder.go:20-34`). `CopyToResponseWriter` is `WriteHeader` if the status is nonzero, then one `Write`.
  - `sent` is the sequence of calls made on the client's writer. `NetWrite` folds them as `net/http` does: a 1xx is informational, the first final status wins, and a `Write` before a status implies 200. `answers` is the status and body of each attempt as the backend sent them.
  - `ppc` is where the reverse proxy is in the attempt. `ProxyInterimResponse` forwards a 1xx (Go's `Got1xxResponse`), `ProxyResponseHeader` writes the final status (502 from its error handler), `ProxyBodyChunk` and `ProxyBodyDone` copy the body, and `ProxyCopyAbort` is the `panic(http.ErrAbortHandler)` of a failed body copy.
  - `bodyLeft` is the shared request body. The first attempt consumes it, and a later attempt can only get the transport's 502 (`r.WithContext` is a shallow copy).
  - `AttemptResult` is lines 123-145: flush on 200 ≤ status < 400 and return; otherwise go on with a fresh recorder (`NextAttempt`) or, after the last attempt, `http.Error` 502.
  - `path` is `r.URL.Path`. `ServeHTTP` is the first step: a path that `IsValidBeaconEndpoint` rejects gets `http.Error` 403 and the handler returns; any other goes on to the first attempt.
- **Endpoint validator.**
  - A path is a sequence of symbols: "/", whitespace, and tokens that stand for runs of other characters. A pattern is a sequence of "/", tokens and `AnySeg` (`[^/]+`).
  - `TrimSpace` and `TrimRightSym(_, "/")` are the two `strings` calls. `Match` is the anchored regular expression: literals match themselves, and `[^/]+` takes one or more non-"/" symbols, backtracking over how many. `IsValidBeaconEndpoint` trims, rejects the empty path and tries every pattern.
  - `IsEndpoint` is the reference. It is written independently: it splits the pattern and the path into "/"-separated segments and compares them, and it allows any decomposition of the path into leading spaces, a core, trailing slashes and trailing spaces.
- **Metrics client.**
  - `vecs[k][name]` is the vector stored in map `k` (only its label count matters). `registry` is the default registry. `writing[k]` is the goroutine inside a write of map `k`.
  - Each call site is `(kind, name, number of tags)`. `SchedulerSites` and `RequestSites` list the sites of the two kinds of goroutine.
  - A call is `Lookup`, then on a miss `Register` (a duplicate panics), `StoreBegin` and `StoreEnd` (the map write), then `WithLabelValues` (a label-count mismatch panics).
  - A map access while another goroutine is inside a write may be fatal; the runtime's detection is best effort, so both outcomes are allowed. `Panic` abandons a request goroutine's call, because net/http recovers it. A panic in the scheduler ends the process.

## 3. Runs

All `LoadBalancer` runs use the same bounds:
- N = 3 nodes (N = 2 for the liveness run);
- counters saturating at 2, with error threshold 2 and failback threshold 2 (1 in `core_safety`, see below);
- `MaxRetries` = 2;
- one request goroutine racing the scheduler.

| Run | cfg | Expect | What it shows |
|---|---|---|---|
| core_safety | `MCLoadBalancer.cfg` | pass (5.8M states, ~50 s) | `TypeOK`; `CountersExclusive` (whenever no request is inside `IncrementError` on a node and the scheduler is not between `IncrementSuccess` and `ResetErrors` on it, its errors and successes are not both positive, under any interleaving of the four atomics); `DemotedNotServed` (a demoted node is in the list only while its demoting request is about to remove it); `FailbackAfterPass` (a pass that finds the original primary healthy ends with it as the only primary, even when a request demotes a node during the pass). |
| requests_complete | `MCLoadBalancerLiveness.cfg` | pass | `RequestsComplete`: every in-flight request returns, under `FairSpec`. |
| unhealthy_primary_orphaned | `MC_PrimaryInRotation.cfg` | violation | A primary that is unhealthy at startup keeps priority 0 outside the list. It is never probed, and no backup is ever promoted (`health_check.go:125`). |
| two_primaries | `MC_AtMostOnePrimary.cfg` | violation | Node 0 is demoted, then node 1 is promoted. After one healthy probe of node 0, the restore loop sets it back to priority 0 while node 1 keeps priority 0 (`health_check.go:305`). |
| timeout_empty_response | `MC_NoEmptyResponse.cfg` | violation | The deadline fires between attempts, and the handler returns without writing a 504 (`response_recorder.go:111`). |
| timeout_counted_as_error | `MC_TimeoutNotCounted.cfg` | violation | The deadline fires during an attempt. The 502 the reverse proxy records is counted with `IncrementError` (`response_recorder.go:178`). |
| client_error_becomes_502 | `MC_ClientErrorPassedThrough.cfg` | violation | A backend's 4xx makes the loop go on, and exhaustion answers 502 instead of passing the 4xx through as spec 7 says (`response_recorder.go:145`). |
| rate_limiter_refines_window | `MCRateLimiter.cfg` | pass | `TypeOK`; `ImplementsWindow`: with a 2-minute window, the limiter implements `RateLimitWindow` (every verdict matches the log of in-window admissions, and cleanup forgets nothing still in the window). |
| ws_session | `MCWebSocketSession.cfg` | pass | `TypeOK`; `SessionTearsDown` (after any failure the handler returns and no pump stays blocked on `errChan`); `MessagesForwarded` (while both sides are open, every message sent is delivered). |
| recorder_one_response | `MCResponseRecorder.cfg` | pass (700K states, ~12 s) | `TypeOK`; `OneResponse`: whatever the attempts write into their recorders, the client's writer gets at most one final status, and only the flushed attempt's body, the canonical 502 or the 403. `ValidatorAdmitsEndpoints`: `ServeHTTP` answers 403 exactly when the path is not an endpoint by the reference `IsEndpoint`, for every path of up to seven symbols. |
| retry_without_body | `MC_RetryForwardsBody.cfg` | violation | The first attempt consumes the request body. The retry sends the same, now empty and closed body, so a POST is never forwarded to the second node; its transport error becomes a 502 (`response_recorder.go:122`). |
| metrics_crash | `MC_NoCrash.cfg` | violation | With metrics enabled, the process dies. Shortest trace: the scheduler stores a new metric in `c.counters` while a request goroutine looks one up, and the Go runtime aborts on the concurrent map read and map write (`client.go:82,93`). Without any request, two health-check failures of different kinds also do it: `healthcheck.failed` gets 2 tags, then 3, and `WithLabelValues` panics in the scheduler goroutine, which has no `recover` (`client.go:97`). |

The findings in `PROJECT.json` record what each violation shows.

**Bounds.**
- Three nodes are the fewest in which the following can all happen:
  - a demoted primary;
  - a promoted backup;
  - a third node whose probe order differs from its priority order.
- Thresholds of 2 separate "one error" from "demote".
- `MaxRetries` = 2 lets a request fail over once, and still lets the bound stop the loop before the list ends.
- One request goroutine is enough for every race above: each one is between a request and the scheduler. Two request goroutines multiply the state space past the time budget and are left for a reduced configuration.

**Fairness.**
- A request step that is enabled is weakly fair. A runnable goroutine is eventually run.
- The scheduler's steps are weakly fair. The ticker keeps firing, and the probes have timeouts.
- Taking `lb.mu` for the removal is strongly fair. Go's `sync.Mutex` enters starvation mode for a waiter blocked over 1 ms and hands it the lock, so the periodic scheduler cannot overtake it forever.
- Sending a new request is not fair. Clients need not send any.
- In `WebSocketSession`, the handler's steps and each pump's own steps (`ReadMessage` when a message is there, `ReadError`, `WriteMessage`, `SendError`) are weakly fair. A peer is never forced to send or to close. The session ends in a final state, so `MCWebSocketSession.cfg` does not check deadlock.
- `RateLimiter` has only safety properties, so no fairness is needed.

**More bounds.**
- Rate limiter:
  - two clients (symmetric) and `rps` = 2;
  - the clock runs to 8 minutes, which is past the 5-minute idle expiry plus one window;
  - the window is 2 minutes. A window above cleanup's 5-minute idle cut-off breaks `ImplementsWindow`; no run of the project uses one (see section 4).
- WebSocket session: two messages per direction, enough for a pump to loop and to be cut mid-message.
- Endpoint validator: three of the source's patterns (`/eth/v1/node/peers`, `/eth/v1/node/peers/[^/]+`, `/eth/v1/beacon/states/[^/]+/root`). Paths are every "/" followed by up to six symbols among "/", whitespace, the patterns' literal runs and one other token: about 137K paths. These include trailing slashes and spaces, empty segments, extra segments and a `[^/]+` segment that holds a literal. A literal run such as `eth/v1/node` is one token, so a path holds it whole or not at all.
- Metrics client: the scheduler and one request goroutine, two calls each. Any call site may come first, as it can over the process's lifetime.
- Response recorder: two attempts (one retry), two body chunks, one interim code (103) and final codes 201 and 404 besides 502. A success, a client error and a proxy error are each possible in both attempts, and a body can be cut after its first chunk.
- Failback: `core_safety` uses failback threshold 1. With the threshold at 2 or more, failback can never happen: while the original primary is a backup, its first healthy probe makes the restore loop (`health_check.go:297-306`) give it priority 0 again, so it is never a backup with two successes. `FailbackAfterPass` would hold vacuously, so the core run uses threshold 1. Its other properties do not depend on this threshold. This is the same root cause as `two_primaries`.
- In `LoadBalancer`, `Failback`'s read of the current primary and its two `SetPriority` calls are one step. A request's `DemotePrimary` landing between them leaves the same node out of rotation and the original primary as the only primary, so splitting them adds no reachable violation of the checked properties.

## 4. Not modelled, and why

- **Headers and logging.** The recorder's header map is copied verbatim and no decision reads it. Logging only emits output.
- **Metric names.** Whether Prometheus accepts the dotted names (`healthcheck.success`) depends on the client library's name-validation scheme. The repository has no `go.mod` that pins it. With the legacy scheme, the first call of every metric would panic.
- **`getClientIP` and `parseFirstIP`.** These parse headers and keep no state; the model takes the client IP as given.
- **DNS cache and transport** (`unnamed/part_002`, `part_003`). They decide how a backend is dialled, not which backend is chosen or what the proxy answers. The cache's races (two misses both resolve and store; an older entry's expiry goroutine deletes a newer entry early) only cost extra lookups. A cached address is never older than one TTL, because every store starts its own expiry. An attempt's outcome (answer, 5xx, dial error) is the environment's choice, which covers every result of a dial.
- **Health prober** (`unnamed/part_001`). `CheckSyncStatus` and `HealthCheck` classify one response of `/eth/v1/node/syncing`. Their verdict is the environment's choice in `ProbeResult` and `StartupHealthCheck`. The reason strings only select a metric call site, which `MetricsClient` models.
- **Logger and configuration loading** (`unnamed/part_005`, `part_006`). They run once before serving and change no state the models track.
- **Configuration and `main`.** `main` runs once, in order: `New`, `StartupHealthCheck` (exit on error), `StartPeriodicHealthCheck`, the rate limiter, `setupRoutes`, `ListenAndServe`. The `LoadBalancer` initial states are the states after this sequence. The validated configuration bounds are the `ASSUME`s.
- **Statistics.** `TotalFailures`, `Requests` and `LastCheck` are not read by any decision.
- **Node construction failure.** The model assumes all configured nodes are built. The hazard at `loadbalancer.go:47` explains why a gap in priorities changes no decision.

**Reachable in the models, without a run of their own.** The violation runs are kept for the findings that lose requests or break failover. The behaviours below are reachable too; `PROJECT.json` lists each as a hazard with a note.
- The rebuilt healthy list is in probe-arrival order, not priority order (`health_check.go:173`). A backup promoted in the same pass keeps its place among the other backups (`health_check.go:367`), so the new primary need not head the list until the next pass.
- A request loads a backup's error count (`response_recorder.go:221`). A pass then probes the node healthy and promotes it, and the request demotes the new primary on the stale count (line 224).
- A backend's 1xx interim status is kept by the recorder as the attempt's status (`response_recorder.go:22`). `IsSuccess(103)` is false (line 129), so the attempt counts as failed whatever the final answer was, and the request fails over; if every attempt does this, the client gets the canonical 502.
- A body copy failure panics with `http.ErrAbortHandler`: no failover, and the client connection is cut (`response_recorder.go:178`).
- A request demotes node 0 outside `lb.mu` (`response_recorder.go:237`). The scheduler probes node 0 as a backup and restores it to priority 0. The rebuild then lists node 0 twice: first because it is still in the old list, and again among the backups.
- With a rate-limit window longer than cleanup's 5-minute idle cut-off, cleanup forgets admissions still inside the window (`ratelimit.go:83`).

## 5. Plan for later work

1. **Abstract routing specification.** A spec where a request atomically gets one response from the current primary or a failure. The detailed `LoadBalancer` is checked against it through `INSTANCE ... WITH` a refinement mapping.
2. **Two request goroutines.** A configuration with two request goroutines and N = 2, to check the request/request races on `lb.mu` and the counters.
