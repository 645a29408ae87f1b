---------------------------- MODULE LoadBalancer ----------------------------
(***************************************************************************)
(* The core of consensus-proxy: the shared healthy-node list, the request  *)
(* path that fails over across it and demotes a failing primary            *)
(* (ServeHTTP, handleHTTPRequest, handleNodeError, handleWebSocket,        *)
(* connectToUpstreamWebSocket) and the periodic health-check scheduler     *)
(* that promotes, fails back and rebuilds the list (performHealthCheck).   *)
(*                                                                         *)
(* Concurrency follows the code: every request handler is its own          *)
(* goroutine, the scheduler is one ticker goroutine whose passes never     *)
(* overlap, and the only shared lock is lb.mu (lbLock).  Node priorities   *)
(* are written under the node's own mutex, NOT under lb.mu, so a request   *)
(* can demote a node in the middle of the scheduler's locked block: the    *)
(* block is split into its three steps to expose exactly that.             *)
(* What a backend answers (probe healthy or not, 2xx/4xx/5xx, dial ok or   *)
(* not) is the environment's free choice.                                  *)
(***************************************************************************)
EXTENDS BeaconNode, SequencesExt

CONSTANTS
    Requests,                     \* concurrent request goroutines
    ErrorThreshold,               \* failover.error_threshold
    MaxRetries,                   \* server.max_retries
    SuccessfulChecksForFailback   \* healthcheck.successful_checks_for_failback

\* config.Validate: max_retries >= 1, error_threshold >= 1, failback >= 1.
ASSUME /\ ErrorThreshold \in 1..MaxCount
       /\ SuccessfulChecksForFailback \in 1..MaxCount
       /\ MaxRetries \in Nat \ {0}

VARIABLES
    healthyNodes,       \* lb.healthyNodes
    lbLock,             \* lb.mu held for writing: "free" or "hc" (scheduler);
                        \*   a request's own write section is one step
    hcPc,               \* where the scheduler goroutine is in performHealthCheck
    backupNodes,        \* the backups this pass probes
    pending,            \* backups whose probe result is not collected yet
    newHealthyBackups,  \* backups found healthy, in the order results arrived
    applying,           \* {n} while n's healthy result is between
                        \*   IncrementSuccess and ResetErrors, else {}
    req,                \* req[r]: locals of request goroutine r (see Idle)
    resp                \* resp[r]: what r's last request wrote to its client

hcVars == <<backupNodes, pending, newHealthyBackups, applying>>
reqVars == <<req, resp>>
vars == <<nodeVars, healthyNodes, lbLock, hcPc, hcVars, reqVars>>

(* A request goroutine's locals: pc, kind ("http" or "ws"), snap (the     *)
(* healthy list copied at its start), idx (loop index i, 0-based), ce     *)
(* (consecutiveErrors loaded at line 221), deadline ("live",             *)
(* "passed" once time.Since(start) > RequestTimeout, "fired" once         *)
(* overallCtx.Done() is closed) and last, the status class of the last    *)
(* attempt (lastStatusCode).                                              *)
Idle == [pc |-> "idle", kind |-> "http", snap |-> <<>>, idx |-> 0, ce |-> 0,
         deadline |-> "live", last |-> "none"]

\* "pending" while in flight; "none" when the handler returned without
\* writing anything (net/http then sends an empty 200).
Responses == {"pending", "none", "403", "success", "502", "503", "504", "ws"}

ReqState == [pc : {"idle", "loop", "wsDial", "incErr", "loadErr", "check",
                    "demote", "remove"},
             kind : {"http", "ws"}, snap : Seq(Nodes), idx : Nat,
             ce : 0..MaxCount, deadline : {"live", "passed", "fired"},
             last : {"none", "4xx", "5xx"}]

TypeOK ==
    /\ NodeTypeOK
    /\ healthyNodes \in Seq(Nodes)
    /\ lbLock \in {"free", "hc"}
    /\ hcPc \in {"idle", "probing", "resetErrors", "restore", "rebuild"}
    /\ backupNodes \subseteq Nodes /\ pending \subseteq backupNodes
    /\ newHealthyBackups \in Seq(backupNodes)
    /\ applying \subseteq backupNodes \ pending
    /\ Cardinality(applying) <= 1
    /\ req \in [Requests -> ReqState]
    /\ resp \in [Requests -> Responses]

-----------------------------------------------------------------------------
(* Startup: New gives node i priority i; StartupHealthCheck probes every   *)
(* node, keeps the healthy ones sorted by priority, and the process exits  *)
(* if none is healthy, so serving starts from a non-empty healthy list.    *)
StartupHealthCheck ==
    \E healthy \in SUBSET Nodes \ {{}} :
        healthyNodes = SetToSortSeq(healthy, <)

Init ==
    /\ NodeInit
    /\ StartupHealthCheck
    /\ lbLock = "free"
    /\ hcPc = "idle"
    /\ backupNodes = {}
    /\ pending = {}
    /\ newHealthyBackups = <<>>
    /\ applying = {}
    /\ req = [r \in Requests |-> Idle]
    /\ resp = [r \in Requests |-> "pending"]

-----------------------------------------------------------------------------
(*************************** Request path *********************************)

\* The node request r is trying now.
Target(r) == req[r].snap[req[r].idx + 1]

\* The handler returns having written code; its locals are gone.
Finish(r, code) ==
    /\ req' = [req EXCEPT ![r] = Idle]
    /\ resp' = [resp EXCEPT ![r] = code]

\* Bug variant of NextNode: the loop index is not advanced.
NextNodeNoAdvance(r) ==
    req' = [req EXCEPT ![r].ce = 0,
                       ![r].pc = IF req[r].kind = "http" THEN "loop"
                                                          ELSE "wsDial"]

\* Go on with the next node of the snapshot.
NextNode(r) ==
    req' = [req EXCEPT ![r].idx = @ + 1, ![r].ce = 0,
                       ![r].pc = IF req[r].kind = "http" THEN "loop"
                                                          ELSE "wsDial"]

Goto(r, where) == req' = [req EXCEPT ![r].pc = where]

\* Guard of an attempt: the range has a node left and i < MaxRetries.
HasAttempt(r) ==
    /\ req[r].idx < Len(req[r].snap)
    /\ req[r].idx < MaxRetries

\* ServeHTTP (and handleWebSocket): the validator rejects the path: 403.
RejectEndpoint(r) ==
    /\ req[r].pc = "idle"
    /\ resp' = [resp EXCEPT ![r] = "403"]
    /\ UNCHANGED <<nodeVars, healthyNodes, lbLock, hcPc, hcVars, req>>

\* handleHTTPRequest: start the deadline, GetHealthyNodes under the read
\* lock.
StartHTTP(r) ==
    /\ req[r].pc = "idle"
    /\ lbLock = "free"
    /\ req' = [req EXCEPT ![r] = [Idle EXCEPT !.pc = "loop",
                                               !.snap = healthyNodes]]
    /\ resp' = [resp EXCEPT ![r] = "pending"]
    /\ UNCHANGED <<nodeVars, healthyNodes, lbLock, hcPc, hcVars>>

\* Wall time passes the request timeout, then the context timer fires.
DeadlineElapses(r) ==
    /\ req[r].kind = "http"
    /\ req[r].pc # "idle"
    /\ req[r].deadline # "fired"
    /\ req' = [req EXCEPT ![r].deadline = IF @ = "live" THEN "passed"
                                                         ELSE "fired"]
    /\ UNCHANGED <<nodeVars, healthyNodes, lbLock, hcPc, hcVars, resp>>

\* Loop exhausted (range ended or i >= MaxRetries): 502.
AllNodesFailed(r) ==
    /\ req[r].pc = "loop"
    /\ ~HasAttempt(r)
    /\ Finish(r, "502")
    /\ UNCHANGED <<nodeVars, healthyNodes, lbLock, hcPc, hcVars>>

\* checkRequestTimeout saw overallCtx.Done(): the handler returns without
\* writing a response.
RequestContextDone(r) ==
    /\ req[r].pc = "loop"
    /\ HasAttempt(r)
    /\ req[r].deadline = "fired"
    /\ Finish(r, "none")
    /\ UNCHANGED <<nodeVars, healthyNodes, lbLock, hcPc, hcVars>>

\* remainingTimeout <= 0 while the context has not fired yet: 504.
NoTimeRemaining(r) ==
    /\ req[r].pc = "loop"
    /\ HasAttempt(r)
    /\ req[r].deadline = "passed"
    /\ Finish(r, "504")
    /\ UNCHANGED <<nodeVars, healthyNodes, lbLock, hcPc, hcVars>>

\* attemptNodeRequest through the node's reverse proxy, then the status
\* classification of handleHTTPRequest.  A 5xx includes the 502 the
\* reverse proxy writes itself when the upstream round trip fails or the
\* attempt context expires.
AttemptNode(r) ==
    /\ req[r].pc = "loop"
    /\ HasAttempt(r)
    /\ req[r].deadline = "live"
    /\ LET n == Target(r) IN
       \/ \* 2xx/3xx: handleSuccessResponse
          /\ ResetErrors(n)
          /\ Finish(r, "success")
          /\ UNCHANGED <<priority, consecutiveSuccesses>>
       \/ \* 4xx: not counted against the node; on to the next node
          /\ req' = [req EXCEPT ![r].idx = @ + 1, ![r].ce = 0,
                                 ![r].pc = "loop", ![r].last = "4xx"]
          /\ UNCHANGED <<nodeVars, resp>>
       \/ \* 5xx: handleNodeError calls node.IncrementError()
          /\ IncrementErrorCount(n)
          /\ req' = [req EXCEPT ![r].pc = "incErr", ![r].last = "5xx"]
          /\ UNCHANGED <<priority, consecutiveSuccesses, resp>>
       \/ \* the overall deadline fires during the round trip: the attempt
          \* context is cancelled and the reverse proxy's error handler
          \* records a 502, which handleNodeError counts like any 5xx
          /\ IncrementErrorCount(n)
          /\ req' = [req EXCEPT ![r].pc = "incErr", ![r].last = "5xx",
                                 ![r].deadline = "fired"]
          /\ UNCHANGED <<priority, consecutiveSuccesses, resp>>
    /\ UNCHANGED <<healthyNodes, lbLock, hcPc, hcVars>>

\* handleWebSocket: GetHealthyNodes; 503 if the list is empty.
StartWebSocket(r) ==
    /\ req[r].pc = "idle"
    /\ lbLock = "free"
    /\ IF healthyNodes = <<>>
         THEN Finish(r, "503")
         ELSE /\ req' = [req EXCEPT ![r] = [Idle EXCEPT !.pc = "wsDial",
                                                        !.kind = "ws",
                                                        !.snap = healthyNodes]]
              /\ resp' = [resp EXCEPT ![r] = "pending"]
    /\ UNCHANGED <<nodeVars, healthyNodes, lbLock, hcPc, hcVars>>

\* connectToUpstreamWebSocket: dial the next node (no MaxRetries bound).
\* A successful dial ends the failover part; the session is the business
\* of the message pumps.
DialWebSocket(r) ==
    /\ req[r].pc = "wsDial"
    /\ IF req[r].idx >= Len(req[r].snap)
         THEN /\ Finish(r, "502")
              /\ UNCHANGED nodeVars
         ELSE \/ /\ Finish(r, "ws")
                 /\ UNCHANGED nodeVars
              \/ /\ IncrementErrorCount(Target(r))
                 /\ Goto(r, "incErr")
                 /\ UNCHANGED <<priority, consecutiveSuccesses, resp>>
    /\ UNCHANGED <<healthyNodes, lbLock, hcPc, hcVars>>

\* The rest of IncrementError: the success counter is reset.  handleNodeError
\* then loads the count (atomic.LoadInt64); the WebSocket loop reads it at
\* its check.
IncrementErrorDone(r) ==
    /\ req[r].pc = "incErr"
    /\ IncrementErrorReset(Target(r))
    /\ Goto(r, IF req[r].kind = "http" THEN "loadErr" ELSE "check")
    /\ UNCHANGED <<priority, consecutiveErrors, healthyNodes, lbLock, hcPc,
                   hcVars, resp>>

\* consecutiveErrors := atomic.LoadInt64(&node.ConsecutiveErrors).
LoadErrors(r) ==
    /\ req[r].pc = "loadErr"
    /\ req' = [req EXCEPT ![r].ce = consecutiveErrors[Target(r)],
                           ![r].pc = "check"]
    /\ UNCHANGED <<nodeVars, healthyNodes, lbLock, hcPc, hcVars, resp>>

\* The error count the demotion decision compares: the value loaded right
\* by LoadErrors (HTTP), or a fresh unsynchronised read (WebSocket).
ErrorsSeen(r) ==
    IF req[r].kind = "http" THEN req[r].ce ELSE consecutiveErrors[Target(r)]

\* node.IsPrimary() && errors >= ErrorThreshold decides on demotion.
CheckDemotion(r) ==
    /\ req[r].pc = "check"
    /\ IF IsPrimary(Target(r)) /\ ErrorsSeen(r) >= ErrorThreshold
         THEN req' = [req EXCEPT ![r].pc = "demote", ![r].ce = 0]
         ELSE NextNode(r)
    /\ UNCHANGED <<nodeVars, healthyNodes, lbLock, hcPc, hcVars, resp>>

\* node.SetPriority(len(lb.nodes)), under the node mutex only.
DemotePrimary(r) ==
    /\ req[r].pc = "demote"
    /\ SetPriority(Target(r), DemotedPriority)
    /\ Goto(r, "remove")
    /\ UNCHANGED <<consecutiveErrors, consecutiveSuccesses, healthyNodes,
                   lbLock, hcPc, hcVars, resp>>

\* Bug variant of RemoveFromHealthy: the filter keeps the node.
RemoveFromHealthyKeep(r) ==
    /\ req[r].pc = "remove"
    /\ lbLock = "free"
    /\ NextNode(r)
    /\ UNCHANGED <<nodeVars, healthyNodes, lbLock, hcPc, hcVars, resp>>

\* lb.mu.Lock(); filter the node out of healthyNodes; lb.mu.Unlock().
RemoveFromHealthy(r) ==
    /\ req[r].pc = "remove"
    /\ lbLock = "free"
    /\ healthyNodes' = Remove(healthyNodes, Target(r))
    /\ NextNode(r)
    /\ UNCHANGED <<nodeVars, lbLock, hcPc, hcVars, resp>>

-----------------------------------------------------------------------------
(************************ Periodic health check ***************************)

\* A ticker tick: collect the backups (priority > 0) and probe them
\* concurrently.  With no backup the pass returns at once (a stutter).
HealthCheckTick ==
    /\ hcPc = "idle"
    /\ \E n \in Nodes : IsBackup(n)
    /\ backupNodes' = {n \in Nodes : IsBackup(n)}
    /\ pending' = {n \in Nodes : IsBackup(n)}
    /\ newHealthyBackups' = <<>>
    /\ hcPc' = "probing"
    /\ UNCHANGED <<nodeVars, healthyNodes, lbLock, applying, reqVars>>

\* One probe result taken from resultsChan, in any arrival order: a healthy
\* one starts with IncrementSuccess, an unhealthy one is ResetSuccesses.
ProbeResult(n) ==
    /\ hcPc = "probing"
    /\ n \in pending
    /\ pending' = pending \ {n}
    /\ \/ /\ IncrementSuccess(n)
          /\ applying' = {n}
          /\ hcPc' = "resetErrors"
       \/ /\ ResetSuccesses(n)
          /\ UNCHANGED <<applying, hcPc>>
    /\ UNCHANGED <<priority, consecutiveErrors, healthyNodes, lbLock,
                   backupNodes, newHealthyBackups, reqVars>>

\* The healthy result goes on: ResetErrors, then the append.
ProbeResetErrors ==
    /\ hcPc = "resetErrors"
    /\ \E n \in applying :
          /\ ResetErrors(n)
          /\ newHealthyBackups' = Append(newHealthyBackups, n)
    /\ applying' = {}
    /\ hcPc' = "probing"
    /\ UNCHANGED <<priority, consecutiveSuccesses, healthyNodes, lbLock,
                   backupNodes, pending, reqVars>>

\* The first node of lb.nodes with priority 0, as a set of at most one.
CurrentPrimary ==
    LET ps == {n \in Nodes : IsPrimary(n)}
    IN IF ps = {} THEN {} ELSE {Min(ps)}

\* Bug variant of Failback: the interim primary keeps priority 0.
FailbackKeepInterim ==
    /\ hcPc = "probing"
    /\ pending = {}
    /\ lbLock = "free"
    /\ lbLock' = "hc"
    /\ hcPc' = "restore"
    /\ IF /\ 0 \in ToSet(newHealthyBackups)
          /\ consecutiveSuccesses[0] >= SuccessfulChecksForFailback
          /\ CurrentPrimary # {}
          /\ CurrentPrimary # {0}
         THEN /\ priority' = [priority EXCEPT ![0] = 0]
              /\ ResetErrors(0)
         ELSE UNCHANGED <<priority, consecutiveErrors>>
    /\ UNCHANGED <<consecutiveSuccesses, healthyNodes, hcVars, reqVars>>

\* lb.mu.Lock(), then the failback decision: the original primary (node 0)
\* is among the healthy backups with enough consecutive successes while
\* another node is primary.
Failback ==
    /\ hcPc = "probing"
    /\ pending = {}
    /\ lbLock = "free"
    /\ lbLock' = "hc"
    /\ hcPc' = "restore"
    /\ IF /\ 0 \in ToSet(newHealthyBackups)
          /\ consecutiveSuccesses[0] >= SuccessfulChecksForFailback
          /\ CurrentPrimary # {}
          /\ CurrentPrimary # {0}
         THEN LET cp == CHOOSE c \in CurrentPrimary : TRUE IN
              /\ priority' = [priority EXCEPT ![0] = 0,
                                              ![cp] = OriginalPriority(cp)]
              /\ ResetErrors(0)
         ELSE UNCHANGED <<priority, consecutiveErrors>>
    /\ UNCHANGED <<consecutiveSuccesses, healthyNodes, hcVars, reqVars>>

\* Every healthy backup gets its original priority back.
RestorePriorities ==
    /\ hcPc = "restore"
    /\ priority' = [n \in Nodes |->
                      IF n \in ToSet(newHealthyBackups)
                        THEN OriginalPriority(n) ELSE priority[n]]
    /\ hcPc' = "rebuild"
    /\ UNCHANGED <<consecutiveErrors, consecutiveSuccesses, healthyNodes,
                   lbLock, hcVars, reqVars>>

\* The index in s of the backup with the smallest priority > 0 (the first
\* one on ties, as the strict < of the scan keeps the earlier node).
LowestBackupIndex(s) ==
    LET I == {i \in 1..Len(s) : priority[s[i]] > 0}
    IN { i \in I : \A j \in I :
            \/ priority[s[i]] < priority[s[j]]
            \/ priority[s[i]] = priority[s[j]] /\ i <= j }

\* The node promoted when no node has priority 0 (as a set of at most one).
NodeToPromote ==
    IF 0 \in ToSet(newHealthyBackups) THEN {0}
    ELSE {newHealthyBackups[i] : i \in LowestBackupIndex(newHealthyBackups)}

\* Rebuild: the current primary if it was already in the healthy list,
\* then every healthy backup; promote a backup if nobody is primary;
\* lb.mu.Unlock().
RebuildHealthyNodes ==
    /\ hcPc = "rebuild"
    /\ LET head == IF CurrentPrimary # {} /\
                      CurrentPrimary \subseteq ToSet(healthyNodes)
                     THEN SetToSeq(CurrentPrimary) ELSE <<>>
       IN healthyNodes' = head \o newHealthyBackups
    /\ IF CurrentPrimary = {} /\ newHealthyBackups # <<>>
          /\ NodeToPromote # {}
         THEN LET p == CHOOSE x \in NodeToPromote : TRUE IN
              /\ SetPriority(p, 0)
              /\ ResetErrors(p)
         ELSE UNCHANGED <<priority, consecutiveErrors>>
    /\ lbLock' = "free"
    /\ hcPc' = "idle"
    /\ backupNodes' = {}
    /\ newHealthyBackups' = <<>>
    /\ UNCHANGED <<consecutiveSuccesses, pending, applying, reqVars>>

-----------------------------------------------------------------------------
RequestStep(r) ==
    \/ RejectEndpoint(r)
    \/ StartHTTP(r)
    \/ DeadlineElapses(r)
    \/ AllNodesFailed(r)
    \/ RequestContextDone(r)
    \/ NoTimeRemaining(r)
    \/ AttemptNode(r)
    \/ IncrementErrorDone(r)
    \/ LoadErrors(r)
    \/ StartWebSocket(r)
    \/ DialWebSocket(r)
    \/ CheckDemotion(r)
    \/ DemotePrimary(r)
    \/ RemoveFromHealthy(r)

HealthCheckStep ==
    \/ HealthCheckTick
    \/ \E n \in Nodes : ProbeResult(n)
    \/ ProbeResetErrors
    \/ Failback
    \/ RestorePriorities
    \/ RebuildHealthyNodes

Next ==
    \/ \E r \in Requests : RequestStep(r)
    \/ HealthCheckStep

Spec == Init /\ [][Next]_vars

\* Steps of a request already being served (not the client's choice to send
\* one) and every scheduler step are weakly fair: goroutines that can run
\* are eventually run by the Go scheduler, and the ticker keeps ticking.
\* Taking lb.mu for the removal is strongly fair: sync.Mutex hands the lock
\* to a waiter blocked for over 1ms (starvation mode), so a waiter is not
\* overtaken forever by the scheduler's periodic Lock.
InFlightStep(r) ==
    /\ req[r].pc # "idle"
    /\ RequestStep(r)

FairSpec ==
    /\ Spec
    /\ \A r \in Requests : WF_vars(InFlightStep(r))
    /\ \A r \in Requests : SF_vars(RemoveFromHealthy(r))
    /\ WF_vars(HealthCheckStep)

-----------------------------------------------------------------------------
(******************************** Properties ******************************)

\* Spec 3 / 8.1: a node's consecutive errors and consecutive successes are
\* never both positive once the calls on it are complete.  IncrementError
\* (error add, then success reset) and a healthy probe result
\* (IncrementSuccess, then ResetErrors) are each two atomics, and request
\* goroutines and the scheduler interleave them freely; whenever no request
\* is inside IncrementError on n and the scheduler is not inside n's
\* healthy result, the counters of n must not both be positive.
CountersExclusive ==
    \A n \in Nodes :
        (/\ \A r \in Requests : ~(req[r].pc = "incErr" /\ Target(r) = n)
         /\ n \notin applying)
            => ~(consecutiveErrors[n] > 0 /\ consecutiveSuccesses[n] > 0)

\* A node demoted on the request path (priority len(lb.nodes)) is never in
\* the healthy list, except between the demoting request's SetPriority and
\* its removal under lb.mu: neither a scheduler rebuild racing with the
\* demotion nor a stale snapshot may put a demoted node back in rotation.
DemotedNotServed ==
    \A n \in Nodes :
        (priority[n] = DemotedPriority /\ n \in ToSet(healthyNodes))
            => \E r \in Requests : req[r].pc = "remove" /\ Target(r) = n

\* No request or scheduler step is between a priority write and the matching
\* healthy-list write: the request path is not between SetPriority and its
\* removal, and the scheduler is not inside its locked block.
Settled ==
    /\ hcPc \notin {"restore", "rebuild"}
    /\ \A r \in Requests : req[r].pc # "remove"

\* Spec 4.4 / 8.2: the node at priority 0 is in the healthy list.  A
\* priority-0 node outside the list is never probed (the periodic check
\* only probes priority > 0) and never served, so it is lost for good.
PrimaryInRotation ==
    Settled => \A n \in Nodes : IsPrimary(n) => n \in ToSet(healthyNodes)

\* Spec 3: at most one node has priority 0 ("the primary").
AtMostOnePrimary ==
    \A m, n \in Nodes : IsPrimary(m) /\ IsPrimary(n) => m = n

\* Spec 4.5 / 6: a request whose overall deadline elapses is answered with
\* 504; the handler never returns without writing a response.
NoEmptyResponse ==
    \A r \in Requests : resp[r] # "none"

\* Spec 7 and end-to-end scenario 5: a request cancelled by its overall
\* deadline is not a backend failure, so the attempt the deadline cuts
\* short leaves the node's consecutive error count unchanged.
TimeoutNotCounted ==
    [][\A r \in Requests :
         (req[r].deadline = "live" /\ req'[r].deadline = "fired")
            => consecutiveErrors'[Target(r)] = consecutiveErrors[Target(r)]
      ]_vars

\* Spec 7: a backend 4xx is passed through to the client once the retries
\* are exhausted, so a request whose last attempt got a 4xx is never
\* answered with the canonical 502 of handleAllNodesFailed.
ClientErrorPassedThrough ==
    [][\A r \in Requests :
         (req[r].pc = "loop" /\ resp'[r] = "502") => req[r].last # "4xx"
      ]_vars

\* Spec 8.3 and end-to-end scenario 3: a pass in which the original primary
\* was probed healthy with enough consecutive successes ends with it as the
\* only primary: the interim primary is back at its original priority.
FailbackAfterPass ==
    [][ (/\ hcPc = "rebuild" /\ hcPc' = "idle"
         /\ 0 \in ToSet(newHealthyBackups)
         /\ consecutiveSuccesses[0] >= SuccessfulChecksForFailback)
        => \A n \in Nodes : IsPrimary(n)' <=> n = 0 ]_vars

\* Every request being served eventually returns: lb.mu is always released
\* and the failover loop is bounded.
RequestsComplete ==
    \A r \in Requests : (req[r].pc # "idle") ~> (req[r].pc = "idle")

=============================================================================
