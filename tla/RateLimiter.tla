----------------------------- MODULE RateLimiter -----------------------------
(***************************************************************************)
(* The per-IP limiter of cmd/ratelimit: a map from client IP to a bucket   *)
(* of admission timestamps pruned lazily on each Allow, and a cleanup      *)
(* goroutine that drops buckets not seen for a fixed idle time.  Allow and *)
(* cleanup both run under rl.mu.Lock, so each is one atomic step; time is  *)
(* read after taking the lock, so the timestamps in a bucket are ascending.*)
(* The cleanup ticker fires at arbitrary instants here (the code's one-    *)
(* minute period is a special case).  The client IP is taken as given:     *)
(* getClientIP is header parsing.                                          *)
(***************************************************************************)
EXTENDS Integers, Sequences, SequencesExt

CONSTANTS
    IPs,            \* client addresses
    RPS,            \* rl.rps (requests_per_second)
    Window,         \* rl.window, in clock ticks
    ClientExpiry,   \* the 5-minute idle time hard-coded in cleanup, in ticks
    MaxTime         \* last instant of the bounded clock

ASSUME /\ RPS \in Nat \ {0} /\ Window \in Nat \ {0}
       /\ ClientExpiry \in Nat /\ MaxTime \in Nat

VARIABLES
    now,            \* time.Now()
    clients,        \* rl.clients: ip -> bucket, or NoBucket when absent
    answer,         \* verdict of each client's latest request
    tickerStopped   \* Close has stopped rl.cleanupTicker

rlVars == <<now, clients, answer, tickerStopped>>

Times == 0..MaxTime
NoBucket == [requests |-> <<>>, lastSeen |-> -1]
Buckets == [requests : BoundedSeq(Times, RPS), lastSeen : Times]

TypeOK ==
    /\ now \in Times
    /\ clients \in [IPs -> Buckets \cup {NoBucket}]
    /\ answer \in [IPs -> {"none", "allowed", "rejected"}]
    /\ tickerStopped \in BOOLEAN

\* New: an empty map; the cleanup goroutine is started.
Init ==
    /\ now = 0
    /\ clients = [ip \in IPs |-> NoBucket]
    /\ answer = [ip \in IPs |-> "none"]
    /\ tickerStopped = FALSE

\* Bug variant of AllowResult: admits while at most rps remain.
AllowResultOffByOne(ip) ==
    LET b     == clients[ip]
        valid == SelectSeq(b.requests, LAMBDA t : t > now - Window)
    IN IF Len(valid) > RPS
         THEN [bucket |-> [requests |-> valid, lastSeen |-> now],
               allowed |-> FALSE]
         ELSE [bucket |-> [requests |-> Append(valid, now), lastSeen |-> now],
               allowed |-> TRUE]

\* Allow(ip) as a function of the state: the bucket it leaves behind and
\* its verdict.  A missing bucket is created; lastSeen is set on every
\* call; timestamps after now - window are kept; the request is admitted
\* (and its time appended) iff fewer than rps remain.
AllowResult(ip) ==
    LET b     == clients[ip]
        valid == SelectSeq(b.requests, LAMBDA t : t > now - Window)
    IN IF Len(valid) >= RPS
         THEN [bucket |-> [requests |-> valid, lastSeen |-> now],
               allowed |-> FALSE]
         ELSE [bucket |-> [requests |-> Append(valid, now), lastSeen |-> now],
               allowed |-> TRUE]

\* Middleware: Allow(getClientIP(r)); 429 when refused, else the request
\* goes on to the proxy.
Middleware(ip) ==
    LET res == AllowResult(ip) IN
    /\ clients' = [clients EXCEPT ![ip] = res.bucket]
    /\ answer' = [answer EXCEPT ![ip] = IF res.allowed THEN "allowed"
                                                       ELSE "rejected"]
    /\ UNCHANGED <<now, tickerStopped>>

\* Bug variant of Cleanup: the cutoff is taken ClientExpiry after now.
CleanupFutureCutoff ==
    /\ ~tickerStopped
    /\ clients' = [ip \in IPs |->
                     IF clients[ip] # NoBucket
                        /\ clients[ip].lastSeen < now + ClientExpiry
                       THEN NoBucket ELSE clients[ip]]
    /\ UNCHANGED <<now, answer, tickerStopped>>

\* A cleanup tick: delete every bucket whose lastSeen is before
\* now - ClientExpiry.
Cleanup ==
    /\ ~tickerStopped
    /\ clients' = [ip \in IPs |->
                     IF clients[ip] # NoBucket
                        /\ clients[ip].lastSeen < now - ClientExpiry
                       THEN NoBucket ELSE clients[ip]]
    /\ UNCHANGED <<now, answer, tickerStopped>>

\* Close: stop the cleanup ticker (the goroutine then blocks forever).
Close ==
    /\ ~tickerStopped
    /\ tickerStopped' = TRUE
    /\ UNCHANGED <<now, clients, answer>>

Tick ==
    /\ now < MaxTime
    /\ now' = now + 1
    /\ UNCHANGED <<clients, answer, tickerStopped>>

Next ==
    \/ \E ip \in IPs : Middleware(ip)
    \/ Cleanup
    \/ Close
    \/ Tick

Spec == Init /\ [][Next]_rlVars

-----------------------------------------------------------------------------
(* Refinement: the abstract log of a client is what its bucket still holds *)
(* inside the window; a missing bucket is an empty log.                    *)
W == INSTANCE RateLimitWindow
        WITH recent <- [ip \in IPs |->
                          SelectSeq(clients[ip].requests,
                                    LAMBDA t : t + Window > now)]

\* The limiter implements the sliding-window log: every Allow admits
\* exactly when fewer than rps admissions lie in the last window, and
\* neither the lazy pruning nor the cleanup goroutine forgets an
\* admission still inside the window.
ImplementsWindow == W!WindowSpec

=============================================================================
