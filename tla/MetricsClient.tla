---------------------------- MODULE MetricsClient ----------------------------
(***************************************************************************)
(* The Prometheus metrics client (cmd/metrics/client.go) as the request   *)
(* goroutines and the health-check scheduler goroutine call it.           *)
(*                                                                         *)
(* Incr, Timing and Gauge look the metric up in one of three plain Go maps *)
(* (counters, summaries, gauges).  On a miss they create a vector whose    *)
(* label names are those of this call's tags, register it with the        *)
(* default registry (promauto: MustRegister, which panics on a duplicate)  *)
(* and store it in the map.  They then call WithLabelValues with this     *)
(* call's tag values, which panics when their number differs from the     *)
(* vector's label names.  Nothing guards the maps: the Go runtime aborts  *)
(* the process when it sees a map written while another goroutine reads  *)
(* or writes it.  net/http recovers a panic of a request goroutine; the    *)
(* scheduler goroutine has no recover, so its panic ends the process.     *)
(*                                                                         *)
(* A call site is the metric's kind, its name and the number of tags it   *)
(* passes; tag values and the observed numbers are left out.              *)
(***************************************************************************)
EXTENDS Naturals, FiniteSets

CONSTANTS
    Requests,    \* request goroutines
    Scheduler,   \* the periodic health-check goroutine
    MaxCalls     \* metric calls per goroutine, at most

ASSUME MaxCalls \in Nat /\ Scheduler \notin Requests

Goroutines == Requests \cup {Scheduler}
Kinds == {"counter", "summary", "gauge"}
None == "none"

Site(k, n, a) == [kind |-> k, name |-> n, arity |-> a]

\* The call sites of performHealthCheck (health_check.go).
SchedulerSites ==
    { Site("counter", "healthcheck.success", 1),
      Site("counter", "healthcheck.failed", 2),     \* request_failed, ...
      Site("counter", "healthcheck.failed", 3),     \* non_200_status
      Site("counter", "healthcheck.not_synced", 4),
      Site("counter", "node.failback_to_original_primary", 1),
      Site("counter", "node.backup_promoted", 1),
      Site("gauge", "loadbalancer.healthy_backup_nodes", 0),
      Site("gauge", "loadbalancer.unhealthy_backup_nodes", 0) }

\* The call sites of the request path (response_recorder.go and
\* websocket_handler.go).
RequestSites ==
    { Site("counter", "request.invalid_endpoint", 1),
      Site("summary", "request.attempt_duration", 3),
      Site("summary", "request.duration", 3),
      Site("counter", "request.success", 1),
      Site("counter", "node.primary_demoted", 1),   \* handleNodeError
      Site("counter", "node.primary_demoted", 2),   \* WebSocket dial loop
      Site("counter", "request.failover", 2),
      Site("counter", "request.failure", 0),
      Site("counter", "websocket.connected", 1),
      Site("counter", "websocket.disconnected", 1) }

Sites(g) == IF g = Scheduler THEN SchedulerSites ELSE RequestSites
Names == {s.name : s \in SchedulerSites \cup RequestSites}

VARIABLES
    vecs,      \* vecs[k][name]: label count of the map's vector, or None
    registry,  \* registry[name]: label count registered, or None
    writing,   \* writing[k]: the goroutine inside a write of map k, or None
    pc,        \* pc[g]: "idle", "register", "store", "stored", "label"
    site,      \* site[g]: the call in progress
    held,      \* held[g]: label count of the vector the call holds
    calls,     \* calls[g]: calls made so far
    crashed    \* the process has exited

mVars == <<vecs, registry, writing, pc, site, held, calls, crashed>>

TypeOK ==
    /\ vecs \in [Kinds -> [Names -> 0..4 \cup {None}]]
    /\ registry \in [Names -> 0..4 \cup {None}]
    /\ writing \in [Kinds -> Goroutines \cup {None}]
    /\ pc \in [Goroutines -> {"idle", "register", "store", "stored", "label"}]
    /\ site \in [Goroutines -> SchedulerSites \cup RequestSites]
    /\ held \in [Goroutines -> 0..4]
    /\ calls \in [Goroutines -> 0..MaxCalls]
    /\ crashed \in BOOLEAN

\* NewClient with metrics enabled: empty maps, nothing registered.
Init ==
    /\ vecs = [k \in Kinds |-> [n \in Names |-> None]]
    /\ registry = [n \in Names |-> None]
    /\ writing = [k \in Kinds |-> None]
    /\ pc = [g \in Goroutines |-> "idle"]
    /\ site = [g \in Goroutines |-> CHOOSE s \in Sites(g) : TRUE]
    /\ held = [g \in Goroutines |-> 0]
    /\ calls = [g \in Goroutines |-> 0]
    /\ crashed = FALSE

\* Another goroutine is inside a write of map k: a read or write of g may
\* be seen by the runtime's check ("concurrent map read and map write").
Racing(g, k) == writing[k] \notin {None, g}

\* A panic in goroutine g: net/http recovers it for a request goroutine,
\* whose call is abandoned; the scheduler's ends the process.
Panic(g) ==
    /\ pc' = [pc EXCEPT ![g] = "idle"]
    /\ crashed' = (g = Scheduler)

\* Incr / Timing / Gauge begin: c.counters[name] (or summaries, gauges).
Lookup(g, s) ==
    /\ ~crashed /\ pc[g] = "idle" /\ calls[g] < MaxCalls
    /\ site' = [site EXCEPT ![g] = s]
    /\ calls' = [calls EXCEPT ![g] = @ + 1]
    /\ \/ /\ Racing(g, s.kind)
          /\ crashed' = TRUE
          /\ UNCHANGED <<pc, held>>
       \/ /\ vecs[s.kind][s.name] # None
          /\ held' = [held EXCEPT ![g] = vecs[s.kind][s.name]]
          /\ pc' = [pc EXCEPT ![g] = "label"]
          /\ UNCHANGED crashed
       \/ /\ vecs[s.kind][s.name] = None
          /\ pc' = [pc EXCEPT ![g] = "register"]
          /\ UNCHANGED <<held, crashed>>
    /\ UNCHANGED <<vecs, registry, writing>>

\* promauto.NewCounterVec (...SummaryVec, ...GaugeVec) with the label
\* names of parseTags(tags): MustRegister under the registry's own lock.
Register(g) ==
    LET s == site[g] IN
    /\ ~crashed /\ pc[g] = "register"
    /\ IF registry[s.name] # None
         THEN /\ Panic(g)
              /\ UNCHANGED <<registry, held>>
         ELSE /\ registry' = [registry EXCEPT ![s.name] = s.arity]
              /\ held' = [held EXCEPT ![g] = s.arity]
              /\ pc' = [pc EXCEPT ![g] = "store"]
              /\ UNCHANGED crashed
    /\ UNCHANGED <<vecs, writing, site, calls>>

\* c.counters[name] = counter: the write starts ...
StoreBegin(g) ==
    LET k == site[g].kind IN
    /\ ~crashed /\ pc[g] = "store"
    /\ \/ /\ Racing(g, k)
          /\ crashed' = TRUE
          /\ UNCHANGED <<vecs, writing, pc>>
       \/ /\ writing' = [writing EXCEPT ![k] = g]
          /\ vecs' = [vecs EXCEPT ![k][site[g].name] = held[g]]
          /\ pc' = [pc EXCEPT ![g] = "stored"]
          /\ UNCHANGED crashed
    /\ UNCHANGED <<registry, site, held, calls>>

\* ... and ends.
StoreEnd(g) ==
    LET k == site[g].kind IN
    /\ ~crashed /\ pc[g] = "stored"
    /\ writing' = [writing EXCEPT ![k] = IF @ = g THEN None ELSE @]
    /\ pc' = [pc EXCEPT ![g] = "label"]
    /\ UNCHANGED <<vecs, registry, site, held, calls, crashed>>

\* counter.WithLabelValues(labelValues...).Add(rate): panics when the
\* number of values differs from the vector's label names.
WithLabelValues(g) ==
    /\ ~crashed /\ pc[g] = "label"
    /\ IF site[g].arity # held[g]
         THEN Panic(g)
         ELSE /\ pc' = [pc EXCEPT ![g] = "idle"]
              /\ UNCHANGED crashed
    /\ UNCHANGED <<vecs, registry, writing, site, held, calls>>

Next ==
    \/ \E g \in Goroutines : \E s \in Sites(g) : Lookup(g, s)
    \/ \E g \in Goroutines :
          \/ Register(g) \/ StoreBegin(g) \/ StoreEnd(g) \/ WithLabelValues(g)

Spec == Init /\ [][Next]_mVars

-----------------------------------------------------------------------------
\* Spec section 1: metric emission is a narrow interface whose
\* implementation does not affect correctness; in particular no sequence
\* of Incr, Timing and Gauge calls from the request goroutines and the
\* health-check scheduler brings the proxy down.
NoCrash == ~crashed

=============================================================================
