----------------------------- MODULE BeaconNode -----------------------------
(***************************************************************************)
(* Per-backend state of the proxy (package beaconnode, type BeaconNode)    *)
(* and the operations on it.  A node is identified by its configured index *)
(* i, which is also its OriginalPriority (loadbalancer.New sets both to i).*)
(* The counters are Go atomics; Priority sits behind the node's own        *)
(* RWMutex.  Each operator below is one atomic access; IncrementError is   *)
(* two of them (the error add, then the success reset), which the callers  *)
(* take as two steps.  TotalFailures, Requests and LastCheck are           *)
(* statistics that no decision reads and are left out.                     *)
(***************************************************************************)
EXTENDS Naturals

CONSTANTS
    N,          \* number of configured (successfully constructed) nodes
    MaxCount    \* saturation bound of the consecutive-error/success counters

ASSUME N \in Nat \ {0} /\ MaxCount \in Nat \ {0}

VARIABLES
    priority,              \* priority[n]: 0 = primary, > 0 = backup
    consecutiveErrors,     \* atomic ConsecutiveErrors
    consecutiveSuccesses   \* atomic ConsecutiveSuccesses

nodeVars == <<priority, consecutiveErrors, consecutiveSuccesses>>

Nodes == 0..N-1

\* OriginalPriority never changes after New: it is the configured index.
OriginalPriority(n) == n

\* Bug variant of DemotedPriority: one past len(lb.nodes).
DemotedPriorityOffByOne == N + 1

\* Priority a request gives a demoted primary: len(lb.nodes).
DemotedPriority == N

\* The counters are int64 in the code; the model saturates them at
\* MaxCount.  Every decision compares them with a threshold <= MaxCount,
\* so a saturated value decides exactly as the real one.
Bump(c) == IF c < MaxCount THEN c + 1 ELSE c

NodeTypeOK ==
    /\ priority \in [Nodes -> 0..N]
    /\ consecutiveErrors \in [Nodes -> 0..MaxCount]
    /\ consecutiveSuccesses \in [Nodes -> 0..MaxCount]

NodeInit ==
    /\ priority = [n \in Nodes |-> OriginalPriority(n)]
    /\ consecutiveErrors = [n \in Nodes |-> 0]
    /\ consecutiveSuccesses = [n \in Nodes |-> 0]

IsPrimary(n) == priority[n] = 0
IsBackup(n) == priority[n] > 0

\* IncrementError, first atomic: AddInt64(&ConsecutiveErrors, 1).
IncrementErrorCount(n) ==
    consecutiveErrors' = [consecutiveErrors EXCEPT ![n] = Bump(@)]

\* Bug variant of IncrementErrorReset: the success counter is left alone.
IncrementErrorNoReset(n) ==
    consecutiveSuccesses' = consecutiveSuccesses

\* IncrementError, last atomic: StoreInt64(&ConsecutiveSuccesses, 0).
IncrementErrorReset(n) ==
    consecutiveSuccesses' = [consecutiveSuccesses EXCEPT ![n] = 0]

ResetErrors(n) ==
    consecutiveErrors' = [consecutiveErrors EXCEPT ![n] = 0]

IncrementSuccess(n) ==
    consecutiveSuccesses' = [consecutiveSuccesses EXCEPT ![n] = Bump(@)]

ResetSuccesses(n) ==
    consecutiveSuccesses' = [consecutiveSuccesses EXCEPT ![n] = 0]

SetPriority(n, p) ==
    priority' = [priority EXCEPT ![n] = p]

=============================================================================
