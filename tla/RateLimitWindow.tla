--------------------------- MODULE RateLimitWindow ---------------------------
(***************************************************************************)
(* What the per-IP rate limiter promises: a sliding-window log.  For each  *)
(* client it keeps the times of the requests it admitted within the last   *)
(* Window, admits a request exactly when fewer than RPS are in that log,   *)
(* and forgets an admission only when it slides out of the window.  Time   *)
(* is a discrete clock; several requests may share one instant.            *)
(***************************************************************************)
EXTENDS Naturals, Sequences, SequencesExt

CONSTANTS
    IPs,        \* client addresses
    RPS,        \* admissions allowed per window (requests_per_second)
    Window,     \* window length, in clock ticks
    MaxTime     \* last instant of the bounded clock

ASSUME RPS \in Nat \ {0} /\ Window \in Nat \ {0} /\ MaxTime \in Nat

VARIABLES
    now,        \* the clock
    recent,     \* recent[ip]: admission times still inside the window
    answer      \* answer[ip]: the verdict of ip's latest request

Times == 0..MaxTime
Verdicts == {"none", "allowed", "rejected"}

\* The part of a log of times that lies inside the window ending at t: the
\* times strictly after t - Window.
InWindow(s, t) == SelectSeq(s, LAMBDA x : x + Window > t)

WindowTypeOK ==
    /\ now \in Times
    /\ recent \in [IPs -> BoundedSeq(Times, RPS)]
    /\ answer \in [IPs -> Verdicts]

WindowInit ==
    /\ now = 0
    /\ recent = [ip \in IPs |-> <<>>]
    /\ answer = [ip \in IPs |-> "none"]

Admit(ip) ==
    /\ Len(recent[ip]) < RPS
    /\ recent' = [recent EXCEPT ![ip] = Append(@, now)]
    /\ answer' = [answer EXCEPT ![ip] = "allowed"]
    /\ UNCHANGED now

Deny(ip) ==
    /\ Len(recent[ip]) >= RPS
    /\ answer' = [answer EXCEPT ![ip] = "rejected"]
    /\ UNCHANGED <<now, recent>>

\* Time passes; admissions that leave the window are forgotten.
Advance ==
    /\ now < MaxTime
    /\ now' = now + 1
    /\ recent' = [ip \in IPs |-> InWindow(recent[ip], now + 1)]
    /\ UNCHANGED answer

WindowNext == Advance \/ \E ip \in IPs : Admit(ip) \/ Deny(ip)

WindowSpec == WindowInit /\ [][WindowNext]_<<now, recent, answer>>

=============================================================================
