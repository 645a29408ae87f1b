--------------------------- MODULE MCMetricsClient ---------------------------
(* Model-checking instance of MetricsClient: one request goroutine and the *)
(* scheduler as model values.                                              *)
EXTENDS MetricsClient

CONSTANTS r1, sched

MCRequests == {r1}

=============================================================================
