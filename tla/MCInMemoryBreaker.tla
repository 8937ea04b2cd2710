------------------------- MODULE MCInMemoryBreaker -------------------------
(* Three threads, a threshold of 2 and a recovery period of 2 ticks: enough    *)
(* for a straggler of each epoch (CLOSED, OPEN, HALF_OPEN) to meet a probe,    *)
(* and for two full OPEN periods before the clock stops at 5.                  *)
EXTENDS InMemoryBreaker
=============================================================================
