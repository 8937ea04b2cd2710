--------------------------- MODULE MCSharedClient ---------------------------
(* Instance of SharedClient for TLC: two workers, two attempts each.           *)
EXTENDS SharedClient

(* No Retry-After, and one above the cap of 1.                                 *)
RetryAfterHints == {NoHint, 3}
=============================================================================
