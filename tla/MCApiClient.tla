---------------------------- MODULE MCApiClient ----------------------------
(* Instances of ApiClient for TLC: two requests at a time share one breaker.   *)
EXTENDS ApiClient

(* Retry-After: not a valid delta, no wait, a wait under the cap, one over it. *)
RetryAfterValues == {-1, 0, 2, 9}
=============================================================================
