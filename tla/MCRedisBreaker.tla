--------------------------- MODULE MCRedisBreaker ---------------------------
(* Instances of RedisBreaker for TLC.  Two workers are enough for one to act   *)
(* between two round trips of the other; a third is added for safety.          *)
EXTENDS RedisBreaker, TLC

Workers == Permutations(Worker)

(* Redis never fails and no worker dies: what two healthy workers can do.      *)
CalmSpec == Init /\ [][Tick \/ \E w \in Worker : Step(w) \/ ExitFailure(w)]_vars
=============================================================================
