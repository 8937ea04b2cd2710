--------------------------- MODULE MCHealthCheck ---------------------------
(* Three workers: a leader, a follower, and one that comes late or leads again *)
(* after a session end has unlinked the lock.                                  *)
EXTENDS HealthCheck, TLC

Workers == Permutations(Worker)

(* Nobody is killed or ends without a verdict.                                 *)
CalmSpec == Init /\ [][\E w \in Worker : Step(w)]_vars
=============================================================================
