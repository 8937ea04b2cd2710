-------------------------- MODULE ElectionContract --------------------------
(* What the health check promises the workers of a run, with no mention of      *)
(* locks or files: whoever probes goes by its own probe, everybody else goes by *)
(* what some probe of this run found.  What excuses an exception is named: a    *)
(* worker that left (was killed, or ended its session with no decision), a      *)
(* session that ended, a second probe.                                          *)
(* Written from the docstrings of health_check, _run_health_check_and_write_    *)
(* result and _read_health_check_result in src/conftest.py; HealthCheck is      *)
(* shown to refine it, it models no code itself.                                *)

CONSTANT Worker

VARIABLES
    found,    \* what each worker's probe found, "none" for who has not probed
    verdict,  \* whether a worker goes on to its tests: "none" yet, "run", "abort"
    gone,     \* the workers that were killed or ended without a decision
    ended     \* some session has ended

vars == <<found, verdict, gone, ended>>

Undecided(w) == w \notin gone /\ verdict[w] = "none"

Knows(outcome) == \E v \in Worker : found[v] = outcome

SeveralProbed == \E u, v \in Worker : u # v /\ found[u] # "none" /\ found[v] # "none"

Decide(w, how) == /\ verdict' = [verdict EXCEPT ![w] = how]
                  /\ UNCHANGED <<found, gone, ended>>

Init == /\ found = [w \in Worker |-> "none"]
        /\ verdict = [w \in Worker |-> "none"]
        /\ gone = {}
        /\ ended = FALSE

Probe(w) == /\ Undecided(w)
            /\ found[w] = "none"
            /\ \E outcome \in {"pass", "fail", "unknown"} :
                  found' = [found EXCEPT ![w] = outcome]
            /\ UNCHANGED <<verdict, gone, ended>>

(* Only an interrupt stops a worker that probed.                               *)
LeaderRuns(w) == /\ Undecided(w)
                 /\ found[w] \in {"pass", "fail"}
                 /\ Decide(w, "run")

LeaderAborts(w) == /\ Undecided(w)
                   /\ found[w] = "unknown"
                   /\ Decide(w, "abort")

(* A follower runs on a probe of this run that did not fail ...                *)
FollowerRuns(w) == /\ Undecided(w)
                   /\ found[w] = "none"
                   /\ Knows("pass") \/ Knows("unknown") \/ gone # {}
                   /\ Decide(w, "run")

(* ... and aborts on one that failed, or when it cannot tell: the result may   *)
(* be gone with a session that ended, or be in the making once more.           *)
FollowerAborts(w) == /\ Undecided(w)
                     /\ found[w] = "none"
                     /\ Knows("fail") \/ ended \/ SeveralProbed \/ gone # {}
                     /\ Decide(w, "abort")

End(w) == /\ verdict[w] # "none" \/ w \in gone
          /\ ended' = TRUE
          /\ UNCHANGED <<found, verdict, gone>>

(* A worker that is killed after its decision may have begun to end.           *)
Leave(w) == /\ w \notin gone
            /\ gone' = gone \cup {w}
            /\ ended' = (ended \/ verdict[w] # "none")
            /\ UNCHANGED <<found, verdict>>

Next == \E w \in Worker : \/ Probe(w) \/ LeaderRuns(w) \/ LeaderAborts(w)
                          \/ FollowerRuns(w) \/ FollowerAborts(w)
                          \/ End(w) \/ Leave(w)

Spec == Init /\ [][Next]_vars
=============================================================================
