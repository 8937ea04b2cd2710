---------------------------- MODULE HealthCheck ----------------------------
(* The health_check fixture of src/conftest.py: the workers of one machine     *)
(* elect, by a non-blocking attempt at a file lock, a leader that probes the    *)
(* API and writes a result file; the others wait for the lock and read the      *)
(* file.  Every session that ends unlinks both files (pytest_sessionfinish),    *)
(* whoever still uses them and whether or not it took part in the election.     *)
(* The lock is the filelock library's, modelled as conftest.py relies on it: a  *)
(* lock on the INODE its path names at that moment, released by the kernel when *)
(* the process dies.                                                            *)
EXTENDS Integers, FiniteSets

CONSTANTS
    Worker,     \* every pytest process of the machine that loads this conftest.py
    Leftover    \* what an earlier run may have left in the result file

ASSUME HealthAssumption == /\ IsFiniteSet(Worker)
                           /\ Leftover \subseteq {"absent", "pass", "fail"}

VARIABLES
    path,     \* the inode the lock path names, or NoFile
    holds,    \* the inode each worker has locked, or NoFile
    result,   \* the content of the result file, "absent" or "torn" in mid-write
    pc,       \* where each worker is
    probe,    \* the leader's result dict, in memory
    verdict,  \* "none" yet; then "run" or "abort"; "quit" for who ends without one
    found     \* history: the outcomes of the probes of this run, by worker

vars == <<path, holds, result, pc, probe, verdict, found>>

NoFile == 0
Inodes == 1 .. Cardinality(Worker) + 1
Electing == {"start", "probing", "truncating", "writing", "releasing", "waiting", "passing",
             "reading"}
Places == Electing \cup {"testing", "finishing", "unlinking", "finished", "dead"}

Init == /\ path = NoFile
        /\ holds = [w \in Worker |-> NoFile]
        /\ result \in Leftover
        /\ pc = [w \in Worker |-> "start"]
        /\ probe = [w \in Worker |-> "unknown"]
        /\ verdict = [w \in Worker |-> "none"]
        /\ found = [w \in Worker |-> "none"]

Goto(w, place) == pc' = [pc EXCEPT ![w] = place]

Locked(inode) == \E w \in Worker : holds[w] = inode

(* Open the path, creating the file if it is not there, and lock its inode.    *)
(* Mutant of LockFree: acquire does not look at who holds the lock.            *)
LockFreeAlways == TRUE

LockFree == path = NoFile \/ ~Locked(path)

Lock(w) == /\ LockFree
           /\ path' = IF path # NoFile THEN path ELSE CHOOSE i \in Inodes : ~Locked(i)
           /\ holds' = [holds EXCEPT ![w] = path']

Unlock(w) == holds' = [holds EXCEPT ![w] = NoFile]

Decide(w, how) == /\ verdict' = [verdict EXCEPT ![w] = how]
                  /\ Goto(w, IF how = "run" THEN "testing" ELSE "finishing")

-----------------------------------------------------------------------------
(* lock.acquire(timeout=0) succeeds: this worker leads, whether or not another *)
(* has led before it.                                                          *)
Lead(w) == /\ pc[w] = "start"
           /\ Lock(w)
           /\ Goto(w, "probing")
           /\ UNCHANGED <<result, probe, verdict, found>>

(* filelock.Timeout: it follows.                                               *)
Follow(w) == /\ pc[w] = "start"
             /\ ~LockFree
             /\ Goto(w, "waiting")
             /\ UNCHANGED <<path, holds, result, probe, verdict, found>>

(* Mutants of Probe: the lock is released before the result is written; and an *)
(* error is written as a status of its own.                                    *)
ProbeReleasesLock(w) == /\ pc[w] = "probing"
                        /\ \E outcome \in {"pass", "fail", "unknown"} :
                              /\ probe' = [probe EXCEPT ![w] = outcome]
                              /\ found' = [found EXCEPT ![w] = outcome]
                        /\ Unlock(w)
                        /\ Goto(w, "truncating")
                        /\ UNCHANGED <<path, result, verdict>>

ProbeReportsError(w) == /\ pc[w] = "probing"
                        /\ probe' = [probe EXCEPT ![w] = "error"]
                        /\ found' = [found EXCEPT ![w] = "fail"]
                        /\ Goto(w, "truncating")
                        /\ UNCHANGED <<path, holds, result, verdict>>

(* GET /booking; an exception is a "fail", an interrupt that is no Exception   *)
(* leaves the dict at "unknown".                                               *)
Probe(w) == /\ pc[w] = "probing"
            /\ \E outcome \in {"pass", "fail", "unknown"} :
                  /\ probe' = [probe EXCEPT ![w] = outcome]
                  /\ found' = [found EXCEPT ![w] = outcome]
            /\ Goto(w, "truncating")
            /\ UNCHANGED <<path, holds, result, verdict>>

(* write_text truncates the file, then writes it.                              *)
Truncate(w) == /\ pc[w] = "truncating"
               /\ result' = "torn"
               /\ Goto(w, "writing")
               /\ UNCHANGED <<path, holds, probe, verdict, found>>

Write(w) == /\ pc[w] = "writing"
            /\ result' = probe[w]
            /\ Goto(w, "releasing")
            /\ UNCHANGED <<path, holds, probe, verdict, found>>

(* finally: lock.release().  The leader's tests run even if its probe failed;  *)
(* only an interrupt stops it.                                                 *)
Release(w) == /\ pc[w] = "releasing"
              /\ Unlock(w)
              /\ Decide(w, IF probe[w] = "unknown" THEN "abort" ELSE "run")
              /\ UNCHANGED <<path, result, probe, found>>

(* "with lock: pass": take the lock when it is free, and give it back.         *)
AwaitLock(w) == /\ pc[w] = "waiting"
                /\ Lock(w)
                /\ Goto(w, "passing")
                /\ UNCHANGED <<result, probe, verdict, found>>

PassLock(w) == /\ pc[w] = "passing"
               /\ Unlock(w)
               /\ Goto(w, "reading")
               /\ UNCHANGED <<path, result, probe, verdict, found>>

(* Mutants of Read: a missing or broken file is taken for a healthy service;   *)
(* it is waited for; and only a "pass" lets a follower go.                     *)
ReadIgnoresMissing(w) == /\ pc[w] = "reading"
                         /\ Decide(w, IF result = "fail" THEN "abort" ELSE "run")
                         /\ UNCHANGED <<path, holds, result, probe, found>>

ReadAwaitsResult(w) == /\ pc[w] = "reading"
                       /\ result \notin {"absent", "torn"}
                       /\ Decide(w, IF result = "fail" THEN "abort" ELSE "run")
                       /\ UNCHANGED <<path, holds, result, probe, found>>

ReadTrustsOnlyPass(w) == /\ pc[w] = "reading"
                         /\ Decide(w, IF result = "pass" THEN "run" ELSE "abort")
                         /\ UNCHANGED <<path, holds, result, probe, found>>

(* An unreadable file or a "fail" aborts the worker; anything else lets it go. *)
Read(w) == /\ pc[w] = "reading"
           /\ Decide(w, IF result \in {"absent", "torn", "fail"} THEN "abort" ELSE "run")
           /\ UNCHANGED <<path, holds, result, probe, found>>

RunTests(w) == /\ pc[w] = "testing"
               /\ Goto(w, "finishing")
               /\ UNCHANGED <<path, holds, result, probe, verdict, found>>

(* pytest_sessionfinish: the lock file goes, then the result file.             *)
UnlinkLock(w) == /\ pc[w] = "finishing"
                 /\ path' = NoFile
                 /\ Goto(w, "unlinking")
                 /\ UNCHANGED <<holds, result, probe, verdict, found>>

UnlinkResult(w) == /\ pc[w] = "unlinking"
                   /\ result' = "absent"
                   /\ Goto(w, "finished")
                   /\ UNCHANGED <<path, holds, probe, verdict, found>>

(* A session ends with no verdict: the xdist controller, a worker that is given *)
(* no test, --collect-only or a failed collection, a failure before             *)
(* health_check; or an exception or an interrupt that leaves the fixture, whose *)
(* finally or with gives the lock back.  It goes on to unlink like any other.   *)
Quit(w) == /\ pc[w] \in Electing
           /\ Unlock(w)
           /\ Decide(w, "quit")
           /\ UNCHANGED <<path, result, probe, found>>

(* pytest-timeout, or the operator, kills the process: no file is unlinked.    *)
Crash(w) == /\ pc[w] \notin {"finished", "dead"}
            /\ Unlock(w)
            /\ Goto(w, "dead")
            /\ UNCHANGED <<path, result, probe, verdict, found>>

Elect(w)  == Lead(w) \/ Follow(w) \/ AwaitLock(w) \/ PassLock(w) \/ Read(w)
Report(w) == Probe(w) \/ Truncate(w) \/ Write(w) \/ Release(w)
End(w)    == RunTests(w) \/ UnlinkLock(w) \/ UnlinkResult(w)

Step(w) == Elect(w) \/ Report(w) \/ End(w)

Next == \E w \in Worker : Step(w) \/ Quit(w) \/ Crash(w)

Spec == Init /\ [][Next]_vars

(* Every process that is not killed is scheduled; the probe's HTTP client and  *)
(* the tests end.                                                              *)
FairSpec == Spec /\ \A w \in Worker : WF_vars(Step(w))

-----------------------------------------------------------------------------
Leading == {w \in Worker : pc[w] \in {"probing", "truncating", "writing", "releasing"}}

(* Every variable keeps its type.                                              *)
TypeOK == /\ path \in {NoFile} \cup Inodes
          /\ holds \in [Worker -> {NoFile} \cup Inodes]
          /\ result \in {"absent", "torn", "pass", "fail", "unknown"}
          /\ pc \in [Worker -> Places]
          /\ probe \in [Worker -> {"pass", "fail", "unknown"}]
          /\ verdict \in [Worker -> {"none", "run", "abort", "quit"}]
          /\ found \in [Worker -> {"none", "pass", "fail", "unknown"}]

(* A session that ended, or was killed while it ended, may have unlinked the   *)
(* lock under the others.                                                      *)
SomeSessionEnded ==
    \E w \in Worker : \/ pc[w] \in {"unlinking", "finished"}
                      \/ pc[w] = "dead" /\ verdict[w] # "none"

(* Until then at most one worker probes or writes at any time, whichever       *)
(* leaders are killed, so the API sees one health check at a time.             *)
OneLeaderAtATime == Cardinality(Leading) <= 1 \/ SomeSessionEnded

Leaders == {w \in Worker : found[w] # "none"}

(* The workers that were killed, or whose session ends with no verdict.        *)
Gone == {w \in Worker : pc[w] = "dead" \/ verdict[w] = "quit"}

(* "Write result BEFORE releasing the lock so followers always find it": they  *)
(* find it whole if nobody is gone, no session has ended, and no second leader *)
(* has come to write the file anew.                                            *)
FollowersFindResult ==
    \A w \in Worker :
        pc[w] = "reading" /\ result \in {"absent", "torn"}
        => \/ SomeSessionEnded
           \/ Gone # {}
           \/ Cardinality(Leaders) > 1

(* If every probe of the run failed, and no worker was killed or ended without *)
(* a verdict, no follower runs its tests: not on the file of an earlier run,   *)
(* not on a half-written or missing one, not when several leaders write one    *)
(* after the other, not when sessions that did decide end under the others.    *)
FollowersHonourFailure ==
    \A w \in Worker :
        verdict[w] = "run" /\ found[w] = "none"
        => Gone # {} \/ \E v \in Worker : found[v] \in {"pass", "unknown"}

(* Each decision has a cause in this run: a worker that probed goes by its own *)
(* probe, a follower runs only on a probe that did not fail, and aborts only   *)
(* on one that failed, after a session's end, or when several wrote the file;  *)
(* either may have no cause but a worker that is gone.                         *)
Voted == [w \in Worker |-> IF verdict[w] = "quit" THEN "none" ELSE verdict[w]]

Contract == INSTANCE ElectionContract
                WITH verdict <- Voted, gone <- Gone, ended <- SomeSessionEnded

ImplementsElection == Contract!Spec

(* No worker waits for the lock for ever: each one decides, ends or is killed. *)
EveryWorkerDecides == \A w \in Worker : <>(verdict[w] # "none" \/ pc[w] = "dead")

(* The fixture's docstring: "Fires exactly ONCE across ALL workers [...]       *)
(* exactly 1 hit, always, on every OS."                                        *)
ExactlyOneHit == Cardinality(Leaders) <= 1
=============================================================================
