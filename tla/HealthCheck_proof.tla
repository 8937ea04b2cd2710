-------------------------- MODULE HealthCheck_proof --------------------------
(* The invariants of HealthCheck for any number of workers: the lock excludes  *)
(* until a session ends, followers then find the leader's result, and a        *)
(* failure that every leader found stops every follower; and that the election *)
(* implements its contract.                                                    *)
EXTENDS HealthCheck, FiniteSetTheorems, TLAPS

LeadPlaces == {"probing", "truncating", "writing", "releasing"}
HoldPlaces == LeadPlaces \cup {"passing"}
Decided    == {"testing", "finishing", "unlinking", "finished"}

(* Who holds a lock, who has decided, and what a leader knows.                 *)
PlaceInv ==
    \A w \in Worker :
        /\ holds[w] # NoFile <=> pc[w] \in HoldPlaces
        /\ pc[w] \in Decided => verdict[w] # "none"
        /\ pc[w] \notin Decided \cup {"dead"} => verdict[w] = "none"
        /\ pc[w] \in {"start", "probing", "waiting", "passing", "reading"} => found[w] = "none"
        /\ pc[w] \in {"truncating", "writing", "releasing"} =>
              found[w] # "none" /\ probe[w] = found[w]

(* The path names the inode that is locked, by one worker, until an unlink.    *)
LockInv == SomeSessionEnded \/ \A v, w \in Worker :
               pc[w] \in HoldPlaces => holds[w] = path /\ (pc[v] \in HoldPlaces => v = w)

NobodyLeft == \A w \in Worker : pc[w] # "dead" /\ verdict[w] # "quit"

(* Some leader has reported, and gone on.                                      *)
Done == \E v \in Worker : found[v] # "none" /\ pc[v] \notin LeadPlaces

(* Nobody waits for a lock that no leader held, and nobody gets past it, or    *)
(* ends its session, before a leader has reported.                             *)
OrderInv == NobodyLeft =>
    /\ \A w \in Worker : pc[w] = "waiting" => Done \/ \E v \in Worker : pc[v] \in LeadPlaces
    /\ \A w \in Worker : pc[w] \in {"passing", "reading"} \cup Decided => Done

(* While there is one leader its file is whole once it is written.             *)
WholeInv ==
    /\ NobodyLeft /\ ~SomeSessionEnded /\ result \in {"absent", "torn"}
    /\ \A v, w \in Leaders : v = w
    => \A v \in Leaders : pc[v] \in {"truncating", "writing"}

AllFailed == NobodyLeft /\ \A w \in Worker : found[w] \in {"none", "fail"}

(* A result left by an earlier run is gone before any follower reads.          *)
HonestInv == AllFailed =>
    /\ result \in {"pass", "unknown"} => \A v \in Leaders : pc[v] = "truncating"
    /\ \A w \in Worker : verdict[w] = "run" => found[w] = "fail"

(* A whole result is what a leader of this run found, unless none has touched  *)
(* the file yet.                                                               *)
ReportInv == NobodyLeft /\ result \in {"pass", "fail", "unknown"} =>
    (\E v \in Worker : found[v] = result) \/ \A v \in Leaders : pc[v] = "truncating"

HealthInv == TypeOK /\ PlaceInv /\ LockInv /\ OrderInv /\ WholeInv /\ HonestInv /\ ReportInv

-----------------------------------------------------------------------------
(* There are more inodes than workers: one is free.                            *)
LEMMA FreeInode ==
    ASSUME TypeOK
    PROVE  \E i \in Inodes : ~Locked(i)
<1> SUFFICES ASSUME \A i \in Inodes : Locked(i) PROVE FALSE
  OBVIOUS
<1>1. IsFiniteSet(Worker) /\ Cardinality(Worker) \in Nat
  BY HealthAssumption, FS_CardinalityType
<1>2. IsFiniteSet(Inodes) /\ Cardinality(Inodes) = Cardinality(Worker) + 1
  <2>1. PICK n \in Int : n = Cardinality(Worker) + 1 /\ n >= 1
    BY <1>1
  <2> QED BY <2>1, FS_Interval DEF Inodes
<1> DEFINE f == [i \in Inodes |-> CHOOSE w \in Worker : holds[w] = i]
<1>3. \A i \in Inodes : f[i] \in Worker /\ holds[f[i]] = i
  BY DEF Locked
<1>4. f \in [Inodes -> Worker]
  BY <1>3
<1> HIDE DEF f
<1>5. Cardinality(Worker) < Cardinality(Inodes)
  BY <1>1, <1>2
<1>6. PICK x \in Inodes, y \in Inodes : x # y /\ f[x] = f[y]
  BY <1>1, <1>2, <1>4, <1>5, FS_PigeonHole
<1> QED BY <1>3, <1>6

LEMMA LockTypes ==
    ASSUME TypeOK, NEW w \in Worker, Lock(w)
    PROVE  /\ path' \in Inodes /\ path' # NoFile
           /\ holds' = [holds EXCEPT ![w] = path'] /\ holds' \in [Worker -> {NoFile} \cup Inodes]
<1>1. path' \in Inodes
  BY FreeInode DEF Lock, TypeOK
<1>2. NoFile \notin Inodes
  BY FS_CardinalityType, HealthAssumption DEF NoFile, Inodes
<1> QED BY <1>1, <1>2 DEF Lock, TypeOK

LEMMA TypeStep == TypeOK /\ [Next]_vars => TypeOK'
<1> SUFFICES ASSUME TypeOK, [Next]_vars PROVE TypeOK'
  OBVIOUS
<1> USE DEF TypeOK, Places, Electing
<1>1. ASSUME NEW w \in Worker, Lead(w) PROVE TypeOK'
  BY <1>1, LockTypes DEF Lead, Goto
<1>2. ASSUME NEW w \in Worker, AwaitLock(w) PROVE TypeOK'
  BY <1>2, LockTypes DEF AwaitLock, Goto
<1>3. ASSUME NEW w \in Worker, Follow(w) \/ PassLock(w) \/ Read(w) PROVE TypeOK'
  BY <1>3 DEF Follow, PassLock, Read, Goto, Unlock, Decide
<1>4. ASSUME NEW w \in Worker, Report(w) PROVE TypeOK'
  BY <1>4 DEF Report, Probe, Truncate, Write, Release, Goto, Unlock, Decide
<1>5. ASSUME NEW w \in Worker, End(w) \/ Crash(w) PROVE TypeOK'
  BY <1>5 DEF End, RunTests, UnlinkLock, UnlinkResult, Crash, Goto, Unlock
<1>6. ASSUME NEW w \in Worker, Quit(w) PROVE TypeOK'
  BY <1>6 DEF Quit, Goto, Unlock, Decide
<1>7. CASE UNCHANGED vars
  BY <1>7 DEF vars
<1> QED BY <1>1, <1>2, <1>3, <1>4, <1>5, <1>6, <1>7 DEF Next, Step, Elect

LEMMA PlaceStep == TypeOK /\ PlaceInv /\ [Next]_vars => PlaceInv'
<1> SUFFICES ASSUME TypeOK, PlaceInv, [Next]_vars PROVE PlaceInv'
  OBVIOUS
<1> USE DEF PlaceInv, HoldPlaces, LeadPlaces, Decided
<1>0. /\ holds \in [Worker -> {NoFile} \cup Inodes] /\ pc \in [Worker -> Places]
      /\ verdict \in [Worker -> {"none", "run", "abort", "quit"}]
      /\ probe \in [Worker -> {"pass", "fail", "unknown"}]
      /\ found \in [Worker -> {"none", "pass", "fail", "unknown"}]
  BY DEF TypeOK
<1>1. ASSUME NEW w \in Worker, Lead(w) PROVE PlaceInv'
  BY <1>0, <1>1, LockTypes DEF Lead, Goto
<1>2. ASSUME NEW w \in Worker, AwaitLock(w) PROVE PlaceInv'
  BY <1>0, <1>2, LockTypes DEF AwaitLock, Goto
<1>3. ASSUME NEW w \in Worker, Follow(w) PROVE PlaceInv'
  BY <1>0, <1>3 DEF Follow, Goto
<1>4. ASSUME NEW w \in Worker, PassLock(w) PROVE PlaceInv'
  BY <1>0, <1>4 DEF PassLock, Goto, Unlock
<1>5. ASSUME NEW w \in Worker, Read(w) PROVE PlaceInv'
  BY <1>0, <1>5 DEF Read, Goto, Decide
<1>6. ASSUME NEW w \in Worker, Probe(w) PROVE PlaceInv'
  BY <1>0, <1>6 DEF Probe, Goto
<1>7. ASSUME NEW w \in Worker, Truncate(w) \/ Write(w) PROVE PlaceInv'
  BY <1>0, <1>7 DEF Truncate, Write, Goto
<1>8. ASSUME NEW w \in Worker, Release(w) PROVE PlaceInv'
  BY <1>0, <1>8 DEF Release, Goto, Unlock, Decide
<1>9. ASSUME NEW w \in Worker, End(w) PROVE PlaceInv'
  BY <1>0, <1>9 DEF End, RunTests, UnlinkLock, UnlinkResult, Goto
<1>10. ASSUME NEW w \in Worker, Crash(w) PROVE PlaceInv'
  BY <1>0, <1>10 DEF Crash, Goto, Unlock
<1>11. ASSUME NEW w \in Worker, Quit(w) PROVE PlaceInv'
  BY <1>0, <1>11 DEF Quit, Goto, Unlock, Decide
<1>12. CASE UNCHANGED vars
  BY <1>12 DEF vars
<1> QED BY <1>1, <1>2, <1>3, <1>4, <1>5, <1>6, <1>7, <1>8, <1>9, <1>10, <1>11, <1>12
    DEF Next, Step, Elect, Report

(* What SomeSessionEnded excuses stays excused.                                *)
LEMMA EndedStays == TypeOK /\ PlaceInv /\ [Next]_vars /\ SomeSessionEnded => SomeSessionEnded'
<1> SUFFICES ASSUME TypeOK, PlaceInv, [Next]_vars,
                    NEW w \in Worker, \/ pc[w] \in {"unlinking", "finished"}
                                      \/ pc[w] = "dead" /\ verdict[w] # "none"
             PROVE  \/ pc'[w] \in {"unlinking", "finished"}
                    \/ pc'[w] = "dead" /\ verdict'[w] # "none"
  BY DEF SomeSessionEnded
<1>0. /\ pc \in [Worker -> Places] /\ verdict \in [Worker -> {"none", "run", "abort", "quit"}]
      /\ verdict[w] # "none"
  BY DEF TypeOK, PlaceInv, Decided
<1>1. ASSUME NEW v \in Worker, Step(v) \/ Quit(v) \/ Crash(v)
      PROVE  \/ pc'[w] \in {"unlinking", "finished"}
             \/ pc'[w] = "dead" /\ verdict'[w] # "none"
  <2>1. CASE Elect(v)
    BY <1>0, <2>1 DEF Elect, Lead, Follow, AwaitLock, PassLock, Read, Goto, Decide
  <2>2. CASE Report(v)
    BY <1>0, <2>2 DEF Report, Probe, Truncate, Write, Release, Goto, Decide
  <2>3. CASE End(v) \/ Crash(v)
    BY <1>0, <2>3 DEF End, RunTests, UnlinkLock, UnlinkResult, Crash, Goto
  <2>4. CASE Quit(v)
    BY <1>0, <2>4 DEF Quit, Electing, Decide, Goto
  <2> QED BY <1>1, <2>1, <2>2, <2>3, <2>4 DEF Step
<1>2. CASE UNCHANGED vars
  BY <1>2 DEF vars
<1> QED BY <1>1, <1>2 DEF Next

(* A lock that is taken while it is free is held by one worker.                *)
LEMMA LockStep == TypeOK /\ PlaceInv /\ LockInv /\ [Next]_vars => LockInv'
<1> SUFFICES ASSUME TypeOK, PlaceInv, LockInv, [Next]_vars, ~SomeSessionEnded' PROVE LockInv'
  BY DEF LockInv
<1>0. /\ holds \in [Worker -> {NoFile} \cup Inodes] /\ pc \in [Worker -> Places]
      /\ \A v, w \in Worker :
            pc[w] \in HoldPlaces => holds[w] = path /\ (pc[v] \in HoldPlaces => v = w)
      /\ \A w \in Worker : holds[w] # NoFile <=> pc[w] \in HoldPlaces
  BY EndedStays DEF LockInv, TypeOK, PlaceInv
<1>1. ASSUME NEW w \in Worker, Lock(w), pc[w] \notin HoldPlaces,
             \A v \in Worker : v # w => pc'[v] = pc[v]
      PROVE  LockInv'
  <2>1. \A v \in Worker : pc[v] \notin HoldPlaces
    BY <1>0, <1>1 DEF Lock, LockFree, Locked
  <2>2. holds'[w] = path'
    BY <1>0, <1>1, LockTypes
  <2> QED BY <1>1, <2>1, <2>2 DEF LockInv
<1>2. ASSUME NEW w \in Worker, Lead(w) \/ AwaitLock(w) PROVE LockInv'
  <2>1. pc[w] \notin HoldPlaces /\ Lock(w) /\ \A v \in Worker : v # w => pc'[v] = pc[v]
    BY <1>0, <1>2 DEF Lead, AwaitLock, Goto, HoldPlaces, LeadPlaces
  <2> QED BY <1>1, <2>1
<1>3. ASSUME path' = path,
             \A v \in Worker : /\ pc'[v] \in HoldPlaces => pc[v] \in HoldPlaces
                               /\ pc'[v] \in HoldPlaces => holds'[v] = holds[v]
      PROVE  LockInv'
  BY <1>0, <1>3 DEF LockInv
<1>4. ASSUME NEW w \in Worker, Follow(w) \/ PassLock(w) \/ Read(w) PROVE LockInv'
  <2>1. path' = path /\ \A v \in Worker : /\ pc'[v] \in HoldPlaces => pc[v] \in HoldPlaces
                                          /\ pc'[v] \in HoldPlaces => holds'[v] = holds[v]
    BY <1>0, <1>4 DEF Follow, PassLock, Read, Unlock, Decide, Goto, HoldPlaces, LeadPlaces
  <2> QED BY <1>3, <2>1
<1>5. ASSUME NEW w \in Worker, Report(w) PROVE LockInv'
  <2>1. path' = path /\ \A v \in Worker : /\ pc'[v] \in HoldPlaces => pc[v] \in HoldPlaces
                                          /\ pc'[v] \in HoldPlaces => holds'[v] = holds[v]
    BY <1>0, <1>5 DEF Report, Probe, Truncate, Write, Release, Unlock, Decide, Goto, HoldPlaces,
                      LeadPlaces
  <2> QED BY <1>3, <2>1
<1>6. ASSUME NEW w \in Worker, RunTests(w) \/ UnlinkResult(w) \/ Quit(w) \/ Crash(w)
      PROVE  LockInv'
  <2>1. path' = path /\ \A v \in Worker : /\ pc'[v] \in HoldPlaces => pc[v] \in HoldPlaces
                                          /\ pc'[v] \in HoldPlaces => holds'[v] = holds[v]
    BY <1>0, <1>6 DEF RunTests, UnlinkResult, Quit, Crash, Unlock, Decide, Goto, HoldPlaces,
                      LeadPlaces
  <2> QED BY <1>3, <2>1
<1>7. ASSUME NEW w \in Worker, UnlinkLock(w) PROVE FALSE
  <2>1. pc'[w] = "unlinking"
    BY <1>0, <1>7 DEF UnlinkLock, Goto
  <2> QED BY <2>1 DEF SomeSessionEnded
<1>8. CASE UNCHANGED vars
  BY <1>0, <1>8 DEF vars, LockInv
<1> QED BY <1>2, <1>4, <1>5, <1>6, <1>7, <1>8 DEF Next, Step, Elect, End

-----------------------------------------------------------------------------
(* Who left stays away; an outcome stays found; who has reported leads  *)
(* no more.                                                                    *)
LEMMA HistoryStays ==
    ASSUME TypeOK, PlaceInv, [Next]_vars
    PROVE  /\ NobodyLeft' => NobodyLeft
           /\ \A v \in Worker : found[v] # "none" => found'[v] = found[v]
           /\ Done => Done'
<1>0. /\ pc \in [Worker -> Places] /\ found \in [Worker -> {"none", "pass", "fail", "unknown"}]
      /\ verdict \in [Worker -> {"none", "run", "abort", "quit"}]
      /\ \A v \in Worker : pc[v] \in {"start", "probing"} => found[v] = "none"
      /\ \A v \in Worker : pc[v] \in Electing => verdict[v] = "none"
  BY DEF TypeOK, PlaceInv, Decided, Electing
<1>1. ASSUME NEW w \in Worker, Step(w) \/ Quit(w) \/ Crash(w)
      PROVE  \A v \in Worker : /\ pc[v] = "dead" => pc'[v] = "dead"
                               /\ verdict[v] = "quit" => verdict'[v] = "quit"
                               /\ found[v] # "none" => found'[v] = found[v]
                               /\ found[v] # "none" /\ pc[v] \notin LeadPlaces =>
                                    pc'[v] \notin LeadPlaces
  <2> USE DEF Goto, Decide, LeadPlaces, Electing
  <2>1. CASE Elect(w)
    BY <1>0, <2>1 DEF Elect, Lead, Follow, AwaitLock, PassLock, Read
  <2>2. CASE Report(w)
    BY <1>0, <2>2 DEF Report, Probe, Truncate, Write, Release
  <2>3. CASE End(w) \/ Crash(w)
    BY <1>0, <2>3 DEF End, RunTests, UnlinkLock, UnlinkResult, Crash
  <2>4. CASE Quit(w)
    BY <1>0, <2>4 DEF Quit
  <2> QED BY <1>1, <2>1, <2>2, <2>3, <2>4 DEF Step
<1>2. CASE UNCHANGED vars
  BY <1>2 DEF vars, NobodyLeft, Done
<1>3. CASE Next
  BY <1>1, <1>3 DEF Next, NobodyLeft, Done
<1> QED BY <1>2, <1>3

(* A step after which nobody has left is no kill and no end without a verdict. *)
LEMMA NobodyLeaving ==
    ASSUME TypeOK, NobodyLeft', NEW w \in Worker, Quit(w) \/ Crash(w)
    PROVE  FALSE
<1>1. pc'[w] = "dead" \/ verdict'[w] = "quit"
  BY DEF Quit, Crash, Decide, Goto, TypeOK
<1> QED BY <1>1 DEF NobodyLeft

LEMMA OrderStep == TypeOK /\ PlaceInv /\ LockInv /\ OrderInv /\ [Next]_vars => OrderInv'
<1> SUFFICES ASSUME TypeOK, PlaceInv, LockInv, OrderInv, [Next]_vars, NobodyLeft'
             PROVE  /\ \A w \in Worker : pc'[w] = "waiting" =>
                           Done' \/ \E v \in Worker : pc'[v] \in LeadPlaces
                    /\ \A w \in Worker : pc'[w] \in {"passing", "reading"} \cup Decided => Done'
  BY DEF OrderInv
<1> DEFINE Waits == \A w \in Worker : pc'[w] = "waiting" =>
                       Done' \/ \E v \in Worker : pc'[v] \in LeadPlaces
           Gets == \A w \in Worker : pc'[w] \in {"passing", "reading"} \cup Decided => Done'
<1>0. /\ pc \in [Worker -> Places] /\ NobodyLeft /\ (Done => Done')
      /\ \A w \in Worker : pc[w] = "waiting" => Done \/ \E v \in Worker : pc[v] \in LeadPlaces
      /\ \A w \in Worker : pc[w] \in {"passing", "reading"} \cup Decided => Done
      /\ \A w \in Worker : holds[w] # NoFile <=> pc[w] \in HoldPlaces
  BY HistoryStays DEF TypeOK, OrderInv, PlaceInv
<1>1. ASSUME NEW w \in Worker, Lead(w) PROVE Waits /\ Gets
  BY <1>0, <1>1 DEF Lead, Goto, LeadPlaces, Decided
<1>2. ASSUME NEW w \in Worker, Follow(w) PROVE Waits /\ Gets
  <2>1. PICK v \in Worker : path # NoFile /\ holds[v] = path
    BY <1>2 DEF Follow, LockFree, Locked
  <2>2. pc[v] \in HoldPlaces /\ pc[w] = "start"
    BY <1>0, <1>2, <2>1 DEF Follow
  <2>3. pc' = [pc EXCEPT ![w] = "waiting"]
    BY <1>2 DEF Follow, Goto
  <2>4. Done' \/ pc'[v] \in LeadPlaces
    BY <1>0, <2>2, <2>3 DEF HoldPlaces, LeadPlaces
  <2> QED BY <1>0, <2>3, <2>4 DEF Decided
<1>3. ASSUME NEW w \in Worker, AwaitLock(w) PROVE Waits /\ Gets
  <2>1. Done
    <3>1. CASE SomeSessionEnded
      BY <1>0, <3>1 DEF SomeSessionEnded, NobodyLeft, Decided
    <3>2. CASE ~SomeSessionEnded
      <4>1. SUFFICES ASSUME NEW v \in Worker, pc[v] \in LeadPlaces PROVE FALSE
        BY <1>0, <1>3 DEF AwaitLock
      <4>2. holds[v] = path /\ holds[v] # NoFile
        BY <1>0, <3>2, <4>1 DEF LockInv, HoldPlaces
      <4> QED BY <1>3, <4>2 DEF AwaitLock, Lock, LockFree, Locked
    <3> QED BY <3>1, <3>2
  <2> QED BY <1>0, <2>1
<1>4. ASSUME NEW w \in Worker, PassLock(w) \/ Read(w) PROVE Waits /\ Gets
  BY <1>0, <1>4 DEF PassLock, Read
<1>5. ASSUME NEW w \in Worker, Probe(w) \/ Truncate(w) \/ Write(w) PROVE Waits /\ Gets
  BY <1>0, <1>5 DEF Probe, Truncate, Write, Goto, LeadPlaces, Decided
<1>6. ASSUME NEW w \in Worker, Release(w) PROVE Waits /\ Gets
  <2>1. found[w] # "none" /\ found' = found
    BY <1>6 DEF Release, PlaceInv
  <2>2. pc'[w] \notin LeadPlaces
    BY <1>0, <1>6 DEF Release, Decide, Goto, LeadPlaces
  <2> QED BY <2>1, <2>2 DEF Done
<1>7. ASSUME NEW w \in Worker, End(w) PROVE Waits /\ Gets
  BY <1>0, <1>7 DEF End, RunTests, UnlinkLock, UnlinkResult, Decided
<1>8. ASSUME NEW w \in Worker, Quit(w) \/ Crash(w) PROVE FALSE
  BY <1>8, NobodyLeaving
<1>9. CASE UNCHANGED vars
  BY <1>0, <1>9 DEF vars
<1> QED BY <1>1, <1>2, <1>3, <1>4, <1>5, <1>6, <1>7, <1>8, <1>9 DEF Next, Step, Elect, Report

LEMMA WholeStep ==
    TypeOK /\ PlaceInv /\ WholeInv /\ [Next]_vars => WholeInv'
<1> SUFFICES ASSUME TypeOK, PlaceInv, WholeInv, [Next]_vars,
                    NobodyLeft', ~SomeSessionEnded', result' \in {"absent", "torn"},
                    \A v, w \in Worker : found'[v] # "none" /\ found'[w] # "none" => v = w,
                    NEW u \in Worker, found'[u] # "none"
             PROVE  pc'[u] \in {"truncating", "writing"}
  BY DEF WholeInv, Leaders
<1>0. /\ pc \in [Worker -> Places] /\ found \in [Worker -> {"none", "pass", "fail", "unknown"}]
      /\ probe \in [Worker -> {"pass", "fail", "unknown"}]
      /\ NobodyLeft /\ ~SomeSessionEnded
      /\ \A v, w \in Worker : found[v] # "none" /\ found[w] # "none" => v = w
      /\ \A v \in Worker : result \in {"absent", "torn"} /\ found[v] # "none" =>
                              pc[v] \in {"truncating", "writing"}
  BY HistoryStays, EndedStays DEF WholeInv, Leaders, TypeOK
<1>1. ASSUME NEW w \in Worker, Elect(w) PROVE pc'[u] \in {"truncating", "writing"}
  <2>1. result' = result /\ found' = found /\ u # w
    BY <1>0, <1>1 DEF Elect, Lead, Follow, AwaitLock, PassLock, Read, PlaceInv
  <2>2. pc'[u] = pc[u]
    BY <1>0, <1>1, <2>1 DEF Elect, Lead, Follow, AwaitLock, PassLock, Read, Goto, Decide
  <2> QED BY <1>0, <2>1, <2>2
<1>2. ASSUME NEW w \in Worker, Probe(w) PROVE pc'[u] \in {"truncating", "writing"}
  BY <1>0, <1>2 DEF Probe, Goto
<1>3. ASSUME NEW w \in Worker, Truncate(w) PROVE pc'[u] \in {"truncating", "writing"}
  <2>1. found'[w] # "none" /\ u = w
    BY <1>3 DEF Truncate, PlaceInv
  <2> QED BY <1>0, <1>3, <2>1 DEF Truncate, Goto
<1>4. ASSUME NEW w \in Worker, Write(w) PROVE FALSE
  BY <1>0, <1>4 DEF Write
<1>5. ASSUME NEW w \in Worker, Release(w) PROVE FALSE
  BY <1>0, <1>5 DEF Release, PlaceInv
<1>6. ASSUME NEW w \in Worker, End(w) PROVE pc'[u] \in {"truncating", "writing"}
  <2>1. pc[w] = "testing" /\ result' = result /\ found' = found
        /\ pc' = [pc EXCEPT ![w] = "finishing"]
    <3>1. CASE RunTests(w)
      BY <3>1 DEF RunTests, Goto
    <3>2. CASE UnlinkLock(w) \/ UnlinkResult(w)
      BY <1>0, <3>2 DEF UnlinkLock, UnlinkResult, Goto, SomeSessionEnded
    <3> QED BY <1>6, <3>1, <3>2 DEF End
  <2> QED BY <1>0, <2>1
<1>7. ASSUME NEW w \in Worker, Quit(w) \/ Crash(w) PROVE FALSE
  BY <1>7, NobodyLeaving
<1>8. CASE UNCHANGED vars
  BY <1>0, <1>8 DEF vars
<1> QED BY <1>1, <1>2, <1>3, <1>4, <1>5, <1>6, <1>7, <1>8 DEF Next, Step, Report

LEMMA HonestStep ==
    TypeOK /\ PlaceInv /\ OrderInv /\ HonestInv /\ [Next]_vars => HonestInv'
<1> DEFINE Stale == result' \in {"pass", "unknown"} =>
                       \A v \in Worker : found'[v] # "none" => pc'[v] = "truncating"
           Obeys == \A w \in Worker : verdict'[w] = "run" => found'[w] = "fail"
<1> SUFFICES ASSUME TypeOK, PlaceInv, OrderInv, HonestInv, [Next]_vars, AllFailed'
             PROVE  Stale /\ Obeys
  BY DEF HonestInv, Leaders
<1>0. /\ pc \in [Worker -> Places] /\ found \in [Worker -> {"none", "pass", "fail", "unknown"}]
      /\ verdict \in [Worker -> {"none", "run", "abort", "quit"}]
      /\ result \in {"absent", "torn", "pass", "fail", "unknown"}
      /\ NobodyLeft /\ \A v \in Worker : found[v] \in {"none", "fail"}
  BY HistoryStays DEF AllFailed, TypeOK
<1>1. /\ result \in {"pass", "unknown"} =>
            \A v \in Worker : found[v] # "none" => pc[v] = "truncating"
      /\ \A w \in Worker : verdict[w] = "run" => found[w] = "fail"
  BY <1>0 DEF HonestInv, AllFailed, Leaders
<1>2. ASSUME NEW w \in Worker, Lead(w) \/ Follow(w) \/ AwaitLock(w) \/ PassLock(w)
      PROVE  Stale /\ Obeys
  <2>1. result' = result /\ found' = found /\ verdict' = verdict /\ found[w] = "none"
    BY <1>2 DEF Lead, Follow, AwaitLock, PassLock, PlaceInv
  <2>2. \A v \in Worker : v # w => pc'[v] = pc[v]
    BY <1>0, <1>2 DEF Lead, Follow, AwaitLock, PassLock, Goto
  <2> QED BY <1>1, <2>1, <2>2
<1>3. ASSUME NEW w \in Worker, Read(w) PROVE Stale /\ Obeys
  <2>1. result \notin {"pass", "unknown"}
    <3>1. PICK v \in Worker : found[v] # "none" /\ pc[v] \notin LeadPlaces
      BY <1>0, <1>3 DEF Read, OrderInv, Done
    <3> QED BY <1>1, <3>1 DEF LeadPlaces
  <2>2. verdict' = [verdict EXCEPT ![w] = "abort"] /\ result' = result /\ found' = found
    BY <1>0, <1>3, <2>1 DEF Read, Decide
  <2> QED BY <1>0, <1>1, <2>1, <2>2
<1>4. ASSUME NEW w \in Worker, Probe(w) PROVE Stale /\ Obeys
  <2>1. /\ result' = result /\ verdict' = verdict /\ verdict[w] = "none"
        /\ pc' = [pc EXCEPT ![w] = "truncating"]
    BY <1>0, <1>4 DEF Probe, Goto, PlaceInv, Decided
  <2>2. \A v \in Worker : v # w => found'[v] = found[v]
    BY <1>0, <1>4 DEF Probe
  <2> QED BY <1>0, <1>1, <2>1, <2>2
<1>5. ASSUME NEW w \in Worker, Truncate(w) PROVE Stale /\ Obeys
  BY <1>1, <1>5 DEF Truncate
<1>6. ASSUME NEW w \in Worker, Write(w) PROVE Stale /\ Obeys
  <2>1. result' = "fail" /\ verdict' = verdict /\ found' = found
    BY <1>0, <1>6 DEF Write, PlaceInv
  <2> QED BY <1>1, <2>1
<1>7. ASSUME NEW w \in Worker, Release(w) PROVE Stale /\ Obeys
  <2>1. pc[w] = "releasing" /\ found[w] = "fail" /\ result' = result /\ found' = found
    BY <1>0, <1>7 DEF Release, PlaceInv
  <2>2. \A v \in Worker : v # w => verdict'[v] = verdict[v]
    BY <1>0, <1>7 DEF Release, Decide
  <2> QED BY <1>1, <2>1, <2>2
<1>8. ASSUME NEW w \in Worker, End(w) PROVE Stale /\ Obeys
  <2>1. found' = found /\ verdict' = verdict /\ result' \in {result, "absent"}
    BY <1>8 DEF End, RunTests, UnlinkLock, UnlinkResult
  <2>2. /\ pc[w] # "truncating" /\ \A v \in Worker : v # w => pc'[v] = pc[v]
    BY <1>0, <1>8 DEF End, RunTests, UnlinkLock, UnlinkResult, Goto
  <2> QED BY <1>1, <2>1, <2>2
<1>9. ASSUME NEW w \in Worker, Quit(w) \/ Crash(w) PROVE FALSE
  BY <1>9, NobodyLeaving DEF AllFailed
<1>10. CASE UNCHANGED vars
  BY <1>1, <1>10 DEF vars
<1> QED BY <1>2, <1>3, <1>4, <1>5, <1>6, <1>7, <1>8, <1>9, <1>10
    DEF Next, Step, Elect, Report

LEMMA ReportStep == TypeOK /\ PlaceInv /\ ReportInv /\ [Next]_vars => ReportInv'
<1> SUFFICES ASSUME TypeOK, PlaceInv, ReportInv, [Next]_vars,
                    NobodyLeft', result' \in {"pass", "fail", "unknown"}
             PROVE  (\E v \in Worker : found'[v] = result')
                    \/ \A v \in Worker : found'[v] # "none" => pc'[v] = "truncating"
  BY DEF ReportInv, Leaders
<1> DEFINE Reported == \E v \in Worker : found'[v] = result'
           Untouched == \A v \in Worker : found'[v] # "none" => pc'[v] = "truncating"
<1>0. /\ pc \in [Worker -> Places] /\ found \in [Worker -> {"none", "pass", "fail", "unknown"}]
      /\ probe \in [Worker -> {"pass", "fail", "unknown"}]
      /\ NobodyLeft /\ \A v \in Worker : found[v] # "none" => found'[v] = found[v]
  BY HistoryStays DEF TypeOK
<1>1. ASSUME result' = result
      PROVE  Reported \/ \A v \in Worker : found[v] # "none" => pc[v] = "truncating"
  <2>1. CASE \E v \in Worker : found[v] = result
    <3>1. PICK v \in Worker : found[v] = result
      BY <2>1
    <3>2. found'[v] = result'
      BY <1>0, <1>1, <3>1
    <3> QED BY <3>2
  <2>2. CASE \A v \in Leaders : pc[v] = "truncating"
    BY <2>2 DEF Leaders
  <2> QED BY <1>0, <1>1, <2>1, <2>2 DEF ReportInv
<1>2. ASSUME NEW w \in Worker, pc[w] # "truncating", found' = found, result' = result,
             \A v \in Worker : v # w => pc'[v] = pc[v]
      PROVE  Reported \/ Untouched
  BY <1>1, <1>2
<1>3. ASSUME NEW w \in Worker, Elect(w) PROVE Reported \/ Untouched
  <2>1. /\ pc[w] # "truncating" /\ found' = found /\ result' = result
        /\ \A v \in Worker : v # w => pc'[v] = pc[v]
    BY <1>0, <1>3 DEF Elect, Lead, Follow, AwaitLock, PassLock, Read, Goto, Decide
  <2> QED BY <1>2, <2>1
<1>4. ASSUME NEW w \in Worker, Probe(w) PROVE Reported \/ Untouched
  <2>1. /\ result' = result /\ pc' = [pc EXCEPT ![w] = "truncating"]
        /\ \A v \in Worker : v # w => found'[v] = found[v]
    BY <1>0, <1>4 DEF Probe, Goto
  <2> QED BY <1>0, <1>1, <2>1
<1>5. ASSUME NEW w \in Worker, Truncate(w) PROVE FALSE
  BY <1>5 DEF Truncate
<1>6. ASSUME NEW w \in Worker, Write(w) PROVE Reported
  BY <1>6 DEF Write, PlaceInv
<1>7. ASSUME NEW w \in Worker, Release(w) PROVE Reported \/ Untouched
  <2>1. /\ pc[w] # "truncating" /\ found' = found /\ result' = result
        /\ \A v \in Worker : v # w => pc'[v] = pc[v]
    BY <1>0, <1>7 DEF Release, Goto, Decide
  <2> QED BY <1>2, <2>1
<1>8. ASSUME NEW w \in Worker, End(w) PROVE Reported \/ Untouched
  <2>1. /\ pc[w] # "truncating" /\ found' = found /\ result' = result
        /\ \A v \in Worker : v # w => pc'[v] = pc[v]
    BY <1>0, <1>8 DEF End, RunTests, UnlinkLock, UnlinkResult, Goto
  <2> QED BY <1>2, <2>1
<1>9. ASSUME NEW w \in Worker, Quit(w) \/ Crash(w) PROVE FALSE
  BY <1>9, NobodyLeaving
<1>10. CASE UNCHANGED vars
  BY <1>1, <1>10 DEF vars
<1> QED BY <1>3, <1>4, <1>5, <1>6, <1>7, <1>8, <1>9, <1>10 DEF Next, Step, Report

-----------------------------------------------------------------------------
LEMMA HealthInit == Init => HealthInv
<1> SUFFICES ASSUME Init PROVE HealthInv
  OBVIOUS
<1>1. /\ path = NoFile /\ holds = [w \in Worker |-> NoFile] /\ result \in Leftover
      /\ pc = [w \in Worker |-> "start"] /\ probe = [w \in Worker |-> "unknown"]
      /\ verdict = [w \in Worker |-> "none"] /\ found = [w \in Worker |-> "none"]
  BY DEF Init
<1>2. TypeOK
  BY <1>1, HealthAssumption DEF TypeOK, Places, Electing
<1>3. PlaceInv /\ LockInv
  BY <1>1 DEF PlaceInv, LockInv, HoldPlaces, LeadPlaces, Decided
<1>4. OrderInv
  BY <1>1 DEF OrderInv, Decided
<1>5. WholeInv /\ HonestInv /\ ReportInv
  BY <1>1 DEF WholeInv, HonestInv, ReportInv, Leaders
<1> QED BY <1>2, <1>3, <1>4, <1>5 DEF HealthInv

LEMMA HealthInvariance == Spec => []HealthInv
<1>1. Init => HealthInv
  BY HealthInit
<1>2. HealthInv /\ [Next]_vars => HealthInv'
  BY TypeStep, PlaceStep, LockStep, OrderStep, WholeStep, HonestStep, ReportStep
     DEF HealthInv
<1> QED BY <1>1, <1>2, PTL DEF Spec

(* Every variable keeps its type, whoever is killed or ends early.             *)
THEOREM HealthTypeCorrect == Spec => []TypeOK
<1>1. HealthInv => TypeOK
  BY DEF HealthInv
<1> QED BY <1>1, HealthInvariance, PTL

(* Until a session ends at most one worker probes or writes.                   *)
THEOREM LockExcludes == Spec => []OneLeaderAtATime
<1>1. HealthInv => OneLeaderAtATime
  <2> SUFFICES ASSUME HealthInv, ~SomeSessionEnded PROVE Cardinality(Leading) <= 1
    BY DEF OneLeaderAtATime
  <2>1. \A v, w \in Leading : v = w
    BY DEF HealthInv, LockInv, Leading, HoldPlaces, LeadPlaces
  <2>2. Leading = {} \/ \E w : Leading = {w}
    BY <2>1
  <2>3. CASE Leading = {}
    <3>1. Cardinality({}) = 0
      BY FS_EmptySet
    <3> QED BY <2>3, <3>1
  <2>4. ASSUME NEW w, Leading = {w} PROVE Cardinality(Leading) <= 1
    <3>1. Cardinality({w}) = 1
      BY FS_Singleton
    <3>2. Cardinality(Leading) = 1
      BY <2>4, <3>1
    <3> QED BY <3>2
  <2> QED BY <2>2, <2>3, <2>4
<1> QED BY <1>1, HealthInvariance, PTL

(* "Write result BEFORE releasing the lock so followers always find it": so    *)
(* they do while nobody is gone, no session ends and one worker leads.         *)
THEOREM FollowersAlwaysFindResult == Spec => []FollowersFindResult
<1>1. HealthInv => FollowersFindResult
  <2> SUFFICES ASSUME HealthInv, NEW w \in Worker,
                      pc[w] = "reading", result \in {"absent", "torn"},
                      ~SomeSessionEnded, NobodyLeft, ~(Cardinality(Leaders) > 1)
               PROVE  FALSE
    BY DEF FollowersFindResult, NobodyLeft, Gone
  <2>1. \A u, v \in Leaders : u = v
    <3> SUFFICES ASSUME NEW u \in Leaders, NEW v \in Leaders, u # v PROVE FALSE
      OBVIOUS
    <3>1. IsFiniteSet(Leaders) /\ Cardinality(Leaders) \in Nat
      BY HealthAssumption, FS_Subset, FS_CardinalityType DEF Leaders
    <3>2. IsFiniteSet({u}) /\ Cardinality({u}) = 1
      BY FS_Singleton
    <3>3. Cardinality({u} \cup {v}) = 2
      BY <3>2, FS_AddElement
    <3>4. Cardinality({u} \cup {v}) <= Cardinality(Leaders)
      BY <3>1, FS_Subset
    <3> QED BY <3>1, <3>3, <3>4
  <2>2. \A v \in Leaders : pc[v] \in {"truncating", "writing"}
    BY <2>1 DEF HealthInv, WholeInv
  <2>3. PICK v \in Worker : found[v] # "none" /\ pc[v] \notin LeadPlaces
    BY DEF HealthInv, OrderInv, Done
  <2> QED BY <2>2, <2>3 DEF Leaders, LeadPlaces
<1> QED BY <1>1, HealthInvariance, PTL

(* If every probe of the run failed and no worker was killed or ended without  *)
(* a verdict, no follower runs its tests, however many lead and whenever       *)
(* sessions that decided end.                                                  *)
THEOREM FailureStopsFollowers == Spec => []FollowersHonourFailure
<1>1. HealthInv => FollowersHonourFailure
  <2> SUFFICES ASSUME HealthInv, NEW w \in Worker, verdict[w] = "run", found[w] = "none",
                      Gone = {}, \A v \in Worker : found[v] \notin {"pass", "unknown"}
               PROVE  FALSE
    BY DEF FollowersHonourFailure
  <2>1. AllFailed
    BY DEF AllFailed, NobodyLeft, Gone, HealthInv, TypeOK
  <2> QED BY <2>1 DEF HealthInv, HonestInv
<1> QED BY <1>1, HealthInvariance, PTL

-----------------------------------------------------------------------------
(* HealthCheck implements ElectionContract.                                    *)

(* A step that neither kills nor ends a session leaves both alone.             *)
LEMMA NobodyLeaves ==
    ASSUME TypeOK, PlaceInv, NEW w \in Worker, pc[w] # "dead", pc'[w] # "dead",
           pc[w] \in {"unlinking", "finished"} <=> pc'[w] \in {"unlinking", "finished"},
           verdict[w] = "quit" <=> verdict'[w] = "quit",
           \A v \in Worker : v # w => pc'[v] = pc[v] /\ verdict'[v] = verdict[v]
    PROVE  /\ Gone' = Gone
           /\ SomeSessionEnded' = SomeSessionEnded
<1>1. Gone' = Gone
  BY DEF Gone
<1>2. \A v \in Worker :
         (pc[v] \in {"unlinking", "finished"} \/ (pc[v] = "dead" /\ verdict[v] # "none")) <=>
         (pc'[v] \in {"unlinking", "finished"} \/ (pc'[v] = "dead" /\ verdict'[v] # "none"))
  OBVIOUS
<1>3. SomeSessionEnded <=> SomeSessionEnded'
  BY <1>2 DEF SomeSessionEnded
<1>4. SomeSessionEnded \in BOOLEAN /\ SomeSessionEnded' \in BOOLEAN
  BY DEF SomeSessionEnded
<1>5. SomeSessionEnded' = SomeSessionEnded
  BY <1>3, <1>4
<1> QED BY <1>1, <1>5

LEMMA Undecided ==
    ASSUME TypeOK, PlaceInv, NEW w \in Worker, pc[w] \in {"probing", "releasing", "reading"}
    PROVE  Contract!Undecided(w)
BY DEF Contract!Undecided, PlaceInv, Decided, Gone, Voted

(* What a follower reads, somebody found, unless an excuse holds.              *)
LEMMA ReadingHasCause ==
    ASSUME HealthInv, NEW w \in Worker, pc[w] = "reading"
    PROVE  \/ Gone # {}
           \/ result \in {"pass", "fail", "unknown"} /\ \E v \in Worker : found[v] = result
           \/ /\ result \in {"absent", "torn"}
              /\ \/ SomeSessionEnded
                 \/ \E u, v \in Worker : u # v /\ found[u] # "none" /\ found[v] # "none"
<1> SUFFICES ASSUME NobodyLeft
             PROVE  \/ result \in {"pass", "fail", "unknown"} /\ \E v \in Worker : found[v] = result
                    \/ /\ result \in {"absent", "torn"}
                       /\ \/ SomeSessionEnded
                          \/ \E u, v \in Worker : u # v /\ found[u] # "none" /\ found[v] # "none"
  BY DEF NobodyLeft, Gone
<1>1. PICK v \in Worker : found[v] # "none" /\ pc[v] \notin LeadPlaces
  BY DEF HealthInv, OrderInv, Done
<1>2. CASE result \in {"pass", "fail", "unknown"}
  BY <1>1, <1>2 DEF HealthInv, ReportInv, Leaders, LeadPlaces
<1>3. CASE result \in {"absent", "torn"}
  BY <1>1, <1>3 DEF HealthInv, WholeInv, Leaders, LeadPlaces
<1> QED BY <1>2, <1>3 DEF HealthInv, TypeOK

(* Each step of the election is one of the contract, or changes nothing there. *)
LEMMA StepKeepsContract ==
    HealthInv /\ [Next]_vars => [Contract!Next]_(Contract!vars)
<1> SUFFICES ASSUME HealthInv, [Next]_vars PROVE Contract!Next \/ UNCHANGED Contract!vars
  OBVIOUS
<1>0. /\ TypeOK /\ PlaceInv /\ pc \in [Worker -> Places]
      /\ verdict \in [Worker -> {"none", "run", "abort", "quit"}]
      /\ probe \in [Worker -> {"pass", "fail", "unknown"}]
      /\ found \in [Worker -> {"none", "pass", "fail", "unknown"}]
  BY DEF HealthInv, TypeOK
<1>1. ASSUME NEW w \in Worker, found' = found, verdict' = verdict, pc[w] # "dead",
             NEW q \in Places \ {"dead"}, pc' = [pc EXCEPT ![w] = q],
             pc[w] \in {"unlinking", "finished"} <=> q \in {"unlinking", "finished"}
      PROVE  UNCHANGED Contract!vars
  <2>1. Gone' = Gone /\ SomeSessionEnded' = SomeSessionEnded
    BY <1>0, <1>1, NobodyLeaves
  <2> QED BY <1>1, <2>1 DEF Voted, Contract!vars
<1>2. ASSUME NEW w \in Worker, Lead(w) \/ Follow(w) \/ AwaitLock(w) \/ PassLock(w)
      PROVE  UNCHANGED Contract!vars
  <2>1. /\ found' = found /\ verdict' = verdict
        /\ pc[w] \notin {"dead", "unlinking", "finished"}
        /\ \E q \in {"probing", "waiting", "passing", "reading"} : pc' = [pc EXCEPT ![w] = q]
    BY <1>2 DEF Lead, Follow, AwaitLock, PassLock, Goto
  <2> QED BY <1>1, <2>1 DEF Places, Electing
<1>3. ASSUME NEW w \in Worker, Truncate(w) \/ Write(w) \/ RunTests(w)
      PROVE  UNCHANGED Contract!vars
  <2>1. /\ found' = found /\ verdict' = verdict
        /\ pc[w] \notin {"dead", "unlinking", "finished"}
        /\ \E q \in {"writing", "releasing", "finishing"} : pc' = [pc EXCEPT ![w] = q]
    BY <1>3 DEF Truncate, Write, RunTests, Goto
  <2> QED BY <1>1, <2>1 DEF Places, Electing
<1>4. ASSUME NEW w \in Worker, UnlinkResult(w) PROVE UNCHANGED Contract!vars
  <2>1. /\ found' = found /\ verdict' = verdict /\ pc[w] = "unlinking"
        /\ pc' = [pc EXCEPT ![w] = "finished"]
    BY <1>4 DEF UnlinkResult, Goto
  <2> QED BY <1>1, <2>1 DEF Places, Electing
<1>5. ASSUME NEW w \in Worker, Probe(w) PROVE Contract!Probe(w)
  <2>1. /\ verdict' = verdict /\ pc[w] = "probing" /\ found[w] = "none"
        /\ pc' = [pc EXCEPT ![w] = "truncating"]
    BY <1>0, <1>5 DEF Probe, Goto, PlaceInv
  <2>2. Gone' = Gone /\ SomeSessionEnded' = SomeSessionEnded
    BY <1>0, <2>1, NobodyLeaves
  <2> QED BY <1>0, <1>5, <2>1, <2>2, Undecided DEF Probe, Voted, Contract!Probe
<1>6. ASSUME NEW w \in Worker, NEW how \in {"run", "abort"}, found' = found,
             pc[w] \in {"releasing", "reading"}, Decide(w, how)
      PROVE  Contract!Decide(w, how) /\ Contract!Undecided(w)
  <2>1. /\ pc' = [pc EXCEPT ![w] = IF how = "run" THEN "testing" ELSE "finishing"]
        /\ verdict' = [verdict EXCEPT ![w] = how]
    BY <1>6 DEF Decide, Goto
  <2>2. Gone' = Gone /\ SomeSessionEnded' = SomeSessionEnded
    <3>1. verdict[w] = "none" /\ verdict'[w] = how
      BY <1>0, <1>6, <2>1 DEF PlaceInv, Decided
    <3> QED BY <1>0, <1>6, <2>1, <3>1, NobodyLeaves
  <2>3. Voted' = [Voted EXCEPT ![w] = how]
    BY <1>0, <2>1 DEF Voted
  <2> QED BY <1>0, <1>6, <2>2, <2>3, Undecided DEF Contract!Decide
<1>7. ASSUME NEW w \in Worker, Release(w) PROVE Contract!LeaderRuns(w) \/ Contract!LeaderAborts(w)
  <2>1. found' = found /\ pc[w] = "releasing" /\ probe[w] = found[w] /\ found[w] # "none"
    BY <1>0, <1>7 DEF Release, PlaceInv
  <2>2. CASE found[w] = "unknown"
    BY <1>6, <1>7, <2>1, <2>2 DEF Release, Contract!LeaderAborts
  <2>3. CASE found[w] \in {"pass", "fail"}
    BY <1>6, <1>7, <2>1, <2>3 DEF Release, Contract!LeaderRuns
  <2> QED BY <1>0, <2>1, <2>2, <2>3
<1>8. ASSUME NEW w \in Worker, Read(w) PROVE Contract!FollowerRuns(w) \/ Contract!FollowerAborts(w)
  <2>1. found' = found /\ pc[w] = "reading" /\ found[w] = "none"
    BY <1>0, <1>8 DEF Read, PlaceInv
  <2>3. CASE result \in {"absent", "torn", "fail"}
    <3>1. Contract!Decide(w, "abort") /\ Contract!Undecided(w)
      BY <1>6, <1>8, <2>1, <2>3 DEF Read
    <3>2. \/ Contract!Knows("fail") \/ SomeSessionEnded
          \/ Contract!SeveralProbed \/ Gone # {}
      BY <2>1, <2>3, ReadingHasCause DEF Contract!Knows, Contract!SeveralProbed
    <3> QED BY <2>1, <3>1, <3>2 DEF Contract!FollowerAborts
  <2>4. CASE result \in {"pass", "unknown"}
    <3>1. Contract!Decide(w, "run") /\ Contract!Undecided(w)
      BY <1>6, <1>8, <2>1, <2>4 DEF Read
    <3>2. Contract!Knows("pass") \/ Contract!Knows("unknown") \/ Gone # {}
      BY <2>1, <2>4, ReadingHasCause DEF Contract!Knows
    <3> QED BY <2>1, <3>1, <3>2 DEF Contract!FollowerRuns
  <2> QED BY <1>0, <2>3, <2>4 DEF TypeOK
<1>9. ASSUME NEW w \in Worker, UnlinkLock(w) PROVE Contract!End(w)
  <2>1. /\ found' = found /\ verdict' = verdict /\ pc[w] = "finishing"
        /\ pc' = [pc EXCEPT ![w] = "unlinking"] /\ verdict[w] # "none"
    BY <1>0, <1>9 DEF UnlinkLock, Goto, PlaceInv, Decided
  <2>2. SomeSessionEnded' = TRUE
    BY <1>0, <2>1 DEF SomeSessionEnded
  <2>3. Gone' = Gone /\ Voted' = Voted
    BY <1>0, <2>1 DEF Gone, Voted
  <2>4. Voted[w] # "none" \/ w \in Gone
    BY <2>1 DEF Gone, Voted
  <2> QED BY <2>1, <2>2, <2>3, <2>4 DEF Contract!End
<1>10. ASSUME NEW w \in Worker, Quit(w) PROVE Contract!Leave(w)
  <2>1. /\ found' = found /\ pc[w] \in Electing /\ verdict[w] = "none"
        /\ pc' = [pc EXCEPT ![w] = "finishing"] /\ verdict' = [verdict EXCEPT ![w] = "quit"]
    BY <1>0, <1>10 DEF Quit, Decide, Goto, PlaceInv, Decided, Electing
  <2>2. w \notin Gone /\ Gone' = Gone \cup {w}
    BY <1>0, <2>1 DEF Gone, Electing
  <2>3. Voted' = Voted /\ Voted[w] = "none"
    BY <1>0, <2>1 DEF Voted
  <2>4. \A v \in Worker :
           (pc[v] \in {"unlinking", "finished"} \/ (pc[v] = "dead" /\ verdict[v] # "none")) <=>
           (pc'[v] \in {"unlinking", "finished"} \/ (pc'[v] = "dead" /\ verdict'[v] # "none"))
    BY <1>0, <2>1 DEF Electing
  <2>5. SomeSessionEnded \in BOOLEAN /\ SomeSessionEnded' \in BOOLEAN
        /\ (SomeSessionEnded <=> SomeSessionEnded')
    BY <2>4 DEF SomeSessionEnded
  <2>6. SomeSessionEnded' = (SomeSessionEnded \/ Voted[w] # "none")
    BY <2>3, <2>5
  <2> QED BY <2>1, <2>2, <2>3, <2>6 DEF Contract!Leave
<1>11. ASSUME NEW w \in Worker, Crash(w) PROVE Contract!Leave(w) \/ Contract!End(w)
  <2>1. /\ found' = found /\ verdict' = verdict /\ pc[w] # "dead"
        /\ pc' = [pc EXCEPT ![w] = "dead"]
    BY <1>11 DEF Crash, Goto
  <2>2. Gone' = Gone \cup {w} /\ Voted' = Voted
    BY <1>0, <2>1 DEF Gone, Voted
  <2>3. SomeSessionEnded' <=> (SomeSessionEnded \/ verdict[w] # "none")
    BY <1>0, <2>1 DEF SomeSessionEnded, PlaceInv, Decided
  <2>4. SomeSessionEnded' \in BOOLEAN /\ SomeSessionEnded \in BOOLEAN
    BY DEF SomeSessionEnded
  <2>5. SomeSessionEnded' = (SomeSessionEnded \/ verdict[w] # "none")
    BY <2>3, <2>4
  <2>6. CASE verdict[w] = "quit"
    <3>1. w \in Gone /\ Gone' = Gone /\ SomeSessionEnded' = TRUE
      BY <2>2, <2>5, <2>6 DEF Gone
    <3> QED BY <2>1, <2>2, <3>1 DEF Contract!End
  <2>7. CASE verdict[w] # "quit"
    <3>1. w \notin Gone /\ Voted[w] = verdict[w]
      BY <2>1, <2>7 DEF Gone, Voted
    <3> QED BY <2>1, <2>2, <2>5, <3>1 DEF Contract!Leave
  <2> QED BY <2>6, <2>7
<1>12. CASE UNCHANGED vars
  <2>1. Gone' = Gone /\ Voted' = Voted /\ SomeSessionEnded' = SomeSessionEnded
    BY <1>12 DEF vars, Gone, Voted, SomeSessionEnded
  <2> QED BY <1>12, <2>1 DEF vars, Contract!vars
<1> QED BY <1>2, <1>3, <1>4, <1>5, <1>7, <1>8, <1>9, <1>10, <1>11, <1>12
    DEF Next, Step, Elect, Report, End, Contract!Next

(* The election keeps its contract, whoever leaves and whenever sessions end:  *)
(* a follower goes on only on a probe of this run that did not fail, aborts    *)
(* only on one that failed, on a session's end, or on a second leader, or does *)
(* either because a worker left without deciding.                              *)
THEOREM ElectionImplemented == Spec => ImplementsElection
<1>1. Init => Contract!Init
  <2> SUFFICES ASSUME Init PROVE Contract!Init
    OBVIOUS
  <2>1. /\ found = [w \in Worker |-> "none"] /\ verdict = [w \in Worker |-> "none"]
        /\ pc = [w \in Worker |-> "start"]
    BY DEF Init
  <2>2. Gone = {} /\ Voted = [w \in Worker |-> "none"] /\ ~SomeSessionEnded
    BY <2>1 DEF SomeSessionEnded, Gone, Voted
  <2>3. SomeSessionEnded = FALSE
    <3>1. SomeSessionEnded \in BOOLEAN
      BY DEF SomeSessionEnded
    <3> QED BY <2>2, <3>1
  <2> QED BY <2>1, <2>2, <2>3 DEF Contract!Init
<1> QED BY <1>1, StepKeepsContract, HealthInvariance, PTL
    DEF Spec, Contract!Spec, ImplementsElection
=============================================================================
