------------------------ MODULE BookingSession_proof ------------------------
(* Proofs, for any number of bookings and attempts and any token life, of the  *)
(* safety properties of BookingSession.tla: what the registry holds, that no   *)
(* booking slips through, and that teardowns are authorised.                   *)
EXTENDS BookingSession, TLAPS

InTest == pc \in {"testing", "authenticating", "checking", "deleting"}

(* The registry holds nothing twice, nothing the server has not assigned, and  *)
(* the booking of the test under way: this is what makes "register again, then *)
(* deregister" leave exactly one entry.  A new process starts with none.       *)
RegistryShape == /\ RegisteredOnce
                 /\ \A b \in Booking : b > lastId => registry[b] = 0
                 /\ InTest => registry[booking] = 1
                 /\ \A b \in returned : b <= lastId
                 /\ pc = "starting" => \A b \in Booking : registry[b] = 0

(* The bookings that some list must hold.                                      *)
Owed == (returned \cap live) \ forgotten

(* Half-way through the sweep an owed booking is still to come, or noted.      *)
SweepCovers == pc = "sweeping" => \A b \in Owed : todo[b] > 0 \/ b \in leaked

(* How old the teardown token may be before the GET and before the DELETE.     *)
TokenAges ==
    style = "fixture" /\ ~preIssued =>
        /\ pc = "checking" => now - teardownToken <= TokenTTL
        /\ pc = "deleting" => now - teardownToken <= TokenTTL + CallTime

IInv == TypeOK /\ RegistryShape /\ NothingSlipsThrough /\ SweepCovers /\ TokenAges

LEMMA InitEstablishes == Init => IInv
  BY SessionAssumption
     DEF Init, IInv, TypeOK, RegistryShape, RegisteredOnce, InTest, NothingSlipsThrough,
         SweepCovers, Owed, TokenAges, Booking, NoToken, Style, Place, Empty

-----------------------------------------------------------------------------
(* The two operations of the registry.                                         *)
LEMMA DeregisterEmpties ==
  ASSUME NEW list \in [Booking -> Nat], NEW b \in Booking, list[b] = 1
  PROVE  Deregister(list, b) = [list EXCEPT ![b] = 0]
  BY DEF Deregister

LEMMA RegisterAgain ==
  ASSUME NEW list \in [Booking -> Nat], NEW b \in Booking
  PROVE  Deregister(Register(list, b), b) = list
  <1> DEFINE more == [list EXCEPT ![b] = list[b] + 1]
             back == [more EXCEPT ![b] = more[b] - 1]
  <1>1. more \in [Booking -> Nat] /\ more[b] = list[b] + 1 /\ more[b] > 0
    OBVIOUS
  <1>2. back = [c \in Booking |-> list[c]]
    BY <1>1
  <1>3. Deregister(Register(list, b), b) = back
    BY <1>1 DEF Deregister, Register
  <1> QED BY <1>2, <1>3

(* A call changes the clock within its bound, and a DELETE only removes.       *)
LEMMA CallTakesTime ==
  ASSUME TypeOK, NEW sent \in now .. now + CallTime, Calls(sent)
  PROVE  now' \in Nat /\ now <= now' /\ now' <= now + CallTime /\ now' <= MaxTime
  BY SessionAssumption DEF TypeOK, Calls

(* A stamp ages by no more than the call takes.                                *)
LEMMA AgesByTheCall ==
  ASSUME NEW from \in Nat, NEW to \in Nat, NEW stamp \in Int, NEW ttl \in Nat, NEW call \in Nat,
         to <= from + call, from - stamp <= ttl
  PROVE  to - stamp <= ttl + call
  OBVIOUS

LEMMA DeleteOnlyRemoves ==
  ASSUME TypeOK, NEW b \in Booking, NEW token,
         DeleteReturns(b, token) \/ DeleteRaises(b, token)
  PROVE  /\ live' \subseteq live
         /\ \A c \in live : c # b => c \in live'
         /\ DeleteReturns(b, token) => b \notin live'
         /\ now' \in Nat /\ now <= now' /\ now' <= now + CallTime /\ now' <= MaxTime
  BY CallTakesTime DEF DeleteReturns, DeleteRaises

(* Giving up leaves the registry as it is, disposing takes the booking out.    *)
LEMMA GaveUpKeeps ==
  ASSUME TypeOK, GaveUp
  PROVE  registry' = registry /\ pc' = "between"
  BY RegisterAgain DEF GaveUp, TypeOK

LEMMA DisposedTakesOut ==
  ASSUME TypeOK, RegistryShape, InTest, Disposed
  PROVE  registry' = [registry EXCEPT ![booking] = 0] /\ pc' = "between"
  BY DeregisterEmpties DEF Disposed, TypeOK, RegistryShape

-----------------------------------------------------------------------------
(* A step that leaves the registry's part alone: same list, same place kind.   *)
LEMMA ShapeStays ==
  ASSUME RegistryShape, UNCHANGED <<registry, lastId, booking, returned>>,
         InTest' => InTest, pc' # "starting" \/ pc' = pc
  PROVE  RegistryShape'
  BY DEF RegistryShape, RegisteredOnce

(* A step that ends a test, having disposed of its booking or given it up.     *)
LEMMA TestEnds ==
  ASSUME TypeOK, RegistryShape, InTest, Disposed \/ GaveUp,
         UNCHANGED <<lastId, booking, returned>>
  PROVE  /\ RegistryShape'
         /\ registry' \in [Booking -> Nat]
         /\ \A b \in Booking : b # booking => registry'[b] = registry[b]
         /\ GaveUp => registry' = registry
         /\ pc' = "between"
  <1>1. CASE Disposed
    <2>1. registry' = [registry EXCEPT ![booking] = 0] /\ pc' = "between"
      BY <1>1, DisposedTakesOut
    <2>2. registry \in [Booking -> Nat] /\ booking \in Booking
      BY DEF TypeOK
    <2>3. GaveUp => registry' = registry
      BY GaveUpKeeps
    <2> QED BY <2>1, <2>2, <2>3 DEF RegistryShape, RegisteredOnce, InTest
  <1>2. CASE GaveUp
    <2>1. registry' = registry /\ pc' = "between"
      BY <1>2, GaveUpKeeps
    <2> QED BY <2>1 DEF RegistryShape, RegisteredOnce, InTest, TypeOK
  <1> QED BY <1>1, <1>2

-----------------------------------------------------------------------------
(* The inductive step, one lemma per action that does more than move on.       *)
LEMMA CreatePreserves == IInv /\ Create => IInv'
  <1> SUFFICES ASSUME IInv, Create PROVE IInv'
    OBVIOUS
  <1> USE SessionAssumption
  <1>0. TypeOK /\ now' \in Nat /\ now <= now' /\ now' <= MaxTime
    BY CallTakesTime DEF IInv, Create, TypeOK
  <1>1. PICK n \in 0 .. MaxAttempts :
          /\ lastId + n <= MaxBookings
          /\ lastId' = lastId + n
          /\ live' = live \cup (lastId + 1 .. lastId + n)
          /\ \/ UNCHANGED <<pc, registry, testVars, returned>>
             \/ /\ n > 0
                /\ style' \in Style
                /\ booking' = lastId'
                /\ registry' = Register(registry, booking')
                /\ returned' = returned \cup {booking'}
                /\ pc' = "testing"
    BY DEF Create
  <1>2. pc = "between" /\ UNCHANGED <<leakFile, todo, leaked, tokenVars, forgotten>>
    BY DEF Create
  <1>3. lastId' \in 0 .. MaxBookings /\ lastId <= lastId' /\ live' \subseteq Booking
    BY <1>0, <1>1 DEF TypeOK, Booking
  <1>4. CASE UNCHANGED <<pc, registry, testVars, returned>>
    <2>1. TypeOK'
      BY <1>0, <1>2, <1>3, <1>4 DEF TypeOK, tokenVars, testVars
    <2>2. RegistryShape'
      BY <1>0, <1>2, <1>3, <1>4 DEF IInv, RegistryShape, RegisteredOnce, InTest, testVars,
         TypeOK, Booking
    <2>3. NothingSlipsThrough' /\ SweepCovers'
      BY <1>0, <1>1, <1>2, <1>4 DEF IInv, RegistryShape, NothingSlipsThrough, SweepCovers,
         Owed, TypeOK, Booking
    <2>4. TokenAges'
      BY <1>2, <1>4 DEF TokenAges
    <2> QED BY <2>1, <2>2, <2>3, <2>4 DEF IInv
  <1>5. CASE /\ n > 0
             /\ style' \in Style
             /\ booking' = lastId'
             /\ registry' = Register(registry, booking')
             /\ returned' = returned \cup {booking'}
             /\ pc' = "testing"
    <2>0. booking' \in Booking /\ booking' > lastId
      BY <1>0, <1>1, <1>3, <1>5 DEF TypeOK, Booking
    <2>1. registry' = [registry EXCEPT ![booking'] = 1]
      <3>1. registry' = [registry EXCEPT ![booking'] = registry[booking'] + 1]
        BY <1>5 DEF Register
      <3>2. registry[booking'] = 0
        BY <2>0 DEF IInv, RegistryShape
      <3> QED BY <3>1, <3>2
    <2>2. TypeOK'
      BY <1>0, <1>2, <1>3, <1>5, <2>0, <2>1 DEF TypeOK, tokenVars, Place
    <2>3. RegistryShape'
      BY <1>0, <1>3, <1>5, <2>0, <2>1 DEF IInv, RegistryShape, RegisteredOnce, InTest,
         TypeOK, Booking
    <2>4. NothingSlipsThrough' /\ SweepCovers'
      BY <1>0, <1>1, <1>2, <1>5, <2>0, <2>1 DEF IInv, RegistryShape, NothingSlipsThrough,
         SweepCovers, Owed, TypeOK, Booking
    <2>5. TokenAges'
      BY <1>5 DEF TokenAges
    <2> QED BY <2>2, <2>3, <2>4, <2>5 DEF IInv
  <1> QED BY <1>1, <1>4, <1>5

LEMMA GetTeardownTokenPreserves == IInv /\ GetTeardownToken => IInv'
  <1> SUFFICES ASSUME IInv, GetTeardownToken PROVE IInv'
    OBVIOUS
  <1> USE SessionAssumption DEF GetTeardownToken, FetchUnlessFresh
  <1>0. TypeOK /\ RegistryShape /\ pc = "authenticating" /\ pc' \in {"checking", "between"}
    BY DEF IInv
  <1>1. UNCHANGED <<serverVars, cleanupVars, testVars, sessionToken, preIssued, returned,
                    forgotten>>
    OBVIOUS
  <1>2. now' \in Nat /\ now <= now' /\ now' <= now + CallTime /\ now' <= MaxTime
    BY <1>0, CallTakesTime DEF TypeOK
  <1>3. teardownToken' \in {teardownToken, now}
    BY <1>0
  <1>4. TypeOK'
    BY <1>0, <1>1, <1>2, <1>3 DEF TypeOK, serverVars, cleanupVars, testVars, Place
  <1>5. RegistryShape'
    BY <1>0, <1>1, ShapeStays DEF serverVars, cleanupVars, testVars, InTest
  <1>6. NothingSlipsThrough' /\ SweepCovers'
    BY <1>0, <1>1 DEF IInv, NothingSlipsThrough, SweepCovers, Owed, serverVars, cleanupVars
  <1>7. ASSUME ~preIssued, pc' = "checking" PROVE now' - teardownToken' <= TokenTTL
    <2>1. CASE TokenIsFresh
      BY <1>7, <2>1 DEF TokenIsFresh
    <2>2. CASE ~TokenIsFresh
      BY <1>0, <1>2, <1>7, <2>2 DEF TypeOK
    <2> QED BY <2>1, <2>2
  <1>8. TokenAges'
    BY <1>0, <1>1, <1>7 DEF TokenAges
  <1> QED BY <1>4, <1>5, <1>6, <1>8 DEF IInv

LEMMA ExistsPreserves == IInv /\ Exists => IInv'
  <1> SUFFICES ASSUME IInv, Exists PROVE IInv'
    OBVIOUS
  <1> USE SessionAssumption
  <1>0. /\ TypeOK /\ RegistryShape /\ InTest /\ pc = "checking"
        /\ UNCHANGED <<serverVars, leakFile, todo, leaked, testVars, tokenVars, returned>>
    BY DEF IInv, Exists, InTest
  <1>1. now' \in Nat /\ now <= now' /\ now' <= now + CallTime /\ now' <= MaxTime
    BY <1>0, CallTakesTime DEF Exists, TypeOK
  <1>2. CASE booking \in live /\ pc' = "deleting" /\ UNCHANGED <<registry, forgotten>>
    <2>1. TypeOK'
      BY <1>0, <1>1, <1>2 DEF TypeOK, serverVars, testVars, tokenVars, Place
    <2>2. RegistryShape'
      BY <1>0, <1>2, ShapeStays DEF serverVars, testVars
    <2>3. NothingSlipsThrough' /\ SweepCovers'
      BY <1>0, <1>2 DEF IInv, NothingSlipsThrough, SweepCovers, Owed, serverVars
    <2>4. teardownToken \in Int /\ now \in Nat /\ TokenTTL \in Nat /\ CallTime \in Nat
      BY <1>0 DEF TypeOK, NoToken
    <2>5. TokenAges /\ UNCHANGED <<style, preIssued, teardownToken>>
      BY <1>0 DEF IInv, testVars, tokenVars
    <2>6. TokenAges'
      <3> SUFFICES ASSUME style' = "fixture", ~preIssued'
                   PROVE  now' - teardownToken' <= TokenTTL + CallTime
        BY <1>2 DEF TokenAges
      <3>1. now - teardownToken <= TokenTTL
        BY <1>0, <2>5 DEF TokenAges
      <3>2. teardownToken' = teardownToken
        BY <2>5
      <3> QED BY <1>1, <2>4, <3>1, <3>2, AgesByTheCall
    <2> QED BY <2>1, <2>2, <2>3, <2>6 DEF IInv
  <1>3. CASE /\ Disposed
             /\ forgotten' = IF booking \in live THEN forgotten \cup {booking} ELSE forgotten
    <2>0. /\ RegistryShape' /\ registry' \in [Booking -> Nat] /\ pc' = "between"
          /\ \A b \in Booking : b # booking => registry'[b] = registry[b]
      BY <1>0, <1>3, TestEnds DEF serverVars, testVars
    <2>1. TypeOK'
      BY <1>0, <1>1, <1>3, <2>0 DEF TypeOK, serverVars, testVars, tokenVars, Place
    <2>3. NothingSlipsThrough' /\ SweepCovers'
      BY <1>0, <1>3, <2>0 DEF IInv, NothingSlipsThrough, SweepCovers, Owed, serverVars, TypeOK
    <2>4. TokenAges'
      BY <2>0 DEF TokenAges
    <2> QED BY <2>0, <2>1, <2>3, <2>4 DEF IInv
  <1>4. CASE GaveUp /\ UNCHANGED forgotten
    <2>0. RegistryShape' /\ registry' = registry /\ pc' = "between"
      BY <1>0, <1>4, TestEnds DEF serverVars, testVars
    <2>1. TypeOK'
      BY <1>0, <1>1, <1>4, <2>0 DEF TypeOK, serverVars, testVars, tokenVars, Place
    <2>3. NothingSlipsThrough' /\ SweepCovers'
      BY <1>0, <1>4, <2>0 DEF IInv, NothingSlipsThrough, SweepCovers, Owed, serverVars
    <2>4. TokenAges'
      BY <2>0 DEF TokenAges
    <2> QED BY <2>0, <2>1, <2>3, <2>4 DEF IInv
  <1> QED BY <1>2, <1>3, <1>4 DEF Exists

LEMMA DeletePreserves == IInv /\ Delete => IInv'
  <1> SUFFICES ASSUME IInv, Delete PROVE IInv'
    OBVIOUS
  <1>0. /\ TypeOK /\ RegistryShape /\ InTest /\ pc = "deleting" /\ booking \in Booking
        /\ UNCHANGED <<lastId, leakFile, todo, leaked, testVars, tokenVars, returned, forgotten>>
    BY DEF IInv, Delete, InTest, TypeOK
  <1>1. /\ live' \subseteq live
        /\ DeleteReturns(booking, Token) => booking \notin live'
        /\ now' \in Nat /\ now <= now' /\ now' <= MaxTime
    BY <1>0, DeleteOnlyRemoves DEF Delete
  <1>2. /\ RegistryShape' /\ registry' \in [Booking -> Nat] /\ pc' = "between"
        /\ \A b \in Booking : b # booking => registry'[b] = registry[b]
        /\ GaveUp => registry' = registry
    BY <1>0, TestEnds DEF Delete, testVars
  <1>3. TypeOK'
    BY <1>0, <1>1, <1>2, SessionAssumption DEF TypeOK, testVars, tokenVars, Place
  <1>4. booking \notin live' \/ registry' = registry
    BY <1>1, <1>2 DEF Delete
  <1>5. NothingSlipsThrough' /\ SweepCovers'
    BY <1>0, <1>1, <1>2, <1>4 DEF IInv, NothingSlipsThrough, SweepCovers, Owed, TypeOK
  <1>6. TokenAges'
    BY <1>2 DEF TokenAges
  <1> QED BY <1>2, <1>3, <1>5, <1>6 DEF IInv

LEMMA StartSweepPreserves == IInv /\ StartSweep => IInv'
  <1> SUFFICES ASSUME IInv, StartSweep PROVE IInv'
    OBVIOUS
  <1> USE DEF StartSweep, IInv
  <1>1. TypeOK'
    BY DEF TypeOK, serverVars, testVars, tokenVars, Place
  <1>2. RegistryShape'
    BY ShapeStays DEF serverVars, testVars, InTest
  <1>3. NothingSlipsThrough'
    BY DEF TypeOK, NothingSlipsThrough, serverVars, Empty
  <1>4. SweepCovers'
    BY DEF SweepCovers, NothingSlipsThrough, Owed, serverVars
  <1>5. TokenAges'
    BY DEF TokenAges
  <1> QED BY <1>1, <1>2, <1>3, <1>4, <1>5

LEMMA SweepOnePreserves == IInv /\ SweepOne => IInv'
  <1> SUFFICES ASSUME IInv, SweepOne PROVE IInv'
    OBVIOUS
  <1>0. /\ TypeOK /\ pc = "sweeping"
        /\ UNCHANGED <<lastId, registry, leakFile, testVars, tokenVars, pc, returned, forgotten>>
    BY DEF IInv, SweepOne
  <1>1. PICK b \in Booking :
          /\ todo[b] > 0
          /\ todo' = [todo EXCEPT ![b] = @ - 1]
          /\ \/ DeleteReturns(b, sessionToken) /\ UNCHANGED leaked
             \/ DeleteRaises(b, sessionToken) /\ leaked' = leaked \cup {b}
    BY DEF SweepOne
  <1>2. /\ live' \subseteq live /\ (DeleteReturns(b, sessionToken) => b \notin live')
        /\ now' \in Nat /\ now <= now' /\ now' <= MaxTime
    BY <1>0, <1>1, DeleteOnlyRemoves
  <1>3. TypeOK'
    BY <1>0, <1>1, <1>2, SessionAssumption DEF TypeOK, testVars, tokenVars
  <1>4. RegistryShape'
    BY <1>0, ShapeStays DEF IInv, testVars, InTest
  <1>5. NothingSlipsThrough'
    BY <1>0, <1>2 DEF IInv, NothingSlipsThrough
  <1>6. SweepCovers'
    <2> SUFFICES ASSUME NEW c \in Owed' PROVE todo'[c] > 0 \/ c \in leaked'
      BY DEF SweepCovers
    <2>1. c \in Owed /\ c \in Booking /\ (todo[c] > 0 \/ c \in leaked)
      BY <1>0, <1>2 DEF IInv, SweepCovers, Owed, TypeOK
    <2>2. CASE c = b
      BY <1>1, <1>2, <2>1, <2>2 DEF Owed
    <2>3. CASE c # b
      BY <1>0, <1>1, <2>1, <2>3 DEF TypeOK
    <2> QED BY <2>2, <2>3
  <1>7. TokenAges'
    BY <1>0 DEF TokenAges
  <1> QED BY <1>3, <1>4, <1>5, <1>6, <1>7 DEF IInv

LEMMA EndSweepPreserves == IInv /\ EndSweep => IInv'
  <1> SUFFICES ASSUME IInv, EndSweep PROVE IInv'
    OBVIOUS
  <1> USE DEF EndSweep, IInv
  <1>1. TypeOK'
    BY DEF TypeOK, serverVars, testVars, tokenVars, Place
  <1>2. RegistryShape'
    BY ShapeStays DEF serverVars, testVars, InTest
  <1>3. \A b \in Owed : b \in leaked
    BY DEF SweepCovers, Owed, TypeOK, Empty
  <1>4. NothingSlipsThrough' /\ SweepCovers'
    BY <1>3 DEF NothingSlipsThrough, SweepCovers, Owed, serverVars
  <1>5. TokenAges'
    BY DEF TokenAges
  <1> QED BY <1>1, <1>2, <1>4, <1>5

LEMMA KillPreserves == IInv /\ Kill => IInv'
  <1> SUFFICES ASSUME IInv, Kill PROVE IInv'
    OBVIOUS
  <1> USE DEF Kill, IInv
  <1>1. TypeOK'
    BY DEF TypeOK, serverVars, testVars, Place, Empty
  <1>2. RegistryShape'
    BY DEF TypeOK, RegistryShape, RegisteredOnce, InTest, serverVars, testVars, Empty
  <1>3. NothingSlipsThrough' /\ SweepCovers'
    BY DEF TypeOK, NothingSlipsThrough, SweepCovers, Owed, serverVars
  <1>4. TokenAges'
    BY DEF TokenAges
  <1> QED BY <1>1, <1>2, <1>3, <1>4

LEMMA MoveOnPreserves == IInv /\ (AuthToken \/ Body \/ EndBody \/ UNCHANGED vars) => IInv'
  <1> SUFFICES ASSUME IInv, AuthToken \/ Body \/ EndBody \/ UNCHANGED vars PROVE IInv'
    OBVIOUS
  <1> USE SessionAssumption
  <1>0. TypeOK /\ RegistryShape
    BY DEF IInv
  <1>1. CASE AuthToken
    <2>1. /\ now' \in Nat /\ now <= now' /\ now' <= MaxTime
          /\ pc = "starting" /\ pc' \in {"between", "ended"}
      BY <1>0, <1>1, CallTakesTime DEF AuthToken, TypeOK
    <2>2. TypeOK'
      BY <1>0, <1>1, <2>1 DEF TypeOK, AuthToken, serverVars, cleanupVars, testVars, Place
    <2>3. RegistryShape'
      BY <1>0, <1>1, <2>1, ShapeStays DEF AuthToken, serverVars, cleanupVars, testVars, InTest
    <2>4. NothingSlipsThrough' /\ SweepCovers'
      BY <1>0, <1>1, <2>1 DEF IInv, TypeOK, RegistryShape, AuthToken, NothingSlipsThrough, SweepCovers, Owed, serverVars,
         cleanupVars
    <2>5. TokenAges'
      BY <2>1 DEF TokenAges
    <2> QED BY <2>2, <2>3, <2>4, <2>5 DEF IInv
  <1>2. CASE Body
    <2>1. TypeOK'
      BY <1>0, <1>2 DEF TypeOK, Body, cleanupVars, testVars, tokenVars
    <2>2. RegistryShape'
      BY <1>0, <1>2, ShapeStays DEF Body, cleanupVars, testVars, InTest
    <2>3. NothingSlipsThrough' /\ SweepCovers'
      BY <1>2 DEF IInv, Body, NothingSlipsThrough, SweepCovers, Owed, cleanupVars
    <2>4. TokenAges'
      BY <1>2 DEF Body, TokenAges
    <2> QED BY <2>1, <2>2, <2>3, <2>4 DEF IInv
  <1>3. CASE EndBody
    <2>1. /\ pc = "testing" /\ pc' \in {"authenticating", "checking", "deleting", "between"}
          /\ style = "fixture" => pc' = "authenticating"
      BY <1>0, <1>3 DEF EndBody, TypeOK, Style
    <2>2. TypeOK'
      BY <1>0, <1>3, <2>1 DEF TypeOK, EndBody, serverVars, cleanupVars, testVars, tokenVars, Place
    <2>3. RegistryShape'
      BY <1>0, <1>3, <2>1, ShapeStays DEF EndBody, serverVars, cleanupVars, testVars, InTest
    <2>4. NothingSlipsThrough' /\ SweepCovers'
      BY <1>3, <2>1 DEF IInv, EndBody, NothingSlipsThrough, SweepCovers, Owed, serverVars,
         cleanupVars
    <2>5. TokenAges'
      BY <1>3, <2>1 DEF EndBody, TokenAges, testVars
    <2> QED BY <2>2, <2>3, <2>4, <2>5 DEF IInv
  <1>4. CASE UNCHANGED vars
    BY <1>4 DEF vars, serverVars, cleanupVars, testVars, tokenVars, IInv, TypeOK, RegistryShape,
       RegisteredOnce, InTest, NothingSlipsThrough, SweepCovers, Owed, TokenAges
  <1> QED BY <1>1, <1>2, <1>3, <1>4

(* The inductive invariant holds in every reachable state.                     *)
THEOREM Invariance == Spec => []IInv
  <1>1. IInv /\ [Next]_vars => IInv'
    BY CreatePreserves, GetTeardownTokenPreserves, ExistsPreserves, DeletePreserves,
       StartSweepPreserves, SweepOnePreserves, EndSweepPreserves, KillPreserves,
       MoveOnPreserves DEF Next, Test, CleanUp
  <1> QED BY <1>1, InitEstablishes, PTL DEF Spec

(* The worker, its lists and its tokens keep their types.                      *)
THEOREM TypeCorrect == Spec => []TypeOK
  BY Invariance, PTL DEF IInv

(* Whatever raises, and wherever: an existing booking whose id came back is    *)
(* registered, and after the session in the leak file.                         *)
THEOREM NothingSlips == Spec => []NothingSlipsThrough
  BY Invariance, PTL DEF IInv

(* The registry never holds a booking twice, so the sweep deletes each once.   *)
THEOREM RegisteredOnceCorrect == Spec => []RegisteredOnce
  BY Invariance, PTL DEF IInv, RegistryShape

(* A teardown DELETE goes out while its token is honoured.                     *)
THEOREM TeardownAuthorised == Spec => []TeardownIsAuthorised
  <1>1. IInv => TeardownIsAuthorised
    BY SessionAssumption DEF IInv, TypeOK, TokenAges, TeardownIsAuthorised, Honoured, NoToken
  <1> QED BY <1>1, Invariance, PTL
=============================================================================
