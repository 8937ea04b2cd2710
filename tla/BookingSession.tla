--------------------------- MODULE BookingSession ---------------------------
(* What one pytest worker does with the bookings it creates: BookingClient,    *)
(* the created_booking fixture and the tests that manage a booking themselves, *)
(* the orphan registry with its final sweep, the teardown token cache and the   *)
(* leak file.  A worker runs one test at a time and touches its own bookings    *)
(* only.  One call of ApiClient.request is one step: its retries show in what    *)
(* it may leave behind at the server (an attempt whose answer is lost still     *)
(* counts there), and it takes up to CallTime.  The server is external: it      *)
(* honours a token for TokenLife.                                              *)
EXTENDS Integers

CONSTANTS
    MaxBookings,   \* bound on the bookings ever created; ids are 1 .. MaxBookings
    MaxAttempts,   \* retry_max_attempts
    TokenTTL,      \* _TEARDOWN_TOKEN_TTL_SECONDS
    TokenLife,     \* how long the server honours a token
    CallTime,      \* the longest a call of request() takes
    MaxTime        \* bound on the clock

(* The TTL is of use only if a token fetched within the TTL lives through the  *)
(* two calls of a teardown, and one just fetched is not older than the TTL.    *)
(* (With the default settings: a TTL of 3600 s and calls of up to 120 s.)      *)
ASSUME SessionAssumption == /\ MaxBookings \in Nat \ {0}
                            /\ MaxAttempts \in Nat \ {0}
                            /\ TokenTTL \in Nat /\ TokenLife \in Nat
                            /\ CallTime \in Nat /\ MaxTime \in Nat
                            /\ CallTime <= TokenTTL
                            /\ TokenTTL + 2 * CallTime <= TokenLife

VARIABLES
    live,           \* the server's bookings
    lastId,         \* the last id the server assigned
    registry,       \* _orphan_registry: how often each id is in the list
    leakFile,       \* the ids in logs/leaked_resources.txt
    pc,             \* what the worker is doing
    style,          \* how the current test disposes of its booking
    booking,        \* the booking of the current test
    todo,           \* the sweep's copy of the registry, what is left of it
    leaked,         \* the sweep's list of failures
    sessionToken,   \* when the token of the auth_token fixture was obtained
    teardownToken,  \* _teardown_token_obtained_at, or NoToken
    preIssued,      \* whether settings.api_token is set; it outlives the session
    now,            \* time.monotonic()
    returned,       \* history: the ids that create_booking returned
    forgotten       \* history: ids lost with a killed process, or misread as absent

serverVars  == <<live, lastId>>
cleanupVars == <<registry, leakFile, todo, leaked>>
testVars    == <<style, booking>>
tokenVars   == <<sessionToken, teardownToken, preIssued>>
vars == <<serverVars, cleanupVars, testVars, tokenVars, pc, now, returned, forgotten>>

Booking == 1 .. MaxBookings
NoToken == -1

(* The created_booking fixture; create ... delete, deregister in a row; and    *)
(* try ... finally: delete if it exists, deregister.                           *)
Style == {"fixture", "plain", "guarded"}
Place == {"starting", "between", "testing", "authenticating", "checking", "deleting",
          "sweeping", "ended"}

Empty == [b \in Booking |-> 0]

Init == /\ live = {} /\ lastId = 0
        /\ registry = Empty /\ leakFile = {} /\ todo = Empty /\ leaked = {}
        /\ style = "plain" /\ booking = 1
        /\ sessionToken = 0 /\ teardownToken = NoToken /\ preIssued \in BOOLEAN
        /\ pc = "starting" /\ now = 0
        /\ returned = {} /\ forgotten = {}

Register(list, b)   == [list EXCEPT ![b] = @ + 1]
Deregister(list, b) == IF list[b] > 0 THEN [list EXCEPT ![b] = @ - 1] ELSE list

(* A call is under way for some time and reaches the server at instant sent.   *)
Calls(sent) == now' \in sent .. now + CallTime /\ now' <= MaxTime

Honoured(token, at) == preIssued \/ at - token <= TokenLife

(* DELETE: it returns only if the server answered 2xx, fast enough; it raises  *)
(* on everything else, also when an attempt did delete the booking.            *)
DeleteReturns(b, token) ==
    \E sent \in now .. now + CallTime : /\ Calls(sent)
                                        /\ b \in live /\ Honoured(token, sent)
                                        /\ live' = live \ {b}

DeleteRaises(b, token) ==
    \E sent \in now .. now + CallTime :
        /\ Calls(sent)
        /\ live' = live \/ (Honoured(token, sent) /\ live' = live \ {b})

-----------------------------------------------------------------------------
(* The session's own token.  If POST /auth fails every test errors in setup,   *)
(* and the sweep, which needs the token too, is never set up.                  *)
AuthToken == /\ pc = "starting"
             /\ \/ preIssued /\ pc' = "between" /\ UNCHANGED now
                \/ ~preIssued /\ pc' \in {"between", "ended"} /\ Calls(now)
             /\ sessionToken' = now
             /\ UNCHANGED <<serverVars, cleanupVars, testVars, teardownToken, preIssued,
                            returned, forgotten>>

(* create_booking: every attempt may create one, only the last one's id can    *)
(* come back, and it comes back only if the status, the body and the elapsed   *)
(* time are right.  The caller registers it at once.                           *)
Create == /\ pc = "between"
          /\ Calls(now)
          /\ \E n \in 0 .. MaxAttempts :
                /\ lastId + n <= MaxBookings
                /\ lastId' = lastId + n
                /\ live' = live \cup (lastId + 1 .. lastId + n)
                /\ \/ UNCHANGED <<pc, registry, testVars, returned>>
                   \/ /\ n > 0
                      /\ style' \in Style
                      /\ booking' = lastId'
                      /\ registry' = Register(registry, booking')
                      /\ returned' = returned \cup {booking'}
                      /\ pc' = "testing"
          /\ UNCHANGED <<leakFile, todo, leaked, tokenVars, forgotten>>

(* The test's body takes its time; one of its requests may delete the booking  *)
(* (an unauthorised DELETE that is honoured).                                  *)
Body == /\ pc = "testing"
        /\ now' \in now .. now + 1 /\ now' <= MaxTime
        /\ live' = live \/ (style = "fixture" /\ live' = live \ {booking})
        /\ UNCHANGED <<lastId, cleanupVars, testVars, tokenVars, pc, returned, forgotten>>

(* The body ends: the fixture's finally, the test's own finally, or the next   *)
(* line, which a failed body does not reach.                                   *)
EndBody == /\ pc = "testing"
           /\ CASE style = "fixture" -> pc' = "authenticating"
                [] style = "guarded" -> pc' = "checking"
                [] style = "plain"   -> pc' \in {"deleting", "between"}
           /\ UNCHANGED <<serverVars, cleanupVars, testVars, tokenVars, now, returned, forgotten>>

(* Mutant of TokenIsFresh: the cache has no TTL.                               *)
TokenIsFreshForever == teardownToken # NoToken

TokenIsFresh == teardownToken # NoToken /\ now - teardownToken <= TokenTTL

(* _get_cached_teardown_token: the cache, or POST /auth.  If that raises,       *)
(* nothing catches it: the finally block of created_booking ends there and the *)
(* booking stays registered.                                                   *)
FetchUnlessFresh(stamp) ==
    /\ pc = "authenticating"
    /\ IF preIssued \/ TokenIsFresh
       THEN /\ pc' = "checking"
            /\ UNCHANGED <<teardownToken, now>>
       ELSE /\ Calls(now)
            /\ \/ pc' = "checking" /\ teardownToken' = stamp
               \/ pc' = "between" /\ UNCHANGED teardownToken
    /\ UNCHANGED <<serverVars, cleanupVars, testVars, sessionToken, preIssued,
                   returned, forgotten>>

(* Mutant of GetTeardownToken: the stamp is the time the token expires.        *)
GetTeardownTokenDeadline == FetchUnlessFresh(now + TokenTTL)

(* The stamp is the time read before the call.                                 *)
GetTeardownToken == FetchUnlessFresh(now)

Token == IF style = "fixture" THEN teardownToken ELSE sessionToken

(* The booking is disposed of.  Or something raised: the fixture registers it  *)
(* again and then deregisters it once; a test of its own goes no further.      *)
Disposed == pc' = "between" /\ registry' = Deregister(registry, booking)

(* Mutants of GaveUp: the fixture does not register it again; or stops there.  *)
GaveUpSilently == /\ pc' = "between"
                  /\ registry' = IF style = "fixture" THEN Deregister(registry, booking)
                                                      ELSE registry
GaveUpEarly == /\ pc' = "between"
               /\ registry' = IF style = "fixture" THEN Register(registry, booking)
                                                   ELSE registry

GaveUp == /\ pc' = "between"
          /\ registry' = IF style = "fixture"
                         THEN Deregister(Register(registry, booking), booking)
                         ELSE registry

(* booking_exists: 404 is False, 4xx and worse raise, but any status below 400 *)
(* other than 200 is False as well.                                            *)
Exists == /\ pc = "checking"
          /\ Calls(now)
          /\ \/ /\ booking \in live
                /\ pc' = "deleting"
                /\ UNCHANGED <<registry, forgotten>>
             \/ /\ Disposed
                /\ forgotten' = IF booking \in live THEN forgotten \cup {booking} ELSE forgotten
             \/ GaveUp /\ UNCHANGED forgotten
          /\ UNCHANGED <<serverVars, leakFile, todo, leaked, testVars, tokenVars, returned>>

Delete == /\ pc = "deleting"
          /\ \/ DeleteReturns(booking, Token) /\ Disposed
             \/ DeleteRaises(booking, Token) /\ GaveUp
          /\ UNCHANGED <<lastId, leakFile, todo, leaked, testVars, tokenVars, returned, forgotten>>

-----------------------------------------------------------------------------
(* After the last test, orphan_cleanup sweeps a copy of the registry.          *)
StartSweep == /\ pc = "between"
              /\ IF registry = Empty THEN pc' = "ended" /\ UNCHANGED todo
                                     ELSE pc' = "sweeping" /\ todo' = registry
              /\ UNCHANGED <<serverVars, registry, leakFile, leaked, testVars, tokenVars,
                             now, returned, forgotten>>

(* Mutant of SweepOne: a failure is not noted.                                 *)
SweepOneSilently == /\ pc = "sweeping"
                    /\ \E b \in Booking :
                          /\ todo[b] > 0
                          /\ todo' = [todo EXCEPT ![b] = @ - 1]
                          /\ DeleteReturns(b, sessionToken) \/ DeleteRaises(b, sessionToken)
                    /\ UNCHANGED <<lastId, registry, leakFile, leaked, testVars, tokenVars, pc,
                                   returned, forgotten>>

(* One DELETE with the session's token, however old; the order is that of the  *)
(* list, but no booking depends on another.  The registry is not emptied.      *)
SweepOne == /\ pc = "sweeping"
            /\ \E b \in Booking :
                  /\ todo[b] > 0
                  /\ todo' = [todo EXCEPT ![b] = @ - 1]
                  /\ \/ DeleteReturns(b, sessionToken) /\ UNCHANGED leaked
                     \/ DeleteRaises(b, sessionToken) /\ leaked' = leaked \cup {b}
            /\ UNCHANGED <<lastId, registry, leakFile, testVars, tokenVars, pc,
                           returned, forgotten>>

(* _write_leak_file appends.                                                   *)
EndSweep == /\ pc = "sweeping" /\ todo = Empty
            /\ leakFile' = leakFile \cup leaked
            /\ pc' = "ended"
            /\ UNCHANGED <<serverVars, registry, todo, leaked, testVars, tokenVars, now,
                           returned, forgotten>>

(* pytest-timeout kills the process anywhere, in a teardown and in the sweep   *)
(* too; xdist starts another, with an empty registry.                          *)
Kill == /\ pc \notin {"starting", "ended"}
        /\ pc' = "starting"
        /\ forgotten' = forgotten \cup {b \in Booking : registry[b] > 0}
        /\ registry' = Empty /\ todo' = Empty /\ leaked' = {}
        /\ teardownToken' = NoToken
        /\ UNCHANGED <<serverVars, leakFile, testVars, sessionToken, preIssued, now, returned>>

Test == Create \/ Body \/ EndBody

CleanUp == GetTeardownToken \/ Exists \/ Delete \/ StartSweep \/ SweepOne \/ EndSweep

Next == AuthToken \/ Test \/ CleanUp \/ Kill

Spec == Init /\ [][Next]_vars

(* Without a kill.                                                             *)
CalmSpec == Init /\ [][Next /\ ~Kill]_vars

(* A test that started ends, a teardown and a sweep go on: calls have timeouts *)
(* and retries a bound.                                                        *)
FairSpec == Spec /\ WF_vars(AuthToken) /\ WF_vars(EndBody) /\ WF_vars(CleanUp)

-----------------------------------------------------------------------------
(* Every variable keeps its type; a list never holds an id a negative number   *)
(* of times, and no token is stamped in the future.                            *)
TypeOK == /\ live \subseteq Booking /\ lastId \in 0 .. MaxBookings
          /\ registry \in [Booking -> Nat] /\ todo \in [Booking -> Nat]
          /\ leakFile \subseteq Booking /\ leaked \subseteq Booking
          /\ pc \in Place /\ style \in Style /\ booking \in Booking
          /\ now \in 0 .. MaxTime
          /\ sessionToken \in 0 .. now /\ teardownToken \in {NoToken} \cup 0 .. now
          /\ preIssued \in BOOLEAN
          /\ returned \subseteq Booking /\ forgotten \subseteq Booking

(* No booking slips through: one that create_booking returned and that still   *)
(* exists is in the registry, and at the end of the session in the leak file,  *)
(* whatever raised in the test, the teardown or the sweep, unless the process  *)
(* was killed or booking_exists misread its status.                            *)
NothingSlipsThrough ==
    \A b \in (returned \cap live) \ forgotten :
        IF pc = "ended" THEN b \in leakFile ELSE registry[b] > 0

(* A failed teardown registers a booking a second time and deregisters it once *)
(* more: still nothing is in the list twice, so the sweep never deletes twice  *)
(* and reports as leaked what its first DELETE removed.                        *)
RegisteredOnce == \A b \in Booking : registry[b] <= 1

(* A session longer than a token's life: no teardown DELETE is sent with a     *)
(* token the server may refuse, also when the GET before it was slow.          *)
TeardownIsAuthorised ==
    pc = "deleting" /\ style = "fixture" => Honoured(teardownToken, now + CallTime)

(* Every booking the suite got an id for is deleted in the end, or reported in *)
(* the leak file, or was lost with a killed process.                           *)
EveryBookingSettles ==
    \A b \in Booking : b \in returned ~> b \notin live \/ b \in leakFile \/ b \in forgotten

(* PORTFOLIO.md: "A session-scoped orphan registry tracks every created        *)
(* resource.  At session end, any resource not explicitly cleaned up by its    *)
(* test is swept".                                                             *)
EveryCreatedIsTracked ==
    \A b \in live : IF pc = "ended" THEN b \in leakFile ELSE registry[b] > 0
=============================================================================
