----------------------------- MODULE BookingCrud -----------------------------
(* One test of tests/functional/test_bookings_crud.py, from the import of the  *)
(* settings to its verdict: BookingClient over ApiClient.request, one attempt  *)
(* a step.  A test is a script of calls with the assertions that follow each;  *)
(* an attempt may be lost, unanswered, or reach the server after the client    *)
(* has given it up.  The server is external: a correct one, or one with a      *)
(* defect that the suite is there to catch.  (What the fixtures tear down is   *)
(* in BookingSession, what opens the circuit in ApiClient and SharedClient.)   *)
EXTENDS Settings, BookingContract, Sequences, FiniteSets

CONSTANTS
    Environment,  \* the environments a session may start in
    Defect,       \* the defects a server may have
    Draw,         \* what Faker may draw for a realistic payload
    LateBound     \* bound: requests on their way at a time after their client gave up

(* What a price and the additionalneeds are drawn from.                        *)
Price == 50 .. 2500
Need == {w \in Word : WordLength[w] <= 26} \cup {None}

(* The ways in which a server may be wrong, most of them about one field: it   *)
(* drops the field of a POST and stores a default; cuts a text; stores null    *)
(* for 0; PUT merges the old field in, or answers the new one and forgets it;  *)
(* PATCH erases a field it was not given; DELETE keeps the booking; a GET may  *)
(* answer 202 after the DELETE it defers; the list hides it; a repeated DELETE *)
(* crashes.                                                                    *)
Kind == {"none", "drops", "truncates", "nulls", "merges", "forgets", "erases", "keeps",
         "defers", "hides", "crashes"}

ASSUME CrudAssumption == /\ Environment \subseteq Env
                         /\ {"create", "update", "run"} \subseteq Tag
                         /\ Draw \subseteq [first : Name, last : Name, price : Price,
                                           deposit : BOOLEAN, need : Need]
                         /\ Defect \subseteq [kind : Kind, field : Field]
                         /\ LateBound \in Nat

VARIABLES
    stage,     \* where the session is
    settings,  \* the environment, and from the import on the settings
    test,      \* the test that runs
    step,      \* the step of its script
    call,      \* the request under way, or None
    attempt,   \* tenacity's attempt_number
    original,  \* the payload the booking was created with
    wanted,    \* what the test has reason to expect of its booking
    booking,   \* the bookingid it was told, 0 before
    causes,    \* the exceptions it met
    token,     \* whether the server honours the token of the session
    server,    \* the server's bookings; the id of a booking is its index
    late,      \* requests given up by their client that may still arrive
    defect     \* what is wrong with the server

testVars == <<test, step, call, attempt, original, wanted, booking, causes>>
vars == <<stage, settings, testVars, token, server, late, defect>>

Gone == [deleted |-> TRUE]

Step(called, same) == [call |-> called, same |-> same]

Names == {"firstname", "lastname"}

(* The tests: the calls they make, and the fields of each answer that they     *)
(* compare with what they expect.  "clean" is the finally of a test that       *)
(* disposes of its booking itself: delete it if it exists.                     *)
Script ==
    LET create == Step("create", {})
        clean  == Step("clean", {})
        delete == Step("delete", {})
        absent == Step("absent", {})
        get(same) == Step("get", same)
    IN [returns_id  |-> <<create, clean, delete>>,
        persists    |-> <<create, get(Field)>>,
        listed      |-> <<create, Step("list", {})>>,
        max_length  |-> <<create, get(Names), clean, delete>>,
        zero_price  |-> <<create, get({"totalprice"}), clean, delete>>,
        unicode     |-> <<create, get(Names), clean, delete>>,
        put         |-> <<create, Step("put", Field \ {"checkout", "additionalneeds"}),
                          get({"firstname", "totalprice"})>>,
        patch       |-> <<create, Step("patch", Field \ {"checkout", "additionalneeds"})>>,
        patch_needs |-> <<create, Step("patch", {"firstname", "totalprice"})>>,
        delete      |-> <<create, delete, absent>>,
        repeat      |-> <<create, delete, Step("repeat", {})>>,
        lifecycle   |-> <<Step("create", {"firstname"}),
                          get({"firstname", "totalprice", "checkin"}),
                          Step("put", {"firstname", "totalprice"}),
                          get({"firstname", "totalprice"}), delete, absent>>]

Now == Script[test][step]

Draws(tag, offset, stay) ==
    {Realistic(d.first, d.last, d.price, d.deposit, d.need, offset, stay, tag, "run") : d \in Draw}

FirstPayload(t) ==
    CASE t = "max_length" -> {MaxLength("create", "run")}
      [] t = "zero_price" -> {MinimumPrice("create", "run")}
      [] t = "unicode"    -> {UnicodeNames(d.first, d.last, "create", "run") : d \in Draw}
      [] t = "lifecycle"  -> Draws("create", 45, 4)
      [] OTHER            -> Draws("create", 30, 3)

UpdatePayload(t) == IF t = "lifecycle" THEN Draws("update", 90, 14) ELSE Draws("update", 60, 7)

Given == IF test = "patch_needs" THEN [additionalneeds |-> Filler(0)]
                                 ELSE [totalprice |-> 9999, depositpaid |-> FALSE]

Init == /\ stage = "importing" /\ settings \in Environment
        /\ test = "returns_id" /\ step = 1 /\ call = None /\ attempt = 1
        /\ original = None /\ wanted = None /\ booking = 0 /\ causes = {}
        /\ token = "unset" /\ server = <<>> /\ late = {} /\ defect \in Defect

-----------------------------------------------------------------------------
(* The import of the settings: SystemExit if they are not accepted.            *)
Import == /\ stage = "importing"
          /\ IF Accepts(settings)
             THEN stage' = "authenticating" /\ settings' = Load(settings)
             ELSE stage' = "exited" /\ UNCHANGED settings
          /\ UNCHANGED <<testVars, token, server, late, defect>>

(* auth_token: the token given, which nobody asks the server about, or one of  *)
(* POST /auth, which may fail in every way a call can, an empty token          *)
(* (AuthTokenResponse) included.  authenticate and api_client both hand it to  *)
(* set_auth_token.                                                             *)
AuthToken ==
    /\ stage = "authenticating"
    /\ \/ /\ ~TokenAllowed(ClientUrl(settings))
          /\ stage' = "security_error" /\ UNCHANGED token
       \/ /\ TokenAllowed(ClientUrl(settings)) /\ Truthy(settings.api_token)
          /\ stage' = "ready" /\ token' \in {"honoured", "refused"}
       \/ /\ TokenAllowed(ClientUrl(settings)) /\ ~Truthy(settings.api_token)
          /\ \/ stage' = "ready" /\ token' = "honoured"
             \/ stage' = "errored" /\ UNCHANGED token
    /\ UNCHANGED <<settings, testVars, server, late, defect>>

(* The session's token is never renewed; its life at the server may end.       *)
Expire == /\ stage \in {"ready", "testing"} /\ token = "honoured"
          /\ token' = "refused"
          /\ UNCHANGED <<stage, settings, testVars, server, late, defect>>

StartTest == /\ stage = "ready"
             /\ stage' = "testing"
             /\ test' \in DOMAIN Script
             /\ original' \in FirstPayload(test')
             /\ wanted' = original'
             /\ UNCHANGED <<settings, step, call, attempt, booking, causes, token, server, late,
                            defect>>

(* A call of the client: its method, path and body.                            *)
Request(op, data) == [op |-> op, id |-> booking, data |-> data]

Requests == [op : {"create", "get", "list", "put", "patch", "delete"}, id : Nat,
             data : {None} \cup UNION {[F -> Value] : F \in SUBSET Field}]

ASSUME RequestAssumption == None \notin Requests

Calls(op, data) == call' = Request(op, data) /\ attempt' = 1

Begin == /\ stage = "testing" /\ call = None
         /\ CASE Now.call = "create" -> Calls("create", original) /\ UNCHANGED wanted
              [] Now.call = "put" -> \E payload \in UpdatePayload(test) :
                                        Calls("put", payload) /\ wanted' = payload
              [] Now.call = "patch" -> /\ Calls("patch", Dump(Given))
                                       /\ wanted' = Merge(wanted, Given)
              [] Now.call = "list" -> Calls("list", None) /\ UNCHANGED wanted
              [] Now.call \in {"delete", "repeat"} -> Calls("delete", None) /\ UNCHANGED wanted
              [] OTHER -> Calls("get", None) /\ UNCHANGED wanted
         /\ UNCHANGED <<stage, settings, test, step, original, booking, causes, token, server,
                        late, defect>>

-----------------------------------------------------------------------------
(* The server.  What it makes of a booking, old, that a request is about.      *)
Here(r) == r.id \in DOMAIN server /\ server[r.id] # Gone

(* A PUT, PATCH or DELETE needs a token that is good.                          *)
Refused(r) == token = "refused" /\ r.op \in {"put", "patch", "delete"}

Correct(r, old) == CASE r.op = "put"    -> r.data
                     [] r.op = "patch"  -> Merge(old, r.data)
                     [] r.op = "delete" -> Gone
                     [] OTHER           -> old

(* What a server stores for a field it has lost, and where it cuts a text.     *)
Default == [f \in Field |-> CASE f \in Names             -> Filler(0)
                              [] f = "depositpaid"     -> FALSE
                              [] f = "checkout"        -> 400
                              [] f = "additionalneeds" -> None
                              [] OTHER                 -> 0]

Cut(f, text) == Slice(text, IF f \in Names THEN 99 ELSE 499)

Kept(r, old) ==
    LET new == Correct(r, old)
        f   == defect.field
        With(value) == [new EXCEPT ![f] = value]
    IN CASE r.op = "create" /\ defect.kind = "drops" -> With(Default[f])
         [] r.op = "create" /\ defect.kind = "truncates" /\ f \in Names \cup {"additionalneeds"}
              -> With(Cut(f, new[f]))
         [] r.op = "create" /\ defect.kind = "nulls" /\ new[f] = 0 -> With(None)
         [] r.op = "put" /\ defect.kind \in {"merges", "forgets"} -> With(old[f])
         [] r.op = "patch" /\ defect.kind = "erases" /\ f \notin DOMAIN r.data
              -> With(Default[f])
         [] r.op = "delete" /\ defect.kind \in {"keeps", "defers"} -> old
         [] OTHER -> new

Effect(r) == IF r.op = "create" THEN Append(server, Kept(r, r.data))
             ELSE IF Here(r) /\ ~Refused(r) THEN [server EXCEPT ![r.id] = Kept(r, @)] ELSE server

Answer(status, id, body) == [status |-> status, id |-> id, body |-> body]

(* Its answers; a defective one answers a PUT it forgets as if it had kept it. *)
Answers(r) ==
    CASE Refused(r) -> {Answer(403, 0, None)}
      [] r.op = "create" -> {Answer(200, Len(Effect(r)), Effect(r)[Len(Effect(r))])}
      [] r.op = "list" -> {Answer(200, 0, IF defect.kind = "hides" THEN {} ELSE
                                          {i \in DOMAIN server : server[i] # Gone})}
      [] r.op = "delete" /\ ~Refused(r) ->
            {Answer(IF Here(r) THEN 201 ELSE IF defect.kind = "crashes" THEN 500 ELSE 404, 0, None)}
      [] r.op = "get" /\ Here(r) ->
            {Answer(status, 0, server[r.id]) :
                status \in {200} \cup IF defect.kind = "defers" THEN {202} ELSE {}}
      [] r.op \in {"put", "patch"} /\ Here(r) /\ ~Refused(r) ->
            {Answer(200, 0, IF r.op = "put" /\ defect.kind = "forgets" THEN r.data
                            ELSE Kept(r, server[r.id]))}
      [] OTHER -> {Answer(IF r.op = "get" THEN 404 ELSE 405, 0, None)}

-----------------------------------------------------------------------------
RaiseForStatus(status) == status >= 400

(* Mutants of BookingExists: only 201 is a yes; an error is a no.              *)
BookingExistsCreated(status) ==
    IF status = 201 THEN "yes" ELSE IF status = 404 \/ status < 400 THEN "no" ELSE "raises"
BookingExistsQuietly(status) == IF status = 200 THEN "yes" ELSE "no"

BookingExists(status) == IF status = 200 THEN "yes"
                         ELSE IF status = 404 THEN "no"
                         ELSE IF RaiseForStatus(status) THEN "raises" ELSE "no"

(* The assertions after an answer that was parsed.                             *)
Holds(a) == /\ \A f \in Now.same : a.body[f] = wanted[f]
            /\ Now.call = "put" => a.body.firstname # original.firstname
            /\ Now.call = "list" => booking \in a.body

(* What a method of BookingClient, and the test that called it, make of an     *)
(* answer: "ok", or the exception it ends in.                                  *)
Judge(a) ==
    CASE Now.call = "repeat" -> IF a.status \in {404, 405} THEN "ok" ELSE "assertion"
      [] Now.call \in {"clean", "absent"} ->
            IF Now.call = "absent" /\ BookingExists(a.status) = "yes" THEN "assertion"
            ELSE IF BookingExists(a.status) = "raises" THEN "http_error" ELSE "ok"
      [] OTHER -> IF RaiseForStatus(a.status) THEN "http_error"
                  ELSE IF Now.call = "delete" THEN "ok"
                  ELSE IF Now.call # "list" /\ ~ResponseOK(a.body) THEN "schema"
                  ELSE IF Holds(a) THEN "ok" ELSE "assertion"

(* On to step n of the script, or to the end of the test.                      *)
GoOn(n) == /\ call' = None
           /\ IF n <= Len(Script[test]) THEN step' = n /\ UNCHANGED stage
                                        ELSE stage' = "over" /\ UNCHANGED step

(* An exception: on to the finally, which covers what follows the create.      *)
Fail(error, status) ==
    LET rest == {n \in step + 1 .. Len(Script[test]) : Script[test][n].call = "clean"}
    IN /\ causes' = causes \cup {[error |-> error, call |-> Now.call, status |-> status,
                                  attempt |-> attempt]}
       /\ GoOn(IF step > 1 /\ rest # {} THEN CHOOSE n \in rest : TRUE ELSE Len(Script[test]) + 1)
       /\ UNCHANGED booking

Conclude(a) ==
    IF Judge(a) # "ok" THEN Fail(Judge(a), a.status)
    ELSE /\ booking' = IF Now.call = "create" THEN a.id ELSE booking
         /\ GoOn(IF Now.call = "clean" /\ BookingExists(a.status) = "no" THEN step + 2
                                                                        ELSE step + 1)
         /\ UNCHANGED causes

(* Mutant of Retry: one attempt too many.                                      *)
RetryOnceMore == IF attempt <= settings.retry_max_attempts
                 THEN attempt' = attempt + 1 /\ UNCHANGED <<stage, step, call, booking, causes>>
                 ELSE Fail("exhausted", 0) /\ UNCHANGED attempt

(* A transport error, a timeout or a transient status: the same request again. *)
Retry == IF attempt < settings.retry_max_attempts
         THEN attempt' = attempt + 1 /\ UNCHANGED <<stage, step, call, booking, causes>>
         ELSE Fail("exhausted", 0) /\ UNCHANGED attempt

Still == UNCHANGED <<settings, test, original, wanted, token, defect>>

Answered == /\ call # None
            /\ \E a \in Answers(call) \cup {Answer(500, 0, None)} :
                  /\ Conclude(a)
                  /\ server' = IF a.status = 500 THEN server ELSE Effect(call)
            /\ UNCHANGED <<attempt, late>> /\ Still

(* Never sent, refused with a transient status, or lost on the way.            *)
RequestLost == call # None /\ Retry /\ UNCHANGED <<server, late>> /\ Still

AnswerLost == call # None /\ Retry /\ server' = Effect(call) /\ UNCHANGED late /\ Still

RequestLate == /\ call # None /\ call.op \notin {"get", "list"}
               /\ Cardinality(late) < LateBound
               /\ Retry
               /\ late' = late \cup {[step |-> step, attempt |-> attempt, call |-> call]}
               /\ UNCHANGED server /\ Still

Arrive == \E r \in late : /\ server' = Effect(r.call)
                          /\ late' = late \ {r}
                          /\ UNCHANGED <<stage, testVars>> /\ Still

(* The exceptions of the breaker, which are not retried, the one of Redis      *)
(* before or after the request; another exception of requests; and the SLO.    *)
Broken == /\ call # None
          /\ \/ Fail("circuit_open", 0) /\ UNCHANGED server
             \/ MakeCircuitBreaker(settings) = "redis" /\ Fail("redis_error", 0)
                /\ server' \in {server, Effect(call)}
             \/ Fail("other_error", 0) /\ server' \in {server, Effect(call)}
             \/ Fail("slo_breach", 0) /\ server' = Effect(call)
          /\ UNCHANGED <<attempt, late>> /\ Still

Over == stage \in {"exited", "errored", "security_error", "over"} /\ late = {}

Next == \/ Import \/ AuthToken \/ Expire \/ StartTest \/ Begin
        \/ Answered \/ RequestLost \/ AnswerLost \/ RequestLate \/ Arrive \/ Broken
        \/ (Over /\ UNCHANGED vars)

Spec == Init /\ [][Next]_vars

-----------------------------------------------------------------------------
Bookings == {server[i] : i \in {j \in DOMAIN server : server[j] # Gone}}

(* tenacity's bound, stop_after_attempt.                                       *)
AttemptsBounded ==
    stage \in {"testing", "over"} => attempt >= 1 /\ attempt <= settings.retry_max_attempts

(* The types, and no request is attempted more often than retry_max_attempts   *)
(* allows.                                                                     *)
CrudTypeOK ==
    /\ stage \in {"importing", "authenticating", "ready", "testing", "over",
                  "exited", "errored", "security_error"}
    /\ test \in DOMAIN Script /\ step \in 1 .. Len(Script[test])
    /\ call # None => stage = "testing"
    /\ AttemptsBounded
    /\ booking \in 0 .. Len(server)
    /\ token \in {"unset", "honoured", "refused"}
    /\ Cardinality(late) <= LateBound

(* What may end a test against a correct server: the network, the SLO and the  *)
(* breaker; a status of 500; a token that is not good, as given or any more;   *)
(* the 404 that answers the retry of a DELETE whose first answer was lost; and *)
(* Faker drawing the same first name twice.                                    *)
Excused(c) == \/ c.error \in {"exhausted", "slo_breach", "circuit_open", "redis_error",
                              "other_error"}
              \/ c.status = 500
              \/ c.status = 403 /\ c.call \in {"put", "patch", "delete", "repeat"}
                 /\ token = "refused"
              \/ c.call = "delete" /\ c.error = "http_error" /\ c.status = 404 /\ c.attempt > 1
              \/ c.call = "put" /\ c.error = "assertion"
                 /\ wanted.firstname = original.firstname

(* No test fails for another reason against a correct server, whatever was     *)
(* lost, repeated or late (README, "Zero False Positives").                    *)
FailureIsExplained == stage = "over" /\ defect.kind = "none" => \A c \in causes : Excused(c)

(* What each test is there to catch (its docstring), on the fields that it     *)
(* compares.                                                                   *)
Of(kinds, fields) == [kind : kinds, field : fields]

Guards == [t \in DOMAIN Script |->
              CASE t = "persists"    -> Of({"drops"}, Field)
                [] t = "listed"      -> Of({"hides"}, Field)
                [] t = "max_length"  -> Of({"truncates"}, Names)
                [] t = "zero_price"  -> Of({"nulls"}, {"totalprice"})
                [] t = "put"         -> Of({"merges"}, Field \ {"checkout", "additionalneeds"})
                                        \cup Of({"forgets"}, {"firstname", "totalprice"})
                [] t = "patch"       -> Of({"erases"}, Names \cup {"checkin"})
                [] t = "patch_needs" -> Of({"erases"}, {"firstname", "totalprice"})
                [] t = "delete"      -> Of({"keeps"}, Field)
                [] t = "repeat"      -> Of({"crashes"}, Field)
                [] t = "lifecycle"   -> Of({"merges", "forgets"}, {"firstname", "totalprice"})
                                        \cup Of({"keeps"}, Field)
                [] OTHER             -> {}]

(* The payloads of this run tell the defect from a correct server: the field   *)
(* had another value than the one that the defect leaves in its place.         *)
Shows == CASE defect.kind \in {"merges", "forgets"} ->
                    wanted[defect.field] # original[defect.field]
           [] defect.kind \in {"drops", "erases"} -> original[defect.field] # Default[defect.field]
           [] OTHER -> TRUE

(* A test that passes has ruled out every defect it guards that its payloads   *)
(* could show, although lost answers, retries and late requests come between   *)
(* its calls.                                                                  *)
PassedMeansHeld == stage = "over" /\ causes = {} /\ Shows => defect \notin Guards[test]

(* A test that disposes of its booking and passes leaves none: booking_exists  *)
(* does not take an error for an absence.  Two servers are excepted: one whose *)
(* GET answers 202, a "no" to booking_exists, and, where the DELETE is not     *)
(* followed by an assertion, one that keeps what it deletes.                   *)
Disposes == {"returns_id", "max_length", "zero_price", "unicode"}
AbsenceIsReal ==
    /\ stage = "over" /\ causes = {} /\ test \in Disposes \cup {"delete", "repeat", "lifecycle"}
    /\ defect.kind # "defers" /\ (defect.kind = "keeps" => test \notin Disposes)
    => server[booking] = Gone

(* TRACEABILITY, UNIQUENESS (data_factory.py): whatever is left on the server  *)
(* carries the tag of its payload and, unless a test overwrote it, the run id. *)
Traceable ==
    defect.kind = "none" => \A b \in Bookings :
        /\ b.lastname.tag \in {"create", "update"}
        /\ test # "patch_needs" => b.additionalneeds.tag = "run"

(* No payload of a test is refused by its own model, and what a correct server *)
(* makes of them, PATCHes merged in, still meets the contract of a payload.    *)
WireMeetsContract ==
    /\ call # None => CASE call.op \in {"create", "put"} -> PayloadOK(call.data)
                        [] call.op = "patch"             -> PartialOK(call.data)
                        [] OTHER                         -> TRUE
    /\ defect.kind = "none" => \A b \in Bookings : PayloadOK(b)

(* "Fail loud at startup, never fail silently mid-test" (settings.py): what    *)
(* the settings accept, set_auth_token accepts too.                            *)
TokenIsNeverRefused == stage # "security_error"

(* "SSL verification is ALWAYS enabled" (settings.py): a session that starts   *)
(* has a bundle that exists, or certifi's, also where the variable is blank,   *)
(* as in .env.example: requests takes an empty text for "do not verify".       *)
VerificationIsForced ==
    stage \notin {"importing", "exited"} => SslVerify(settings) \in {"file", "certifi"}
=============================================================================
