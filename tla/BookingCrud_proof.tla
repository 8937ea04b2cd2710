-------------------------- MODULE BookingCrud_proof --------------------------
(* What holds of BookingCrud for every environment, whatever Faker may draw,   *)
(* every number of attempts and every LateBound.  What is on the wire and at   *)
(* the server is sound (WireInv) and each request is about the                 *)
(* booking of its test (CrudInv); therefore no test gets past the call that    *)
(* sees its defect (CatchInv), and a correct server never gives a test a       *)
(* reason to fail (StoryInv).                                                  *)
EXTENDS BookingCrud, BookingContract_proof, FiniteSetTheorems

(* A payload of a test, labelled with the tag of its call.                     *)
Valid(p, tag) == p \in Booked /\ PayloadOK(p) /\ Labelled(p, tag, "run")

(* What a correct server may hold during the test.                             *)
Held == {b \in Booked : /\ PayloadOK(b) /\ b.lastname.tag \in {"create", "update"}
                        /\ test # "patch_needs" => b.additionalneeds.tag = "run"}

(* A request that a test may send.                                             *)
Sound(r) == /\ r.op = "create" => Valid(r.data, "create")
            /\ r.op = "put"    => Valid(r.data, "update")
            /\ r.op = "patch"  => r.data = Dump(Given)

(* The requests that may still arrive.                                         *)
LateCalls == {x.call : x \in late}

(* The inductive invariant of the contract and of the labels.                  *)
WireInv == /\ stage \in {"testing", "over"} => Valid(original, "create")
           /\ stage \notin {"testing", "over"} => call = None /\ late = {} /\ server = <<>>
           /\ call # None => Sound(call)
           /\ \A r \in LateCalls : Sound(r)
           /\ defect \in Defect
           /\ defect.kind = "none" => server \in Seq({Gone} \cup Held)

(* The settings leave no client without a valid URL or without an attempt.     *)
SettingsInv == /\ stage = "importing" => settings \in Environment
               /\ stage = "authenticating" => TokenAllowed(ClientUrl(settings))
               /\ stage \notin {"importing", "exited"} => settings.retry_max_attempts \in 1 .. 10
               /\ VerificationIsForced
               /\ stage # "security_error"
               /\ call # None => stage = "testing"
               /\ attempt \in Nat \ {0}
               /\ AttemptsBounded
               /\ stage \in {"importing", "authenticating", "ready"} => attempt = 1

-----------------------------------------------------------------------------
(* The two copies of the HTTPS rule agree: enforce_https accepts no URL that   *)
(* set_auth_token refuses, however the environment spells it.                  *)
THEOREM AcceptedUrlTakesToken ==
    ASSUME NEW env \in Env, Accepts(env)
    PROVE  TokenAllowed(ClientUrl(Load(env)))
<1>1. env.api_base_url \in Url
  BY DEF Env
<1>2. PICK url : url = StripTrailingSlash(env.api_base_url)
  OBVIOUS
<1>3. url.scheme = env.api_base_url.scheme /\ url.host = env.api_base_url.host
  BY <1>1, <1>2 DEF StripTrailingSlash, Url
<1>4. EnforceHttps(url)
  BY <1>2 DEF Accepts
<1>5. url.host \in {"local", "remote"} /\ url \in Url
  BY <1>1, <1>2 DEF StripTrailingSlash, Url
<1>6. Load(env).api_base_url = url
  BY <1>2 DEF Load, Env
<1>7. ClientUrl(Load(env)).host = url.host /\ ClientUrl(Load(env)).scheme = url.scheme
  BY <1>5, <1>6 DEF ClientUrl, StripTrailingSlash, Url
<1> QED BY <1>4, <1>5, <1>7 DEF TokenAllowed, EnforceHttps

(* A request given up, and one that arrives, among those on their way.         *)
LEMMA LateAdds ==
    ASSUME NEW s, NEW n, NEW c, late' = late \cup {[step |-> s, attempt |-> n, call |-> c]}
    PROVE  LateCalls' = LateCalls \cup {c}
<1>1. PICK x : x = [step |-> s, attempt |-> n, call |-> c]
  OBVIOUS
<1>2. x.call = c /\ late' = late \cup {x}
  BY <1>1
<1>3. LateCalls' = {y.call : y \in late'}
  BY DEF LateCalls
<1> QED BY <1>2, <1>3 DEF LateCalls

LEMMA LateArrives ==
    ASSUME Arrive
    PROVE  /\ \E r \in LateCalls : server' = Effect(r)
           /\ \E x \in late : late' = late \ {x}
           /\ LateCalls' \subseteq LateCalls
           /\ UNCHANGED <<stage, settings, test, step, call, attempt, original, wanted, booking,
                          causes, token, defect>>
BY DEF Arrive, LateCalls, Still, testVars

(* A call of the client leaves the session alone but for the stage.            *)
LEMMA CallSteps ==
    ASSUME Answered \/ RequestLost \/ AnswerLost \/ RequestLate \/ Broken
    PROVE  /\ call # None
           /\ \/ call' = None /\ stage' \in {stage, "over"}
              \/ call' = call /\ stage' = stage
           /\ \/ attempt' = attempt
              \/ attempt < settings.retry_max_attempts /\ attempt' = attempt + 1
           /\ server' \in {server, Effect(call)}
           /\ LateCalls' \in {LateCalls, LateCalls \cup {call}}
           /\ UNCHANGED <<settings, test, original, token, defect>>
<1>1. ASSUME NEW n, GoOn(n)
      PROVE  call' = None /\ stage' \in {stage, "over"}
  BY <1>1 DEF GoOn
<1>2. ASSUME NEW error, NEW status, Fail(error, status)
      PROVE  call' = None /\ stage' \in {stage, "over"}
  BY <1>2, <1>1 DEF Fail
<1>3. ASSUME NEW a, Conclude(a)
      PROVE  call' = None /\ stage' \in {stage, "over"}
  BY <1>3, <1>1, <1>2 DEF Conclude
<1>4. ASSUME Retry
      PROVE  /\ \/ call' = None /\ stage' \in {stage, "over"}
                \/ call' = call /\ stage' = stage
             /\ \/ attempt' = attempt
                \/ attempt < settings.retry_max_attempts /\ attempt' = attempt + 1
  <2>1. CASE attempt < settings.retry_max_attempts
    BY <1>4, <2>1 DEF Retry
  <2>2. CASE ~(attempt < settings.retry_max_attempts)
    BY <1>4, <1>2, <2>2 DEF Retry
  <2> QED BY <2>1, <2>2
<1>5. late' = late => LateCalls' = LateCalls
  BY DEF LateCalls
<1>6. CASE Answered
  BY <1>6, <1>3, <1>5 DEF Answered, Still
<1>7. CASE RequestLost
  BY <1>7, <1>4, <1>5 DEF RequestLost, Still
<1>8. CASE AnswerLost
  BY <1>8, <1>4, <1>5 DEF AnswerLost, Still
<1>9. CASE RequestLate
  <2>1. LateCalls' = LateCalls \cup {call}
    BY <1>9, LateAdds DEF RequestLate
  <2> QED BY <1>9, <1>4, <2>1 DEF RequestLate, Still
<1>10. CASE Broken
  BY <1>10, <1>2, <1>5 DEF Broken, Still
<1> QED BY <1>6, <1>7, <1>8, <1>9, <1>10

-----------------------------------------------------------------------------
LEMMA SettingsInit == Init => SettingsInv
<1>1. Init => stage = "importing" /\ settings \in Environment /\ attempt = 1 /\ call = None
  BY DEF Init
<1> QED BY <1>1 DEF SettingsInv, AttemptsBounded, VerificationIsForced

(* Only the import and the fixture decide anything; a test obeys the settings. *)
LEMMA SettingsStep == SettingsInv /\ [Next]_vars => SettingsInv'
<1> SUFFICES ASSUME SettingsInv, [Next]_vars PROVE SettingsInv'
  OBVIOUS
<1> USE DEF SettingsInv, AttemptsBounded, VerificationIsForced
<1>1. CASE Import
  <2>1. CASE Accepts(settings)
    <3>1. /\ stage = "importing" /\ stage' = "authenticating" /\ settings' = Load(settings)
          /\ attempt' = attempt /\ call' = call
      BY <1>1, <2>1 DEF Import, testVars
    <3>2. settings \in Env
      BY <3>1, CrudAssumption
    <3>3. TokenAllowed(ClientUrl(settings'))
      BY <2>1, <3>1, <3>2, AcceptedUrlTakesToken
    <3>4. settings'.retry_max_attempts \in 1 .. 10
      <4>1. settings.retry_max_attempts \in 1 .. 10
        BY <2>1 DEF Accepts, InRange
      <4>2. settings'.retry_max_attempts = settings.retry_max_attempts
        BY <3>1, <3>2 DEF Load, Env
      <4> QED BY <4>1, <4>2
    <3>5. SslVerify(settings') \in {"file", "certifi"}
      <4>1. settings'.ssl_ca_bundle = settings.ssl_ca_bundle
        BY <3>1, <3>2 DEF Load, Env
      <4>2. Truthy(settings.ssl_ca_bundle) => settings.ssl_ca_bundle = "file"
        BY <2>1 DEF Accepts, ValidateCaBundlePath
      <4> QED BY <4>1, <4>2 DEF SslVerify, Truthy
    <3> QED BY <3>1, <3>3, <3>4, <3>5
  <2>2. CASE ~Accepts(settings)
    <3>1. stage = "importing" /\ stage' = "exited" /\ attempt' = attempt /\ call' = call
      BY <1>1, <2>2 DEF Import, testVars
    <3> QED BY <3>1
  <2> QED BY <2>1, <2>2
<1>2. CASE AuthToken
  <2>1. /\ stage = "authenticating" /\ settings' = settings /\ attempt' = attempt
        /\ call' = call
    BY <1>2 DEF AuthToken, testVars
  <2>2. stage' \in {"ready", "errored"}
    BY <1>2, <2>1 DEF AuthToken, SettingsInv
  <2> QED BY <2>1, <2>2
<1>3. CASE StartTest
  <2>1. /\ stage = "ready" /\ stage' = "testing" /\ settings' = settings
        /\ attempt' = attempt /\ call' = call
    BY <1>3 DEF StartTest
  <2> QED BY <2>1
<1>4. CASE Begin
  <2>1. stage = "testing" /\ stage' = stage /\ settings' = settings
    BY <1>4 DEF Begin
  <2>2. attempt' = 1
    BY <1>4 DEF Begin, Calls
  <2> QED BY <2>1, <2>2
<1>5. CASE Answered \/ RequestLost \/ AnswerLost \/ RequestLate \/ Broken
  <2>1. /\ call # None /\ settings' = settings
        /\ \/ call' = None /\ stage' \in {stage, "over"}
           \/ call' = call /\ stage' = stage
        /\ \/ attempt' = attempt
           \/ attempt < settings.retry_max_attempts /\ attempt' = attempt + 1
    BY <1>5, CallSteps
  <2> QED BY <2>1
<1>6. CASE Arrive
  BY <1>6 DEF Arrive, Still, testVars
<1>7. CASE Expire \/ UNCHANGED vars
  BY <1>7 DEF Expire, vars, testVars
<1> QED BY <1>1, <1>2, <1>3, <1>4, <1>5, <1>6, <1>7 DEF Next

LEMMA SettingsInvariance == Spec => []SettingsInv
<1>1. Init => SettingsInv
  BY SettingsInit
<1>2. SettingsInv /\ [Next]_vars => SettingsInv'
  BY SettingsStep
<1> QED BY <1>1, <1>2, PTL DEF Spec

(* A session that starts never meets a SecurityError: what the settings let    *)
(* through, set_auth_token lets through.                                       *)
THEOREM TokenNeverRefused == Spec => []TokenIsNeverRefused
<1>1. SettingsInv => TokenIsNeverRefused
  BY DEF SettingsInv, TokenIsNeverRefused
<1> QED BY <1>1, SettingsInvariance, PTL

(* No session sends a request without verifying the server's certificate: a    *)
(* bundle is a file or it is certifi's.                                        *)
THEOREM AlwaysVerified == Spec => []VerificationIsForced
<1>1. SettingsInv => VerificationIsForced
  BY DEF SettingsInv
<1> QED BY <1>1, SettingsInvariance, PTL

(* No request is attempted more often than the settings allow, and they allow  *)
(* at least one attempt.                                                       *)
THEOREM AttemptsAreBounded == Spec => []AttemptsBounded
<1>1. SettingsInv => AttemptsBounded
  BY DEF SettingsInv
<1> QED BY <1>1, SettingsInvariance, PTL

-----------------------------------------------------------------------------
(* Every payload that realistic() draws for a call carries the call's tag.     *)
LEMMA DrawsAreValid ==
    ASSUME NEW tag \in Tag, NEW offset \in Int, NEW stay \in Nat \ {0},
           NEW p \in Draws(tag, offset, stay)
    PROVE  Valid(p, tag)
<1>1. PICK d \in Draw :
         p = Realistic(d.first, d.last, d.price, d.deposit, d.need, offset, stay, tag, "run")
  BY DEF Draws
<1>2. /\ d.first \in Name /\ d.last \in Name /\ d.deposit \in BOOLEAN
      /\ d.need \in {w \in Word : WordLength[w] <= 26} \cup {None}
  BY CrudAssumption DEF Need
<1>3. d.price \in Nat /\ PriceFits(d.price)
  <2>1. d.price \in Price
    BY CrudAssumption
  <2>2. ASSUME NEW price \in Price
        PROVE  price \in Nat /\ PriceFits(price)
    <3>1. price \in Int /\ price >= 50 /\ price <= 2500
      BY DEF Price
    <3>2. price \in Nat
      BY <3>1
    <3> QED BY <3>1, <3>2, SMT DEF PriceFits, MaxPrice
  <2> QED BY <2>1, <2>2
<1>4. "run" \in Tag
  BY CrudAssumption
<1> QED BY <1>1, <1>2, <1>3, <1>4, RealisticIsValid DEF Valid

(* So does every payload a test creates its booking with.                      *)
LEMMA FirstPayloadIsValid ==
    ASSUME NEW t, NEW p \in FirstPayload(t)
    PROVE  Valid(p, "create")
<1>1. "create" \in Tag /\ "run" \in Tag /\ \A d \in Draw : d.first \in Name /\ d.last \in Name
  BY CrudAssumption
<1>2. CASE t = "max_length"
  BY <1>1, <1>2, MaxLengthIsValid DEF FirstPayload, Valid
<1>3. CASE t = "zero_price"
  <2>1. PICK w \in Name : w = "Zero"
    BY ContractAssumption DEF Name
  <2>2. p = MinimumPrice("create", "run")
    BY <1>3 DEF FirstPayload
  <2> QED BY <1>1, <2>1, <2>2, VariantsAreValid DEF Valid
<1>4. CASE t = "unicode"
  <2>1. PICK d \in Draw : p = UnicodeNames(d.first, d.last, "create", "run")
    BY <1>4 DEF FirstPayload
  <2> QED BY <1>1, <2>1, VariantsAreValid DEF Valid
<1>5. CASE t = "lifecycle"
  <2>1. p \in Draws("create", 45, 4)
    BY <1>5 DEF FirstPayload
  <2>2. PICK offset \in Int, stay \in Nat \ {0} : offset = 45 /\ stay = 4
    OBVIOUS
  <2> QED BY <1>1, <2>1, <2>2, DrawsAreValid
<1>6. CASE t \notin {"max_length", "zero_price", "unicode", "lifecycle"}
  <2>1. p \in Draws("create", 30, 3)
    BY <1>6 DEF FirstPayload
  <2>2. PICK offset \in Int, stay \in Nat \ {0} : offset = 30 /\ stay = 3
    OBVIOUS
  <2> QED BY <1>1, <2>1, <2>2, DrawsAreValid
<1> QED BY <1>2, <1>3, <1>4, <1>5, <1>6

(* And every payload it updates the booking with.                              *)
LEMMA UpdatePayloadIsValid ==
    ASSUME NEW t, NEW p \in UpdatePayload(t)
    PROVE  Valid(p, "update")
<1>1. PICK offset \in Int, stay \in Nat \ {0} : p \in Draws("update", offset, stay)
  BY DEF UpdatePayload
<1>2. "update" \in Tag
  BY CrudAssumption
<1> QED BY <1>1, <1>2, DrawsAreValid

(* A PATCH of the suite leaves a booking of the contract within it, and its    *)
(* labels but for the needs that one test overwrites.                          *)
LEMMA PatchKeepsHeld ==
    ASSUME NEW b \in Held
    PROVE  Merge(b, Dump(Given)) \in Held
<1>1. PICK sent : sent = Dump(Given)
  OBVIOUS
<1>2. DOMAIN sent \subseteq DOMAIN Given /\ \A f \in DOMAIN sent : sent[f] = Given[f]
  BY <1>1 DEF Dump
<1>3. PICK m : m = Merge(b, sent)
  OBVIOUS
<1>4. /\ m = [f \in Field |-> m[f]] /\ DOMAIN m = Field
      /\ \A f \in Field : m[f] = IF f \in DOMAIN sent THEN sent[f] ELSE b[f]
  BY <1>3 DEF Merge
<1>5. /\ b \in Booked /\ PayloadOK(b) /\ b.lastname.tag \in {"create", "update"}
      /\ test # "patch_needs" => b.additionalneeds.tag = "run"
  BY DEF Held
<1>6. /\ m.firstname = b.firstname /\ m.lastname = b.lastname
      /\ m.checkin = b.checkin /\ m.checkout = b.checkout
  <2>1. DOMAIN Given \subseteq {"totalprice", "depositpaid", "additionalneeds"}
    BY DEF Given
  <2> QED BY <2>1, <1>2, <1>4 DEF Field
<1>7. /\ m.totalprice \in Int /\ PriceFits(m.totalprice) /\ m.depositpaid \in BOOLEAN
      /\ m.additionalneeds \in Texts /\ NeedsFit(m.additionalneeds)
      /\ test # "patch_needs" => m.additionalneeds.tag = "run"
  <2>1. /\ b.totalprice \in Int /\ PriceFits(b.totalprice) /\ b.depositpaid \in BOOLEAN
        /\ b.additionalneeds \in Texts /\ NeedsFit(b.additionalneeds)
    BY <1>5 DEF Booked, PayloadOK
  <2>2. CASE test = "patch_needs"
    <3>1. DOMAIN Given = {"additionalneeds"} /\ Given["additionalneeds"] = Filler(0)
      BY <2>2 DEF Given
    <3>2. Filler(0) \in Texts /\ NeedsFit(Filler(0))
      BY DEF Filler, Texts, NeedsFit
    <3>3. m.totalprice = b.totalprice /\ m.depositpaid = b.depositpaid
      BY <3>1, <1>2, <1>4 DEF Field
    <3>4. m.additionalneeds \in {b.additionalneeds, Filler(0)}
      BY <3>1, <1>2, <1>4 DEF Field
    <3> QED BY <2>1, <2>2, <3>2, <3>3, <3>4
  <2>3. CASE test # "patch_needs"
    <3>1. PICK price \in Nat : price = 9999
      OBVIOUS
    <3>2. PriceFits(price)
      BY <3>1, SMT DEF PriceFits, MaxPrice
    <3>3. /\ DOMAIN Given = {"totalprice", "depositpaid"}
          /\ Given["totalprice"] = price /\ Given["depositpaid"] = FALSE
      BY <2>3, <3>1 DEF Given
    <3>4. m.totalprice \in {b.totalprice, price} /\ m.additionalneeds = b.additionalneeds
      BY <3>3, <1>2, <1>4 DEF Field
    <3>5. m.depositpaid = b.depositpaid \/ m.depositpaid = FALSE
      BY <3>3, <1>2, <1>4 DEF Field
    <3>6. m.depositpaid \in BOOLEAN
      BY <2>1, <3>5
    <3>7. m.totalprice \in Int /\ PriceFits(m.totalprice)
      BY <2>1, <3>2, <3>4
    <3> QED BY <1>5, <2>1, <3>4, <3>6, <3>7
  <2> QED BY <2>2, <2>3
<1>8. m \in Booked
  <2>1. /\ b.firstname \in Texts /\ b.lastname \in Texts /\ b.checkin \in Int
        /\ b.checkout \in Int
    BY <1>5 DEF Booked
  <2> QED BY <2>1, <1>4, <1>6, <1>7 DEF Booked, Field
<1>9. PayloadOK(m)
  BY <1>5, <1>6, <1>7 DEF PayloadOK, DatesOK
<1> QED BY <1>1, <1>3, <1>5, <1>6, <1>7, <1>8, <1>9 DEF Held

(* The server does to its bookings what a sound request asks.                  *)
LEMMA EffectKeepsHeld ==
    ASSUME NEW r, Sound(r), defect.kind = "none", server \in Seq({Gone} \cup Held)
    PROVE  Effect(r) \in Seq({Gone} \cup Held)
<1>1. \A old : Kept(r, old) = Correct(r, old)
  BY DEF Kept
<1>2. ASSUME NEW p, NEW tag \in {"create", "update"}, Valid(p, tag)
      PROVE  p \in Held
  BY <1>2 DEF Valid, Labelled, Held
<1>3. CASE r.op = "create"
  <2>1. Kept(r, r.data) = r.data
    BY <1>1, <1>3 DEF Correct
  <2>2. r.data \in Held
    BY <1>2, <1>3 DEF Sound
  <2> QED BY <1>3, <2>1, <2>2 DEF Effect
<1>4. CASE r.op # "create" /\ Here(r) /\ ~Refused(r)
  <2>1. r.id \in DOMAIN server /\ server[r.id] \in Held
    BY <1>4 DEF Here
  <2>2. Kept(r, server[r.id]) \in {Gone} \cup Held
    <3>1. CASE r.op = "put"
      BY <3>1, <1>1, <1>2 DEF Correct, Sound
    <3>2. CASE r.op = "patch"
      BY <3>2, <1>1, <2>1, PatchKeepsHeld DEF Correct, Sound
    <3>3. CASE r.op \notin {"put", "patch"}
      BY <3>3, <1>1, <2>1 DEF Correct
    <3> QED BY <3>1, <3>2, <3>3
  <2>3. Effect(r) = [server EXCEPT ![r.id] = Kept(r, server[r.id])]
    BY <1>4 DEF Effect
  <2> QED BY <2>1, <2>2, <2>3
<1>5. CASE r.op # "create" /\ (~Here(r) \/ Refused(r))
  BY <1>5 DEF Effect
<1> QED BY <1>3, <1>4, <1>5

LEMMA WireInit == Init => WireInv
<1> SUFFICES ASSUME Init PROVE WireInv
  OBVIOUS
<1>1. /\ stage = "importing" /\ call = None /\ late = {} /\ server = <<>>
      /\ defect \in Defect
  BY DEF Init
<1> QED BY <1>1 DEF WireInv, LateCalls

LEMMA WireStep == WireInv /\ [Next]_vars => WireInv'
<1> SUFFICES ASSUME WireInv, [Next]_vars PROVE WireInv'
  OBVIOUS
<1>0. ASSUME UNCHANGED test
      PROVE  Held' = Held /\ \A r : Sound(r)' <=> Sound(r)
  BY <1>0 DEF Held, Sound, Given
<1>1. CASE Import \/ AuthToken
  <2>1. /\ stage \in {"importing", "authenticating"}
        /\ stage' \in {"authenticating", "exited", "ready", "errored", "security_error"}
        /\ UNCHANGED <<test, original, call, server, late, defect>>
    BY <1>1 DEF Import, AuthToken, testVars
  <2> QED BY <1>0, <2>1 DEF WireInv, LateCalls
<1>2. CASE StartTest
  <2>1. /\ stage = "ready" /\ stage' = "testing" /\ original' \in FirstPayload(test')
        /\ UNCHANGED <<call, server, late, defect>>
    BY <1>2 DEF StartTest
  <2>2. Valid(original', "create")
    BY <2>1, FirstPayloadIsValid
  <2>3. call = None /\ late = {} /\ server = <<>>
    BY <2>1 DEF WireInv
  <2> QED BY <2>1, <2>2, <2>3 DEF WireInv, Valid, LateCalls
<1>3. CASE Begin
  <2>1. /\ stage = "testing" /\ UNCHANGED <<stage, test, original, server, late, defect>>
    BY <1>3 DEF Begin
  <2>2. Sound(call')
    <3>1. ASSUME NEW op, NEW data
          PROVE  Request(op, data).op = op /\ Request(op, data).data = data
      BY DEF Request
    <3>2. CASE Now.call = "create"
      <4>1. call' = Request("create", original)
        BY <1>3, <3>2 DEF Begin, Calls
      <4> QED BY <4>1, <3>1, <2>1 DEF WireInv, Sound
    <3>3. CASE Now.call = "put"
      <4>1. PICK payload \in UpdatePayload(test) : call' = Request("put", payload)
        BY <1>3, <3>3 DEF Begin, Calls
      <4>2. Valid(payload, "update")
        BY UpdatePayloadIsValid
      <4> QED BY <4>1, <4>2, <3>1 DEF Sound
    <3>4. CASE Now.call = "patch"
      <4>1. call' = Request("patch", Dump(Given))
        BY <1>3, <3>4 DEF Begin, Calls
      <4> QED BY <4>1, <3>1 DEF Sound
    <3>5. CASE Now.call \notin {"create", "put", "patch"}
      <4>1. \E op \in {"list", "delete", "get"} : call' = Request(op, None)
        BY <1>3, <3>5 DEF Begin, Calls
      <4> QED BY <4>1, <3>1 DEF Sound
    <3> QED BY <3>2, <3>3, <3>4, <3>5
  <2>3. Sound(call)' <=> Sound(call')
    BY <2>1 DEF Sound, Given
  <2>4. LateCalls' = LateCalls
    BY <2>1 DEF LateCalls
  <2> QED BY <1>0, <2>1, <2>2, <2>3, <2>4 DEF WireInv, Valid
<1>4. CASE Answered \/ RequestLost \/ AnswerLost \/ RequestLate \/ Broken
  <2>1. /\ call # None /\ call' \in {None, call}
        /\ server' \in {server, Effect(call)}
        /\ LateCalls' \in {LateCalls, LateCalls \cup {call}}
        /\ stage' \in {stage, "over"} /\ UNCHANGED <<test, original, defect>>
    BY <1>4, CallSteps
  <2>2. stage \in {"testing", "over"} /\ Sound(call)
    BY <2>1 DEF WireInv
  <2>3. defect.kind = "none" => server' \in Seq({Gone} \cup Held)
    BY <2>1, <2>2, EffectKeepsHeld DEF WireInv
  <2>4. call' # None => Sound(call')
    BY <2>1, <2>2
  <2>5. \A r \in LateCalls' : Sound(r)
    BY <2>1, <2>2 DEF WireInv
  <2>6. Held' = Held /\ \A r : Sound(r)' <=> Sound(r)
    BY <2>1, <1>0
  <2>7. (call # None => Sound(call))' /\ (\A r \in LateCalls : Sound(r))'
    BY <2>1, <2>2, <2>4, <2>5 DEF Sound, Given
  <2> QED BY <2>1, <2>2, <2>3, <2>6, <2>7 DEF WireInv, Valid
<1>5. CASE Arrive
  <2>1. PICK r \in LateCalls : server' = Effect(r)
    BY <1>5, LateArrives
  <2>2. LateCalls' \subseteq LateCalls /\ UNCHANGED <<stage, test, original, call, defect>>
    BY <1>5, LateArrives
  <2>3. stage \in {"testing", "over"} /\ Sound(r)
    BY <2>1 DEF WireInv, LateCalls
  <2>4. defect.kind = "none" => server' \in Seq({Gone} \cup Held)
    BY <2>1, <2>3, EffectKeepsHeld DEF WireInv
  <2> QED BY <1>0, <2>1, <2>2, <2>3, <2>4 DEF WireInv, Valid
<1>6. CASE Expire \/ UNCHANGED vars
  <2>1. UNCHANGED <<stage, test, original, call, server, late, defect>>
    BY <1>6 DEF Expire, vars, testVars
  <2> QED BY <1>0, <2>1 DEF WireInv, Valid, LateCalls
<1> QED BY <1>1, <1>2, <1>3, <1>4, <1>5, <1>6 DEF Next

LEMMA WireInvariance == Spec => []WireInv
<1>1. Init => WireInv
  BY WireInit
<1>2. WireInv /\ [Next]_vars => WireInv'
  BY WireStep
<1> QED BY <1>1, <1>2, PTL DEF Spec

LEMMA BookingsAreHeld ==
    ASSUME WireInv, defect.kind = "none", NEW b \in Bookings
    PROVE  b \in Held
<1>1. server \in Seq({Gone} \cup Held)
  BY DEF WireInv
<1>2. PICK i \in DOMAIN server : b = server[i] /\ server[i] # Gone
  BY DEF Bookings
<1> QED BY <1>1, <1>2

(* Whatever Faker draws and whatever is lost, repeated or late, no payload is  *)
(* outside its model, and a correct server's bookings stay within the contract *)
(* through every PUT and PATCH.                                                *)
THEOREM WireAlwaysMeetsContract == Spec => []WireMeetsContract
<1>1. WireInv => WireMeetsContract
  <2> SUFFICES ASSUME WireInv PROVE WireMeetsContract
    OBVIOUS
  <2>1. call # None => Sound(call)
    BY DEF WireInv
  <2>2. CASE call # None /\ call.op = "patch"
    <3>1. call.data = Dump(Given)
      BY <2>1, <2>2 DEF Sound
    <3>2. PartialOK(Dump(Given))
      <4>1. PICK sent : sent = Dump(Given)
        OBVIOUS
      <4>2. DOMAIN sent \subseteq DOMAIN Given /\ \A f \in DOMAIN sent : sent[f] = Given[f]
        BY <4>1 DEF Dump
      <4>3. CASE test = "patch_needs"
        <5>1. DOMAIN Given = {"additionalneeds"} /\ Given["additionalneeds"] = Filler(0)
          BY <4>3 DEF Given
        <5>2. NeedsFit(Filler(0))
          BY DEF Filler, NeedsFit
        <5> QED BY <4>1, <4>2, <5>1, <5>2 DEF PartialOK, Field
      <4>4. CASE test # "patch_needs"
        <5>1. PICK price \in Nat : price = 9999
          OBVIOUS
        <5>2. PriceFits(price)
          BY <5>1, SMT DEF PriceFits, MaxPrice
        <5>3. DOMAIN Given = {"totalprice", "depositpaid"} /\ Given["totalprice"] = price
          BY <4>4, <5>1 DEF Given
        <5> QED BY <4>1, <4>2, <5>2, <5>3 DEF PartialOK, Field
      <4> QED BY <4>3, <4>4
    <3> QED BY <2>2, <3>1, <3>2, BookingsAreHeld DEF WireMeetsContract, Held
  <2>3. CASE ~(call # None /\ call.op = "patch")
    BY <2>1, <2>3, BookingsAreHeld DEF WireMeetsContract, Held, Sound, Valid
  <2> QED BY <2>2, <2>3
<1> QED BY <1>1, WireInvariance, PTL

(* Whatever is left on a correct server can be found by its tag and, but for   *)
(* the test that overwrites them, by the run id in its needs.                  *)
THEOREM AlwaysTraceable == Spec => []Traceable
<1>1. WireInv => Traceable
  BY BookingsAreHeld DEF Traceable, Held
<1> QED BY <1>1, WireInvariance, PTL

-----------------------------------------------------------------------------
(* The call of step n of a test.                                               *)
Op(t, n) == Script[t][n].call

Calling == {"create", "get", "list", "put", "patch", "delete", "clean", "absent", "repeat"}

(* What the scripts have in common: the order in which a test may make its     *)
(* calls.                                                                      *)
Ordered(t, len) ==
    \A n \in 1 .. len :
        /\ Op(t, n) \in Calling
        /\ Op(t, n) = "create" <=> n = 1
        /\ Op(t, n) = "clean" => n + 1 = len /\ Op(t, len) = "delete"
        /\ Op(t, n) \in {"absent", "repeat"} => n = len
        /\ \A k \in 1 .. len : k < n =>
              /\ Op(t, k) \notin {"list", "patch", "absent", "repeat"}
              /\ Op(t, k) = "put" => Op(t, n) \in {"get", "delete", "absent"}
              /\ Op(t, k) = "delete" <=> Op(t, n) \in {"absent", "repeat"} /\ k + 1 = n
              /\ Op(t, n) = "clean" /\ k > 1 => Op(t, k) = "get" /\ k + 1 = n

(* The scripts call by call.                                                   *)
LEMMA ScriptCalls ==
    ASSUME NEW t \in DOMAIN Script
    PROVE  \/ /\ t = "returns_id" /\ Len(Script[t]) = 3
              /\ Op(t, 1) = "create" /\ Op(t, 2) = "clean" /\ Op(t, 3) = "delete"
           \/ /\ t \in {"max_length", "zero_price", "unicode"} /\ Len(Script[t]) = 4
              /\ Op(t, 1) = "create" /\ Op(t, 2) = "get" /\ Op(t, 3) = "clean"
              /\ Op(t, 4) = "delete"
           \/ /\ t = "persists" /\ Len(Script[t]) = 2
              /\ Op(t, 1) = "create" /\ Op(t, 2) = "get"
           \/ /\ t = "listed" /\ Len(Script[t]) = 2
              /\ Op(t, 1) = "create" /\ Op(t, 2) = "list"
           \/ /\ t \in {"patch", "patch_needs"} /\ Len(Script[t]) = 2
              /\ Op(t, 1) = "create" /\ Op(t, 2) = "patch"
           \/ /\ t = "put" /\ Len(Script[t]) = 3
              /\ Op(t, 1) = "create" /\ Op(t, 2) = "put" /\ Op(t, 3) = "get"
           \/ /\ t = "delete" /\ Len(Script[t]) = 3
              /\ Op(t, 1) = "create" /\ Op(t, 2) = "delete" /\ Op(t, 3) = "absent"
           \/ /\ t = "repeat" /\ Len(Script[t]) = 3
              /\ Op(t, 1) = "create" /\ Op(t, 2) = "delete" /\ Op(t, 3) = "repeat"
           \/ /\ t = "lifecycle" /\ Len(Script[t]) = 6
              /\ Op(t, 1) = "create" /\ Op(t, 2) = "get" /\ Op(t, 3) = "put"
              /\ Op(t, 4) = "get" /\ Op(t, 5) = "delete" /\ Op(t, 6) = "absent"
<1>1. t \in {"returns_id", "persists", "listed", "max_length", "zero_price", "unicode", "put",
             "patch", "patch_needs", "delete", "repeat", "lifecycle"}
  BY DEF Script
<1>2. CASE t \in {"returns_id", "max_length", "zero_price", "unicode"}
  BY <1>2 DEF Script, Step, Op
<1>3. CASE t \in {"persists", "listed", "patch", "patch_needs"}
  BY <1>3 DEF Script, Step, Op
<1>4. CASE t \in {"put", "delete", "repeat", "lifecycle"}
  BY <1>4 DEF Script, Step, Op
<1> QED BY <1>1, <1>2, <1>3, <1>4

LEMMA ScriptsAreOrdered ==
    ASSUME NEW t \in DOMAIN Script
    PROVE  Len(Script[t]) \in 2 .. 6 /\ Ordered(t, Len(Script[t]))
<1> USE ScriptCalls DEF Ordered, Calling
<1>1. CASE Len(Script[t]) = 2
  BY <1>1
<1>2. CASE Len(Script[t]) = 3
  BY <1>2
<1>3. CASE Len(Script[t]) = 4
  BY <1>3
<1>4. CASE Len(Script[t]) = 6
  BY <1>4
<1> QED BY <1>1, <1>2, <1>3, <1>4

(* Only four tests update their booking, each in one way.                      *)
LEMMA UpdatesAre ==
    ASSUME NEW t \in DOMAIN Script, NEW n \in 1 .. Len(Script[t])
    PROVE  /\ Op(t, n) = "put" => t \in {"put", "lifecycle"}
           /\ Op(t, n) = "patch" => t \in {"patch", "patch_needs"}
<1>1. CASE Len(Script[t]) = 2
  BY <1>1, ScriptCalls
<1>2. CASE Len(Script[t]) = 3
  BY <1>2, ScriptCalls
<1>3. CASE Len(Script[t]) = 4
  BY <1>3, ScriptCalls
<1>4. CASE Len(Script[t]) = 6
  <2>1. t = "lifecycle"
    BY <1>4, ScriptCalls
  <2> QED BY <1>4, <2>1, ScriptCalls
<1> QED BY <1>1, <1>2, <1>3, <1>4, ScriptCalls

(* Only one test lists the bookings.                                           *)
LEMMA ListsOnly ==
    ASSUME NEW t \in DOMAIN Script, NEW n \in 1 .. Len(Script[t]), Op(t, n) = "list"
    PROVE  t = "listed" /\ n = 2
<1>1. CASE Len(Script[t]) = 2
  BY <1>1, ScriptCalls
<1>2. CASE Len(Script[t]) = 3
  BY <1>2, ScriptCalls
<1>3. CASE Len(Script[t]) = 4
  BY <1>3, ScriptCalls
<1>4. CASE Len(Script[t]) = 6
  BY <1>4, ScriptCalls
<1> QED BY <1>1, <1>2, <1>3, <1>4, ScriptCalls

(* The call that ends a test which disposes of its booking.                    *)
LEMMA LastCalls ==
    ASSUME NEW t \in DOMAIN Script
    PROVE  /\ t \in Disposes => Op(t, Len(Script[t])) = "delete"
           /\ t \in {"delete", "lifecycle"} => Op(t, Len(Script[t])) = "absent"
           /\ t = "repeat" => Op(t, Len(Script[t])) = "repeat"
BY ScriptCalls DEF Disposes

-----------------------------------------------------------------------------
(* What a server may hold at an index, whatever its defect.                    *)
Entry == {Gone} \cup [Field -> Value]

(* What a PATCH of the suite sends, and what it leaves of a booking.           *)
LEMMA GivenIs ==
    /\ test = "patch_needs" => /\ DOMAIN Given = {"additionalneeds"}
                               /\ Given["additionalneeds"] = Filler(0)
    /\ test # "patch_needs" => /\ DOMAIN Given = {"totalprice", "depositpaid"}
                               /\ Given["totalprice"] = 9999 /\ Given["depositpaid"] = FALSE
BY DEF Given

LEMMA PatchIsBooking ==
    ASSUME NEW b \in [Field -> Value]
    PROVE  Merge(b, Dump(Given)) \in [Field -> Value]
<1>1. PICK sent : sent = Dump(Given)
  OBVIOUS
<1>2. DOMAIN sent \subseteq DOMAIN Given /\ \A f \in DOMAIN sent : sent[f] = Given[f]
  BY <1>1 DEF Dump
<1>3. Filler(0) \in Value /\ 9999 \in Value /\ BOOLEAN \subseteq Value
  BY DEF Filler, Value, Texts
<1>4. \A f \in DOMAIN Given : Given[f] \in Value
  <2>1. CASE test = "patch_needs"
    BY <2>1, <1>3, GivenIs
  <2>2. CASE test # "patch_needs"
    <3>1. Given["depositpaid"] = FALSE
      BY <2>2, GivenIs
    <3>2. Given["depositpaid"] \in BOOLEAN
      BY <3>1
    <3>3. Given["totalprice"] \in Value /\ Given["depositpaid"] \in Value
      BY <2>2, <3>2, <1>3, GivenIs
    <3> QED BY <2>2, <3>3, GivenIs
  <2> QED BY <2>1, <2>2
<1>5. \A f \in Field : (IF f \in DOMAIN sent THEN sent[f] ELSE b[f]) \in Value
  BY <1>2, <1>4
<1> QED BY <1>1, <1>5 DEF Merge

(* A field of a booking replaced by a value of its kind.                       *)
LEMMA ReplacedIsBooking ==
    ASSUME NEW b \in [Field -> Value], NEW f, NEW v, f \in Field => v \in Value
    PROVE  [b EXCEPT ![f] = v] \in [Field -> Value]
<1>1. CASE f \in Field
  BY <1>1
<1>2. CASE f \notin Field
  BY <1>2
<1> QED BY <1>1, <1>2

(* What a server stores in place of a field is a value.                        *)
LEMMA DefaultIsValue ==
    ASSUME NEW f \in Field
    PROVE  Default[f] \in Value
<1>1. PICK v : v = Default[f]
  OBVIOUS
<1>2. v = CASE f \in Names             -> Filler(0)
            [] f = "depositpaid"     -> FALSE
            [] f = "checkout"        -> 400
            [] f = "additionalneeds" -> None
            [] OTHER                 -> 0
  BY <1>1 DEF Default
<1>3. Filler(0) \in Value /\ 400 \in Value /\ 0 \in Value /\ None \in Value
  BY DEF Filler, Value, Texts
<1>4. CASE f = "depositpaid"
  <2>1. v = FALSE
    BY <1>2, <1>4 DEF Names
  <2>2. v \in BOOLEAN
    BY <2>1
  <2> QED BY <1>1, <2>2 DEF Value
<1>5. CASE f # "depositpaid"
  BY <1>1, <1>2, <1>3, <1>5 DEF Names
<1> QED BY <1>4, <1>5

LEMMA CutIsText ==
    ASSUME NEW f, NEW t \in Texts
    PROVE  Cut(f, t) \in Texts
<1>1. PICK n \in Nat : Cut(f, t) = Slice(t, n)
  BY DEF Cut
<1> QED BY <1>1 DEF Slice, Texts

(* What a server's defect leaves of a booking is still a booking.              *)
LEMMA KeptIsEntry ==
    ASSUME NEW r, Sound(r), NEW old \in [Field -> Value], r.op = "create" => old = r.data
    PROVE  Kept(r, old) \in Entry
<1>1. Booked \subseteq [Field -> Value]
  BY DEF Booked, Field, Value
<1>2. PICK new : new = Correct(r, old)
  OBVIOUS
<1>3. PICK f : f = defect.field
  OBVIOUS
<1>4. CASE r.op = "put"
  <2>1. new \in [Field -> Value]
    BY <1>1, <1>2, <1>4 DEF Sound, Valid, Correct
  <2>2. Kept(r, old) \in {new, [new EXCEPT ![f] = old[f]]}
    BY <1>2, <1>3, <1>4 DEF Kept
  <2>3. [new EXCEPT ![f] = old[f]] \in [Field -> Value]
    BY <2>1, ReplacedIsBooking
  <2> QED BY <2>1, <2>2, <2>3 DEF Entry
<1>5. CASE r.op = "patch"
  <2>1. new \in [Field -> Value]
    BY <1>2, <1>5, PatchIsBooking DEF Sound, Correct
  <2>2. Kept(r, old) \in {new, [new EXCEPT ![f] = Default[f]]}
    BY <1>2, <1>3, <1>5 DEF Kept
  <2>3. [new EXCEPT ![f] = Default[f]] \in [Field -> Value]
    BY <2>1, ReplacedIsBooking, DefaultIsValue
  <2> QED BY <2>1, <2>2, <2>3 DEF Entry
<1>6. CASE r.op = "create"
  <2>1. new \in [Field -> Value] /\ new \in Booked
    BY <1>1, <1>2, <1>6 DEF Sound, Valid, Correct
  <2>2. \/ Kept(r, old) \in {new, [new EXCEPT ![f] = Default[f]], [new EXCEPT ![f] = None]}
        \/ /\ f \in Names \cup {"additionalneeds"}
           /\ Kept(r, old) = [new EXCEPT ![f] = Cut(f, new[f])]
    BY <1>2, <1>3, <1>6 DEF Kept
  <2>3. [new EXCEPT ![f] = Default[f]] \in [Field -> Value]
    BY <2>1, ReplacedIsBooking, DefaultIsValue
  <2>4. [new EXCEPT ![f] = None] \in [Field -> Value]
    <3>1. None \in Value
      BY DEF Value
    <3> QED BY <2>1, <3>1, ReplacedIsBooking
  <2>5. ASSUME f \in Names \cup {"additionalneeds"}
        PROVE  [new EXCEPT ![f] = Cut(f, new[f])] \in [Field -> Value]
    <3>1. new[f] \in Texts
      BY <2>1, <2>5 DEF Names, Booked
    <3>2. Cut(f, new[f]) \in Value
      BY <3>1, CutIsText DEF Value
    <3> QED BY <2>1, <3>2, ReplacedIsBooking
  <2> QED BY <2>1, <2>2, <2>3, <2>4, <2>5 DEF Entry
<1>7. CASE r.op = "delete"
  <2>1. Kept(r, old) \in {Gone, old}
    BY <1>7 DEF Kept, Correct
  <2> QED BY <2>1 DEF Entry
<1>8. CASE r.op \notin {"put", "patch", "create", "delete"}
  BY <1>8 DEF Kept, Correct, Entry
<1> QED BY <1>4, <1>5, <1>6, <1>7, <1>8

(* What a request does to the list of bookings: one more, or one that changes. *)
LEMMA EffectSteps ==
    ASSUME NEW r, Sound(r), server \in Seq(Entry)
    PROVE  /\ Effect(r) \in Seq(Entry)
           /\ Len(Effect(r)) = IF r.op = "create" THEN Len(server) + 1 ELSE Len(server)
           /\ \A i \in 1 .. Len(server) :
                 Effect(r)[i] = IF r.op # "create" /\ i = r.id /\ server[i] # Gone /\ ~Refused(r)
                                THEN Kept(r, server[i]) ELSE server[i]
           /\ r.op = "create" => Effect(r)[Len(server) + 1] = Kept(r, r.data)
<1>1. CASE r.op = "create"
  <2>1. r.data \in [Field -> Value]
    BY <1>1 DEF Sound, Valid, Booked, Field, Value
  <2>2. Kept(r, r.data) \in Entry
    BY <1>1, <2>1, KeptIsEntry
  <2>3. Effect(r) = Append(server, Kept(r, r.data))
    BY <1>1 DEF Effect
  <2> QED BY <1>1, <2>2, <2>3
<1>2. CASE r.op # "create" /\ Here(r) /\ ~Refused(r)
  <2>1. Effect(r) = [server EXCEPT ![r.id] = Kept(r, server[r.id])]
    BY <1>2 DEF Effect
  <2>2. r.id \in 1 .. Len(server) /\ server[r.id] # Gone
    BY <1>2 DEF Here
  <2>3. Kept(r, server[r.id]) \in Entry
    BY <1>2, <2>2, KeptIsEntry DEF Entry
  <2> QED BY <1>2, <2>1, <2>2, <2>3
<1>3. CASE r.op # "create" /\ (~Here(r) \/ Refused(r))
  BY <1>3 DEF Effect, Here
<1> QED BY <1>1, <1>2, <1>3

-----------------------------------------------------------------------------
(* What may come of an attempt: the request again, an exception, or an answer  *)
(* that the test accepts.                                                      *)
Mishaps == {"exhausted", "slo_breach", "circuit_open", "redis_error", "other_error"}

Replies == Answers(call) \cup {Answer(500, 0, None)}

Retried == /\ call' = call /\ attempt' = attempt + 1
           /\ UNCHANGED <<stage, step, booking, causes>>

Failed == \E error, status :
             /\ Fail(error, status) /\ attempt' = attempt
             /\ \/ error \in Mishaps
                \/ \E a \in Replies : error = Judge(a) /\ status = a.status /\ Judge(a) # "ok"

Passed(a) == /\ Judge(a) = "ok" /\ Conclude(a)
             /\ attempt' = attempt /\ late' = late /\ LateCalls' = LateCalls
             /\ server' = IF a.status = 500 THEN server ELSE Effect(call)

LEMMA CallOutcomes ==
    ASSUME Answered \/ RequestLost \/ AnswerLost \/ RequestLate \/ Broken
    PROVE  /\ call # None
           /\ Retried \/ Failed \/ \E a \in Replies : Passed(a)
           /\ server' \in {server, Effect(call)}
           /\ \/ late' = late /\ LateCalls' = LateCalls
              \/ /\ \E x : late' = late \cup {x}
                 /\ LateCalls' = LateCalls \cup {call} /\ Cardinality(late) < LateBound
                 /\ call.op \notin {"get", "list"} /\ (Retried \/ Failed)
           /\ UNCHANGED <<settings, test, original, wanted, token, defect>>
<1>0. late' = late => LateCalls' = LateCalls
  BY DEF LateCalls
<1>1. ASSUME Retry
      PROVE  Retried \/ Failed
  BY <1>1 DEF Retry, Retried, Failed, Mishaps
<1>2. CASE Answered
  <2>1. PICK a \in Replies : /\ Conclude(a)
                             /\ server' = IF a.status = 500 THEN server ELSE Effect(call)
    BY <1>2 DEF Answered, Replies
  <2>2. attempt' = attempt /\ late' = late /\ call # None
        /\ UNCHANGED <<settings, test, original, wanted, token, defect>>
    BY <1>2 DEF Answered, Still
  <2>3. CASE Judge(a) = "ok"
    <3>1. Passed(a)
      BY <1>0, <2>1, <2>2, <2>3 DEF Passed
    <3> QED BY <1>0, <2>1, <2>2, <3>1
  <2>4. CASE Judge(a) # "ok"
    <3>1. Fail(Judge(a), a.status)
      BY <2>1, <2>4 DEF Conclude
    <3>2. Failed
      BY <2>2, <2>4, <3>1 DEF Failed
    <3> QED BY <1>0, <2>1, <2>2, <3>2
  <2> QED BY <2>3, <2>4
<1>3. CASE RequestLost
  BY <1>0, <1>1, <1>3 DEF RequestLost, Still
<1>4. CASE AnswerLost
  BY <1>0, <1>1, <1>4 DEF AnswerLost, Still
<1>5. CASE RequestLate
  <2>1. LateCalls' = LateCalls \cup {call} /\ \E x : late' = late \cup {x}
    BY <1>5, LateAdds DEF RequestLate
  <2> QED BY <1>1, <1>5, <2>1 DEF RequestLate, Still
<1>6. CASE Broken
  <2>1. \E error \in Mishaps : Fail(error, 0)
    BY <1>6 DEF Broken, Mishaps
  <2>2. /\ attempt' = attempt /\ late' = late /\ call # None
        /\ server' \in {server, Effect(call)}
        /\ UNCHANGED <<settings, test, original, wanted, token, defect>>
    BY <1>6 DEF Broken, Still
  <2> QED BY <1>0, <2>1, <2>2 DEF Failed
<1> QED BY <1>2, <1>3, <1>4, <1>5, <1>6

(* A failure is recorded, and ends the test or leads from a GET to the finally. *)
LEMMA FailSteps ==
    ASSUME NEW error, NEW status, Fail(error, status), test \in DOMAIN Script,
           step \in 1 .. Len(Script[test])
    PROVE  /\ call' = None /\ booking' = booking
           /\ causes' = causes \cup {[error |-> error, call |-> Now.call, status |-> status,
                                      attempt |-> attempt]}
           /\ \/ stage' = "over" /\ step' = step
              \/ /\ stage' = stage /\ step' = step + 1 /\ step' \in 1 .. Len(Script[test])
                 /\ Op(test, step') = "clean" /\ Now.call = "get" /\ step > 1
<1>1. PICK len \in 2 .. 6 : len = Len(Script[test]) /\ Ordered(test, len)
  BY ScriptsAreOrdered
<1>2. PICK rest : rest = {n \in step + 1 .. len : Op(test, n) = "clean"}
  OBVIOUS
<1>3. CASE step > 1 /\ rest # {}
  <2>1. PICK n : n = CHOOSE m \in rest : TRUE
    OBVIOUS
  <2>2. n \in step + 1 .. len /\ Op(test, n) = "clean"
    BY <1>2, <1>3, <2>1
  <2>3. Op(test, step) = "get" /\ step + 1 = n
    BY <1>1, <1>3, <2>2 DEF Ordered
  <2>4. GoOn(n)
    BY <1>1, <1>2, <1>3, <2>1 DEF Fail, Op
  <2>5. call' = None /\ step' = n /\ stage' = stage
    BY <1>1, <2>2, <2>4 DEF GoOn
  <2> QED BY <1>1, <1>3, <2>2, <2>3, <2>5 DEF Fail, Op, Now
<1>4. CASE ~(step > 1 /\ rest # {})
  <2>1. GoOn(len + 1)
    BY <1>1, <1>2, <1>4 DEF Fail, Op
  <2>2. call' = None /\ stage' = "over" /\ step' = step
    BY <1>1, <2>1 DEF GoOn
  <2> QED BY <2>2 DEF Fail
<1> QED BY <1>3, <1>4

(* An answer that is accepted leads to the next call, if there is one.         *)
LEMMA PassSteps ==
    ASSUME NEW a, Judge(a) = "ok", Conclude(a), test \in DOMAIN Script,
           step \in 1 .. Len(Script[test])
    PROVE  /\ call' = None /\ causes' = causes
           /\ booking' = IF Now.call = "create" THEN a.id ELSE booking
           /\ \/ /\ stage' = "over" /\ step' = step
                 /\ \/ step = Len(Script[test])
                    \/ Now.call = "clean" /\ BookingExists(a.status) = "no"
              \/ /\ stage' = stage /\ step' = step + 1 /\ step' \in 1 .. Len(Script[test])
                 /\ ~(Now.call = "clean" /\ BookingExists(a.status) = "no")
<1>1. PICK len \in 2 .. 6 : len = Len(Script[test]) /\ Ordered(test, len)
  BY ScriptsAreOrdered
<1>2. CASE Now.call = "clean" /\ BookingExists(a.status) = "no"
  <2>1. step + 1 = len
    BY <1>1, <1>2 DEF Ordered, Op, Now
  <2>2. GoOn(step + 2)
    BY <1>2 DEF Conclude
  <2>3. call' = None /\ stage' = "over" /\ step' = step
    BY <1>1, <2>1, <2>2 DEF GoOn
  <2> QED BY <1>2, <2>3 DEF Conclude
<1>3. CASE ~(Now.call = "clean" /\ BookingExists(a.status) = "no")
  <2>1. GoOn(step + 1)
    BY <1>3 DEF Conclude
  <2>2. call' = None /\ IF step + 1 <= len THEN step' = step + 1 /\ stage' = stage
                                           ELSE stage' = "over" /\ step' = step
    BY <1>1, <2>1 DEF GoOn
  <2> QED BY <1>1, <1>3, <2>2 DEF Conclude
<1> QED BY <1>2, <1>3

(* What the server answers to each request.                                    *)
LEMMA RefusedAnswer ==
    ASSUME NEW r, NEW a \in Answers(r), Refused(r)
    PROVE  a.status = 403
<1>1. r.op \in {"put", "patch", "delete"}
  BY DEF Refused
<1>2. Answers(r) = {Answer(403, 0, None)}
  BY <1>1 DEF Answers
<1> QED BY <1>2 DEF Answer

LEMMA CreateAnswer ==
    ASSUME NEW r, NEW a \in Answers(r), r.op = "create"
    PROVE  a.status = 200 /\ a.id = Len(Effect(r)) /\ a.body = Effect(r)[Len(Effect(r))]
<1>1. ~Refused(r)
  BY DEF Refused
<1> QED BY <1>1 DEF Answers, Answer

LEMMA ListAnswer ==
    ASSUME NEW r, NEW a \in Answers(r), r.op = "list"
    PROVE  /\ a.status = 200
           /\ a.body = IF defect.kind = "hides" THEN {}
                       ELSE {i \in DOMAIN server : server[i] # Gone}
<1>1. ~Refused(r)
  BY DEF Refused
<1> QED BY <1>1 DEF Answers, Answer

LEMMA DeleteAnswer ==
    ASSUME NEW r, NEW a \in Answers(r), r.op = "delete"
    PROVE  a.status = IF Refused(r) THEN 403
                      ELSE IF Here(r) THEN 201 ELSE IF defect.kind = "crashes" THEN 500 ELSE 404
<1>1. CASE Refused(r)
  BY <1>1, RefusedAnswer
<1>2. CASE ~Refused(r)
  BY <1>2 DEF Answers, Answer
<1> QED BY <1>1, <1>2

LEMMA GetAnswer ==
    ASSUME NEW r, NEW a \in Answers(r), r.op = "get"
    PROVE  /\ Here(r) => /\ a.status \in {200, 202} /\ a.body = server[r.id]
                         /\ defect.kind # "defers" => a.status = 200
           /\ ~Here(r) => a.status = 404
<1>0. ~Refused(r)
  BY DEF Refused
<1>1. CASE Here(r)
  <2>1. Answers(r) = {Answer(s, 0, server[r.id]) :
                         s \in {200} \cup IF defect.kind = "defers" THEN {202} ELSE {}}
    BY <1>0, <1>1 DEF Answers
  <2> QED BY <1>1, <2>1 DEF Answer
<1>2. CASE ~Here(r)
  BY <1>0, <1>2 DEF Answers, Answer
<1> QED BY <1>1, <1>2

LEMMA UpdateAnswer ==
    ASSUME NEW r, NEW a \in Answers(r), r.op \in {"put", "patch"}, ~Refused(r)
    PROVE  /\ Here(r) => /\ a.status = 200
                         /\ a.body = IF r.op = "put" /\ defect.kind = "forgets" THEN r.data
                                     ELSE Kept(r, server[r.id])
           /\ ~Here(r) => a.status = 405
<1>1. CASE r.op = "put"
  BY <1>1 DEF Answers, Answer
<1>2. CASE r.op = "patch"
  BY <1>2 DEF Answers, Answer
<1> QED BY <1>1, <1>2

(* A 500 is accepted by no test, and neither is the 403 of a token that is not *)
(* good.                                                                       *)
LEMMA AcceptedAnswers ==
    ASSUME NEW a \in Replies, Judge(a) = "ok"
    PROVE  a \in Answers(call) /\ a.status # 500 /\ ~Refused(call)
<1>1. a.status \notin {403, 500}
  BY DEF Judge, BookingExists, RaiseForStatus
<1>2. a \in Answers(call)
  BY <1>1 DEF Replies, Answer
<1> QED BY <1>1, <1>2, RefusedAnswer

-----------------------------------------------------------------------------
(* The request of a call of the script.                                        *)
Method(c) == CASE c \in {"clean", "absent"} -> "get"
               [] c = "repeat"              -> "delete"
               [] OTHER                     -> c

Asks(r) == /\ r.op = Method(Now.call) /\ r.id = booking
           /\ r.op = "create" => r.data = original
           /\ r.op = "put"    => r.data = wanted

(* The inductive invariant of the types, and of what ties a request under way  *)
(* or given up to the booking of its test.                                     *)
CrudInv ==
    /\ stage \in {"importing", "authenticating", "ready", "testing", "over",
                  "exited", "errored", "security_error"}
    /\ test \in DOMAIN Script /\ step \in 1 .. Len(Script[test])
    /\ token \in {"unset", "honoured", "refused"}
    /\ server \in Seq(Entry)
    /\ booking \in 0 .. Len(server) /\ (step > 1 => booking >= 1)
    /\ IsFiniteSet(late) /\ Cardinality(late) <= LateBound
    /\ stage \notin {"testing", "over"} => step = 1 /\ booking = 0 /\ causes = {}
    /\ stage \in {"testing", "over"} => original \in FirstPayload(test)
    /\ stage = "over" /\ causes = {} => step > 1
    /\ call # None => Asks(call)
    /\ \A r \in LateCalls : /\ r.op \in {"create", "put", "patch", "delete"}
                            /\ r.op # "create" => r.id = booking /\ step > 1

LEMMA CrudInit == Init => CrudInv
<1> SUFFICES ASSUME Init PROVE CrudInv
  OBVIOUS
<1>1. /\ stage = "importing" /\ test = "returns_id" /\ step = 1 /\ call = None
      /\ booking = 0 /\ causes = {} /\ server = <<>> /\ late = {} /\ token = "unset"
  BY DEF Init
<1>2. test \in DOMAIN Script
  BY <1>1 DEF Script
<1>3. step \in 1 .. Len(Script[test])
  BY <1>1, <1>2, ScriptsAreOrdered
<1>4. IsFiniteSet(late) /\ Cardinality(late) <= LateBound
  BY <1>1, FS_EmptySet, CrudAssumption
<1>5. server \in Seq(Entry) /\ Len(server) = 0
  BY <1>1
<1> QED BY <1>1, <1>2, <1>3, <1>4, <1>5 DEF CrudInv, LateCalls

LEMMA CrudStep == WireInv /\ SettingsInv /\ CrudInv /\ [Next]_vars => CrudInv'
<1> SUFFICES ASSUME WireInv, SettingsInv, CrudInv, [Next]_vars PROVE CrudInv'
  OBVIOUS
<1>0. PICK len \in 2 .. 6 : len = Len(Script[test]) /\ Ordered(test, len)
  BY ScriptsAreOrdered DEF CrudInv
<1>1. CASE Import \/ AuthToken
  <2>1. /\ stage \in {"importing", "authenticating"}
        /\ stage' \in {"authenticating", "exited", "ready", "errored", "security_error"}
        /\ UNCHANGED <<test, step, call, original, wanted, booking, causes, server, late>>
        /\ token' \in {token, "honoured", "refused"}
    BY <1>1 DEF Import, AuthToken, testVars
  <2>2. call = None /\ late = {}
    BY <2>1 DEF WireInv
  <2> QED BY <2>1, <2>2 DEF CrudInv, LateCalls
<1>2. CASE StartTest
  <2>1. /\ stage = "ready" /\ stage' = "testing" /\ original' \in FirstPayload(test')
        /\ test' \in DOMAIN Script
        /\ UNCHANGED <<step, call, booking, causes, token, server, late>>
    BY <1>2 DEF StartTest
  <2>2. call = None /\ late = {} /\ step = 1
    BY <2>1 DEF WireInv, CrudInv
  <2>3. step' \in 1 .. Len(Script[test'])
    BY <2>1, <2>2, ScriptsAreOrdered
  <2> QED BY <2>1, <2>2, <2>3 DEF CrudInv, LateCalls
<1>3. CASE Begin
  <2>1. /\ stage = "testing"
        /\ UNCHANGED <<stage, test, step, original, booking, causes, token, server, late>>
    BY <1>3 DEF Begin
  <2>2. PICK c : c = Now.call
    OBVIOUS
  <2>3. c \in Calling
    BY <1>0, <2>2 DEF Ordered, CrudInv, Op, Now
  <2>4. \E data : call' = Request(Method(c), data)
                  /\ (c = "create" => data = original) /\ (c = "put" => data = wanted')
    BY <1>3, <2>2, <2>3 DEF Begin, Calls, Method, Calling
  <2>5. Asks(call)'
    <3>1. /\ call'.op = Method(c) /\ call'.id = booking
          /\ c = "create" => call'.data = original
          /\ c = "put" => call'.data = wanted'
      BY <2>4 DEF Request
    <3>2. (Method(c) = "create" => c = "create") /\ (Method(c) = "put" => c = "put")
      BY <2>3 DEF Method, Calling
    <3> QED BY <2>1, <2>2, <3>1, <3>2 DEF Asks, Now
  <2> QED BY <2>1, <2>5 DEF CrudInv, LateCalls
<1>4. CASE Answered \/ RequestLost \/ AnswerLost \/ RequestLate \/ Broken
  <2>1. /\ call # None /\ server' \in {server, Effect(call)}
        /\ UNCHANGED <<settings, test, original, wanted, token, defect>>
    BY <1>4, CallOutcomes
  <2>2. stage = "testing" /\ Sound(call) /\ Asks(call)
    BY <2>1 DEF SettingsInv, WireInv, CrudInv
  <2>3. server' \in Seq(Entry) /\ Len(server') >= Len(server)
    BY <2>1, <2>2, EffectSteps DEF CrudInv
  <2>4. call.op \in {"create", "get", "list", "put", "patch", "delete"}
        /\ (call.op = "create" <=> step = 1) /\ (Now.call = "create" <=> step = 1)
    <3>1. Now.call \in Calling /\ (Now.call = "create" <=> step = 1)
      BY <1>0 DEF Ordered, CrudInv, Op, Now
    <3> QED BY <2>2, <3>1 DEF Asks, Method, Calling
  <2>5. IsFiniteSet(late') /\ Cardinality(late') <= LateBound
    <3>1. IsFiniteSet(late) /\ Cardinality(late) <= LateBound
      BY DEF CrudInv
    <3>2. CASE late' = late
      BY <3>1, <3>2
    <3>3. CASE (\E x : late' = late \cup {x}) /\ Cardinality(late) < LateBound
      <4>1. /\ IsFiniteSet(late')
            /\ Cardinality(late') \in {Cardinality(late), Cardinality(late) + 1}
        BY <3>1, <3>3, FS_AddElement
      <4>2. Cardinality(late) \in Nat
        BY <3>1, FS_CardinalityType
      <4> QED BY <3>3, <4>1, <4>2, CrudAssumption
    <3> QED BY <1>4, <3>2, <3>3, CallOutcomes
  <2>6. \A r \in LateCalls' : /\ r.op \in {"create", "put", "patch", "delete"}
                              /\ r.op # "create" => r.id = booking /\ step > 1
    <3>1. CASE LateCalls' = LateCalls
      BY <3>1 DEF CrudInv
    <3>2. CASE LateCalls' = LateCalls \cup {call} /\ call.op \notin {"get", "list"}
      <4>1. call.op \in {"create", "put", "patch", "delete"}
            /\ (call.op # "create" => call.id = booking /\ step > 1)
        BY <2>2, <2>4, <3>2 DEF Asks, CrudInv
      <4> QED BY <3>2, <4>1 DEF CrudInv
    <3> QED BY <1>4, <3>1, <3>2, CallOutcomes
  <2>7. CASE Retried
    <3>1. call' = call /\ UNCHANGED <<stage, step, booking, causes>>
      BY <2>7 DEF Retried
    <3>2. Asks(call)'
      BY <2>1, <2>2, <3>1 DEF Asks, Now
    <3> QED BY <2>1, <2>2, <2>3, <2>5, <2>6, <3>1, <3>2 DEF CrudInv
  <2>8. CASE Failed
    <3>1. /\ call' = None /\ booking' = booking /\ causes' # {}
          /\ \/ stage' = "over" /\ step' = step
             \/ /\ stage' = stage /\ step' = step + 1 /\ step' \in 1 .. Len(Script[test])
                /\ step > 1
      BY <2>8, FailSteps DEF Failed, CrudInv
    <3> QED BY <2>1, <2>2, <2>3, <2>5, <2>6, <3>1 DEF CrudInv
  <2>9. CASE \E a \in Replies : Passed(a)
    <3>1. PICK a \in Replies : Passed(a)
      BY <2>9
    <3>2. /\ call' = None /\ causes' = causes /\ LateCalls' = LateCalls
          /\ booking' = IF Now.call = "create" THEN a.id ELSE booking
          /\ \/ /\ stage' = "over" /\ step' = step
                /\ step = Len(Script[test]) \/ Now.call = "clean"
             \/ /\ stage' = stage /\ step' = step + 1 /\ step' \in 1 .. Len(Script[test])
      BY <3>1, PassSteps DEF Passed, CrudInv
    <3>3. Now.call = "create" => a.id = Len(server') /\ Len(server') >= 1
      <4> SUFFICES ASSUME Now.call = "create"
                   PROVE  a.id = Len(server') /\ Len(server') >= 1
        OBVIOUS
      <4>1. a \in Answers(call) /\ a.status # 500
        BY <3>1, AcceptedAnswers DEF Passed
      <4>2. a.id = Len(Effect(call)) /\ a.status = 200
        BY <4>1, <2>4, CreateAnswer
      <4>3. Len(Effect(call)) >= 1
        BY <2>2, <2>4, EffectSteps DEF CrudInv
      <4> QED BY <4>2, <4>3, <3>1 DEF Passed
    <3>4. booking' \in 0 .. Len(server') /\ booking' >= 1
      BY <2>3, <2>4, <3>2, <3>3 DEF CrudInv
    <3>5. stage' = "over" => step' > 1
      <4>1. step \in 1 .. len /\ len >= 2
        BY <1>0 DEF CrudInv
      <4>2. Now.call = "clean" => step # 1
        BY <2>4
      <4> QED BY <1>0, <3>2, <4>1, <4>2
    <3>6. step' \in 1 .. Len(Script[test])
      BY <3>2 DEF CrudInv
    <3>7. Now.call = "create" => \A r \in LateCalls : r.op = "create"
      BY <2>4 DEF CrudInv
    <3>8. \A r \in LateCalls' : /\ r.op \in {"create", "put", "patch", "delete"}
                                /\ r.op # "create" => r.id = booking' /\ step' > 1
      BY <2>4, <2>6, <3>2, <3>7 DEF CrudInv
    <3> QED BY <2>1, <2>2, <2>3, <2>5, <3>2, <3>4, <3>5, <3>6, <3>8 DEF CrudInv
  <2> QED BY <1>4, <2>7, <2>8, <2>9, CallOutcomes
<1>5. CASE Arrive
  <2>1. PICK r \in LateCalls, x \in late : server' = Effect(r) /\ late' = late \ {x}
    BY <1>5, LateArrives
  <2>2. /\ UNCHANGED <<stage, test, step, call, original, wanted, booking, causes, token, defect>>
        /\ LateCalls' \subseteq LateCalls
    BY <1>5, LateArrives
  <2>3. Sound(r)
    BY <2>1 DEF WireInv
  <2>4. server' \in Seq(Entry) /\ Len(server') >= Len(server)
    BY <2>1, <2>3, EffectSteps DEF CrudInv
  <2>5. IsFiniteSet(late') /\ Cardinality(late') <= LateBound
    <3>1. IsFiniteSet(late) /\ Cardinality(late) <= LateBound
      BY DEF CrudInv
    <3>2. IsFiniteSet(late') /\ Cardinality(late') = Cardinality(late) - 1
      BY <2>1, <3>1, FS_RemoveElement
    <3>3. Cardinality(late) \in Nat
      BY <3>1, FS_CardinalityType
    <3> QED BY <3>1, <3>2, <3>3, CrudAssumption
  <2> QED BY <2>1, <2>2, <2>4, <2>5 DEF CrudInv, Asks, Now
<1>6. CASE Expire \/ UNCHANGED vars
  <2>1. /\ UNCHANGED <<stage, test, step, call, original, wanted, booking, causes, server, late>>
        /\ token' \in {token, "refused"}
    BY <1>6 DEF Expire, vars, testVars
  <2>2. LateCalls' = LateCalls
    BY <2>1 DEF LateCalls
  <2> QED BY <2>1, <2>2 DEF CrudInv, Asks, Now
<1> QED BY <1>1, <1>2, <1>3, <1>4, <1>5, <1>6 DEF Next

LEMMA CrudInvariance == Spec => []CrudInv
<1>1. Init => CrudInv
  BY CrudInit
<1>2. WireInv /\ SettingsInv /\ CrudInv /\ [Next]_vars => CrudInv'
  BY CrudStep
<1> QED BY <1>1, <1>2, WireInvariance, SettingsInvariance, PTL DEF Spec

(* The types hold whatever the network and the server do, a request is         *)
(* attempted at most as often as the settings allow, and no more than          *)
(* LateBound requests that a client gave up are on their way.                  *)
THEOREM CrudTypeAlwaysOK == Spec => []CrudTypeOK
<1>1. SettingsInv /\ CrudInv => CrudTypeOK
  BY DEF SettingsInv, CrudInv, CrudTypeOK
<1> QED BY <1>1, CrudInvariance, SettingsInvariance, PTL

-----------------------------------------------------------------------------
(* A booking that is gone stays gone, whatever arrives.                        *)
LEMMA GoneIsForever ==
    ASSUME NEW r, Sound(r), CrudInv, step > 1, server[booking] = Gone
    PROVE  Effect(r)[booking] = Gone
<1>1. booking \in 1 .. Len(server) /\ server \in Seq(Entry)
  BY DEF CrudInv
<1> QED BY <1>1, EffectSteps

LEMMA AbsenceStep ==
    WireInv /\ SettingsInv /\ CrudInv /\ AbsenceIsReal /\ [Next]_vars => AbsenceIsReal'
<1> SUFFICES ASSUME WireInv, SettingsInv, CrudInv, AbsenceIsReal, [Next]_vars,
                    (/\ stage = "over" /\ causes = {}
                     /\ test \in Disposes \cup {"delete", "repeat", "lifecycle"}
                     /\ defect.kind # "defers" /\ (defect.kind = "keeps" => test \notin Disposes))'
             PROVE  server'[booking'] = Gone
  BY DEF AbsenceIsReal
<1>1. CASE Import \/ AuthToken \/ Expire \/ StartTest \/ Begin
  BY <1>1 DEF Import, AuthToken, Expire, StartTest, Begin
<1>2. CASE Answered \/ RequestLost \/ AnswerLost \/ RequestLate \/ Broken
  <2>1. call # None /\ UNCHANGED <<test, defect>>
    BY <1>2, CallOutcomes
  <2>2. stage = "testing" /\ Asks(call) /\ Sound(call)
    BY <2>1 DEF SettingsInv, CrudInv, WireInv
  <2>3. ~Retried /\ ~Failed
    <3>1. ~Retried
      BY <2>2 DEF Retried
    <3>2. Failed => causes' # {}
      BY FailSteps DEF Failed, CrudInv
    <3> QED BY <3>1, <3>2
  <2>4. PICK a \in Replies : Passed(a)
    BY <1>2, <2>3, CallOutcomes
  <2>5. /\ a \in Answers(call) /\ ~Refused(call) /\ server' = Effect(call)
        /\ booking' = IF Now.call = "create" THEN a.id ELSE booking
        /\ \/ step = Len(Script[test])
           \/ Now.call = "clean" /\ BookingExists(a.status) = "no"
    BY <2>2, <2>4, AcceptedAnswers, PassSteps DEF Passed, CrudInv
  <2>6. /\ \/ Now.call \in {"clean", "absent", "repeat"}
           \/ Now.call = "delete" /\ defect.kind # "keeps"
        /\ Now.call = "clean" => BookingExists(a.status) = "no"
    <3>1. CASE Now.call = "clean" /\ BookingExists(a.status) = "no"
      BY <3>1
    <3>2. CASE step = Len(Script[test])
      BY <2>1, <3>2, LastCalls DEF CrudInv, Op, Now, Disposes
    <3> QED BY <2>5, <3>1, <3>2
  <2>7. step > 1 /\ booking \in DOMAIN server /\ server \in Seq(Entry)
    <3>1. step # 1
      BY <2>6, ScriptsAreOrdered DEF CrudInv, Ordered, Op, Now
    <3> QED BY <3>1 DEF CrudInv
  <2>8. CASE Here(call)
    <3>1. Now.call = "delete" /\ defect.kind # "keeps"
      <4>1. CASE Now.call \in {"clean", "absent"}
        <5>1. call.op = "get"
          BY <2>2, <4>1 DEF Asks, Method
        <5>2. a.status = 200
          BY <2>1, <2>5, <2>8, <5>1, GetAnswer
        <5> QED BY <2>4, <2>6, <4>1, <5>2 DEF Passed, Judge, BookingExists
      <4>2. CASE Now.call = "repeat"
        <5>1. call.op = "delete"
          BY <2>2, <4>2 DEF Asks, Method
        <5>2. a.status = 201
          BY <2>5, <2>8, <5>1, DeleteAnswer
        <5> QED BY <2>4, <4>2, <5>2 DEF Passed, Judge
      <4> QED BY <2>6, <4>1, <4>2
    <3>2. call.op = "delete" /\ call.id = booking /\ server[booking] # Gone
      BY <2>2, <2>8, <3>1 DEF Asks, Method, Here
    <3>3. Effect(call)[booking] = Kept(call, server[booking])
      BY <2>2, <2>5, <2>7, <3>2, EffectSteps DEF CrudInv
    <3>4. Kept(call, server[booking]) = Gone
      BY <2>1, <3>1, <3>2 DEF Kept, Correct
    <3> QED BY <2>5, <3>1, <3>3, <3>4
  <2>9. CASE ~Here(call)
    <3>1. server[booking] = Gone
      BY <2>2, <2>7, <2>9 DEF Asks, Here
    <3> QED BY <2>2, <2>5, <2>6, <2>7, <3>1, GoneIsForever
  <2> QED BY <2>8, <2>9
<1>3. CASE Arrive
  <2>1. PICK r \in LateCalls : server' = Effect(r)
    BY <1>3, LateArrives
  <2>2. UNCHANGED <<stage, test, step, booking, causes, defect>>
    BY <1>3, LateArrives
  <2>3. Sound(r) /\ step > 1 /\ server[booking] = Gone
    BY <2>1, <2>2 DEF WireInv, CrudInv, AbsenceIsReal
  <2> QED BY <2>1, <2>2, <2>3, GoneIsForever
<1>4. CASE UNCHANGED vars
  BY <1>4 DEF vars, testVars, AbsenceIsReal
<1> QED BY <1>1, <1>2, <1>3, <1>4 DEF Next

(* A test that disposes of its booking and passes leaves none, for every       *)
(* number of attempts and of late requests: no lost answer, no error of the    *)
(* server and no request that arrives late makes booking_exists take a booking *)
(* for absent, or brings it back.                                              *)
THEOREM AbsenceAlwaysReal == Spec => []AbsenceIsReal
<1>1. Init => AbsenceIsReal
  BY DEF Init, AbsenceIsReal
<1>2. WireInv /\ SettingsInv /\ CrudInv /\ AbsenceIsReal /\ [Next]_vars => AbsenceIsReal'
  BY AbsenceStep
<1> QED BY <1>1, <1>2, WireInvariance, SettingsInvariance, CrudInvariance, PTL DEF Spec

-----------------------------------------------------------------------------
(* The step at which a test catches a defect it is there for.                  *)
Caught(t, d) == CASE t = "zero_price"            -> 1
                  [] t \in {"delete", "repeat"}  -> 3
                  [] t = "put"                   -> IF d.kind = "merges" THEN 2 ELSE 3
                  [] t = "lifecycle"             -> IF d.kind = "merges" THEN 3
                                                    ELSE IF d.kind = "forgets" THEN 4 ELSE 6
                  [] OTHER                       -> 2

(* The fields that the PATCH of a test leaves out.                             *)
Untouched(t) == IF t = "patch_needs" THEN Field \ {"additionalneeds"}
                                     ELSE Field \ {"totalprice", "depositpaid"}

(* A defect that test t is there for meets its call n.                         *)
Meets(t, d, n) ==
    \/ d.kind = "drops" /\ t = "persists" /\ Op(t, n) = "get" /\ d.field \in Script[t][n].same
    \/ d.kind = "hides" /\ t = "listed" /\ Op(t, n) = "list"
    \/ /\ d.kind = "truncates" /\ t = "max_length" /\ d.field \in Names
       /\ Op(t, n) = "get" /\ d.field \in Script[t][n].same
    \/ d.kind = "nulls" /\ t = "zero_price" /\ d.field = "totalprice" /\ Op(t, n) = "create"
    \/ /\ d.kind = "merges" /\ t \in {"put", "lifecycle"}
       /\ Op(t, n) = "put" /\ d.field \in Script[t][n].same
    \/ /\ d.kind = "forgets" /\ t \in {"put", "lifecycle"} /\ n > 1
       /\ Op(t, n - 1) = "put" /\ Op(t, n) = "get" /\ d.field \in Script[t][n].same
    \/ /\ d.kind = "erases" /\ t \in {"patch", "patch_needs"} /\ d.field \in Untouched(t)
       /\ Op(t, n) = "patch" /\ d.field \in Script[t][n].same
    \/ d.kind = "keeps" /\ t \in {"delete", "lifecycle"} /\ Op(t, n) = "absent"
    \/ /\ d.kind = "crashes" /\ t = "repeat" /\ n > 1
       /\ Op(t, n - 1) = "delete" /\ Op(t, n) = "repeat"

(* The defects of one test.                                                    *)
LEMMA GuardsOf ==
    ASSUME NEW t \in DOMAIN Script, NEW d \in Guards[t]
    PROVE  /\ d.field \in Field
           /\ t = "persists" => d.kind = "drops"
           /\ t = "listed" => d.kind = "hides"
           /\ t = "max_length" => d.kind = "truncates" /\ d.field \in Names
           /\ t = "zero_price" => d.kind = "nulls" /\ d.field = "totalprice"
           /\ t = "put" =>
                 \/ d.kind = "merges" /\ d.field \in Field \ {"checkout", "additionalneeds"}
                 \/ d.kind = "forgets" /\ d.field \in {"firstname", "totalprice"}
           /\ t = "patch" => d.kind = "erases" /\ d.field \in Names \cup {"checkin"}
           /\ t = "patch_needs" => d.kind = "erases" /\ d.field \in {"firstname", "totalprice"}
           /\ t = "delete" => d.kind = "keeps"
           /\ t = "repeat" => d.kind = "crashes"
           /\ t = "lifecycle" =>
                 \/ d.kind \in {"merges", "forgets"} /\ d.field \in {"firstname", "totalprice"}
                 \/ d.kind = "keeps"
           /\ t \notin {"returns_id", "unicode"}
<1>1. PICK g : g = Guards[t]
  OBVIOUS
<1>2. g = CASE t = "persists"    -> Of({"drops"}, Field)
            [] t = "listed"      -> Of({"hides"}, Field)
            [] t = "max_length"  -> Of({"truncates"}, Names)
            [] t = "zero_price"  -> Of({"nulls"}, {"totalprice"})
            [] t = "put"         -> Of({"merges"}, Field \ {"checkout", "additionalneeds"})
                                    \cup Of({"forgets"}, {"firstname", "totalprice"})
            [] t = "patch"       -> Of({"erases"}, Names \cup {"checkin"})
            [] t = "patch_needs" -> Of({"erases"}, {"firstname", "totalprice"})
            [] t = "delete"      -> Of({"keeps"}, Field)
            [] t = "repeat"      -> Of({"crashes"}, Field)
            [] t = "lifecycle"   -> Of({"merges", "forgets"}, {"firstname", "totalprice"})
                                    \cup Of({"keeps"}, Field)
            [] OTHER             -> {}
  BY <1>1 DEF Guards
<1>3. t \in {"returns_id", "persists", "listed", "max_length", "zero_price", "unicode", "put",
             "patch", "patch_needs", "delete", "repeat", "lifecycle"}
  BY DEF Script
<1>4. d \in g
  BY <1>1
<1>5. {"firstname", "totalprice"} \subseteq Field /\ Names \cup {"checkin"} \subseteq Field
  BY DEF Field, Names
<1>6. ASSUME NEW K, NEW F, d \in Of(K, F)
      PROVE  d.kind \in K /\ d.field \in F
  BY <1>6 DEF Of
<1>7. CASE t \in {"returns_id", "unicode"}
  BY <1>2, <1>4, <1>7
<1>8. CASE t = "put"
  <2>1. g = Of({"merges"}, Field \ {"checkout", "additionalneeds"})
            \cup Of({"forgets"}, {"firstname", "totalprice"})
    BY <1>2, <1>8
  <2>2. CASE d \in Of({"merges"}, Field \ {"checkout", "additionalneeds"})
    <3>1. d.kind \in {"merges"} /\ d.field \in Field \ {"checkout", "additionalneeds"}
      BY <1>6, <2>2
    <3> QED BY <1>8, <3>1
  <2>3. CASE d \in Of({"forgets"}, {"firstname", "totalprice"})
    <3>1. d.kind \in {"forgets"} /\ d.field \in {"firstname", "totalprice"}
      BY <1>6, <2>3
    <3> QED BY <1>5, <1>8, <3>1
  <2> QED BY <1>4, <2>1, <2>2, <2>3
<1>9. CASE t = "lifecycle"
  <2>1. g = Of({"merges", "forgets"}, {"firstname", "totalprice"}) \cup Of({"keeps"}, Field)
    BY <1>2, <1>9
  <2>2. CASE d \in Of({"merges", "forgets"}, {"firstname", "totalprice"})
    <3>1. d.kind \in {"merges", "forgets"} /\ d.field \in {"firstname", "totalprice"}
      BY <1>6, <2>2
    <3> QED BY <1>5, <1>9, <3>1
  <2>3. CASE d \in Of({"keeps"}, Field)
    <3>1. d.kind \in {"keeps"} /\ d.field \in Field
      BY <1>6, <2>3
    <3> QED BY <1>9, <3>1
  <2> QED BY <1>4, <2>1, <2>2, <2>3
<1>10. CASE t \in {"persists", "listed", "delete", "repeat"}
  <2>1. PICK kind : g = Of({kind}, Field) /\ kind = CASE t = "persists" -> "drops"
                                                      [] t = "listed"   -> "hides"
                                                      [] t = "delete"   -> "keeps"
                                                      [] OTHER          -> "crashes"
    BY <1>2, <1>10
  <2>2. d.kind \in {kind} /\ d.field \in Field
    BY <1>4, <1>6, <2>1
  <2> QED BY <1>10, <2>1, <2>2
<1>11. CASE t \in {"max_length", "zero_price", "patch", "patch_needs"}
  <2>1. PICK kind, fields :
           /\ g = Of({kind}, fields)
           /\ kind = CASE t = "max_length" -> "truncates" [] t = "zero_price" -> "nulls"
                       [] OTHER -> "erases"
           /\ fields = CASE t = "max_length"  -> Names
                         [] t = "zero_price"  -> {"totalprice"}
                         [] t = "patch"       -> Names \cup {"checkin"}
                         [] OTHER             -> {"firstname", "totalprice"}
    BY <1>2, <1>11
  <2>2. d.kind \in {kind} /\ d.field \in fields
    BY <1>4, <1>6, <2>1
  <2> QED BY <1>5, <1>11, <2>1, <2>2 DEF Field
<1> QED BY <1>3, <1>7, <1>8, <1>9, <1>10, <1>11

(* It is reached by answers alone, and its call is the one to see the defect.  *)
LEMMA CatchingCalls ==
    ASSUME NEW t \in DOMAIN Script, NEW d \in Guards[t],
           NEW n, n = Caught(t, d)
    PROVE  /\ d.field \in Field /\ Meets(t, d, n)
           /\ n \in 1 .. Len(Script[t]) /\ \A k \in 1 .. n : Op(t, k) # "clean"
<1> USE DEF Caught, Meets
<1>0. d.field \in Field /\ t \notin {"returns_id", "unicode"}
  BY GuardsOf
<1>1. CASE t = "persists"
  <2>1. d.kind = "drops" /\ n = 2 /\ d.field \in Script[t][2].same
    BY <1>0, <1>1, GuardsOf DEF Script, Step
  <2>2. Len(Script[t]) = 2 /\ Op(t, 1) = "create" /\ Op(t, 2) = "get"
    BY <1>1, ScriptCalls
  <2> QED BY <1>0, <1>1, <2>1, <2>2
<1>2. CASE t = "listed"
  <2>1. d.kind = "hides" /\ n = 2
    BY <1>2, GuardsOf
  <2>2. Len(Script[t]) = 2 /\ Op(t, 1) = "create" /\ Op(t, 2) = "list"
    BY <1>2, ScriptCalls
  <2> QED BY <1>0, <1>2, <2>1, <2>2
<1>3. CASE t = "max_length"
  <2>1. d.kind = "truncates" /\ n = 2 /\ d.field \in Names
    BY <1>3, GuardsOf
  <2>2. d.field \in Script[t][2].same
    BY <1>3, <2>1 DEF Script, Step
  <2>3. Len(Script[t]) = 4 /\ Op(t, 1) = "create" /\ Op(t, 2) = "get"
    BY <1>3, ScriptCalls
  <2> QED BY <1>0, <1>3, <2>1, <2>2, <2>3
<1>4. CASE t = "zero_price"
  <2>1. d.kind = "nulls" /\ n = 1 /\ d.field = "totalprice"
    BY <1>4, GuardsOf
  <2>2. Len(Script[t]) = 4 /\ Op(t, 1) = "create"
    BY <1>4, ScriptCalls
  <2> QED BY <1>0, <1>4, <2>1, <2>2
<1>5. CASE t = "put"
  <2>1. /\ Script[t][2].same = Field \ {"checkout", "additionalneeds"}
        /\ Script[t][3].same = {"firstname", "totalprice"}
    BY <1>5 DEF Script, Step
  <2>2. \/ d.kind = "merges" /\ n = 2 /\ d.field \in Script[t][2].same
        \/ d.kind = "forgets" /\ n = 3 /\ d.field \in Script[t][3].same
    BY <1>5, <2>1, GuardsOf
  <2>3. /\ Len(Script[t]) = 3 /\ Op(t, 1) = "create" /\ Op(t, 2) = "put" /\ Op(t, 3) = "get"
    BY <1>5, ScriptCalls
  <2>4. CASE n = 2
    BY <1>0, <1>5, <2>2, <2>3, <2>4
  <2>5. CASE n = 3
    BY <1>0, <1>5, <2>2, <2>3, <2>5
  <2> QED BY <2>2, <2>4, <2>5
<1>6. CASE t \in {"patch", "patch_needs"}
  <2>1. /\ t = "patch" => Script[t][2].same = Field \ {"checkout", "additionalneeds"}
        /\ t = "patch_needs" => Script[t][2].same = {"totalprice", "firstname"}
    BY <1>6 DEF Script, Step
  <2>2. /\ d.kind = "erases" /\ n = 2
        /\ d.field \in Untouched(t) /\ d.field \in Script[t][2].same
    <3>1. CASE t = "patch"
      BY <2>1, <3>1, GuardsOf DEF Untouched, Field, Names
    <3>2. CASE t = "patch_needs"
      BY <2>1, <3>2, GuardsOf DEF Untouched, Field
    <3> QED BY <1>6, <3>1, <3>2
  <2>3. Len(Script[t]) = 2 /\ Op(t, 1) = "create" /\ Op(t, 2) = "patch"
    BY <1>6, ScriptCalls
  <2> QED BY <1>0, <1>6, <2>2, <2>3
<1>7. CASE t = "lifecycle"
  <2>1. /\ Script[t][3].same = {"firstname", "totalprice"}
        /\ Script[t][4].same = {"firstname", "totalprice"}
    BY <1>7 DEF Script, Step
  <2>2. \/ d.kind = "merges" /\ n = 3 /\ d.field \in Script[t][3].same
        \/ d.kind = "forgets" /\ n = 4 /\ d.field \in Script[t][4].same
        \/ d.kind = "keeps" /\ n = 6
    BY <1>7, <2>1, GuardsOf
  <2>3. /\ Len(Script[t]) = 6 /\ Op(t, 1) = "create" /\ Op(t, 2) = "get" /\ Op(t, 3) = "put"
        /\ Op(t, 4) = "get" /\ Op(t, 5) = "delete" /\ Op(t, 6) = "absent"
    BY <1>7, ScriptCalls
  <2>4. CASE n = 3
    BY <1>0, <1>7, <2>2, <2>3, <2>4
  <2>5. CASE n = 4
    BY <1>0, <1>7, <2>2, <2>3, <2>5
  <2>6. CASE n = 6
    BY <1>0, <1>7, <2>2, <2>3, <2>6
  <2> QED BY <2>2, <2>4, <2>5, <2>6
<1>8. CASE t = "delete"
  <2>1. d.kind = "keeps" /\ n = 3
    BY <1>8, GuardsOf
  <2>2. /\ Len(Script[t]) = 3 /\ Op(t, 1) = "create" /\ Op(t, 2) = "delete"
        /\ Op(t, 3) = "absent"
    BY <1>8, ScriptCalls
  <2> QED BY <1>0, <1>8, <2>1, <2>2
<1>9. CASE t = "repeat"
  <2>1. d.kind = "crashes" /\ n = 3
    BY <1>9, GuardsOf
  <2>2. /\ Len(Script[t]) = 3 /\ Op(t, 1) = "create" /\ Op(t, 2) = "delete"
        /\ Op(t, 3) = "repeat"
    BY <1>9, ScriptCalls
  <2> QED BY <1>0, <1>9, <2>1, <2>2
<1> QED BY <1>0, <1>1, <1>2, <1>3, <1>4, <1>5, <1>6, <1>7, <1>8, <1>9, ScriptCalls

(* What a defect has made of every booking that the server holds.              *)
Spoilt(b) ==
    LET f == defect.field
    IN /\ defect.kind \in {"merges", "forgets"} /\ test \in {"put", "lifecycle"}
             => b[f] = original[f]
       /\ defect.kind = "drops" /\ test = "persists" => b[f] = Default[f]
       /\ defect.kind = "truncates" /\ test = "max_length" /\ f \in Names
             => b[f] = Cut(f, original[f])

Marked(e) == IF e = Gone THEN defect.kind # "keeps" ELSE Spoilt(e)

(* The test has still to make the call that sees its defect ...                *)
BeforeCatch ==
    /\ stage # "over" /\ step <= Caught(test, defect)
    /\ step = Caught(test, defect) /\ defect.kind = "crashes" => server[booking] = Gone

(* ... or it has made it with payloads that do not show the defect.            *)
Blind == ~Shows /\ (stage = "over" \/ step > Caught(test, defect))

(* The inductive invariant of detection: a test without a failure gets past    *)
(* the call that sees its defect only if its payloads do not show it.          *)
CatchInv ==
    /\ \A r \in LateCalls : /\ r.op = "create" => r.data = original
                            /\ \E n \in 1 .. step : r.op = Method(Op(test, n))
    /\ \A i \in 1 .. Len(server) : Marked(server[i])
    /\ stage = "testing" =>
          /\ test \notin {"put", "patch", "patch_needs", "lifecycle"} => wanted = original
          /\ test \in {"patch", "patch_needs"} =>
                \A f \in Untouched(test) : wanted[f] = original[f]
    /\ defect \in Guards[test] /\ causes = {} => BeforeCatch \/ Blind

LEMMA BookingIsNotGone ==
    ASSUME NEW b \in [Field -> Value]
    PROVE  b # Gone
<1>1. "firstname" \in DOMAIN b
  BY DEF Field
<1>2. "firstname" \notin DOMAIN Gone
  BY DEF Gone
<1> QED BY <1>1, <1>2

(* A defect marks what a request creates, and what it changes.                 *)
LEMMA KeptIsMarked ==
    ASSUME NEW r, Sound(r), r.op = "create" => r.data = original, defect.field \in Field,
           test \in DOMAIN Script, NEW n \in 1 .. Len(Script[test]), r.op = Method(Op(test, n)),
           NEW old \in [Field -> Value],
           IF r.op = "create" THEN old = r.data ELSE Spoilt(old)
    PROVE  Marked(Kept(r, old))
<1>1. /\ r.op = "put" => test \in {"put", "lifecycle"}
      /\ r.op = "patch" => test \in {"patch", "patch_needs"}
  <2>1. /\ r.op = "put" => Op(test, n) = "put"
        /\ r.op = "patch" => Op(test, n) = "patch"
    BY DEF Method
  <2> QED BY <2>1, UpdatesAre
<1>2. Booked \subseteq [Field -> Value]
  BY DEF Booked, Field, Value
<1>3. PICK f \in Field : f = defect.field
  OBVIOUS
<1>4. CASE r.op = "create"
  <2>1. old = original /\ Correct(r, old) = original
    BY <1>4 DEF Correct
  <2>2. original \in Booked /\ original \in [Field -> Value]
    BY <1>2, <1>4 DEF Sound, Valid
  <2>3. CASE defect.kind = "drops"
    <3>1. Kept(r, old) = [original EXCEPT ![f] = Default[f]]
      BY <1>3, <1>4, <2>1, <2>3 DEF Kept
    <3>2. Kept(r, old)[f] = Default[f]
      BY <2>2, <3>1
    <3>3. Kept(r, old) # Gone
      BY <2>2, <3>1, BookingIsNotGone, ReplacedIsBooking, DefaultIsValue
    <3> QED BY <1>3, <2>3, <3>2, <3>3 DEF Marked, Spoilt
  <2>4. CASE defect.kind = "truncates" /\ f \in Names
    <3>1. Kept(r, old) = [original EXCEPT ![f] = Cut(f, original[f])]
      BY <1>3, <1>4, <2>1, <2>4 DEF Kept
    <3>2. Kept(r, old)[f] = Cut(f, original[f])
      BY <2>2, <3>1
    <3> QED BY <1>3, <2>4, <3>2 DEF Marked, Spoilt
  <2>5. CASE defect.kind \in {"merges", "forgets", "keeps"}
    <3>1. Kept(r, old) = original
      BY <1>4, <2>1, <2>5 DEF Kept
    <3>2. original # Gone
      BY <2>2, BookingIsNotGone
    <3> QED BY <1>3, <2>5, <3>1, <3>2 DEF Marked, Spoilt
  <2>6. CASE /\ defect.kind \notin {"drops", "merges", "forgets", "keeps"}
             /\ defect.kind = "truncates" => f \notin Names
    BY <1>3, <2>6 DEF Marked, Spoilt
  <2> QED BY <2>3, <2>4, <2>5, <2>6
<1>5. CASE r.op = "put"
  <2>1. Spoilt(old) /\ test \in {"put", "lifecycle"}
    BY <1>1, <1>5
  <2>2. r.data \in [Field -> Value] /\ Correct(r, old) = r.data
    BY <1>2, <1>5 DEF Sound, Valid, Correct
  <2>3. CASE defect.kind \in {"merges", "forgets"}
    <3>1. Kept(r, old) = [r.data EXCEPT ![f] = old[f]]
      BY <1>3, <1>5, <2>2, <2>3 DEF Kept
    <3>2. Kept(r, old)[f] = old[f]
      BY <2>2, <3>1
    <3> QED BY <1>3, <2>1, <2>3, <3>2 DEF Marked, Spoilt
  <2>4. CASE defect.kind \notin {"merges", "forgets"}
    <3>1. Kept(r, old) = r.data
      BY <1>5, <2>2, <2>4 DEF Kept
    <3> QED BY <2>1, <2>2, <2>4, <3>1, BookingIsNotGone DEF Marked, Spoilt
  <2> QED BY <2>3, <2>4
<1>6. CASE r.op = "patch"
  <2>1. Kept(r, old) \in {Merge(old, r.data), [Merge(old, r.data) EXCEPT ![f] = Default[f]]}
    BY <1>3, <1>6 DEF Kept, Correct
  <2>2. Merge(old, r.data) \in [Field -> Value]
    BY <1>6, PatchIsBooking DEF Sound
  <2>3. [Merge(old, r.data) EXCEPT ![f] = Default[f]] \in [Field -> Value]
    BY <2>2, ReplacedIsBooking, DefaultIsValue
  <2>4. Kept(r, old) # Gone
    BY <2>1, <2>2, <2>3, BookingIsNotGone
  <2> QED BY <1>1, <1>6, <2>4 DEF Marked, Spoilt
<1>7. CASE r.op = "delete"
  <2>1. Kept(r, old) = IF defect.kind \in {"keeps", "defers"} THEN old ELSE Gone
    BY <1>7 DEF Kept, Correct
  <2> QED BY <1>7, <2>1, BookingIsNotGone DEF Marked
<1>8. CASE r.op \notin {"create", "put", "patch", "delete"}
  <2>1. Kept(r, old) = old
    BY <1>8 DEF Kept, Correct
  <2> QED BY <1>8, <2>1, BookingIsNotGone DEF Marked
<1> QED BY <1>4, <1>5, <1>6, <1>7, <1>8

LEMMA EffectIsMarked ==
    ASSUME NEW r, Sound(r), r.op = "create" => r.data = original, CrudInv, WireInv,
           NEW n \in 1 .. Len(Script[test]), r.op = Method(Op(test, n)),
           \A i \in 1 .. Len(server) : Marked(server[i])
    PROVE  \A i \in 1 .. Len(Effect(r)) : Marked(Effect(r)[i])
<1>1. test \in DOMAIN Script /\ server \in Seq(Entry) /\ defect.field \in Field
  BY CrudAssumption DEF CrudInv, WireInv
<1>2. ASSUME NEW i \in 1 .. Len(server), server[i] # Gone, r.op # "create"
      PROVE  Marked(Kept(r, server[i]))
  <2>1. server[i] \in [Field -> Value] /\ Spoilt(server[i])
    BY <1>1, <1>2 DEF Marked, Entry
  <2> QED BY <1>1, <1>2, <2>1, KeptIsMarked
<1>3. CASE r.op # "create"
  BY <1>1, <1>2, <1>3, EffectSteps
<1>4. CASE r.op = "create"
  <2>1. r.data \in [Field -> Value]
    BY <1>4 DEF Sound, Valid, Booked, Field, Value
  <2>2. Marked(Kept(r, r.data))
    BY <1>1, <1>4, <2>1, KeptIsMarked
  <2>3. /\ Len(Effect(r)) = Len(server) + 1 /\ Effect(r)[Len(server) + 1] = Kept(r, r.data)
        /\ \A i \in 1 .. Len(server) : Effect(r)[i] = server[i]
    BY <1>1, <1>4, EffectSteps
  <2>4. Len(server) \in Nat
    BY <1>1
  <2> QED BY <2>2, <2>3, <2>4
<1> QED BY <1>3, <1>4

-----------------------------------------------------------------------------
(* The booking that a call after the create is about.                          *)
LEMMA BookingIsEntry ==
    ASSUME CrudInv, CatchInv, step > 1, NEW r, r.id = booking
    PROVE  /\ booking \in 1 .. Len(server) /\ server[booking] \in Entry
           /\ Here(r) <=> server[booking] # Gone
           /\ IF server[booking] = Gone THEN defect.kind # "keeps" ELSE Spoilt(server[booking])
<1>1. booking \in 1 .. Len(server) /\ server \in Seq(Entry)
  BY DEF CrudInv
<1> QED BY <1>1 DEF Here, CatchInv, Marked

(* An answer of a method that reads a booking, when the test accepts it.       *)
LEMMA ReadAnswer ==
    ASSUME NEW a, Judge(a) = "ok", Now.call \in {"create", "get", "put", "patch"}
    PROVE  ~(a.status >= 400) /\ ResponseOK(a.body) /\ Holds(a)
BY DEF Judge, RaiseForStatus

(* The first payload is one of the model, with the extremes of its test.       *)
LEMMA OriginalIs ==
    ASSUME WireInv, CrudInv, stage = "testing"
    PROVE  /\ original \in Booked /\ PayloadOK(original) /\ None \notin Texts
           /\ test = "zero_price" => original.totalprice = 0
           /\ test = "max_length" =>
                 \A f \in Names : original[f] \in Texts /\ original[f].length = 100
<1>1. original \in Booked /\ PayloadOK(original)
  BY DEF WireInv, Valid
<1>2. original \in FirstPayload(test) /\ "create" \in Tag /\ "run" \in Tag
  BY CrudAssumption DEF CrudInv
<1>3. ASSUME test = "zero_price" PROVE original.totalprice = 0
  <2>1. original = MinimumPrice("create", "run")
    BY <1>2, <1>3 DEF FirstPayload
  <2> QED BY <2>1 DEF MinimumPrice, Booking
<1>4. ASSUME test = "max_length"
      PROVE  \A f \in Names : original[f] \in Texts /\ original[f].length = 100
  <2>1. original = MaxLength("create", "run")
    BY <1>2, <1>4 DEF FirstPayload
  <2> QED BY <1>1, <1>2, <2>1, MaxLengthIsValid DEF Booked, Names
<1> QED BY <1>1, <1>3, <1>4, NoneAssumption

(* A test does not accept the answer of the call that sees its defect, if its  *)
(* payloads show it.                                                           *)
LEMMA Detects ==
    ASSUME WireInv, CrudInv, CatchInv, stage = "testing", call # None,
           defect \in Guards[test], step = Caught(test, defect), Shows,
           defect.kind = "crashes" => server[booking] = Gone,
           NEW a \in Replies, Judge(a) = "ok"
    PROVE  FALSE
<1>1. /\ test \in DOMAIN Script /\ step \in 1 .. Len(Script[test]) /\ Asks(call)
      /\ Sound(call) /\ server \in Seq(Entry)
  BY DEF CrudInv, WireInv
<1>2. a \in Answers(call) /\ a.status # 500 /\ ~Refused(call)
  BY AcceptedAnswers
<1>3. Op(test, step) = "create" <=> step = 1
  BY <1>1, ScriptsAreOrdered DEF Ordered
<1>4. PICK c : c = Now.call
  OBVIOUS
<1>5. c = Op(test, step) /\ call.op = Method(c) /\ call.id = booking
  BY <1>1, <1>4 DEF Op, Now, Asks
<1>6. ASSUME c # "create"
      PROVE  /\ step > 1 /\ server[booking] \in Entry
             /\ Here(call) <=> server[booking] # Gone
             /\ IF server[booking] = Gone THEN defect.kind # "keeps" ELSE Spoilt(server[booking])
  <2>1. step > 1
    BY <1>1, <1>3, <1>5, <1>6
  <2> QED BY <2>1, <1>5, BookingIsEntry
<1>7. ASSUME c = "get"
      PROVE  server[booking] # Gone /\ a.body = server[booking] /\ Spoilt(server[booking])
             /\ \A f \in Script[test][step].same : a.body[f] = wanted[f]
  <2>1. call.op = "get" /\ ~(a.status >= 400) /\ Holds(a)
    BY <1>4, <1>5, <1>7, ReadAnswer DEF Method
  <2>2. Here(call)
    BY <1>2, <2>1, GetAnswer
  <2> QED BY <1>2, <1>5, <1>6, <1>7, <2>1, <2>2, GetAnswer DEF Holds, Now
<1>8. ASSUME c \in {"put", "patch"}
      PROVE  /\ server[booking] # Gone /\ server[booking] \in [Field -> Value]
             /\ Spoilt(server[booking]) /\ call.op = c
             /\ \A f \in Script[test][step].same : a.body[f] = wanted[f]
             /\ defect.kind # "forgets" => a.body = Kept(call, server[booking])
  <2>1. call.op = c /\ ~(a.status >= 400) /\ Holds(a)
    BY <1>4, <1>5, <1>8, ReadAnswer DEF Method
  <2>2. Here(call)
    BY <1>2, <1>8, <2>1, UpdateAnswer
  <2>3. server[booking] \in [Field -> Value]
    BY <1>6, <1>8, <2>2 DEF Entry
  <2> QED BY <1>2, <1>5, <1>6, <1>8, <2>1, <2>2, <2>3, UpdateAnswer DEF Holds, Now
<1>9. /\ test \notin {"put", "patch", "patch_needs", "lifecycle"} => wanted = original
      /\ test \in {"patch", "patch_needs"} => \A f \in Untouched(test) : wanted[f] = original[f]
  BY DEF CatchInv
<1>10. Booked \subseteq [Field -> Value]
  BY DEF Booked, Field, Value
<1>f. PICK f : f = defect.field
  OBVIOUS
<1>n. f \in Field /\ Meets(test, defect, step)
  BY <1>1, <1>f, CatchingCalls
<1>11. CASE /\ defect.kind = "drops" /\ test = "persists" /\ c = "get"
            /\ f \in Script[test][step].same
  <2>1. wanted[f] = Default[f] /\ wanted = original
    BY <1>7, <1>9, <1>11, <1>f DEF Spoilt
  <2> QED BY <1>11, <1>f, <2>1 DEF Shows
<1>12. CASE defect.kind = "hides" /\ test = "listed" /\ c = "list"
  <2>1. call.op = "list" /\ Holds(a)
    BY <1>4, <1>5, <1>12 DEF Method, Judge, RaiseForStatus
  <2>2. a.body = {}
    BY <1>2, <1>12, <2>1, ListAnswer
  <2> QED BY <1>4, <1>12, <2>1, <2>2 DEF Holds
<1>13. CASE /\ defect.kind = "truncates" /\ test = "max_length" /\ c = "get"
            /\ f \in Names /\ f \in Script[test][step].same
  <2>1. wanted[f] = Cut(f, original[f]) /\ wanted = original
    BY <1>7, <1>9, <1>13, <1>f DEF Spoilt
  <2>2. original[f].length = 100
    BY <1>13, OriginalIs
  <2>3. Cut(f, original[f]).length = 99
    BY <1>13, <2>2 DEF Slice, Cut
  <2> QED BY <2>1, <2>2, <2>3
<1>14. CASE defect.kind = "nulls" /\ test = "zero_price" /\ f = "totalprice" /\ c = "create"
  <2>1. call.op = "create" /\ call.data = original /\ ResponseOK(a.body)
    BY <1>1, <1>4, <1>5, <1>14, ReadAnswer DEF Method, Asks
  <2>2. a.body = Kept(call, original)
    <3>1. Effect(call)[Len(Effect(call))] = Kept(call, original)
      BY <1>1, <2>1, EffectSteps
    <3> QED BY <1>2, <2>1, <3>1, CreateAnswer
  <2>3. original \in [Field -> Value] /\ original[f] = 0
    BY <1>10, <1>14, OriginalIs
  <2>4. Kept(call, original) = [original EXCEPT ![f] = None]
    BY <1>14, <1>f, <2>1, <2>3 DEF Kept, Correct
  <2>5. a.body["totalprice"] = None
    BY <1>14, <1>n, <2>2, <2>3, <2>4
  <2> QED BY <2>1, <2>5 DEF ResponseOK, Field
<1>15. CASE /\ defect.kind = "merges" /\ test \in {"put", "lifecycle"} /\ c = "put"
            /\ f \in Script[test][step].same
  <2>1. /\ server[booking][f] = original[f] /\ call.op = "put"
        /\ a.body = Kept(call, server[booking]) /\ a.body[f] = wanted[f]
    BY <1>8, <1>15, <1>f DEF Spoilt
  <2>2. call.data \in [Field -> Value]
    BY <1>1, <1>10, <2>1 DEF Sound, Valid
  <2>3. a.body = [call.data EXCEPT ![f] = server[booking][f]]
    BY <1>15, <1>f, <2>1 DEF Kept, Correct
  <2>4. wanted[f] = original[f]
    BY <1>n, <2>1, <2>2, <2>3
  <2> QED BY <1>15, <1>f, <2>4 DEF Shows
<1>16. CASE /\ defect.kind = "forgets" /\ test \in {"put", "lifecycle"} /\ c = "get"
            /\ f \in Script[test][step].same
  <2>1. wanted[f] = original[f]
    BY <1>7, <1>16, <1>f DEF Spoilt
  <2> QED BY <1>16, <1>f, <2>1 DEF Shows
<1>17. CASE /\ defect.kind = "erases" /\ test \in {"patch", "patch_needs"} /\ c = "patch"
            /\ f \in Untouched(test) /\ f \in Script[test][step].same
  <2>1. /\ call.op = "patch" /\ a.body = Kept(call, server[booking])
        /\ a.body[f] = original[f]
    BY <1>8, <1>9, <1>17
  <2>2. Merge(server[booking], call.data) \in [Field -> Value]
    BY <1>1, <1>8, <1>17, <2>1, PatchIsBooking DEF Sound
  <2>3. f \notin DOMAIN call.data
    <3>1. call.data = Dump(Given)
      BY <1>1, <2>1 DEF Sound
    <3>2. DOMAIN Dump(Given) \subseteq DOMAIN Given
      BY DEF Dump
    <3>3. f \notin DOMAIN Given
      BY <1>17, GivenIs DEF Untouched
    <3> QED BY <3>1, <3>2, <3>3
  <2>4. a.body = [Merge(server[booking], call.data) EXCEPT ![f] = Default[f]]
    BY <1>17, <1>f, <2>1, <2>3 DEF Kept, Correct
  <2>5. original[f] = Default[f]
    BY <1>n, <2>1, <2>2, <2>4
  <2> QED BY <1>17, <1>f, <2>5 DEF Shows
<1>18. CASE defect.kind = "keeps" /\ c = "absent"
  <2>1. Here(call) /\ call.op = "get"
    BY <1>5, <1>6, <1>18 DEF Method
  <2>2. a.status = 200
    BY <1>2, <1>18, <2>1, GetAnswer
  <2> QED BY <1>4, <1>18, <2>2 DEF Judge, BookingExists
<1>19. CASE defect.kind = "crashes" /\ c = "repeat"
  <2>1. ~Here(call) /\ call.op = "delete"
    BY <1>5, <1>6, <1>19 DEF Method
  <2> QED BY <1>2, <1>19, <2>1, DeleteAnswer
<1> QED BY <1>5, <1>f, <1>n, <1>11, <1>12, <1>13, <1>14, <1>15, <1>16, <1>17, <1>18, <1>19
        DEF Meets

(* The call before a repeated DELETE leaves no booking.                        *)
LEMMA Prepares ==
    ASSUME WireInv, CrudInv, CatchInv, stage = "testing", call # None,
           defect \in Guards[test], step + 1 = Caught(test, defect), defect.kind = "crashes",
           NEW a \in Replies, Judge(a) = "ok"
    PROVE  Now.call = "delete" /\ Effect(call)[booking] = Gone
<1>1. /\ test \in DOMAIN Script /\ step \in 1 .. Len(Script[test]) /\ Asks(call)
      /\ Sound(call) /\ server \in Seq(Entry)
  BY DEF CrudInv, WireInv
<1>2. a \in Answers(call) /\ a.status # 500 /\ ~Refused(call)
  BY AcceptedAnswers
<1>3. PICK n : n = Caught(test, defect)
  OBVIOUS
<1>4. n - 1 = step
  BY <1>1, <1>3
<1>5. Op(test, step) = Now.call /\ (Op(test, step) = "create" <=> step = 1)
  BY <1>1, ScriptsAreOrdered DEF Ordered, Op, Now
<1>6. Now.call = "delete"
  <2>1. Meets(test, defect, n)
    BY <1>1, <1>3, CatchingCalls
  <2> QED BY <1>4, <1>5, <2>1 DEF Meets
<1>7. call.op = "delete" /\ call.id = booking /\ step > 1
  BY <1>1, <1>5, <1>6 DEF Asks, Method
<1>8. Here(call)
  BY <1>2, <1>7, DeleteAnswer
<1>9. booking \in 1 .. Len(server) /\ server[booking] # Gone
  BY <1>7, <1>8, BookingIsEntry
<1>10. Effect(call)[booking] = Kept(call, server[booking])
  BY <1>1, <1>2, <1>7, <1>9, EffectSteps
<1> QED BY <1>6, <1>7, <1>10 DEF Kept, Correct

LEMMA CatchInit == Init => CatchInv
<1> SUFFICES ASSUME Init PROVE CatchInv
  OBVIOUS
<1>1. stage = "importing" /\ test = "returns_id" /\ late = {} /\ server = <<>>
  BY DEF Init
<1>2. Len(server) = 0 /\ LateCalls = {}
  BY <1>1 DEF LateCalls
<1>3. Guards[test] = {}
  BY <1>1 DEF Guards, Script
<1> QED BY <1>1, <1>2, <1>3 DEF CatchInv

LEMMA CatchStep ==
    WireInv /\ SettingsInv /\ CrudInv /\ CatchInv /\ [Next]_vars => CatchInv'
<1> SUFFICES ASSUME WireInv, SettingsInv, CrudInv, CatchInv, [Next]_vars PROVE CatchInv'
  OBVIOUS
<1>0. PICK len \in 2 .. 6 : len = Len(Script[test]) /\ Ordered(test, len)
  BY ScriptsAreOrdered DEF CrudInv
<1>a. ASSUME UNCHANGED <<test, original, defect>>,
             \A i \in 1 .. Len(server') : Marked(server'[i])
      PROVE  (\A i \in 1 .. Len(server) : Marked(server[i]))'
  BY <1>a DEF Marked, Spoilt
<1>b. test \in DOMAIN Script /\ step \in 1 .. len /\ server \in Seq(Entry)
  BY <1>0 DEF CrudInv
<1>1. CASE Import \/ AuthToken
  <2>1. /\ stage \in {"importing", "authenticating"} /\ stage' \notin {"testing", "over"}
        /\ UNCHANGED <<test, step, original, wanted, booking, causes, server, late, defect>>
    BY <1>1 DEF Import, AuthToken, testVars
  <2>2. late = {} /\ server = <<>> /\ step = 1
    BY <2>1 DEF WireInv, CrudInv
  <2>3. Len(server') = 0 /\ LateCalls' = {}
    BY <2>1, <2>2 DEF LateCalls
  <2>4. ASSUME defect \in Guards[test]
        PROVE  1 <= Caught(test, defect) /\ (1 = Caught(test, defect) => defect.kind # "crashes")
    BY <1>b, <2>4, CatchingCalls DEF Meets
  <2> QED BY <2>1, <2>2, <2>3, <2>4 DEF CatchInv, BeforeCatch
<1>2. CASE StartTest
  <2>1. /\ stage = "ready" /\ stage' = "testing" /\ wanted' = original' /\ test' \in DOMAIN Script
        /\ UNCHANGED <<step, causes, server, late, defect>>
    BY <1>2 DEF StartTest
  <2>2. late = {} /\ server = <<>> /\ step = 1
    BY <2>1 DEF WireInv, CrudInv
  <2>3. Len(server') = 0 /\ LateCalls' = {}
    BY <2>1, <2>2 DEF LateCalls
  <2>4. ASSUME defect' \in Guards[test']
        PROVE  /\ 1 <= Caught(test', defect')
               /\ 1 = Caught(test', defect') => defect'.kind # "crashes"
    BY <2>1, <2>4, CatchingCalls DEF Meets
  <2> QED BY <2>1, <2>2, <2>3, <2>4 DEF CatchInv, BeforeCatch
<1>3. CASE Begin
  <2>1. /\ stage = "testing"
        /\ UNCHANGED <<stage, test, step, original, booking, causes, server, late, defect>>
    BY <1>3 DEF Begin
  <2>2. \/ wanted' = wanted
        \/ Now.call = "put"
        \/ Now.call = "patch" /\ wanted' = Merge(wanted, Given)
    BY <1>3 DEF Begin
  <2>3. Now.call = Op(test, step)
    BY DEF Op, Now
  <2>4. /\ Now.call = "put" => test \in {"put", "lifecycle"}
        /\ Now.call = "patch" => test \in {"patch", "patch_needs"}
    BY <1>0, <1>b, <2>3, UpdatesAre
  <2>5. /\ test \notin {"put", "patch", "patch_needs", "lifecycle"} => wanted' = original
        /\ test \in {"patch", "patch_needs"} =>
              \A f \in Untouched(test) : wanted'[f] = original[f]
    <3>1. ASSUME NEW f \in Untouched(test), test \in {"patch", "patch_needs"}
          PROVE  Merge(wanted, Given)[f] = wanted[f]
      <4>1. f \in Field /\ f \notin DOMAIN Given
        BY <3>1, GivenIs DEF Untouched
      <4> QED BY <4>1 DEF Merge
    <3> QED BY <2>1, <2>2, <2>4, <3>1 DEF CatchInv
  <2>6. ASSUME defect \in Guards[test], causes = {}
        PROVE  BeforeCatch' \/ Blind'
    <3>1. BeforeCatch \/ Blind
      BY <2>6 DEF CatchInv
    <3>2. CASE BeforeCatch
      BY <2>1, <3>2 DEF BeforeCatch
    <3>3. CASE Blind
      <4>1. PICK n \in 1 .. len : n = Caught(test, defect) /\ Meets(test, defect, n)
        BY <1>0, <1>b, <2>6, CatchingCalls
      <4>2. n < step
        BY <2>1, <3>3, <4>1 DEF Blind
      <4>3. ASSUME defect.kind \in {"merges", "forgets"}
            PROVE  wanted' = wanted
        <5>1. Op(test, n) = "put" \/ (n > 1 /\ Op(test, n - 1) = "put")
          BY <4>1, <4>3 DEF Meets
        <5>2. Op(test, step) \notin {"put", "patch"}
          BY <1>0, <1>b, <4>2, <5>1 DEF Ordered
        <5> QED BY <2>2, <2>3, <5>2
      <4>4. ~Shows'
        BY <2>1, <3>3, <4>3 DEF Blind, Shows
      <4> QED BY <2>1, <3>3, <4>4 DEF Blind
    <3> QED BY <3>1, <3>2, <3>3
  <2>7. (\A i \in 1 .. Len(server) : Marked(server[i]))'
    BY <1>a, <2>1 DEF CatchInv
  <2>8. LateCalls' = LateCalls
    BY <2>1 DEF LateCalls
  <2> QED BY <2>1, <2>5, <2>6, <2>7, <2>8 DEF CatchInv, Untouched
<1>4. CASE Answered \/ RequestLost \/ AnswerLost \/ RequestLate \/ Broken
  <2>1. /\ call # None /\ server' \in {server, Effect(call)}
        /\ UNCHANGED <<settings, test, original, wanted, defect>>
    BY <1>4, CallOutcomes
  <2>2. stage = "testing" /\ Sound(call) /\ Asks(call)
    BY <2>1 DEF SettingsInv, WireInv, CrudInv
  <2>3. /\ Retried => step' = step
        /\ Failed => step' \in {step, step + 1} /\ causes' # {}
        /\ \A a \in Replies : Passed(a) =>
              /\ booking' = IF Now.call = "create" THEN a.id ELSE booking
              /\ causes' = causes /\ step' \in {step, step + 1}
              /\ stage' = "over" \/ step' = step + 1
    BY FailSteps, PassSteps DEF Retried, Failed, Passed, CrudInv
  <2>4. step' \in {step, step + 1}
    BY <1>4, <2>3, CallOutcomes
  <2>5. \A r \in LateCalls' : /\ r.op = "create" => r.data = original'
                              /\ \E n \in 1 .. step' : r.op = Method(Op(test', n))
    <3>1. call.op = Method(Op(test, step)) /\ (call.op = "create" => call.data = original)
      BY <2>2 DEF Asks, Now, Op
    <3>2. LateCalls' \subseteq LateCalls \cup {call}
      BY <1>4, CallOutcomes
    <3>3. \A n \in 1 .. step : n \in 1 .. step'
      BY <1>b, <2>4
    <3>4. step \in 1 .. step'
      BY <1>b, <2>4
    <3> QED BY <2>1, <3>1, <3>2, <3>3, <3>4 DEF CatchInv
  <2>6. (\A i \in 1 .. Len(server) : Marked(server[i]))'
    <3>1. call.op = Method(Op(test, step)) /\ (call.op = "create" => call.data = original)
      BY <2>2 DEF Asks, Now, Op
    <3>2. \A i \in 1 .. Len(Effect(call)) : Marked(Effect(call)[i])
      BY <1>0, <1>b, <2>2, <3>1, EffectIsMarked DEF CatchInv
    <3> QED BY <1>a, <2>1, <3>2 DEF CatchInv
  <2>7. ASSUME defect \in Guards[test], causes' = {}
        PROVE  BeforeCatch' \/ Blind'
    <3>0. PICK n \in 1 .. len : n = Caught(test, defect)
      BY <1>0, <1>b, <2>7, CatchingCalls
    <3>s. Shows' = Shows /\ Caught(test, defect)' = n
      BY <2>1, <3>0 DEF Shows, Caught
    <3>1. CASE Retried
      <4>1. UNCHANGED <<stage, step, booking, causes>>
        BY <3>1 DEF Retried
      <4>2. BeforeCatch \/ Blind
        BY <2>7, <4>1 DEF CatchInv
      <4>3. CASE BeforeCatch
        <5>1. ASSUME step = n, defect.kind = "crashes" PROVE server'[booking] = Gone
          <6>1. server[booking] = Gone
            BY <3>0, <4>3, <5>1 DEF BeforeCatch
          <6>2. n > 1
            BY <1>b, <2>7, <3>0, <5>1, CatchingCalls DEF Meets
          <6> QED BY <2>1, <2>2, <5>1, <6>1, <6>2, GoneIsForever
        <5> QED BY <2>1, <3>0, <3>s, <4>1, <4>3, <5>1 DEF BeforeCatch
      <4>4. CASE Blind
        BY <3>0, <3>s, <4>1, <4>4 DEF Blind
      <4> QED BY <4>2, <4>3, <4>4
    <3>2. CASE \E a \in Replies : Passed(a)
      <4>1. PICK a \in Replies : Passed(a)
        BY <3>2
      <4>2. Judge(a) = "ok" /\ causes = {} /\ (stage' = "over" \/ step' = step + 1)
        BY <2>3, <2>7, <4>1 DEF Passed
      <4>3. BeforeCatch \/ Blind
        BY <2>7, <4>2 DEF CatchInv
      <4>4. CASE Blind
        <5>1. step > n
          BY <2>2, <3>0, <4>4 DEF Blind
        <5>2. stage' = "over" \/ step' > n
          BY <1>b, <4>2, <5>1
        <5> QED BY <3>s, <4>4, <5>2 DEF Blind
      <4>5. CASE BeforeCatch /\ step = n
        <5>1. ~Shows
          BY <2>1, <2>2, <2>7, <3>0, <4>2, <4>5, Detects DEF BeforeCatch
        <5>2. stage' = "over" \/ step' > n
          BY <1>b, <4>2, <4>5
        <5> QED BY <3>s, <5>1, <5>2 DEF Blind
      <4>6. CASE BeforeCatch /\ step # n
        <5>1. step < n /\ step < len
          BY <1>b, <3>0, <4>6 DEF BeforeCatch
        <5>2. Now.call # "clean"
          <6>1. \A k \in 1 .. n : Op(test, k) # "clean"
            BY <1>b, <2>7, <3>0, CatchingCalls
          <6> QED BY <1>b, <5>1, <6>1 DEF Op, Now
        <5>3. stage' = stage /\ step' = step + 1
          BY <1>0, <1>b, <4>1, <5>1, <5>2, PassSteps DEF Passed
        <5>4. ASSUME step + 1 = n, defect.kind = "crashes" PROVE server'[booking'] = Gone
          <6>1. server' = Effect(call)
            BY <4>1, <4>2, AcceptedAnswers DEF Passed
          <6>2. Now.call = "delete" /\ Effect(call)[booking] = Gone
            BY <2>1, <2>2, <2>7, <3>0, <4>2, <5>4, Prepares
          <6>3. booking' = booking
            BY <2>3, <4>1, <6>2
          <6> QED BY <6>1, <6>2, <6>3
        <5>5. step' <= n
          BY <1>b, <5>1, <5>3
        <5> QED BY <2>1, <2>2, <3>s, <5>3, <5>4, <5>5 DEF BeforeCatch
      <4> QED BY <4>3, <4>4, <4>5, <4>6
    <3> QED BY <1>4, <2>3, <2>7, <3>1, <3>2, CallOutcomes
  <2>8. /\ test \notin {"put", "patch", "patch_needs", "lifecycle"} => wanted = original
        /\ test \in {"patch", "patch_needs"} => \A f \in Untouched(test) : wanted[f] = original[f]
    BY <2>2 DEF CatchInv
  <2> QED BY <2>1, <2>5, <2>6, <2>7, <2>8 DEF CatchInv, Untouched
<1>5. CASE Arrive
  <2>1. /\ LateCalls' \subseteq LateCalls
        /\ UNCHANGED <<stage, test, step, call, original, wanted, booking, causes, defect>>
    BY <1>5, LateArrives
  <2>2. PICK r \in LateCalls : server' = Effect(r)
    BY <1>5, LateArrives
  <2>3. Sound(r) /\ (r.op = "create" => r.data = original)
    BY <2>2 DEF WireInv, CatchInv
  <2>4. PICK n \in 1 .. step : r.op = Method(Op(test, n))
    BY <2>2 DEF CatchInv
  <2>5. (\A i \in 1 .. Len(server) : Marked(server[i]))'
    <3>1. n \in 1 .. Len(Script[test])
      BY <1>0, <1>b
    <3>2. \A i \in 1 .. Len(Effect(r)) : Marked(Effect(r)[i])
      BY <2>3, <2>4, <3>1, EffectIsMarked DEF CatchInv
    <3> QED BY <1>a, <2>1, <2>2, <3>2
  <2>6. ASSUME defect \in Guards[test], causes = {}
        PROVE  BeforeCatch' \/ Blind'
    <3>1. BeforeCatch \/ Blind
      BY <2>6 DEF CatchInv
    <3>2. CASE Blind
      BY <2>1, <3>2 DEF Blind, Shows
    <3>3. CASE BeforeCatch
      <4>1. ASSUME step = Caught(test, defect), defect.kind = "crashes"
            PROVE  server'[booking] = Gone
        <5>1. server[booking] = Gone
          BY <3>3, <4>1 DEF BeforeCatch
        <5>2. step > 1
          BY <1>b, <2>6, <4>1, CatchingCalls DEF Meets
        <5> QED BY <2>2, <2>3, <5>1, <5>2, GoneIsForever
      <4> QED BY <2>1, <3>3, <4>1 DEF BeforeCatch
    <3> QED BY <3>1, <3>2, <3>3
  <2> QED BY <2>1, <2>5, <2>6 DEF CatchInv, Untouched
<1>6. CASE Expire \/ UNCHANGED vars
  <2>1. UNCHANGED <<stage, test, step, original, wanted, booking, causes, server, late, defect>>
    BY <1>6 DEF vars, testVars, Expire
  <2>2. (\A i \in 1 .. Len(server) : Marked(server[i]))'
    BY <1>a, <2>1 DEF CatchInv
  <2>3. LateCalls' = LateCalls /\ Shows' = Shows
    BY <2>1 DEF LateCalls, Shows
  <2>4. BeforeCatch' = BeforeCatch /\ Blind' = Blind
    BY <2>1, <2>3 DEF BeforeCatch, Blind
  <2> QED BY <2>1, <2>2, <2>3, <2>4 DEF CatchInv, Untouched
<1> QED BY <1>1, <1>2, <1>3, <1>4, <1>5, <1>6 DEF Next

LEMMA CatchInvariance == Spec => []CatchInv
<1>1. Init => CatchInv
  BY CatchInit
<1>2. WireInv /\ SettingsInv /\ CrudInv /\ CatchInv /\ [Next]_vars => CatchInv'
  BY CatchStep
<1> QED BY <1>1, <1>2, WireInvariance, SettingsInvariance, CrudInvariance, PTL DEF Spec

(* A test that passes has ruled out every defect that it guards, on the fields *)
(* it compares and where its payloads tell the defect, for every payload Faker *)
(* may draw, whatever was lost, retried or late between its calls.             *)
THEOREM PassedAlwaysMeansHeld == Spec => []PassedMeansHeld
<1>1. CatchInv => PassedMeansHeld
  BY DEF CatchInv, PassedMeansHeld, BeforeCatch, Blind
<1> QED BY <1>1, CatchInvariance, PTL

-----------------------------------------------------------------------------
(* Whether the test has made a call: the one under way counts.                 *)
Done == IF call = None THEN step - 1 ELSE step

Begun(op) == \E n \in 1 .. Done : Op(test, n) = op

(* What a correct server has of the test's booking by the time of each call.   *)
Story(here) ==
    /\ Now.call \in {"get", "list", "clean"} => here = wanted
    /\ Now.call \in {"put", "patch"} => here = wanted \/ (call # None /\ here = original)
    /\ Now.call = "delete" => here = wanted \/ (call # None /\ attempt > 1 /\ here = Gone)
    /\ Now.call \in {"absent", "repeat"} => here = Gone

(* The inductive invariant of a test against a correct server: what it wants   *)
(* is what the server has, or has had before a DELETE that was repeated.       *)
StoryInv ==
    defect.kind = "none" =>
        /\ \A c \in causes : Excused(c)
        /\ stage = "testing" =>
              /\ wanted \in Held
              /\ ~Begun("put") /\ ~Begun("patch") => wanted = original
              /\ Begun("patch") => wanted = Merge(original, Dump(Given))
              /\ causes # {} => /\ Now.call \in {"clean", "delete"}
                                /\ Op(test, Len(Script[test])) = "delete"
              /\ step > 1 => Story(server[booking])
              /\ \A r \in LateCalls : /\ r.op # "create" => Begun(r.op)
                                      /\ r.op = "put" => r.data = wanted
                                      /\ r.op = "delete" /\ Now.call = "delete" => attempt > 1

(* A booking that a correct server holds passes BookingResponse.               *)
LEMMA HeldIsBooking ==
    ASSUME NEW b \in Held
    PROVE  b \in [Field -> Value] /\ b # Gone /\ ResponseOK(b)
<1>1. b \in Booked /\ PayloadOK(b)
  BY DEF Held
<1>2. b \in [Field -> Value]
  BY <1>1 DEF Booked, Field, Value
<1>3. \A f \in Field \ {"additionalneeds"} : b[f] # None
  <2>1. /\ b["firstname"] \in Texts /\ b["lastname"] \in Texts /\ b["totalprice"] \in Int
        /\ b["checkin"] \in Int /\ b["checkout"] \in Int /\ b["depositpaid"] \in BOOLEAN
    BY <1>1 DEF Booked
  <2>2. b["depositpaid"] # None
    BY <2>1, NoneAssumption
  <2>3. /\ b["firstname"] # None /\ b["lastname"] # None /\ b["totalprice"] # None
        /\ b["checkin"] # None /\ b["checkout"] # None
    BY <2>1, NoneAssumption
  <2> QED BY <2>2, <2>3 DEF Field
<1> QED BY <1>1, <1>2, <1>3, BookingIsNotGone DEF ResponseOK, PayloadOK

(* Nothing of a PATCH is dropped on its way, and a second one changes nothing. *)
LEMMA PatchedTwice ==
    ASSUME NEW b
    PROVE  /\ Merge(b, Given) = Merge(b, Dump(Given))
           /\ Merge(Merge(b, Dump(Given)), Dump(Given)) = Merge(b, Dump(Given))
<1>1. \A f \in DOMAIN Given : Given[f] # None
  <2>1. CASE test = "patch_needs"
    <3>1. Filler(0) \in Texts
      BY DEF Filler, Texts
    <3> QED BY <2>1, <3>1, GivenIs, NoneAssumption
  <2>2. CASE test # "patch_needs"
    <3>1. Given["depositpaid"] = FALSE
      BY <2>2, GivenIs
    <3>2. FALSE \in BOOLEAN
      OBVIOUS
    <3>3. Given["depositpaid"] # None
      BY <3>1, <3>2, NoneAssumption
    <3>4. Given["totalprice"] # None
      BY <2>2, GivenIs, NoneAssumption
    <3> QED BY <2>2, <3>3, <3>4, GivenIs
  <2> QED BY <2>1, <2>2
<1>2. PICK sent : sent = Dump(Given)
  OBVIOUS
<1>3. DOMAIN sent = DOMAIN Given /\ \A f \in DOMAIN Given : sent[f] = Given[f]
  BY <1>1, <1>2 DEF Dump
<1>4. \A f \in Field : (IF f \in DOMAIN Given THEN Given[f] ELSE b[f])
                       = (IF f \in DOMAIN sent THEN sent[f] ELSE b[f])
  BY <1>3
<1>5. Merge(b, Given) = Merge(b, sent)
  BY <1>4 DEF Merge
<1>6. Merge(Merge(b, sent), sent) = Merge(b, sent)
  BY DEF Merge
<1> QED BY <1>2, <1>5, <1>6

(* A call that begins is under way: no request is None.                        *)
LEMMA BegunIsUnderWay ==
    ASSUME WireInv, SettingsInv, CrudInv, Begin
    PROVE  call' # None /\ attempt' = 1
<1>1. stage = "testing" /\ booking \in Nat
  BY DEF Begin, CrudInv
<1>2. Now.call \in Calling
  BY ScriptsAreOrdered DEF CrudInv, Ordered, Op, Now
<1>3. \E op \in {"create", "get", "list", "put", "patch", "delete"},
         data \in {original, None, Dump(Given)} \cup UpdatePayload(test) :
           call' = Request(op, data) /\ attempt' = 1
  BY <1>2 DEF Begin, Calls, Calling
<1>4. Dump(Given) \in UNION {[F -> Value] : F \in SUBSET Field}
  <2>1. PICK sent : sent = Dump(Given)
    OBVIOUS
  <2>2. /\ sent = [f \in DOMAIN sent |-> sent[f]]
        /\ DOMAIN sent \subseteq DOMAIN Given /\ \A f \in DOMAIN sent : sent[f] = Given[f]
    BY <2>1 DEF Dump
  <2>3. DOMAIN Given \subseteq Field
    BY DEF Given, Field
  <2>4. \A f \in DOMAIN Given : Given[f] \in Value
    <3>1. Filler(0) \in Value /\ 9999 \in Value
      BY DEF Filler, Value, Texts
    <3>2. test # "patch_needs" => Given["depositpaid"] = FALSE
      BY GivenIs
    <3>3. FALSE \in Value
      <4>1. FALSE \in BOOLEAN
        OBVIOUS
      <4> QED BY <4>1 DEF Value
    <3>4. test # "patch_needs" => Given["depositpaid"] \in Value
      BY <3>2, <3>3
    <3> QED BY <3>1, <3>4, GivenIs
  <2>5. sent \in [DOMAIN sent -> Value] /\ DOMAIN sent \in SUBSET Field
    BY <2>2, <2>3, <2>4
  <2> QED BY <2>1, <2>5
<1>5. \A b \in Booked : b \in UNION {[F -> Value] : F \in SUBSET Field}
  <2>1. Booked \subseteq [Field -> Value]
    BY DEF Booked, Field, Value
  <2> QED BY <2>1
<1>6. original \in Booked /\ \A p \in UpdatePayload(test) : p \in Booked
  BY <1>1, UpdatePayloadIsValid DEF WireInv, Valid
<1>7. ASSUME NEW op \in {"create", "get", "list", "put", "patch", "delete"},
             NEW data \in {original, None, Dump(Given)} \cup UpdatePayload(test)
      PROVE  Request(op, data) \in Requests
  <2>1. data \in {None} \cup UNION {[F -> Value] : F \in SUBSET Field}
    BY <1>4, <1>5, <1>6
  <2> QED BY <1>1, <2>1 DEF Request, Requests
<1> QED BY <1>3, <1>7, RequestAssumption

(* What a request makes of the test's booking on a correct server.             *)
LEMMA EffectOnBooking ==
    ASSUME CrudInv, defect.kind = "none", step > 1, NEW r, Sound(r),
           r.op # "create" => r.id = booking
    PROVE  Effect(r)[booking] = IF r.op = "create" \/ server[booking] = Gone \/ Refused(r)
                                THEN server[booking] ELSE Correct(r, server[booking])
<1>1. booking \in 1 .. Len(server) /\ server \in Seq(Entry)
  BY DEF CrudInv
<1>2. Kept(r, server[booking]) = Correct(r, server[booking])
  BY DEF Kept
<1> QED BY <1>1, <1>2, EffectSteps

(* Once a PUT or a PATCH has arrived, the booking is what the test wants.      *)
LEMMA UpdateMakesWanted ==
    ASSUME CrudInv, defect.kind = "none", step > 1, NEW r, Sound(r), r.id = booking, ~Refused(r),
           r.op = "put" => r.data = wanted,
           r.op = "patch" => wanted = Merge(original, Dump(Given)),
           r.op \in {"put", "patch"}, server[booking] \in {wanted, original},
           wanted # Gone, original # Gone
    PROVE  Effect(r)[booking] = wanted
<1>1. Effect(r)[booking] = Correct(r, server[booking])
  BY EffectOnBooking
<1>2. CASE r.op = "put"
  BY <1>1, <1>2 DEF Correct
<1>3. CASE r.op = "patch"
  BY <1>1, <1>3, PatchedTwice DEF Correct, Sound
<1> QED BY <1>2, <1>3

(* How the calls made so far bound the call that the test is at.               *)
LEMMA OrderOfCalls ==
    ASSUME CrudInv
    PROVE  /\ Now.call = Op(test, step) /\ Now.call \in Calling
           /\ Now.call = "create" <=> step = 1
           /\ call # None => Begun(Now.call)
           /\ Begun("delete") => Now.call \in {"delete", "absent", "repeat"}
           /\ Now.call \in {"absent", "repeat"} => Begun("delete")
           /\ call = None /\ Now.call \in {"put", "patch"} => ~Begun("put") /\ ~Begun("patch")
           /\ call = None /\ Now.call = "delete" => ~Begun("delete")
           /\ step = 1 => ~Begun("put") /\ ~Begun("patch")
<1>1. PICK len \in 2 .. 6 : len = Len(Script[test]) /\ Ordered(test, len)
  BY ScriptsAreOrdered DEF CrudInv
<1>2. step \in 1 .. len /\ Now.call = Op(test, step)
  BY <1>1 DEF CrudInv, Op, Now
<1>3. Now.call \in Calling /\ (Now.call = "create" <=> step = 1)
  BY <1>1, <1>2 DEF Ordered
<1>4. call # None => Begun(Now.call)
  BY <1>2 DEF Begun, Done
<1>5. ASSUME NEW op, Begun(op)
      PROVE  Now.call = op \/ \E k \in 1 .. len : k < step /\ Op(test, k) = op
  BY <1>2, <1>5 DEF Begun, Done
<1>6. ASSUME NEW op, Begun(op), call = None
      PROVE  \E k \in 1 .. len : k < step /\ Op(test, k) = op
  BY <1>2, <1>6 DEF Begun, Done
<1>7. Begun("delete") => Now.call \in {"delete", "absent", "repeat"}
  BY <1>1, <1>2, <1>5 DEF Ordered
<1>8. Now.call \in {"absent", "repeat"} => Begun("delete")
  <2> SUFFICES ASSUME Now.call \in {"absent", "repeat"} PROVE Begun("delete")
    OBVIOUS
  <2>1. step > 1
    BY <1>2, <1>3
  <2>2. PICK k \in 1 .. len : k = step - 1
    BY <1>2, <2>1
  <2>3. k < step /\ k + 1 = step /\ k \in 1 .. Done
    BY <1>2, <2>2 DEF Done
  <2>4. Op(test, k) = "delete"
    BY <1>1, <1>2, <2>3 DEF Ordered
  <2> QED BY <2>3, <2>4 DEF Begun
<1>9. call = None /\ Now.call \in {"put", "patch"} => ~Begun("put") /\ ~Begun("patch")
  BY <1>1, <1>2, <1>6 DEF Ordered
<1>10. call = None /\ Now.call = "delete" => ~Begun("delete")
  BY <1>1, <1>2, <1>6 DEF Ordered
<1>11. step = 1 => ~Begun("put") /\ ~Begun("patch")
  BY <1>1, <1>3, <1>5
<1> QED BY <1>2, <1>3, <1>4, <1>7, <1>8, <1>9, <1>10, <1>11

(* A request under way has one of the six methods of BookingClient.            *)
LEMMA CallsAre ==
    ASSUME CrudInv, call # None
    PROVE  call.op \in {"create", "get", "list", "put", "patch", "delete"}
<1>1. Asks(call)
  BY DEF CrudInv
<1>2. Now.call \in Calling
  BY OrderOfCalls
<1> QED BY <1>1, <1>2 DEF Asks, Method, Calling

LEMMA OriginalIsHeld ==
    ASSUME WireInv, stage \in {"testing", "over"}
    PROVE  original \in Held
BY DEF WireInv, Valid, Labelled, Held

(* A call does to the booking of its test what the test wants it to.           *)
LEMMA CallMakesStory ==
    ASSUME WireInv, CrudInv, StoryInv, stage = "testing", call # None, step > 1,
           defect.kind = "none"
    PROVE  /\ Now.call \in {"get", "list", "clean"} =>
                 server[booking] = wanted /\ Effect(call)[booking] = wanted
           /\ Now.call \in {"put", "patch"} =>
                 /\ server[booking] \in {wanted, original}
                 /\ Effect(call)[booking] = IF Refused(call) THEN server[booking] ELSE wanted
           /\ Now.call = "delete" =>
                 Effect(call)[booking] = IF Refused(call) THEN server[booking] ELSE Gone
           /\ Now.call \in {"absent", "repeat"} => Effect(call)[booking] = Gone
<1>1. /\ Sound(call) /\ Asks(call) /\ Story(server[booking]) /\ wanted \in Held
      /\ Begun("patch") => wanted = Merge(original, Dump(Given))
  BY DEF WireInv, CrudInv, StoryInv
<1>2. Now.call \in Calling /\ Now.call # "create" /\ Begun(Now.call)
  BY OrderOfCalls
<1>3. call.op = Method(Now.call) /\ call.id = booking
  BY <1>1 DEF Asks
<1>4. wanted # Gone /\ original # Gone
  BY <1>1, OriginalIsHeld, HeldIsBooking
<1>5. CASE Now.call \in {"get", "list", "clean"}
  <2>1. call.op \in {"get", "list"} /\ server[booking] = wanted
    BY <1>1, <1>3, <1>5 DEF Method, Story
  <2> QED BY <1>1, <1>3, <1>4, <1>5, <2>1, EffectOnBooking DEF Correct
<1>6. CASE Now.call \in {"put", "patch"}
  <2>1. call.op = Now.call /\ server[booking] \in {wanted, original}
    BY <1>1, <1>3, <1>6 DEF Method, Story
  <2>2. call.op = "put" => call.data = wanted
    BY <1>1 DEF Asks
  <2>3. CASE Refused(call)
    BY <1>1, <1>3, <1>6, <2>1, <2>3, EffectOnBooking
  <2>4. CASE ~Refused(call)
    BY <1>1, <1>2, <1>3, <1>4, <1>6, <2>1, <2>2, <2>4, UpdateMakesWanted
  <2> QED BY <2>3, <2>4
<1>7. CASE Now.call = "delete"
  <2>1. call.op = "delete"
    BY <1>3, <1>7 DEF Method
  <2> QED BY <1>1, <1>3, <1>7, <2>1, EffectOnBooking DEF Correct
<1>8. CASE Now.call \in {"absent", "repeat"}
  <2>1. server[booking] = Gone
    BY <1>1, <1>8 DEF Story
  <2> QED BY <1>1, <1>8, <2>1, GoneIsForever
<1> QED BY <1>2, <1>5, <1>6, <1>7, <1>8 DEF Calling

(* What the test does not accept of a correct server's answers is excused.     *)
LEMMA AnswerIsFair ==
    ASSUME WireInv, SettingsInv, CrudInv, StoryInv, stage = "testing", call # None,
           defect.kind = "none", NEW a \in Replies, Judge(a) # "ok",
           NEW c, c = [error |-> Judge(a), call |-> Now.call, status |-> a.status,
                       attempt |-> attempt]
    PROVE  Excused(c)
<1>0. c.error = Judge(a) /\ c.call = Now.call /\ c.status = a.status /\ c.attempt = attempt
  OBVIOUS
<1>1. /\ Sound(call) /\ Asks(call) /\ wanted \in Held /\ server \in Seq(Entry)
      /\ ~Begun("put") /\ ~Begun("patch") => wanted = original
      /\ Begun("patch") => wanted = Merge(original, Dump(Given))
      /\ step > 1 => Story(server[booking])
  BY DEF WireInv, CrudInv, StoryInv
<1>2. Now.call \in Calling /\ (Now.call = "create" <=> step = 1) /\ Begun(Now.call)
  BY OrderOfCalls
<1>3. call.op = Method(Now.call) /\ call.id = booking
  BY <1>1 DEF Asks
<1>4. wanted # Gone /\ original # Gone /\ ResponseOK(wanted)
  BY <1>1, OriginalIsHeld, HeldIsBooking
<1>5. ASSUME step > 1
      PROVE  Here(call) <=> server[booking] # Gone
  BY <1>3, <1>5 DEF CrudInv, Here
<1>6. CASE a.status = 500
  BY <1>0, <1>6 DEF Excused
<1>r. CASE a \in Answers(call) /\ Refused(call)
  <2>1. a.status = 403 /\ token = "refused" /\ call.op \in {"put", "patch", "delete"}
    BY <1>r, RefusedAnswer DEF Refused
  <2>2. Now.call \in {"put", "patch", "delete", "repeat"}
    BY <1>2, <1>3, <2>1 DEF Method, Calling
  <2> QED BY <1>0, <2>1, <2>2 DEF Excused
<1> SUFFICES ASSUME a.status # 500, a \in Answers(call), ~Refused(call) PROVE Excused(c)
  BY <1>6, <1>r DEF Replies, Answer
<1>7. CASE Now.call = "create"
  <2>1. call.op = "create" /\ call.data = original /\ wanted = original
    BY <1>1, <1>2, <1>3, <1>7, OrderOfCalls DEF Method, Asks
  <2>2. a.status = 200 /\ a.body = original
    <3>1. Effect(call)[Len(Effect(call))] = Kept(call, original)
      BY <1>1, <2>1, EffectSteps
    <3>2. Kept(call, original) = original
      BY <2>1 DEF Kept, Correct
    <3> QED BY <2>1, <3>1, <3>2, CreateAnswer
  <2>3. Holds(a)
    BY <1>7, <2>1, <2>2 DEF Holds
  <2> QED BY <1>4, <1>7, <2>1, <2>2, <2>3 DEF Judge, RaiseForStatus
<1>8. CASE Now.call = "get"
  <2>1. call.op = "get" /\ server[booking] = wanted /\ Here(call)
    BY <1>1, <1>2, <1>3, <1>4, <1>5, <1>8, CallMakesStory DEF Method, CrudInv
  <2>2. a.status = 200 /\ a.body = wanted
    BY <1>3, <2>1, GetAnswer
  <2>3. Holds(a)
    BY <1>8, <2>2 DEF Holds
  <2> QED BY <1>4, <1>8, <2>2, <2>3 DEF Judge, RaiseForStatus
<1>9. CASE Now.call = "list"
  <2>1. call.op = "list" /\ server[booking] = wanted /\ Here(call)
    BY <1>1, <1>2, <1>3, <1>4, <1>5, <1>9, CallMakesStory DEF Method, CrudInv
  <2>2. a.status = 200 /\ booking \in a.body
    BY <1>3, <1>4, <2>1, ListAnswer DEF Here
  <2>3. Now.same = {}
    <3>1. test = "listed" /\ step = 2
      <4>1. test \in DOMAIN Script /\ step \in 1 .. Len(Script[test])
        BY DEF CrudInv
      <4>2. Op(test, step) = "list"
        BY <1>9, OrderOfCalls
      <4> QED BY <4>1, <4>2, ListsOnly
    <3> QED BY <3>1 DEF Now, Script, Step
  <2>4. Holds(a)
    BY <1>9, <2>2, <2>3 DEF Holds
  <2> QED BY <1>9, <2>2, <2>4 DEF Judge, RaiseForStatus
<1>10. CASE Now.call \in {"put", "patch"}
  <2>1. /\ call.op = Now.call /\ Here(call)
        /\ server[booking] \in {wanted, original} /\ Effect(call)[booking] = wanted
    BY <1>1, <1>2, <1>3, <1>4, <1>5, <1>10, CallMakesStory DEF Method, CrudInv
  <2>2. Kept(call, server[booking]) = wanted
    <3>1. step > 1
      BY <1>2, <1>10 DEF CrudInv
    <3>2. Kept(call, server[booking]) = Correct(call, server[booking])
      BY DEF Kept
    <3> QED BY <1>1, <1>3, <1>4, <1>10, <2>1, <3>1, <3>2, EffectOnBooking
  <2>3. a.status = 200 /\ a.body = wanted
    BY <1>3, <1>10, <2>1, <2>2, UpdateAnswer
  <2>4. CASE Now.call = "put" /\ wanted.firstname = original.firstname
    <3>1. Judge(a) = "assertion"
      BY <1>4, <2>3, <2>4 DEF Judge, RaiseForStatus, Holds
    <3> QED BY <1>0, <2>4, <3>1 DEF Excused
  <2>5. CASE ~(Now.call = "put" /\ wanted.firstname = original.firstname)
    <3>1. Holds(a)
      BY <1>10, <2>3, <2>5 DEF Holds
    <3> QED BY <1>4, <1>10, <2>3, <3>1 DEF Judge, RaiseForStatus
  <2> QED BY <2>4, <2>5
<1>11. CASE Now.call = "delete"
  <2>1. call.op = "delete" /\ a.status \in {201, 404}
    BY <1>3, <1>11, DeleteAnswer DEF Method
  <2>2. a.status = 404 => ~Here(call)
    BY <2>1, DeleteAnswer
  <2>3. CASE a.status = 201
    BY <1>11, <2>3 DEF Judge, RaiseForStatus
  <2>4. CASE a.status = 404
    <3>1. step > 1 /\ server[booking] = Gone
      BY <1>2, <1>5, <1>11, <2>2, <2>4 DEF CrudInv
    <3>2. attempt > 1
      BY <1>1, <1>4, <1>11, <3>1 DEF Story
    <3>3. Judge(a) = "http_error"
      BY <1>11, <2>4 DEF Judge, RaiseForStatus
    <3> QED BY <1>0, <1>11, <2>4, <3>2, <3>3 DEF Excused
  <2> QED BY <2>1, <2>3, <2>4
<1>12. CASE Now.call = "clean"
  <2>1. call.op = "get" /\ server[booking] = wanted /\ Here(call)
    BY <1>1, <1>2, <1>3, <1>4, <1>5, <1>12, CallMakesStory DEF Method, CrudInv
  <2>2. a.status = 200
    BY <2>1, GetAnswer
  <2> QED BY <1>12, <2>2 DEF Judge, BookingExists
<1>13. CASE Now.call = "absent"
  <2>1. call.op = "get" /\ ~Here(call)
    BY <1>1, <1>2, <1>3, <1>5, <1>13 DEF Method, CrudInv, Story
  <2>2. a.status = 404
    BY <2>1, GetAnswer
  <2> QED BY <1>13, <2>2 DEF Judge, BookingExists
<1>14. CASE Now.call = "repeat"
  <2>1. call.op = "delete" /\ ~Here(call)
    BY <1>1, <1>2, <1>3, <1>5, <1>14 DEF Method, CrudInv, Story
  <2>2. a.status = 404
    BY <2>1, DeleteAnswer
  <2> QED BY <1>14, <2>2 DEF Judge
<1> QED BY <1>2, <1>7, <1>8, <1>9, <1>10, <1>11, <1>12, <1>13, <1>14 DEF Calling

LEMMA StoryInit == Init => StoryInv
BY DEF Init, StoryInv

(* A request that arrives late does not disturb the story of the booking.      *)
LEMMA LateKeepsStory ==
    ASSUME WireInv, CrudInv, StoryInv, stage = "testing", step > 1, defect.kind = "none",
           NEW r \in LateCalls
    PROVE  Story(Effect(r)[booking])
<1>1. /\ Sound(r) /\ Story(server[booking]) /\ wanted \in Held
      /\ Begun("patch") => wanted = Merge(original, Dump(Given))
      /\ r.op \in {"create", "put", "patch", "delete"} /\ (r.op # "create" => r.id = booking)
      /\ r.op # "create" => Begun(r.op)
      /\ r.op = "put" => r.data = wanted
      /\ r.op = "delete" /\ Now.call = "delete" => attempt > 1
  BY DEF WireInv, CrudInv, StoryInv
<1>2. wanted # Gone /\ original # Gone
  BY <1>1, OriginalIsHeld, HeldIsBooking
<1>3. Now.call \in Calling /\ Now.call # "create"
      /\ (Begun("delete") => Now.call \in {"delete", "absent", "repeat"})
  BY OrderOfCalls
<1>4. CASE server[booking] = Gone \/ r.op = "create" \/ Refused(r)
  <2>1. Effect(r)[booking] = server[booking]
    BY <1>1, <1>4, EffectOnBooking
  <2> QED BY <1>1, <2>1
<1>5. CASE server[booking] # Gone /\ ~Refused(r) /\ r.op \in {"put", "patch"}
  <2>1. server[booking] \in {wanted, original} /\ Now.call \notin {"absent", "repeat"}
    BY <1>1, <1>3, <1>5 DEF Story, Calling
  <2>2. Effect(r)[booking] = wanted
    BY <1>1, <1>2, <1>5, <2>1, UpdateMakesWanted
  <2> QED BY <2>1, <2>2 DEF Story
<1>6. CASE server[booking] # Gone /\ ~Refused(r) /\ r.op = "delete"
  <2>1. Effect(r)[booking] = Gone
    BY <1>1, <1>6, EffectOnBooking DEF Correct
  <2>2. Now.call = "delete" => call # None
    BY <1>1, <1>6, OrderOfCalls
  <2> QED BY <1>1, <1>3, <1>6, <2>1, <2>2 DEF Story
<1> QED BY <1>1, <1>4, <1>5, <1>6

LEMMA StoryStep ==
    WireInv /\ SettingsInv /\ CrudInv /\ StoryInv /\ [Next]_vars => StoryInv'
<1> SUFFICES ASSUME WireInv, SettingsInv, CrudInv, StoryInv, [Next]_vars, defect'.kind = "none"
             PROVE  StoryInv'
  BY DEF StoryInv
<1>0. PICK len \in 2 .. 6 : len = Len(Script[test]) /\ Ordered(test, len)
  BY ScriptsAreOrdered DEF CrudInv
<1>a. test \in DOMAIN Script /\ step \in 1 .. len /\ Now.call = Op(test, step)
  BY <1>0, OrderOfCalls DEF CrudInv
<1>b. ASSUME defect.kind = "none", UNCHANGED <<wanted, original>>,
             token = "refused" => token' = "refused"
      PROVE  \A c \in causes : Excused(c)'
  BY <1>b DEF StoryInv, Excused
<1>1. CASE Import \/ AuthToken
  <2>1. stage \in {"importing", "authenticating"} /\ stage' # "testing" /\ causes' = causes
    BY <1>1 DEF Import, AuthToken, testVars
  <2>2. causes = {}
    BY <2>1 DEF CrudInv
  <2> QED BY <2>1, <2>2 DEF StoryInv
<1>2. CASE StartTest
  <2>1. /\ stage = "ready" /\ stage' = "testing" /\ original' \in FirstPayload(test')
        /\ wanted' = original' /\ UNCHANGED <<step, causes, call, late>>
    BY <1>2 DEF StartTest
  <2>2. causes = {} /\ step = 1 /\ late = {} /\ call = None
    BY <2>1 DEF WireInv, CrudInv
  <2>l. LateCalls' = {}
    BY <2>1, <2>2 DEF LateCalls
  <2>3. ~Begun("patch")'
    BY <2>1, <2>2 DEF Begun, Done
  <2>4. Valid(original', "create")
    BY <2>1, FirstPayloadIsValid
  <2>5. (wanted \in Held)'
    BY <2>1, <2>4 DEF Valid, Labelled, Held
  <2> QED BY <2>1, <2>2, <2>l, <2>3, <2>5 DEF StoryInv
<1>3. CASE Begin
  <2>1. /\ stage = "testing" /\ call = None
        /\ UNCHANGED <<stage, test, step, original, booking, causes, token, server, late, defect>>
    BY <1>3 DEF Begin
  <2>l. LateCalls' = LateCalls
    BY <2>1 DEF LateCalls
  <2>2. call' # None /\ attempt' = 1
    BY <1>3, BegunIsUnderWay
  <2>3. \/ wanted' = wanted /\ Now.call \notin {"put", "patch"}
        \/ Now.call = "put" /\ wanted' \in UpdatePayload(test)
        \/ Now.call = "patch" /\ wanted' = Merge(wanted, Given)
    BY <1>3 DEF Begin
  <2>4. /\ \A c \in causes : Excused(c)
        /\ wanted \in Held
        /\ ~Begun("put") /\ ~Begun("patch") => wanted = original
        /\ Begun("patch") => wanted = Merge(original, Dump(Given))
        /\ causes # {} => /\ Now.call \in {"clean", "delete"}
                          /\ Op(test, Len(Script[test])) = "delete"
        /\ step > 1 => Story(server[booking])
        /\ \A r \in LateCalls : /\ r.op # "create" => Begun(r.op)
                                /\ r.op = "put" => r.data = wanted
    BY <2>1 DEF StoryInv
  <2>5. Done' = step /\ Done = step - 1
    BY <2>1, <2>2 DEF Done
  <2>6. \A op : Begun(op)' <=> Begun(op) \/ Now.call = op
    BY <1>a, <2>1, <2>5 DEF Begun
  <2>7. wanted' \in Held
    <3>1. CASE wanted' \in UpdatePayload(test)
      BY <3>1, UpdatePayloadIsValid DEF Valid, Labelled, Held
    <3>2. CASE wanted' = Merge(wanted, Given)
      BY <2>4, <3>2, PatchedTwice, PatchKeepsHeld
    <3> QED BY <2>3, <2>4, <3>1, <3>2
  <2>8. (wanted \in Held)'
    BY <2>1, <2>7 DEF Held
  <2>9. Now.call \in {"put", "patch"} => /\ ~Begun("put") /\ ~Begun("patch") /\ wanted = original
                                         /\ causes = {}
    BY <2>1, <2>4, OrderOfCalls
  <2>10. (~Begun("put") /\ ~Begun("patch") => wanted = original)'
    BY <2>1, <2>3, <2>4, <2>6
  <2>11. (Begun("patch") => wanted = Merge(original, Dump(Given)))'
    <3>1. CASE Now.call = "patch"
      <4>1. wanted' = Merge(original, Dump(Given))
        BY <2>3, <2>9, <3>1, PatchedTwice
      <4> QED BY <2>1, <4>1 DEF Given
    <3>2. CASE Now.call = "put"
      BY <2>6, <2>9, <3>2
    <3>3. CASE Now.call \notin {"put", "patch"}
      <4>1. Begun("patch")' => wanted' = Merge(original, Dump(Given))
        BY <2>3, <2>4, <2>6, <3>3
      <4> QED BY <2>1, <4>1 DEF Given
    <3> QED BY <3>1, <3>2, <3>3
  <2>12. (causes # {} => /\ Now.call \in {"clean", "delete"}
                         /\ Op(test, Len(Script[test])) = "delete")'
    BY <2>1, <2>4 DEF Now, Op
  <2>13. (step > 1 => Story(server[booking]))'
    <3>1. Now' = Now
      BY <2>1 DEF Now
    <3> QED BY <2>1, <2>2, <2>3, <2>4, <2>9, <3>1 DEF Story
  <2>14. (\A r \in LateCalls : /\ r.op # "create" => Begun(r.op)
                               /\ r.op = "put" => r.data = wanted
                               /\ r.op = "delete" /\ Now.call = "delete" => attempt > 1)'
    <3>1. \A r \in LateCalls : r.op = "put" => wanted' = wanted
      BY <2>3, <2>4, <2>9
    <3>2. \A r \in LateCalls : ~(r.op = "delete" /\ Now.call = "delete")
      BY <2>1, <2>4, OrderOfCalls
    <3>3. Now' = Now
      BY <2>1 DEF Now
    <3>4. \A r \in LateCalls : r.op # "create" => Begun(r.op)'
      BY <2>4, <2>6
    <3> QED BY <2>1, <2>l, <2>4, <3>1, <3>2, <3>3, <3>4 DEF Begun, Done, Op
  <2>15. (\A c \in causes : Excused(c))'
    <3>1. CASE causes = {}
      BY <2>1, <3>1
    <3>2. CASE causes # {}
      BY <1>b, <2>1, <2>3, <2>4, <3>2
    <3> QED BY <3>1, <3>2
  <2> QED BY <2>8, <2>10, <2>11, <2>12, <2>13, <2>14, <2>15 DEF StoryInv
<1>4. CASE Answered \/ RequestLost \/ AnswerLost \/ RequestLate \/ Broken
  <2>1. /\ call # None /\ server' \in {server, Effect(call)}
        /\ UNCHANGED <<settings, test, original, wanted, token, defect>>
    BY <1>4, CallOutcomes
  <2>2. stage = "testing" /\ Sound(call) /\ Asks(call) /\ attempt \in Nat \ {0}
    BY <2>1 DEF SettingsInv, WireInv, CrudInv
  <2>3. /\ \A c \in causes : Excused(c)
        /\ wanted \in Held
        /\ ~Begun("put") /\ ~Begun("patch") => wanted = original
        /\ Begun("patch") => wanted = Merge(original, Dump(Given))
        /\ causes # {} => /\ Now.call \in {"clean", "delete"} /\ Op(test, len) = "delete"
        /\ step > 1 => Story(server[booking])
        /\ \A r \in LateCalls : /\ r.op # "create" => Begun(r.op)
                                /\ r.op = "put" => r.data = wanted
                                /\ r.op = "delete" /\ Now.call = "delete" => attempt > 1
    BY <1>0, <2>1, <2>2 DEF StoryInv
  <2>4. defect.kind = "none"
    BY <2>1
  <2>5. \A c \in causes : Excused(c)'
    BY <1>b, <2>1, <2>4
  <2>6. ASSUME Failed
        PROVE  /\ \A c \in causes' : Excused(c)'
               /\ call' = None /\ booking' = booking
               /\ \/ stage' = "over"
                  \/ /\ stage' = stage /\ step' = step + 1 /\ step' \in 1 .. len /\ step > 1
                     /\ Now.call = "get" /\ Op(test, step') = "clean"
    <3>1. PICK error, status :
             /\ Fail(error, status)
             /\ \/ error \in Mishaps
                \/ \E a \in Replies : error = Judge(a) /\ status = a.status /\ Judge(a) # "ok"
      BY <2>6 DEF Failed
    <3>2. PICK c : c = [error |-> error, call |-> Now.call, status |-> status,
                        attempt |-> attempt]
      OBVIOUS
    <3>3. Excused(c)
      <4>1. CASE error \in Mishaps
        BY <3>2, <4>1 DEF Mishaps, Excused
      <4>2. CASE \E a \in Replies : error = Judge(a) /\ status = a.status /\ Judge(a) # "ok"
        BY <2>1, <2>2, <2>4, <3>2, <4>2, AnswerIsFair
      <4> QED BY <3>1, <4>1, <4>2
    <3>4. Excused(c)'
      BY <2>1, <3>3 DEF Excused
    <3>5. causes' = causes \cup {c}
      BY <1>0, <1>a, <3>1, <3>2, FailSteps
    <3>6. /\ call' = None /\ booking' = booking
          /\ \/ stage' = "over"
             \/ /\ stage' = stage /\ step' = step + 1 /\ step' \in 1 .. len /\ step > 1
                /\ Now.call = "get" /\ Op(test, step') = "clean"
      BY <1>0, <1>a, <3>1, FailSteps
    <3> QED BY <2>5, <3>4, <3>5, <3>6
  <2>7. ASSUME NEW a \in Replies, Passed(a)
        PROVE  /\ call' = None /\ causes' = causes /\ LateCalls' = LateCalls
               /\ server' = Effect(call) /\ ~Refused(call)
               /\ booking' = IF Now.call = "create" THEN a.id ELSE booking
               /\ stage' = "over" \/ (stage' = stage /\ step' = step + 1 /\ step' \in 1 .. len)
    <3>1. server' = Effect(call) /\ ~Refused(call)
      BY <2>7, AcceptedAnswers DEF Passed
    <3> QED BY <1>0, <1>a, <2>7, <3>1, PassSteps DEF Passed
  <2>8. \A c \in causes' : Excused(c)'
    BY <1>4, <2>5, <2>6, <2>7, CallOutcomes DEF Retried
  <2>9. CASE stage' # "testing"
    BY <2>8, <2>9 DEF StoryInv
  <2>10. CASE stage' = "testing"
    <3>1. \/ Retried
          \/ Failed /\ call' = None /\ step' = step + 1
          \/ \E a \in Replies : Passed(a) /\ call' = None /\ step' = step + 1
      BY <1>4, <2>6, <2>7, <2>10, CallOutcomes
    <3>2. Done = step /\ Done' = step
      BY <1>a, <2>1, <3>1 DEF Done, Retried
    <3>3. \A op : Begun(op)' <=> Begun(op)
      BY <2>1, <3>2 DEF Begun
    <3>4. (wanted \in Held)'
      BY <2>1, <2>3 DEF Held
    <3>5. (~Begun("put") /\ ~Begun("patch") => wanted = original)'
      BY <2>1, <2>3, <3>3
    <3>6. (Begun("patch") => wanted = Merge(original, Dump(Given)))'
      <4>1. Begun("patch")' => wanted' = Merge(original', Dump(Given))
        BY <2>1, <2>3, <3>3
      <4> QED BY <2>1, <4>1 DEF Given
    <3>7. \A r \in LateCalls' : /\ r.op # "create" => Begun(r.op)
                                /\ r.op = "put" => r.data = wanted
      <4>1. LateCalls' \subseteq LateCalls \cup {call}
        BY <1>4, CallOutcomes
      <4>2. CASE call \in LateCalls' /\ call \notin LateCalls
        <5>1. call.op \in {"create", "put", "patch", "delete"}
          BY <1>4, <4>2, CallOutcomes, CallsAre
        <5>2. call.op = Method(Now.call) /\ (call.op = "put" => call.data = wanted)
          BY <2>2 DEF Asks
        <5>3. call.op = Now.call \/ (call.op = "delete" /\ Now.call = "repeat")
          BY <5>1, <5>2 DEF Method
        <5>4. Begun(call.op)
          BY <2>1, <5>3, OrderOfCalls
        <5> QED BY <2>3, <4>1, <5>2, <5>4
      <4> QED BY <2>3, <4>1, <4>2
    <3>8. CASE Retried
      <4>1. /\ call' = call /\ attempt' = attempt + 1 /\ attempt' > 1
            /\ UNCHANGED <<stage, step, booking, causes>>
        BY <2>2, <3>8 DEF Retried
      <4>2. Now' = Now
        BY <2>1, <4>1 DEF Now
      <4>3. (step > 1 => Story(server[booking]))'
        <5>1. ASSUME step > 1
              PROVE  /\ Now.call \in {"get", "list", "clean"} => server'[booking] = wanted
                     /\ Now.call \in {"put", "patch"} => server'[booking] \in {wanted, original}
                     /\ Now.call = "delete" => server'[booking] \in {wanted, Gone}
                     /\ Now.call \in {"absent", "repeat"} => server'[booking] = Gone
          BY <2>1, <2>2, <2>3, <2>4, <5>1, CallMakesStory DEF Story
        <5> QED BY <2>1, <4>1, <4>2, <5>1 DEF Story
      <4>4. (causes # {} => /\ Now.call \in {"clean", "delete"}
                            /\ Op(test, Len(Script[test])) = "delete")'
        BY <1>0, <2>1, <2>3, <4>1, <4>2 DEF Op
      <4>5. (\A r \in LateCalls : /\ r.op # "create" => Begun(r.op)
                                  /\ r.op = "put" => r.data = wanted
                                  /\ r.op = "delete" /\ Now.call = "delete" => attempt > 1)'
        BY <2>1, <3>3, <3>7, <4>1
      <4> QED BY <2>8, <3>4, <3>5, <3>6, <4>3, <4>4, <4>5 DEF StoryInv
    <3>9. CASE Failed /\ call' = None /\ step' = step + 1
      <4>1. /\ booking' = booking /\ step > 1 /\ step' \in 1 .. len
            /\ Now.call = "get" /\ Op(test, step') = "clean"
        BY <2>6, <2>10, <3>9
      <4>2. Now'.call = "clean" /\ Op(test, len) = "delete"
        <5>1. Now'.call = Op(test, step')
          BY <2>1 DEF Now, Op
        <5> QED BY <1>0, <4>1, <5>1 DEF Ordered
      <4>3. (step > 1 => Story(server[booking]))'
        <5>1. server'[booking] = wanted
          BY <2>1, <2>2, <2>4, <4>1, CallMakesStory
        <5> QED BY <2>1, <4>1, <4>2, <5>1 DEF Story
      <4>4. (causes # {} => /\ Now.call \in {"clean", "delete"}
                            /\ Op(test, Len(Script[test])) = "delete")'
        BY <1>0, <2>1, <4>2 DEF Op
      <4>5. (\A r \in LateCalls : /\ r.op # "create" => Begun(r.op)
                                  /\ r.op = "put" => r.data = wanted
                                  /\ r.op = "delete" /\ Now.call = "delete" => attempt > 1)'
        BY <2>1, <3>3, <3>7, <4>2
      <4> QED BY <2>8, <3>4, <3>5, <3>6, <4>3, <4>4, <4>5 DEF StoryInv
    <3>10. CASE \E a \in Replies : Passed(a) /\ call' = None /\ step' = step + 1
      <4>1. PICK a \in Replies : Passed(a) /\ call' = None /\ step' = step + 1
        BY <3>10
      <4>2. /\ causes' = causes /\ LateCalls' = LateCalls /\ step' \in 1 .. len
            /\ server' = Effect(call) /\ ~Refused(call)
            /\ booking' = IF Now.call = "create" THEN a.id ELSE booking
        BY <2>7, <2>10, <4>1
      <4>3. Now'.call = Op(test, step')
        BY <2>1 DEF Now, Op
      <4>4. /\ Now.call = "delete" <=> Now'.call \in {"absent", "repeat"}
            /\ Now.call \notin {"absent", "repeat"}
            /\ Now.call = "clean" => Now'.call = "delete"
        <5>1. step < step' /\ step + 1 = step' /\ step # len
          BY <1>a, <4>1, <4>2
        <5> QED BY <1>0, <1>a, <4>2, <4>3, <5>1 DEF Ordered
      <4>5. server'[booking'] = IF Now.call = "delete" THEN Gone ELSE wanted
        <5>1. CASE step = 1
          <6>1. Now.call = "create" /\ wanted = original
            BY <2>3, <5>1, OrderOfCalls
          <6>2. call.op = "create" /\ call.data = original
            BY <2>2, <6>1 DEF Asks, Method
          <6>3. a \in Answers(call)
            BY <4>1, AcceptedAnswers DEF Passed
          <6>4. booking' = Len(Effect(call))
            BY <4>2, <6>1, <6>2, <6>3, CreateAnswer
          <6>5. Effect(call)[Len(Effect(call))] = Kept(call, original)
            BY <2>2, <6>2, EffectSteps DEF CrudInv
          <6>6. Kept(call, original) = original
            BY <2>4, <6>2 DEF Kept, Correct
          <6> QED BY <4>2, <6>1, <6>4, <6>5, <6>6
        <5>2. CASE step > 1
          <6>1. Now.call \in Calling /\ Now.call # "create"
            BY <5>2, OrderOfCalls
          <6> QED BY <2>1, <2>2, <2>4, <4>2, <4>4, <5>2, <6>1, CallMakesStory DEF Calling
        <5> QED BY <1>a, <5>1, <5>2
      <4>6. (step > 1 => Story(server[booking]))'
        BY <2>1, <4>4, <4>5 DEF Story
      <4>7. (causes # {} => /\ Now.call \in {"clean", "delete"}
                            /\ Op(test, Len(Script[test])) = "delete")'
        <5>1. ASSUME causes # {} PROVE Now'.call = "delete" /\ Op(test, len) = "delete"
          <6>1. step < len
            BY <1>a, <4>1, <4>2
          <6>2. Now.call # "delete"
            BY <1>0, <1>a, <2>3, <5>1, <6>1 DEF Ordered
          <6> QED BY <2>3, <4>4, <5>1, <6>2
        <5> QED BY <1>0, <2>1, <4>2, <5>1 DEF Op
      <4>8. \A r \in LateCalls : r.op = "delete" => Now'.call # "delete"
        <5> SUFFICES ASSUME NEW r \in LateCalls, r.op = "delete" PROVE Now'.call # "delete"
          OBVIOUS
        <5>1. Now.call = "delete"
          BY <2>3, <4>4, OrderOfCalls
        <5> QED BY <4>4, <5>1
      <4>9. (\A r \in LateCalls : /\ r.op # "create" => Begun(r.op)
                                  /\ r.op = "put" => r.data = wanted
                                  /\ r.op = "delete" /\ Now.call = "delete" => attempt > 1)'
        BY <2>1, <3>3, <3>7, <4>2, <4>8
      <4> QED BY <2>8, <3>4, <3>5, <3>6, <4>6, <4>7, <4>9 DEF StoryInv
    <3> QED BY <3>1, <3>8, <3>9, <3>10
  <2> QED BY <2>9, <2>10
<1>5. CASE Arrive
  <2>1. PICK r \in LateCalls : server' = Effect(r)
    BY <1>5, LateArrives
  <2>2. /\ UNCHANGED <<stage, test, step, call, attempt, original, wanted, booking, causes, token,
                       defect>>
        /\ LateCalls' \subseteq LateCalls
    BY <1>5, LateArrives
  <2>3. \A c \in causes' : Excused(c)'
    BY <1>b, <2>2
  <2>4. CASE stage = "testing"
    <3>1. Now' = Now /\ Done' = Done
      BY <2>2 DEF Now, Done
    <3>2. step > 1 => Story(Effect(r)[booking])
      BY <2>2, <2>4, LateKeepsStory
    <3>3. (step > 1 => Story(server[booking]))'
      BY <2>1, <2>2, <3>1, <3>2 DEF Story
    <3>4. \A op : Begun(op)' <=> Begun(op)
      BY <2>2, <3>1 DEF Begun
    <3>5. Held' = Held /\ Given' = Given
      BY <2>2 DEF Held, Given
    <3>6. (wanted \in Held)' /\ (~Begun("put") /\ ~Begun("patch") => wanted = original)'
      BY <2>2, <2>4, <3>4, <3>5 DEF StoryInv
    <3>7. (Begun("patch") => wanted = Merge(original, Dump(Given)))'
      <4>1. Begun("patch")' => wanted' = Merge(original', Dump(Given'))
        BY <2>2, <2>4, <3>4, <3>5 DEF StoryInv
      <4> QED BY <4>1
    <3>8. (causes # {} => /\ Now.call \in {"clean", "delete"}
                          /\ Op(test, Len(Script[test])) = "delete")'
      BY <2>2, <2>4, <3>1 DEF StoryInv, Op
    <3>9. (\A x \in LateCalls : /\ x.op # "create" => Begun(x.op)
                                /\ x.op = "put" => x.data = wanted
                                /\ x.op = "delete" /\ Now.call = "delete" => attempt > 1)'
      BY <2>1, <2>2, <2>4, <3>1, <3>4 DEF StoryInv
    <3> QED BY <2>3, <3>3, <3>6, <3>7, <3>8, <3>9 DEF StoryInv
  <2>5. CASE stage # "testing"
    BY <2>2, <2>3, <2>5 DEF StoryInv
  <2> QED BY <2>4, <2>5
<1>6. CASE Expire \/ UNCHANGED vars
  <2>1. /\ UNCHANGED <<stage, test, step, call, attempt, original, wanted, booking, causes,
                       server, late, defect>>
        /\ token = "refused" => token' = "refused"
    BY <1>6 DEF vars, testVars, Expire
  <2>2. \A c \in causes : Excused(c)'
    BY <1>b, <2>1
  <2>3. LateCalls' = LateCalls
    BY <2>1 DEF LateCalls
  <2> QED BY <2>1, <2>2, <2>3 DEF StoryInv, Held, Story, Begun, Done, Given, Now, Op
<1> QED BY <1>1, <1>2, <1>3, <1>4, <1>5, <1>6 DEF Next

LEMMA StoryInvariance == Spec => []StoryInv
<1>1. Init => StoryInv
  BY StoryInit
<1>2. WireInv /\ SettingsInv /\ CrudInv /\ StoryInv /\ [Next]_vars => StoryInv'
  BY StoryStep
<1> QED BY <1>1, <1>2, WireInvariance, SettingsInvariance, CrudInvariance, PTL DEF Spec

(* "Zero False Positives" (README): whatever is lost, repeated or late, and    *)
(* however often the settings let a call be retried, a test fails against a    *)
(* correct server only for what Excused lists.                                 *)
THEOREM FailureAlwaysExplained == Spec => []FailureIsExplained
<1>1. StoryInv => FailureIsExplained
  BY DEF StoryInv, FailureIsExplained
<1> QED BY <1>1, StoryInvariance, PTL
=============================================================================
