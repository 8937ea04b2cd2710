# Verification of the API testing framework

TLA+ models of this repository: the two circuit breakers, the retrying HTTP client over each
of them, the health-check election of pytest-xdist workers, the life of the bookings a worker
creates, and the CRUD tests themselves, from the settings they start with to their verdict on
a server that may be right or wrong. TLC checks them on small instances; TLAPS proves the main
safety results for every value of the constants. `PROJECT.json` maps each definition to the
lines it models and lists the runs, the mutants that show each property can fail, the hazards and the theorems.

    tlc -config RedisSafety.cfg MCRedisBreaker.tla     # one run
    tlapm RedisBreaker_proof.tla                       # one set of proofs

## The system

| Component | Code | State | Operations | What is hard |
|---|---|---|---|---|
| In-memory breaker | `src/utils/circuit_breaker_redis.py` | `_state`, `_failure_count`, `_open_since` under a lock | `__enter__`, `__exit__`, `reset` | results that come in after the circuit changed (stragglers) |
| Redis breaker | same file | a Redis hash `state`, `failure_count`, `open_since`, shared by all workers; `_redis_available` per worker | the same, each a sequence of round trips and three Lua scripts | interleaving between round trips, lost answers, Redis gone or emptied, killed workers |
| Retry policy | `src/client/base_client.py` | none | `_parse_retry_after`, `_RetryAfterWait`, exponential backoff | boundaries: zero, past dates, caps |
| API client | `src/client/base_client.py` | per request: attempt, sleep; the breaker | `request`, `_execute_single_request` | what counts as a failure and where it is raised; another request changing the breaker during a sleep |
| Health-check election | `conftest.py` | a lock file, a result file, per worker a place in the protocol | `health_check`, `_run_…`, `_read_…`, `pytest_sessionfinish` | several processes, files unlinked under others, kills, leftovers |
| Booking client, `created_booking`, orphan registry, sweep, leak file | `src/client/booking_client.py`, `conftest.py`, tests | the server's bookings, the registry (a list), the leak file | create, exists, delete, register, deregister, sweep, write | calls that fail after they took effect, failures in teardown, kills |
| Tokens | `conftest.py` | session token, teardown token with its age | `auth_token`, `_get_cached_teardown_token` | a token that is fresh when taken and expired when used |
| Settings | `config/settings.py` | read once, at import | validators, bounds, derived helpers | two copies of a security rule; blank variables |
| Booking models, data factory | `src/models/booking.py`, `src/utils/data_factory.py` | none | validate, dump, generate | lengths at their limits, labels that must survive a cut |
| CRUD tests | `tests/functional/test_bookings_crud.py` | per test: its payloads, the id it was told | create, get, list, put, patch, delete, exists, assert, clean up | a retry that repeats what already happened; what an assertion can and cannot see |
| Logging | `src/utils/logger.py` | none that changes | formatting, masking | not modelled |
| Load test, CI, Docker, k8s | `tests/performance`, `.github`, `k8s` | – | – | configuration |

How they interact: the import of the settings ends the process or lets it start; a session
starts with `shared_circuit_breaker` (one of the two breakers), `health_check` probes through it, `auth_token` logs in through it, and each test makes
requests through a fresh `ApiClient` over it. Teardown and sweep use `DirectApiClient`, whose
breaker never refuses. Workers of one machine share the two health-check files; all workers
share the Redis hash; registry and tokens are per process. The watchdog (`pytest.ini`,
`timeout_method = thread`) may end a process at any line.

## Modules

| Module | What it is |
|---|---|
| `BreakerContract` | abstract: what a breaker promises, in terms of a streak of failures and the time of the last one; no states |
| `PoolContract` | abstract: what the shared breaker promises a pool of workers; no hash, no round trips |
| `InMemoryBreaker` | `_InMemoryCircuitBreaker`; implements `BreakerContract` |
| `RedisBreaker` | `RedisCircuitBreaker`; implements `PoolContract` |
| `RetryPolicy` | the delay between two attempts, as operators |
| `ApiClient` | `ApiClient.request` over the in-memory breaker; extends `InMemoryBreaker` and `RetryPolicy` |
| `SharedClient` | `ApiClient.request` of a pool of workers over the Redis breaker; extends `RedisBreaker` and `RetryPolicy` |
| `ElectionContract` | abstract: by what each worker's decision is justified; no files, no locks |
| `HealthCheck` | the election; implements `ElectionContract` |
| `BookingSession` | one worker's bookings and tokens |
| `Settings` | what the settings accept and what follows from them, as operators |
| `BookingContract` | the pydantic models and the data factory, as operators |
| `BookingCrud` | one CRUD test, attempt by attempt, against a server; extends `Settings` and `BookingContract` |
| `MC…` | instances for TLC: symmetry, the specification without faults, the header values |
| `…_proof` | theorems about the module of that name |

**InMemoryBreaker.** The methods hold the lock for their whole body, so each is one action;
`__enter__` is three (`EnterProbe`, `EnterRefused`, `EnterFreely`), `__exit__` two
(`OnSuccess`, `OnFailure`). Between them a thread is "inside", for as long as it likes. The
clock is `now`, advanced by `Tick`.

**RedisBreaker.** One action per round trip. `__enter__` is `EnterRead` (HGET of the state),
`EnterTryHalfOpen` (the script) and `EnterRefuse` (HGET of `open_since` for the message);
`__exit__` is `ExitSuccess` then `ExitReset`, or `ExitFailure` (the time is read),
`ExitRecordFailure` (the script) and `ExitReadState`. `since` remembers the earliest time the
worker may have read, so that scripts run with stale time stamps. The scripts are operators
on the hash; `ReplyLost` runs one and loses its answer. `RedisError` is what a worker gets
when Redis is down: neither method catches it. `Construct` fixes `fallback` for the life of
the process; `Crash` starts it anew. An absent hash field is `Absent`. `Init` is any hash that
satisfies `FieldsAgree`: the keys live for 24 h, and a Redis that outlives a run hands its
hash to the next one.

**ApiClient.** An attempt is `Send` (or `FailFast`), then one of `Answer`, `TransientHttp`,
`TransportError`, `OtherError`, each of which contains the breaker's own action; then a sleep
and `Wake`. `badRun` and `lastBad` are history variables: what the wire saw, independent of
the breaker. Time is in whole seconds. The wording of a header is reduced to its form
(absent, seconds, date, garbage) and its number.

**SharedClient.** Each step of a request is the breaker's own round trip, conjoined with what
the retry loop does next: `Send` for the way in, `Answer`, `BadAnswer`, `Report` and `Leave`
for the way out, `Retry` and `Wake` around a sleep, `FailFast` on a refusal, `Break` and
`BreakLate` for an error of Redis, which is not transient and ends the request. `due` is when
the attempt under way is over at the latest (`AttemptTime`: connect, read and socket
timeouts) or the sleep ends. `bad` is a history variable, the wire's account of the pool's bad
answers since the last reset; it is kept without looking at the hash.

**HealthCheck.** Locks are on inodes, as with `flock`: unlinking the path lets the next worker
lock a new file while another still holds the old one. `Truncate` and `Write` are the two
halves of `write_text`. `pytest_sessionfinish` runs in every session and unlinks both files
(`UnlinkLock`, `UnlinkResult`), whether or not the session took part in the election: a worker
that decided goes there after its tests, and `Quit` sends one there without a verdict, from any
place (a worker that is given no test, `--collect-only`, a failed collection, an exception or
interrupt in the fixture). `Crash` may strike anywhere, releases the lock and unlinks nothing.

**BookingSession.** One worker, one test at a time. A call of the API client is one step that
takes up to `CallTime` and states everything it may leave behind: `Create` may leave up to
`MaxAttempts` bookings and return the last or raise; `DeleteRaises` may have deleted.
`Style` is how a test disposes of its booking: the fixture, delete-and-deregister in a row, or
in a `finally`. The registry counts how often an id is in the list. `returned` and `forgotten`
are history variables.

**BookingCrud.** A session imports its settings (`Import`), gets its token (`AuthToken`, which
meets `set_auth_token`'s own check) and runs one test. A pre-issued token is used unseen and may
be bad; a good one may lose its server's trust at any time (`Expire`), and is never renewed:
`Refused` answers 403 to every PUT, PATCH and DELETE from then on. `Script` is the table of tests: the
calls each makes, in order, and the fields of each answer that it compares; a `clean` step is
the `finally` of a test that disposes of its booking. `Begin` makes the call, an attempt is
`Answered`, `RequestLost`, `AnswerLost` or `RequestLate` (given up by the client, delivered by
`Arrive` at any later time), or ends in one of the exceptions of `Broken`. `Judge` is what
`BookingClient` and the assertions make of an answer; `Conclude`, `Fail` and `GoOn` move the
test on. The server is external: a map from ids to bookings with one `defect`, or none. A defect is a
kind (`drops`, `truncates`, `nulls`, `merges`, `forgets`, `erases`, `keeps`, `defers`, `hides`,
`crashes`) and, for the first six, the field it strikes; `Kept` is what such a server stores.
Requests in `late` carry the step and the attempt they were made in, so that two of the same
content stay two. `causes` collects the exceptions the test met.

**BookingContract.** A text is its stem, the label written into it (a uuid4 fragment or the
run id) and its length; `Slice` loses a label at the end of what it cuts. A date is a number of
days from today. What Faker draws is any member of a set.

## Properties, by hazard

* *Late results.* `StateAgreesWithCount`, `HalfOpenIsRested`, and the refinement
  `ImplementsContract`: a caller is refused exactly when a full streak stands and its last
  failure is younger than the recovery period, whatever order results come in.
* *Two round trips.* `FieldsAgree` relates the three fields of the hash through every
  interleaving, lost answer, eviction and restart; `OpenBlocks` and `RefusalIsJustified` say
  that neither an admission nor a refusal rests on news the hash no longer supports.
  `Recovers`: the shared circuit closes for good after an outage.
  The refinement `ImplementsPool` puts them together and says what distribution costs: nobody
  gets in while the circuit is blocked; a refusal may rest on the time the worker asked; each
  reported failure counts once, stamped with its own time, though it may arrive late; a success
  clears the count only if it found the circuit tripped or recovering; and the loss of the hash
  forgets it.
* *A pool of clients.* `PoolCountsFailures`: "the circuit trips correctly at exactly N
  cumulative failures across the entire worker pool", judged by the wire, in every order of
  retries, lost answers, kills and outages of Redis. What a reset wipes, a racing one included,
  is forgiven: the count is of the failures since then. `RequestWithinBudget`: no request is out
  or asleep past its attempts and the sleeps between them. `SharedRequestEnds`.
* *What counts as a failure.* `UpstreamIsSpared` and `FailFastIsJustified` judge breaker and
  client together by the wire. `InsideOnlyWhileTrying`: no path out of `request()` leaves the
  breaker entered. `RequestEnds`.
* *Files shared by processes.* `OneLeaderAtATime`, `FollowersFindResult`,
  `FollowersHonourFailure`, `EveryWorkerDecides`. The refinement `ImplementsElection` says what
  each decision rests on: whoever probed goes by its own probe; a follower runs only on a probe
  of this run that did not fail, and aborts only on one that failed, after a session ended, or
  when a second leader writes the file anew. A worker that is gone (killed, or ended without
  a verdict) excuses followers alone. `FollowersHonourFailure` and the refinement hold when
  sessions that did decide end under the others, but not when one that did not decide does
  (see *Observed*): `Gone` names it as an exception.
* *Cleanup.* `NothingSlipsThrough`, `RegisteredOnce`, `TeardownIsAuthorised`,
  `EveryBookingSettles`.

* *Tests as witnesses.* `FailureIsExplained`: against a correct server a test fails for the
  network, the SLO, the breaker, a 500, the 403 that answers a token which is not good, the 404
  that answers the retry of a DELETE whose first answer was lost, or a first name drawn twice,
  and for nothing else. `PassedMeansHeld`: a pass rules out each defect that the test is there
  to catch on a field it compares (`Guards`), if its payloads tell that defect from a correct
  server (`Shows`: a field that is merged from the old booking must differ in the new one).
  Some docstrings promise more than their tests compare (see *Observed*). `AbsenceIsReal`: a test that
  disposes of its booking and passes leaves none, even one that deletes it twice.
* *Data.* `Traceable` (whatever is left on the server carries its labels), `WireMeetsContract`
  (no test's payload is refused by its own model, nor what PATCHes make of it).
* *Configuration.* `TokenIsNeverRefused` (two copies of the https rule), `VerificationIsForced`
  (a blank `SSL_CA_BUNDLE`, as in `.env.example`, does not turn verification off).

Each state machine has one type invariant; in `ApiClient`, `SharedClient` and `BookingCrud` it
also carries the bound on attempts.

## Runs

| Run | Instance | Shows |
|---|---|---|
| `InMemoryBreaker` | 3 threads, threshold 2, recovery 2, clock to 5 | invariants and refinement |
| `RedisSafety` | 3 workers (symmetric), threshold 2, recovery 2, faults until 3, clock to 5 | the hash, admissions and refusals, and the refinement |
| `SharedClient` | 2 workers, 2 attempts, threshold 2, recovery 1, no hint or one above the cap, faults until 2, clock to 4 | the pool over Redis: counting, budget, `SharedRequestEnds`, `Recovers` |
| `ApiClient` | 2 requests, 3 attempts, threshold 3, headers −1, 0, 2, 9 | the client's invariants, action properties and `RequestEnds` |
| `HealthCheck` | 3 workers, any leftover result | the election, with kills and sessions that end at any point, and the refinement |
| `BookingSession` | 3 bookings, 2 attempts, TTL 1, token life 3, clock to 6 | the cleanup, with kills |
| `BookingCrud` | 12 tests, 26 environments (a usual and a local one, and each with one variable out of bounds), no defect or one of 10 kinds, those of a field on every field, 3 draws, 3 or 1 attempts, 2 late requests | the tests, their data, their settings, their token |
| `RedisSingleProbe` | 2 workers, no faults | *violated:* two recovery probes at once |
| `RedisLoss` | 2 workers | *violated:* losing Redis after start-up is not tolerated |
| `ApiClientExhaustion` | 2 requests | *violated:* exhaustion may surface as a raw `requests` exception |
| `HealthCheckHits` | 2 workers, nobody killed | *violated:* a late worker leads again and probes again |
| `BookingLeak` | nobody killed | *violated:* a POST that took effect and raised leaves an untracked booking |

The violated properties quote the document or comment they come from; `PROJECT.json` gives
line and reason under `findings`.

**Why these bounds.** A straggler needs one other thread to trip the circuit and one to
probe it: three threads, and a clock long enough for two recovery periods. In Redis, any
race is between two round trips of one worker and one step of another; the third worker
makes the other's step part of a race of its own. Two attempts show a retry; three, with
a threshold of three, let two requests trip the breaker during each other's sleep. Three
workers are a leader, a follower and a late comer. Three bookings with two attempts each
cover a duplicate creation, followed by a second test whose teardown meets an aged token;
the clock outlasts both the TTL and a token's life. Two workers over Redis are enough for a
request that sleeps while the other trips or resets the circuit; their first attempts alone
reach the threshold. In `BookingCrud` the three draws (`Draw`) make payloads that differ in every field, in all but
the first name, and in none, so that each defect of a field is shown by some pair and hidden by
another; `Defect` has each kind on each field it can strike; two late requests (`LateBound`)
may arrive out of order, and three attempts are a first answer lost and two more tries. All clocks are bounded (`MaxTime`),
and so are the ids of bookings (`MaxBookings`). Where a fault must end for liveness, it ends
at `OutageEnd`. In `ApiClient` and `SharedClient`, a sleep that would end after `MaxTime` ends there.

**Fairness.** Weak fairness of a worker's own steps (a process that is not killed is
scheduled, calls have timeouts, retries are finitely many) and of `Tick`. `SharedClient`
also assumes that workers keep making calls: an open circuit can close only through one, and
the suite runs its next test. Nothing that the environment decides is fair: Redis need not
come back, a crash need not happen, the upstream need not recover for `RequestEnds`,
nor Redis for `SharedRequestEnds`. `BookingCrud` checks safety only and assumes no fairness.

`CHECK_DEADLOCK FALSE` appears for `HealthCheck` and `BookingSession` only: their sessions end.

## Proofs

All for any number of threads or workers and any constants that meet the named `ASSUME`s
(positive threshold, recovery period and delays; natural bounds; a hash field's absence is
no number and no state).

* `InMemoryBreaker_proof`: `IInv == TypeOK /\ StateAgreesWithCount /\ HalfOpenIsRested` is
  inductive; the conjuncts need one another: a failure in `HALF_OPEN` opens the circuit, which
  agrees with the counter only because the counter has stayed at the threshold. The refinement
  maps each action to one of `BreakerContract`, with the same invariant.
* `RedisBreaker_proof`: `IInv == TypeOK /\ FieldsAgree /\ SinceIsRecent`. Each script, and the
  loss of the hash, preserves the hash's part by a lemma of its own; every action is one of
  those, or leaves the hash alone. `SinceIsRecent` (a stamp read before `try_half_open` is at
  least a recovery period past 0, as wall-clock time is) is what makes an absent `open_since`
  never refuse anyone. `OpenBlocks` and `RefusalIsJustified` are action properties and follow
  from one case, `EnterTryHalfOpen`.
  `PoolImplemented` maps each round trip to a step of the contract with the same invariant:
  `PoolConditions` reads the contract's conditions off the hash, `HalfOpenMeans` and
  `RecordMeans` say what a script run with an old time stamp does to them. With
  `SharedUsesBreaker` the contract holds under whole requests (`ClientsKeepPool`), as
  `BreakerContract` does under those of one process (`ClientKeepsContract`).
* `ApiClient_proof`: every step of the client is a step of the breaker or leaves it alone
  (`ClientUsesBreaker`), so the breaker's invariants carry over. `BreakerSeesWire` (the
  failure count is the run of bad answers on the wire, the stamp its last one) links the two
  sides of `UpstreamIsSpared` and `FailFastIsJustified`. Lemmas on `RetryPolicy`: a parsed
  delay is no hint or a natural number, the wait is in `0 .. MaxDelay`, and a hint within
  the cap is honoured to the second.
* `BookingSession_proof`: `IInv` adds to `TypeOK` and `NothingSlipsThrough` what they lean on.
  `RegistryShape`: an id is in the list at most once, ids not yet assigned never, the current
  test's exactly once, so "register again, then deregister" leaves one entry and disposing
  leaves none. `SweepCovers`: half-way through the sweep every booking that must not slip is
  still to come or noted. `TokenAges`: how old the token may be before the GET and before the
  DELETE; it needs `CallTime <= TokenTTL` and `TokenTTL + 2 * CallTime <= TokenLife`.

* `SharedClient_proof`: every step of the pool is a step of `RedisBreaker`
  (`SharedUsesBreaker`), so its invariant carries over. `PoolInv` adds `PoolCountsFailures` and
  `OnTime`: a request in its n-th attempt is due no later than n attempts and n − 1 sleeps
  after it began, which is what makes the budget inductive. The counting goes by what a step
  does to the set of bad answers not yet reported (`PoolStep`). `PoolTripsExactly` reads the
  docstring's "exactly N" off both invariants.
* `HealthCheck_proof`: `HealthInv`. `LockInv` (until a session ends the path names the inode
  that is locked, and one worker holds it) gives exclusion; `OrderInv` (nobody waits for a lock
  that no leader held, nobody gets past it before a leader has reported) and `WholeInv` (the
  file of a lone leader is whole once written) give followers their result; `HonestInv` (an
  earlier run's verdict is gone before anybody reads, while no worker is gone) stops them after a
  failure.
  `ReportInv` (a whole file is what a leader of this run found, or none has touched it yet)
  carries the refinement: with `OrderInv` and `WholeInv` it gives each read its cause.
* `BookingContract_proof`: lemmas on labelled and cut texts, then that each variant of the
  factory passes its own model with its labels in place, for every draw and every date, and
  that merging a valid PATCH keeps an answer the response model accepts. `MaxPrice` stays
  folded: only its order matters.
* `BookingCrud_proof`: `SettingsInv` carries what `Accepts` said of the environment through
  the session (`AcceptedUrlTakesToken` is the equivalence of the two https rules). `WireInv`
  says that everything in flight, late or stored is a payload of the contract with the right
  label; it is inductive because each server step keeps it (`EffectKeepsHeld`). On these rest
  the three verdicts, for every environment, defect, name, price, attempt bound and number of
  late requests, in every order in which late requests arrive.
  - `CrudInv`: a request, however late, is about its test's booking, which once deleted stays
    deleted unless the server is wrong (`GoneIsForever`). It gives `AbsenceIsReal`.
  - `CatchInv`: `Caught` is the call that sees a guarded defect. A test without an exception
    has not got past it (`Detects`), unless its payloads cannot show the defect (`Blind`): hence
    `PassedMeansHeld`. Up to that call a wrong server keeps its mark on the booking whatever
    arrives late, and `Prepares` is the step before, which makes the wrong answer differ.
    `GuardsOf` reads off the table which defects each test guards, field by field.
  - `StoryInv`: what a correct server may hold of the booking before each call of each test,
    with lost, repeated and late requests and a token refused at any moment; from it no assertion of a script can fail but for
    the causes `FailureIsExplained` names.

  The table of tests enters through a few facts (`ScriptCalls`, `Ordered`, `CatchingCalls`), the
  only places that look at all of it. Two assumptions keep apart what Python keeps apart: no
  text, number or boolean is `None` (`NoneAssumption`), and no request is (`RequestAssumption`).

Only model-checked: `Recovers`, `RequestEnds`, `SharedRequestEnds`, `EveryWorkerDecides` and
`EveryBookingSettles`: liveness under fairness is out of the prover's reach.

## What the models leave out

* `Reset` is called by nobody in the repository; the models allow it at any time
  (`InMemoryBreaker`) or between two calls (`RedisBreaker`); `SharedClient` never calls it.
* The wall clock of the Redis breaker never goes backwards; all workers are on one host.
* A worker of `RedisBreaker` makes one request at a time, so its local lock is always free.
* `HealthCheck`: a write of the result file that fails with an `OSError`; the KeyboardInterrupt
  is the probe's "unknown".
* `BookingSession`: reads and updates of a booking; the text of the leak file; a pre-issued
  token that expires. Tokens count their life from the request that obtained them.
* `SharedClient`: an upstream that trickles its answer or redirects may take longer than
  `AttemptTime`; a sleep lasts what was asked; a worker runs one request after the other.
* `BookingCrud`: the teardown of `created_booking` (in `BookingSession`); when the circuit opens
  (in `ApiClient` and `SharedClient`: here any call may meet an open one); a transient status
  counts as a request lost. A list is the whole list. The two tests that read a booking for its
  types, or an id that does not exist, are left out. A uuid4 is fresh: the two payloads of a
  test carry two tags.

## Not modelled

* *Logging and masking*: formatting of records; a property of it would restate a list of keys.
* *Session headers, `close`, redirects, `_safe_response_body`*: no decision depends on them.
* *The watchdog's clock*: a kill may strike at any step, so no property rests on when it does;
  how long a whole test takes depends on fixtures and reruns outside the repository.
* *Contract, canary and auth tests, unit tests*: what the first assert is the service's
  behaviour alone; the last test the modules modelled here.
* *Load test, CI, Docker, k8s*: configuration, cited where the models use it.

## Observed while modelling

Stated by no property, or named as an exception in one:

* `FailureIsExplained` must excuse a failed PUT test whose second first name equals the first
  (`test_bookings_crud.py:379`, `:616`): only the last name carries the uuid, although
  `README.md` promises no false positives.
* It must excuse the 404 that a retried DELETE meets when its first answer was lost
  (`booking_client.py:139`).
* It must excuse a 403 to a token: `auth_token` takes a pre-issued `API_TOKEN` unseen
  (`conftest.py:273-279`) and never renews the session's; only the teardown's has a TTL.
* `AbsenceIsReal` must except a server whose GET answers 202: `booking_exists` says it raises
  for any status but 200 and 404, but answers `False` for every other one below 400.
* The PUT test says "GET /booking/{id} returns values from B, not A" and "A system that merges
  instead of replacing is violating PUT semantics" (`test_bookings_crud.py:355`, `:358`), but
  compares neither the checkout nor `additionalneeds`, and after the GET only the first name and
  the price (371-390). With those two fields added to its `Guards`, TLC finds a server that
  merges `additionalneeds` and passes.
* `test_patch_additionalneeds_to_null` does not look at the field it patches, and the other
  PATCH test compares neither `additionalneeds` nor the checkout, although "dates are
  UNCHANGED" (line 416) and untouched fields "must be byte-for-byte identical" (435). The first
  also erases the run id it would be traced by. `max_length`, which speaks of all string fields,
  does not look at `additionalneeds`. `Guards` claims none of these.
* With the defaults one request may take 3 × 20 s + 2 × 30 s; the watchdog's 60 s, meant for hangs
  outside HTTP calls (`pytest.ini:37`), can end it in the middle. Its `thread` method runs no teardown.
* `max_length` stops at 496 of 500 characters; `PartialBookingPayload` lacks the whitespace check
  of the payload it is "in line with"; `unicode_names` draws from an unseeded Faker.
* A worker that read `OPEN` before another's reset turns the closed circuit `HALF_OPEN`
  (`try_half_open` takes a missing `open_since` for 0): until the next reset, a success clears
  failures that in a closed circuit would add up.
* `open_since` in Redis can move backwards: a delayed `record_failure` carries an older time.
* The teardown token is fetched outside the `try` of `_safe_delete_booking_direct`.
* A leader whose own probe failed goes on to its tests.
* Every session that ends removes the election's two files, whose paths are fixed in the temp
  directory (`conftest.py:71-72`, `:607-614`), also one that took no part in it. One leader
  probes, one worker waits, an earlier killed run has left a `pass`; a worker that was given no
  test ends and unlinks the lock; the waiting one locks a new file at the same path, gets past it
  before anybody has written, reads the old `pass` and runs its tests, though the probe then
  fails. The comment at `conftest.py:205` says "Lock acquired means leader has written the
  result". With `Gone` restricted to killed workers TLC finds these eight states as a violation
  of `FollowersHonourFailure`.

## Plan

1. *Done:* the breakers, the client over each of them, the election, the cleanup, the settings,
   the data and the CRUD tests; proofs about all of them.
2. *Done:* an abstract election, which `HealthCheck` implements, and an abstract contract for
   the shared breaker, which `RedisBreaker` implements.
3. Several workers' sessions composed: election, shared breaker and tests, with the time a
   whole test takes against the watchdog.
4. *Done:* `FailureIsExplained`, `PassedMeansHeld` and `AbsenceIsReal` as theorems.
