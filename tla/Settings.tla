------------------------------ MODULE Settings ------------------------------
(* FrameworkSettings of config/settings.py, and what the clients and fixtures  *)
(* derive from it.  An environment is a record of the variables, after the     *)
(* types have been read: numbers in whole units, an optional text "unset",     *)
(* "empty" or a value.  A URL is its scheme as spelled, whether its hostname   *)
(* IS one of the three local names, and its trailing slashes.                  *)
EXTENDS Integers

Truthy(text) == text \notin {"unset", "empty"}

Url == [scheme : {"https", "HTTPS", "http"}, host : {"local", "remote"}, slashes : Nat]

StripTrailingSlash(url) == [url EXCEPT !.slashes = 0]

(* Mutant of EnforceHttps: the scheme is compared in any case.                 *)
EnforceHttpsAnyCase(url) == url.host = "remote" => url.scheme \in {"https", "HTTPS"}

EnforceHttps(url) == url.host = "remote" => url.scheme = "https"

ValidateCaBundlePath(bundle) == Truthy(bundle) => bundle = "file"

(* upper(), over the spellings considered.                                     *)
Upper == [INFO |-> "INFO", debug |-> "DEBUG", verbose |-> "VERBOSE"]

ValidateLogLevel(level) ==
    Upper[level] \in {"DEBUG", "INFO", "WARNING", "ERROR", "CRITICAL"}

(* The variables that are read; api_version and log_file reach no decision.    *)
Env == [api_base_url : Url, api_username : STRING, api_password : STRING, api_token : STRING,
        ssl_ca_bundle : STRING, log_level : DOMAIN Upper, redis_url : STRING,
        request_connect_timeout : Int, request_read_timeout : Int, retry_max_attempts : Int,
        retry_base_delay_seconds : Int, retry_max_delay_seconds : Int,
        slo_response_time_ms : Int, circuit_breaker_failure_threshold : Int,
        circuit_breaker_recovery_timeout_seconds : Int]

(* The bounds of the numeric fields.                                           *)
InRange(env) == /\ env.request_connect_timeout > 0 /\ env.request_read_timeout > 0
                /\ env.retry_max_attempts \in 1 .. 10
                /\ env.retry_base_delay_seconds > 0 /\ env.retry_max_delay_seconds > 0
                /\ env.slo_response_time_ms > 0
                /\ env.circuit_breaker_failure_threshold >= 1
                /\ env.circuit_breaker_recovery_timeout_seconds >= 5

ValidateTimeoutRelationship(env) == env.request_connect_timeout < env.request_read_timeout

(* FrameworkSettings() raises no ValidationError: the module can be imported.  *)
Accepts(env) == /\ \A f \in {"api_username", "api_password"} : env[f] # "unset"
                /\ EnforceHttps(StripTrailingSlash(env.api_base_url))
                /\ ValidateCaBundlePath(env.ssl_ca_bundle)
                /\ ValidateLogLevel(env.log_level)
                /\ InRange(env)
                /\ ValidateTimeoutRelationship(env)

Load(env) == [env EXCEPT !.api_base_url = StripTrailingSlash(@), !.log_level = Upper[@]]

-----------------------------------------------------------------------------
(* Mutant of SslVerify: an empty variable is taken as it is.                   *)
SslVerifyAsGiven(settings) ==
    IF settings.ssl_ca_bundle # "unset" THEN settings.ssl_ca_bundle ELSE "certifi"

(* verify of the session: a bundle, or True, requests' own ("certifi").        *)
SslVerify(settings) == IF Truthy(settings.ssl_ca_bundle) THEN settings.ssl_ca_bundle ELSE "certifi"

(* ApiClient(): no caller gives a base_url of its own.                         *)
ClientUrl(settings) == StripTrailingSlash(settings.api_base_url)

(* set_auth_token has its own copy of the rule: a SecurityError otherwise.     *)
TokenAllowed(url) == url.host = "local" \/ url.scheme = "https"

(* make_circuit_breaker, as shared_circuit_breaker calls it.                   *)
MakeCircuitBreaker(settings) == IF Truthy(settings.redis_url) THEN "redis" ELSE "in_memory"
=============================================================================
