---------------------------- MODULE MCBookingCrud ----------------------------
EXTENDS BookingCrud

MCWord == {"Ann", "Bo", "towels", "blank", "Zero", "Price"}
MCWordLength == [w \in MCWord |-> CASE w = "Ann" -> 3 [] w = "Bo" -> 2 [] w = "towels" -> 12
                                    [] w = "blank" -> 1 [] w = "Zero" -> 4 [] w = "Price" -> 5]

(* Payloads that differ in every field, in all but the first name, in none.    *)
MCDraw ==
    {[first |-> "Ann", last |-> "Bo", price |-> 50, deposit |-> TRUE, need |-> "towels"],
     [first |-> "Ann", last |-> "Ann", price |-> 50, deposit |-> FALSE, need |-> None],
     [first |-> "Bo", last |-> "Ann", price |-> 2500, deposit |-> FALSE, need |-> None]}

MCDefect == Of({"merges", "forgets", "erases", "drops"}, Field)
            \cup Of({"truncates"}, Names \cup {"additionalneeds"})
            \cup Of({"none", "nulls", "keeps", "defers", "hides", "crashes"}, {"totalprice"})

(* The environment of .env.example, and the one of a developer's machine.      *)
Usual == [api_base_url |-> [scheme |-> "https", host |-> "remote", slashes |-> 0],
          api_username |-> "admin", api_password |-> "secret", api_token |-> "empty",
          ssl_ca_bundle |-> "empty", log_level |-> "INFO", redis_url |-> "unset",
          request_connect_timeout |-> 5, request_read_timeout |-> 15,
          retry_max_attempts |-> 3, retry_base_delay_seconds |-> 1,
          retry_max_delay_seconds |-> 30, slo_response_time_ms |-> 3000,
          circuit_breaker_failure_threshold |-> 5,
          circuit_breaker_recovery_timeout_seconds |-> 60]

Local == [Usual EXCEPT !.api_base_url = [scheme |-> "http", host |-> "local", slashes |-> 2],
                       !.api_username = "empty", !.api_token = "token",
                       !.ssl_ca_bundle = "file", !.log_level = "debug", !.redis_url = "redis",
                       !.request_connect_timeout = 1, !.request_read_timeout = 2,
                       !.retry_max_attempts = 1, !.slo_response_time_ms = 1,
                       !.circuit_breaker_failure_threshold = 1,
                       !.circuit_breaker_recovery_timeout_seconds = 5]

(* Each with one variable out of bounds, at a boundary where there is one.     *)
Wrong(env) == {[env EXCEPT !.api_base_url = [scheme |-> s, host |-> "remote", slashes |-> 1]] :
                  s \in {"http", "HTTPS"}}
              \cup {[env EXCEPT !.api_username = "unset"], [env EXCEPT !.api_password = "unset"],
                    [env EXCEPT !.ssl_ca_bundle = "missing"], [env EXCEPT !.log_level = "verbose"],
                    [env EXCEPT !.retry_max_attempts = 0], [env EXCEPT !.retry_max_attempts = 11],
                    [env EXCEPT !.slo_response_time_ms = 0],
                    [env EXCEPT !.circuit_breaker_failure_threshold = 0],
                    [env EXCEPT !.circuit_breaker_recovery_timeout_seconds = 4],
                    [env EXCEPT !.request_read_timeout = env.request_connect_timeout]}

MCEnvironment == {Usual, Local} \cup Wrong(Usual) \cup Wrong(Local)
=============================================================================
