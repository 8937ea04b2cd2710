---------------------------- MODULE RetryPolicy ----------------------------
(* How long ApiClient sleeps between two attempts: the Retry-After parser, the *)
(* _RetryAfterWait strategy and tenacity's wait_exponential of                 *)
(* src/client/base_client.py, in whole seconds.  A header is a record: how it  *)
(* was written, and the number or the instant that was written.                *)
EXTENDS Integers

CONSTANTS
    BaseDelay,  \* retry_base_delay_seconds
    MaxDelay,   \* retry_max_delay_seconds
    NoHint      \* None: no usable Retry-After

ASSUME DelayAssumption == /\ BaseDelay \in Nat \ {0}
                          /\ MaxDelay \in Nat \ {0}
                          /\ NoHint \notin Int

HeaderForm == {"absent", "seconds", "date", "garbage"}

(* _parse_retry_after at the instant now: a date in the past means no wait; a  *)
(* negative number is not a valid delta and parses as no date either.          *)
ParseRetryAfter(header, now) ==
    CASE header.form = "seconds" /\ header.value >= 0   -> header.value
      [] header.form = "date" /\ header.value >= now    -> header.value - now
      [] header.form = "date" /\ header.value < now     -> 0
      [] OTHER                                          -> NoHint

AtMost(delay, bound)  == IF delay <= bound THEN delay ELSE bound
AtLeast(delay, bound) == IF delay >= bound THEN delay ELSE bound

(* wait_exponential: BaseDelay doubled at each attempt, within 0 .. MaxDelay.  *)
Backoff(attempt) == AtLeast(AtMost(BaseDelay * 2^(attempt - 1), MaxDelay), 0)

(* Mutant of Wait: the server's delay is not capped.                           *)
WaitUncapped(hint, attempt) == IF hint # NoHint THEN hint ELSE Backoff(attempt)

(* _RetryAfterWait: the server's own delay, capped, or the backoff.            *)
Wait(hint, attempt) ==
    IF hint # NoHint THEN AtMost(hint, MaxDelay) ELSE Backoff(attempt)
=============================================================================
