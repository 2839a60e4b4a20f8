------------------------------ MODULE RetryDelay ------------------------------
(***************************************************************************)
(* How long Fetch sleeps before it tries again (backoff, parseRetryAfter   *)
(* and the choice between them in Fetch, client.go), from a configuration  *)
(* that NewClient has accepted.  A duration is a signed machine integer:   *)
(* products wrap around at MaxInt, which is 2^63 - 1 nanoseconds in Go.    *)
(***************************************************************************)
EXTENDS Integers

CONSTANTS
    MaxInt,       \* the largest Duration
    Second,       \* time.Second
    DefaultBase,  \* defaultBaseBackoff
    DefaultMax,   \* defaultMaxBackoff
    MaxAttempts   \* bound on the attempt that failed

Int64     == -MaxInt - 1 .. MaxInt
Durations == 0 .. MaxInt

ASSUME SizesAssumption == /\ MaxInt \in Nat /\ Second \in 1 .. MaxInt
                          /\ DefaultBase \in 1 .. DefaultMax /\ DefaultMax \in 1 .. MaxInt
                          /\ MaxAttempts \in Nat

\* Signed arithmetic of the machine's width.
Wrap(x) == ((x + MaxInt + 1) % (2 * MaxInt + 2)) - MaxInt - 1

\* A Retry-After header: absent or unreadable; whole seconds; or a date, as the
\* duration until then.
Headers == [kind : {"none"}, value : {0}] \cup [kind : {"seconds", "date"}, value : Int64]

VARIABLES
    config,   \* BaseBackoff and MaxBackoff as the caller sets them
    base,     \* baseBackoff of the Client
    maximum,  \* maxBackoff of the Client
    attempt,  \* the attempt that failed
    header,   \* its Retry-After header
    pc,
    step,     \* the loop variable of backoff
    delay     \* what backoff computes, then what Fetch sleeps for

vars == <<config, base, maximum, attempt, header, pc, step, delay>>

-------------------------------------------------------------------------------
\* Faulty variant: partial seconds of the maximum are cut off.
SecondsToDelayTruncated(n) ==
    IF n > maximum \div Second THEN (maximum \div Second) * Second ELSE Wrap(n * Second)

\* parseRetryAfter, for whole seconds: maxSeconds rounds the maximum up.
SecondsToDelay(n) ==
    LET maxSeconds == (maximum + Second - 1) \div Second
        product == Wrap(n * Second) IN
    IF n > maxSeconds \/ product > maximum THEN maximum ELSE product

\* -1 stands for no usable header; a date that has passed asks for no delay.
RetryAfter(h) ==
    CASE h.kind = "none" -> -1
      [] h.kind = "seconds" -> IF h.value < 0 THEN -1 ELSE SecondsToDelay(h.value)
      [] h.kind = "date" -> IF h.value < 0 THEN 0
                            ELSE IF h.value > maximum THEN maximum ELSE h.value

Init ==
    /\ config \in [base : {-1} \cup Durations, max : {-1} \cup Durations]
    /\ attempt \in 1 .. MaxAttempts
    /\ header \in Headers
    /\ base = 0 /\ maximum = 0
    /\ pc = "configure" /\ step = 0 /\ delay = 0

\* NewClient: zero means the default; a negative value or a maximum below the base
\* is an error.
Configure ==
    /\ pc = "configure"
    /\ base' = IF config.base = 0 THEN DefaultBase ELSE config.base
    /\ maximum' = IF config.max = 0 THEN DefaultMax ELSE config.max
    /\ pc' = IF config.base < 0 \/ config.max < 0 \/ maximum' < base' THEN "refused" ELSE "backoff"
    /\ step' = 1
    /\ delay' = base'
    /\ UNCHANGED <<config, attempt, header>>

\* Faulty variant: the delay is doubled first and compared afterwards.
DoubleFirst ==
    /\ pc = "backoff"
    /\ step < attempt /\ delay < maximum
    /\ delay' = Wrap(delay * 2) /\ step' = step + 1
    /\ UNCHANGED <<config, base, maximum, attempt, header, pc>>

\* backoff: one turn of its loop.
Double ==
    /\ pc = "backoff"
    /\ step < attempt /\ delay < maximum
    /\ IF delay > maximum \div 2
       THEN delay' = maximum /\ step' = attempt
       ELSE delay' = Wrap(delay * 2) /\ step' = step + 1
    /\ UNCHANGED <<config, base, maximum, attempt, header, pc>>

\* Fetch: a usable Retry-After replaces the backoff.
Choose ==
    /\ pc = "backoff"
    /\ ~(step < attempt /\ delay < maximum)
    /\ delay' = IF RetryAfter(header) >= 0 THEN RetryAfter(header)
                ELSE IF delay > maximum THEN maximum ELSE delay
    /\ pc' = "sleep"
    /\ UNCHANGED <<config, base, maximum, attempt, header, step>>

Next == Configure \/ Double \/ Choose

Spec == Init /\ [][Next]_vars

-------------------------------------------------------------------------------
\* No duration of the Client or of the loop leaves its range, and Fetch never sleeps
\* longer than MaxBackoff, nor for a negative time, whatever the server asks for and
\* however close to overflow the configuration is.
DelayInRange ==
    /\ pc \in {"backoff", "sleep"} => base \in 1 .. maximum /\ maximum \in Durations
    /\ pc = "backoff" => delay \in 1 .. maximum
    /\ pc = "sleep" => delay \in 0 .. maximum

\* Without a usable header the delay is BaseBackoff doubled for every attempt before,
\* up to MaxBackoff: the early return and the guard on doubling change nothing.
BackoffIsExponential ==
    pc = "sleep" /\ (header.kind = "none" \/ (header.kind = "seconds" /\ header.value < 0)) =>
        delay = IF base * 2 ^ (attempt - 1) > maximum THEN maximum ELSE base * 2 ^ (attempt - 1)

\* A server's Retry-After is honoured up to MaxBackoff, to the last fraction of a
\* second of it, if MaxBackoff is at least a second short of overflow.
RetryAfterIsHonoured ==
    pc = "sleep" /\ header.kind # "none" /\ maximum + Second <= MaxInt =>
        LET asked == IF header.kind = "seconds" THEN header.value * Second ELSE header.value IN
        IF asked < 0 THEN header.kind = "date" => delay = 0
        ELSE delay = IF asked > maximum THEN maximum ELSE asked
===============================================================================
