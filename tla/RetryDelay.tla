----------------------------- MODULE RetryDelay -----------------------------
(***************************************************************************)
(* The delay before a retry: Job::get_retry_delay of src/models/job.rs, in *)
(* whole seconds.  The f64 backoff multiplier is the fraction num / den     *)
(* here, and is multiplied without rounding errors.                        *)
(*                                                                         *)
(* A random jitter makes the delay one of a set.  The set is empty when    *)
(* the code panics instead of answering.                                   *)
(***************************************************************************)
EXTENDS Integers

\* The fields of QueueSettings that the delay is made from.
RetrySettings == [initial : Nat, max : Nat, num : Nat, den : Nat \ {0}]

\* QueueSettings::default(), and the unwrap_or of each field.
DefaultSettings == [initial |-> 1, max |-> 300, num |-> 2, den |-> 1]

Least(a, b) == IF a <= b THEN a ELSE b

\* powf: the powers of m, as a function.
Powers(m) ==
    LET power[n \in Nat] == IF n = 0 THEN 1 ELSE m * power[n - 1]
    IN  power

\* initial * multiplier^(attempt - 1), at most max, truncated; n is
\* attempt_count, which is not 0 here: attempt - 1 is a subtraction of u32.
CappedDelay(s, n) ==
    Least((s.initial * Powers(s.num)[n - 1]) \div Powers(s.den)[n - 1], s.max)

\* Mutant of JitterRange: half of the delay instead of a tenth.
WideJitterRange(d) == d \div 2

JitterRange(d) == d \div 10

\* rand::random::<i64>() % (jitter_range * 2): the remainder has the sign of
\* the random number, and a remainder by zero panics.
Jitters(range) == IF range = 0 THEN {} ELSE (1 - 2 * range)..(2 * range - 1)

Jittered(d, range, jitter) ==
    IF jitter <= range THEN d - jitter ELSE d + (jitter - range)

\* The delays that a random jitter makes of d: of a second at least.
DelaysAround(d) ==
    LET range == JitterRange(d)
    IN  {IF x < 1 THEN 1 ELSE x : x \in {Jittered(d, range, i) : i \in Jitters(range)}}

RetryDelays(s, n) == DelaysAround(CappedDelay(s, n))
=============================================================================
