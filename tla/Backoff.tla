------------------------------- MODULE Backoff -------------------------------
(***************************************************************************)
(* The delays a retry job waits: RetryProcessor.nextBackoff, run loop step *)
(* by loop step in the machine's integers, and the places that call it     *)
(* during the life of one job.  Delays are a job's next_attempt_at minus   *)
(* the time of the call that set it.  The delay of the first retry is the  *)
(* base that Enqueue's caller sets, and nextBackoff returns the base again *)
(* for the first failed round: 5m, 5m, 10m where docs/retry.md:36-38 says  *)
(* 5m, 10m, 20m (FollowsDocs, which the code does not keep).               *)
(***************************************************************************)
EXTENDS Integers

CONSTANTS
    MaxInt,             \* largest value of time.Duration (2^63 - 1 ns)
    DefaultBackoff,     \* 5 minutes
    DefaultMaxBackoff,  \* 6 hours
    Configured,         \* values the configuration may give the two settings
    Resets,             \* does an operator reset the job
    MaxRounds           \* bound: failed rounds in a behaviour

ASSUME BackoffAssumption ==
    /\ MaxInt \in Nat
    /\ DefaultBackoff \in 1 .. MaxInt
    /\ DefaultMaxBackoff \in 1 .. MaxInt
    /\ Configured \subseteq (-MaxInt) .. MaxInt
    /\ Resets \in BOOLEAN
    /\ MaxRounds \in Nat

VARIABLES
    backoff,        \* p.backoff
    maxBackoff,     \* p.maxBackoff
    attempts,       \* the stored job's attempts
    delay,          \* its delay
    pc,             \* "stored", or "computing" while nextBackoff runs
    i,              \* nextBackoff's loop variable
    value           \* its local variable backoff

vars == <<backoff, maxBackoff, attempts, delay, pc, i, value>>
settings == <<backoff, maxBackoff>>

\* n * 2 in two's complement: a double that leaves int64 comes back negative
\* (n is never below 0 here).
Twice(n) == IF n * 2 > MaxInt THEN n * 2 - 2 * (MaxInt + 1) ELSE n * 2

OrDefault(n, default) == IF n <= 0 THEN default ELSE n

\* Mutant: a maximum below the base is kept.
AtLeastUnchecked(n, least) == n

AtLeast(n, least) == IF n < least THEN least ELSE n

\* Mutant: the attempts before this round are passed.
attemptStale == attempts

\* The argument nextBackoff is called with: failJob passes job.Attempts+1.
attempt == attempts + 1

\* NewRetryProcessor and NewTrackedDistributor get the same two settings; the
\* job is enqueued with the plain base backoff.
Init ==
    /\ \E b, m \in Configured :
         /\ backoff = OrDefault(b, DefaultBackoff)
         /\ maxBackoff = AtLeast(OrDefault(m, DefaultMaxBackoff), OrDefault(b, DefaultBackoff))
    /\ attempts = 0
    /\ delay = backoff
    /\ pc = "stored"
    /\ i = 0
    /\ value = 0

\* A round of the job fails; failJob calls nextBackoff.
Fail ==
    /\ pc = "stored"
    /\ attempts < MaxRounds
    /\ pc' = "computing"
    /\ i' = 1
    /\ value' = backoff
    /\ UNCHANGED <<settings, attempts, delay>>

\* Mutant: doubling is cut off only once the maximum has been reached.
CanDoubleUnchecked == value < maxBackoff

\* The loop doubles while the double cannot exceed the maximum.
CanDouble == value < maxBackoff \div 2

Double ==
    /\ pc = "computing"
    /\ i < attempt
    /\ CanDouble
    /\ value' = Twice(value)
    /\ i' = i + 1
    /\ UNCHANGED <<settings, attempts, delay, pc>>

\* MarkFailed counts the attempt and stores the delay that nextBackoff returns.
Return(result) ==
    /\ delay' = result
    /\ attempts' = attempts + 1
    /\ pc' = "stored"
    /\ i' = 0
    /\ value' = 0
    /\ UNCHANGED settings

ReturnEarly ==
    /\ pc = "computing"
    /\ i < attempt
    /\ ~CanDouble
    /\ Return(maxBackoff)

ReturnLate ==
    /\ pc = "computing"
    /\ i >= attempt
    /\ Return(IF value > maxBackoff THEN maxBackoff ELSE value)

\* An operator resets the job: due at once.
Reset ==
    /\ Resets
    /\ pc = "stored"
    /\ attempts' = 0
    /\ delay' = 0
    /\ UNCHANGED <<settings, pc, i, value>>

Next == Fail \/ Double \/ ReturnEarly \/ ReturnLate \/ Reset

Spec == Init /\ [][Next]_vars

-----------------------------------------------------------------------------
TypeOK ==
    /\ backoff \in 1 .. MaxInt
    /\ maxBackoff \in backoff .. MaxInt
    /\ attempts \in Nat
    /\ delay \in (-MaxInt - 1) .. MaxInt
    /\ pc \in {"stored", "computing"}
    /\ i \in Nat
    /\ value \in (-MaxInt - 1) .. MaxInt

\* However long a job goes on failing and however large the settings are, a
\* failed round waits at least the base and at most the maximum backoff: the
\* doubling never overflows into a negative (immediate) or shrunken delay.
DelayInRange == attempts > 0 => delay \in backoff .. maxBackoff

\* From one failed round to the next the delay doubles until it reaches the
\* maximum (docs/retry.md:32), from the second failed round in a row on: a wrong
\* argument, a loop that starts or stops a round off or a lost doubling shows as
\* a delay that stays, quadruples or is capped too soon.  The code compares with
\* maxBackoff/2 rounded down, so an odd maximum may be reached one unit early.
DoublesUntilCapped ==
    [][attempts > 0 /\ attempts' = attempts + 1 =>
         \/ delay' = 2 * delay
         \/ delay' = maxBackoff /\ 2 * delay + 1 >= maxBackoff]_vars

\* 2^n.
Doublings[n \in Nat] == IF n = 0 THEN 1 ELSE 2 * Doublings[n - 1]

\* The delay docs/retry.md:32-38 gives after the n-th failed retry: the base, which
\* is the delay of the first retry, doubled on each of them up to the maximum.
Documented(n) ==
    LET exact == backoff * Doublings[n]
    IN IF exact > maxBackoff THEN maxBackoff ELSE exact

\* The delay before the (n+1)-th retry is the documented one, or the unit more
\* that an odd maximum allows (refuted: 5m, not 10m, after the first failed one).
FollowsDocs ==
    attempts > 0 => delay \in Documented(attempts) .. Documented(attempts) + 1
=============================================================================
