--------------------------- MODULE AttemptLimiter ---------------------------
(***************************************************************************)
(* The unlock throttle: crypto/throttle.py, and crypto/attempt_store.py,   *)
(* which keeps its state in the field "unlock_attempts" of the vault file  *)
(* (or of keyring.json).  The limiter object keeps nothing between calls,  *)
(* so the module has operators only; Vault gives them a state to live in.  *)
(* Times are whole seconds of time.time().                                 *)
(***************************************************************************)
EXTENDS Integers

CONSTANTS
    MaxAttempts,         \* failures that start a lockout (5)
    BaseDelay,           \* seconds of backoff after the first failure (1)
    MaxDelay,            \* ceiling of the backoff (300)
    LockoutSeconds,      \* length of a lockout (900)
    MaxBackoffExponent   \* ceiling of the exponent of 2 (64)

\* What AttemptLimiter.__init__ refuses to be built without.
ASSUME LimiterAssumption ==
    /\ MaxAttempts \in Nat \ {0}
    /\ BaseDelay \in Nat /\ MaxDelay \in Nat
    /\ LockoutSeconds \in Nat
    /\ MaxBackoffExponent \in Nat

\* Arithmetic the provers do not know.
ASSUME PowersAssumption == \A n \in 0..MaxBackoffExponent : 2^n \in Nat

\* failed: consecutive failures; last: when the last one was recorded;
\* until: end of the lockout, 0 when there is none.
Attempts == [failed : Nat, last : Nat, until : Nat]

\* new_state(); also what an absent field reads as (_normalize(None)).
NewAttempts == [failed |-> 0, last |-> 0, until |-> 0]

Least(a, b) == IF a <= b THEN a ELSE b
Greatest(a, b) == IF a >= b THEN a ELSE b

RequiredDelay(n) ==
    IF n < 1 THEN 0
    ELSE Least(BaseDelay * 2^Least(n - 1, MaxBackoffExponent), MaxDelay)

\* check() returns (TRUE) or raises AttemptLockedOut (FALSE).
MayAttempt(st, now) ==
    /\ st.until <= now
    /\ RequiredDelay(st.failed) > 0 => now - st.last >= RequiredDelay(st.failed)

\* Seeded fault: the lockout grows with the number of failures.
FailureEscalatingLockout(st, now) ==
    [failed |-> st.failed + 1, last |-> now,
     until  |-> IF st.failed + 1 >= MaxAttempts
                THEN now + (st.failed + 1) * LockoutSeconds ELSE st.until]

RecordFailure(st, now) ==
    [failed |-> st.failed + 1, last |-> now,
     until  |-> IF st.failed + 1 >= MaxAttempts THEN now + LockoutSeconds
                                                ELSE st.until]

RecordSuccess(st) == NewAttempts

\* The longest wait that any history of failures can call for.
LongestWait == Greatest(LockoutSeconds, MaxDelay)

\* locked_for_seconds and backoff_remaining_seconds of status(); the longer
\* of the two is how long a caller has to wait.
RemainingWait(st, now) ==
    Greatest(Greatest(0, st.until - now),
             IF RequiredDelay(st.failed) > 0
             THEN Greatest(0, RequiredDelay(st.failed) - (now - st.last))
             ELSE 0)
=============================================================================
