------------------------------ MODULE RateLimit ------------------------------
(***************************************************************************)
(* The Redis token bucket of app/infra/rate_limit.py, used by the login    *)
(* endpoints (app/modules/auth/router.py).                                 *)
(*                                                                         *)
(* The Lua script runs atomically, so one call of any replica is one       *)
(* action.  Tokens are kept as level = tokens * Window, which is an        *)
(* integer: a request costs Window, a millisecond refills Capacity, a full *)
(* bucket holds Capacity * Window.                                         *)
(*                                                                         *)
(* The script computes in doubles.  level is the exact number and drift    *)
(* the sign of the error of the double, chosen at every refill among the   *)
(* signs that rounding can produce.  The error stays below one unit of     *)
(* level: a refill adds at most about Capacity * 2^-51 tokens to it, so a  *)
(* unit takes 2^51 / Full refills without a full bucket in between.  HSET  *)
(* keeps all 17 digits and tokens - 1 is exact, so neither adds to it.     *)
(*                                                                         *)
(* Redis TIME is the wall clock: it advances, and an adjustment may set it *)
(* back.                                                                   *)
(***************************************************************************)
EXTENDS Integers

CONSTANTS Capacity,       \* limit
          WindowSeconds,  \* window_seconds
          Second,         \* milliseconds in a second: 1000
          None,
          MaxTime,        \* bound of the clock
          MaxSkew         \* bound of all backward clock adjustments

ASSUME ConstantsAssumption ==
    /\ Capacity \in Nat \ {0}
    /\ WindowSeconds \in Nat \ {0}
    /\ Second \in Nat \ {0}
    /\ MaxTime \in Nat /\ MaxSkew \in Nat
    /\ None \notin Int

VARIABLES now,       \* Redis TIME in milliseconds
          stored,    \* the hash exists
          level,     \* its 'tokens' field, scaled, before rounding
          drift,     \* the sign of that field's rounding error
          stamp,     \* its 'updated_at_ms' field
          expireAt,  \* set by PEXPIRE
          reply,     \* the last result of check_rate_limit
          since,     \* start of the observed interval (history)
          granted,   \* requests allowed in it (history)
          skew,      \* backward adjustments in it (history)
          promise    \* when the last 429 told its client to come back (history)

bucket == <<stored, level, drift, stamp, expireAt>>
vars == <<now, stored, level, drift, stamp, expireAt, reply, since, granted, skew, promise>>

Window == WindowSeconds * Second
Full == Capacity * Window

Least(a, b) == IF a <= b THEN a ELSE b
Greatest(a, b) == IF a >= b THEN a ELSE b

(* math.ceil(a / b) for a >= 0, b > 0.                                     *)
CeilDiv(a, b) == (a + b - 1) \div b

TypeOK ==
    /\ now \in Nat
    /\ stored \in {"yes", "no"}
    /\ level \in 0 .. Full
    /\ drift \in {-1, 0, 1}
    /\ stamp \in Nat
    /\ expireAt \in Nat
    /\ reply \in [allowed : {0, 1}, remaining : Nat, retryAfter : Nat]
    /\ since \in Nat
    /\ granted \in Nat
    /\ skew \in Nat
    /\ promise \in Nat \cup {None}

Init ==
    /\ now \in 0 .. MaxTime
    /\ stored = "no"
    /\ level = 0
    /\ drift = 0
    /\ stamp = 0
    /\ expireAt = 0
    /\ reply = [allowed |-> 0, remaining |-> 0, retryAfter |-> 0]
    /\ since = now
    /\ granted = 0
    /\ skew = 0
    /\ promise = None

-----------------------------------------------------------------------------
(* RATE_LIMIT_LUA                                                          *)

(* HMGET finds the hash.                                                   *)
Found == stored = "yes" /\ now < expireAt

(* tokens + elapsed_ms * refill_per_ms                                     *)
Accrued == level + Greatest(0, now - stamp) * Capacity

\* Faulty variant: no cap at the capacity.
RefilledUncapped == IF Found THEN Accrued ELSE Full

(* The tokens after the refill, before rounding: a missing bucket is full. *)
Refilled == IF Found THEN Least(Full, Accrued) ELSE Full

(* The signs that the rounding error of these tokens can have.  capacity   *)
(* itself is exact, and math.min lets no error above it pass; no time      *)
(* elapsed adds 0 and keeps the double that was stored.                    *)
Rounding ==
    {d \in {-1, 0, 1} :
        /\ ~Found \/ Accrued > Full => d = 0
        /\ Refilled = Full => d <= 0
        /\ Found /\ now <= stamp => d = drift}

(* tokens >= 1                                                             *)
Enough(l, d) == l > Window \/ (l = Window /\ d >= 0)

(* math.floor(tokens), and max(0, ...) of check_rate_limit.                *)
Remaining(l, d) == Greatest(0, (IF d < 0 THEN l - 1 ELSE l) \div Window)

\* Faulty variant: HSET does not write 'updated_at_ms' of an existing hash.
StoreKeepsStamp(l, d) ==
    /\ stored' = "yes"
    /\ level' = l
    /\ drift' = d
    /\ stamp' = IF Found THEN stamp ELSE now
    /\ expireAt' = now + Greatest(Window * 2, Second)

(* HSET and PEXPIRE.                                                       *)
Store(l, d) ==
    /\ stored' = "yes"
    /\ level' = l
    /\ drift' = d
    /\ stamp' = now
    /\ expireAt' = now + Greatest(Window * 2, Second)

(* A whole token is there: consume it.                                     *)
Allow ==
    \E d \in Rounding :
        /\ Enough(Refilled, d)
        /\ Store(Refilled - Window, d)
        /\ reply' = [allowed |-> 1, remaining |-> Remaining(Refilled - Window, d),
                     retryAfter |-> 0]
        /\ granted' = granted + 1
        /\ promise' = None
        /\ UNCHANGED <<now, since, skew>>

\* Faulty variant: seconds rounded down.
RetryAfterFloor == {(Window - Refilled) \div (Capacity * Second)}

(* Seconds until a whole token is there, rounded up.  The quotient of      *)
(* doubles may land just above a whole number of seconds, which costs one  *)
(* more; it is above 0, since the tokens are fewer than 1.                 *)
RetryAfter ==
    LET missing == Window - Refilled
        perSecond == Capacity * Second
    IN {s \in {CeilDiv(missing, perSecond), missing \div perSecond + 1} : s > 0}

(* Otherwise the API answers 429 with Retry-After.                         *)
Reject ==
    \E d \in Rounding, s \in RetryAfter :
        /\ ~Enough(Refilled, d)
        /\ Store(Refilled, d)
        /\ reply' = [allowed |-> 0, remaining |-> Remaining(Refilled, d),
                     retryAfter |-> s]
        /\ promise' = now + s * Second
        /\ UNCHANGED <<now, since, granted, skew>>

-----------------------------------------------------------------------------
(* Redis                                                                   *)

Tick ==
    /\ now < MaxTime
    /\ now' = now + 1
    /\ UNCHANGED <<bucket, reply, since, granted, skew, promise>>

ClockSetBack ==
    /\ now > 0
    /\ skew < MaxSkew
    /\ now' = now - 1
    /\ skew' = skew + 1
    /\ UNCHANGED <<bucket, reply, since, granted, promise>>

(* The expired hash is removed.                                            *)
Evict ==
    /\ stored = "yes"
    /\ now >= expireAt
    /\ stored' = "no"
    /\ UNCHANGED <<now, level, drift, stamp, expireAt, reply, since, granted, skew, promise>>

(* An observer starts counting at any moment.                              *)
Observe ==
    /\ since' = now
    /\ granted' = 0
    /\ skew' = 0
    /\ UNCHANGED <<now, bucket, reply, promise>>

Next == Allow \/ Reject \/ Tick \/ ClockSetBack \/ Evict \/ Observe

Spec == Init /\ [][Next]_vars

-----------------------------------------------------------------------------
(* Properties                                                              *)

(* In any interval of t milliseconds at most Capacity * (1 + t / Window)   *)
(* requests are allowed, all replicas together; setting the clock back by  *)
(* k milliseconds costs no more than k milliseconds of refill.  Expiry of  *)
(* the hash gives nothing away.                                            *)
QuotaBound ==
    granted * Window <= Full + Capacity * (now - since + skew)

(* A client that waits the Retry-After of its 429 and one millisecond more *)
(* is served when it comes back, however the doubles were rounded, unless  *)
(* somebody took the token meanwhile.  Without that millisecond it need    *)
(* not be: at 10 per 60 s a bucket emptied at 0 and asked at 1000 ms       *)
(* answers Retry-After: 5, and holds 1 - 2^-53 tokens at 6000 ms.          *)
RetryAfterHonest ==
    promise # None /\ now > promise => \A d \in Rounding : Enough(Refilled, d)
=============================================================================
