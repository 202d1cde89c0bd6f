--------------------------- MODULE RateLimitProofs ---------------------------
(***************************************************************************)
(* The quota of the token bucket, for every capacity, window and length of *)
(* a second.                                                               *)
(*                                                                         *)
(* QuotaBound is not inductive: it has to count the tokens still in the    *)
(* bucket as if they were already granted.  That the expiry of the hash    *)
(* gives nothing away needs that a hash expires two windows after it was   *)
(* stored, when it has long been full.  Rounding costs the promise of a    *)
(* 429 one millisecond: it can hold back a token that is just complete,    *)
(* but not one that has begun to be exceeded, and never grants one early.  *)
(***************************************************************************)
EXTENDS RateLimit, TLAPS

(* A stored hash expires two windows after its time stamp.                 *)
ExpiryInv == stored = "yes" => expireAt = stamp + Window * 2

(* Tokens granted and tokens still available.                              *)
QuotaInv == granted * Window + Refilled <= Full + Capacity * (now - since + skew)

(* The refill between the last 429 and its promise makes a whole token.    *)
PromiseInv ==
    promise # None =>
        /\ promise >= stamp
        /\ level + Capacity * (promise - stamp) >= Window

IndInv == TypeOK /\ ExpiryInv /\ QuotaInv /\ PromiseInv

-----------------------------------------------------------------------------
(* Arithmetic                                                              *)

(* Multiplication by a natural number is monotone.                         *)
LEMMA TimesMono ==
    ASSUME NEW a \in Int, NEW b \in Int, NEW c \in Nat, a <= b
    PROVE  c * a <= c * b
  OBVIOUS

(* Rounding up never falls short.                                          *)
LEMMA CeilDivEnough ==
    ASSUME NEW a \in Nat, NEW b \in Nat \ {0}
    PROVE  /\ CeilDiv(a, b) \in Nat
           /\ b * CeilDiv(a, b) >= a
  BY DEF CeilDiv

(* Window and capacity are positive.                                       *)
LEMMA Sizes ==
    /\ Window \in Nat \ {0}
    /\ Full \in Nat
    /\ Window <= Full
    /\ Greatest(Window * 2, Second) = Window * 2
    /\ Capacity * Second \in Nat \ {0}
  BY ConstantsAssumption DEF Window, Full, Greatest

(* The refill lies between empty and full.                                 *)
RefillInRange == Refilled \in 0 .. Full

(* It does so in every well-typed state.                                   *)
LEMMA RefilledRange == TypeOK => RefillInRange
  BY Sizes, ConstantsAssumption
  DEF TypeOK, RefillInRange, Refilled, Accrued, Least, Greatest

(* The same after a step.                                                  *)
LEMMA RefilledRangeNext == TypeOK' => RefillInRange'
  BY RefilledRange, PTL

(* A hash that has expired was full before: its loss changes nothing.      *)
LEMMA FullBeforeExpiry ==
    ASSUME TypeOK, ExpiryInv, stored = "yes", now + 1 >= expireAt
    PROVE  Refilled = Full
  <1>1. Window <= now - stamp /\ now - stamp >= 0
    BY Sizes DEF TypeOK, ExpiryInv
  <1>2. Capacity * Window <= Capacity * (now - stamp)
    BY <1>1, TimesMono, Sizes, ConstantsAssumption DEF TypeOK
  <1>3. level + Greatest(0, now - stamp) * Capacity >= Full
    BY <1>1, <1>2, ConstantsAssumption DEF TypeOK, Full, Greatest, Window
  <1> QED
    BY <1>3, Sizes DEF Refilled, Accrued, Least

-----------------------------------------------------------------------------
(* The initial states                                                      *)

(* An empty bucket table satisfies the invariant.                          *)
LEMMA InitInv == Init => IndInv
  <1> SUFFICES ASSUME Init PROVE IndInv
    OBVIOUS
  <1>1. TypeOK
    BY Sizes, ConstantsAssumption DEF Init, TypeOK
  <1>2. ExpiryInv /\ PromiseInv
    BY DEF Init, ExpiryInv, PromiseInv
  <1>3. QuotaInv
    BY <1>1, Sizes, ConstantsAssumption DEF Init, QuotaInv, Refilled, Found, TypeOK
  <1> QED
    BY <1>1, <1>2, <1>3 DEF IndInv

-----------------------------------------------------------------------------
(* One lemma per action                                                    *)

(* What the script stores is what the next call finds.                     *)
LEMMA StoredIsFound ==
    ASSUME TypeOK, NEW l \in 0 .. Full, NEW d, Store(l, d), now' = now
    PROVE  ExpiryInv' /\ Refilled' = l
  <1>1. expireAt' = now + Window * 2
    BY Sizes DEF Store
  <1>2. Found'
    BY <1>1, Sizes DEF Store, Found, TypeOK
  <1> QED
    BY <1>1, <1>2, Sizes, ConstantsAssumption
    DEF Store, ExpiryInv, Refilled, Accrued, Least, Greatest, TypeOK

(* A reply never offers a negative number of requests.                     *)
LEMMA RemainingNat ==
    ASSUME NEW l \in Nat, NEW d \in {-1, 0, 1}
    PROVE  Remaining(l, d) \in Nat
  <1>1. \A k \in Int : k \div Window \in Int
    BY Sizes
  <1> QED
    BY <1>1, Sizes DEF Remaining, Greatest

(* A granted request moves one token from the bucket to the count.         *)
LEMMA AllowKeeps == IndInv /\ Allow => IndInv'
  <1> SUFFICES ASSUME IndInv, Allow PROVE IndInv'
    OBVIOUS
  <1> USE DEF IndInv
  <1>a. PICK d \in {-1, 0, 1} :
            /\ Enough(Refilled, d)
            /\ Store(Refilled - Window, d)
            /\ reply' = [allowed |-> 1, remaining |-> Remaining(Refilled - Window, d),
                         retryAfter |-> 0]
            /\ granted' = granted + 1
            /\ promise' = None
            /\ UNCHANGED <<now, since, skew>>
    BY DEF Allow, Rounding
  <1>1. Refilled \in 0 .. Full /\ Refilled - Window \in 0 .. Full
    BY <1>a, RefilledRange, Sizes DEF Enough, RefillInRange
  <1>2. ExpiryInv' /\ Refilled' = Refilled - Window
    BY <1>a, <1>1, StoredIsFound
  <1>3. TypeOK'
    <2>1. Remaining(Refilled - Window, d) \in Nat
      BY <1>1, RemainingNat, Sizes
    <2>2. now + Greatest(Window * 2, Second) \in Nat
      BY Sizes DEF TypeOK
    <2> QED
      BY <1>a, <1>1, <2>1, <2>2 DEF TypeOK, Store
  <1>4. QuotaInv'
    BY <1>a, <1>1, <1>2, Sizes, ConstantsAssumption DEF QuotaInv, TypeOK
  <1>5. PromiseInv'
    BY <1>a DEF PromiseInv
  <1> QED
    BY <1>2, <1>3, <1>4, <1>5

(* However the seconds are rounded, they refill what is missing.           *)
LEMMA RetryAfterEnough ==
    ASSUME Refilled \in Nat, Refilled <= Window, NEW s \in RetryAfter
    PROVE  /\ s \in Nat
           /\ (Capacity * Second) * s >= Window - Refilled
  <1> DEFINE missing == Window - Refilled
             perSecond == Capacity * Second
  <1>1. missing \in Nat /\ perSecond \in Nat \ {0}
    BY Sizes
  <1>2. s \in {CeilDiv(missing, perSecond), missing \div perSecond + 1}
    BY DEF RetryAfter
  <1> HIDE DEF missing, perSecond
  <1>3. /\ missing \div perSecond + 1 \in Nat
        /\ perSecond * (missing \div perSecond + 1) >= missing
    BY <1>1
  <1>4. s \in Nat /\ perSecond * s >= missing
    BY <1>1, <1>2, <1>3, CeilDivEnough
  <1> QED
    BY <1>4 DEF missing, perSecond

(* A rejected request takes nothing; its promise is long enough.           *)
LEMMA RejectKeeps == IndInv /\ Reject => IndInv'
  <1> SUFFICES ASSUME IndInv, Reject PROVE IndInv'
    OBVIOUS
  <1> USE DEF IndInv
  <1>a. PICK d \in {-1, 0, 1}, s \in RetryAfter :
            /\ ~Enough(Refilled, d)
            /\ Store(Refilled, d)
            /\ reply' = [allowed |-> 0, remaining |-> Remaining(Refilled, d),
                         retryAfter |-> s]
            /\ promise' = now + s * Second
            /\ UNCHANGED <<now, since, granted, skew>>
    BY DEF Reject, Rounding
  <1>1. Refilled \in 0 .. Full /\ Refilled <= Window
    BY <1>a, RefilledRange, Sizes DEF Enough, RefillInRange
  <1>2. ExpiryInv' /\ Refilled' = Refilled
    BY <1>a, <1>1, StoredIsFound
  <1>3. s \in Nat /\ (Capacity * Second) * s >= Window - Refilled
    BY <1>1, RetryAfterEnough, Sizes
  <1>4. TypeOK'
    <2>1. Remaining(Refilled, d) \in Nat
      BY <1>1, RemainingNat, Sizes
    <2>2. now + s * Second \in Nat
      BY <1>3, ConstantsAssumption DEF TypeOK
    <2>3. now + Greatest(Window * 2, Second) \in Nat
      BY Sizes DEF TypeOK
    <2> QED
      BY <1>a, <1>1, <1>3, <2>1, <2>2, <2>3 DEF TypeOK, Store
  <1>5. QuotaInv'
    BY <1>a, <1>2 DEF QuotaInv
  <1>6. PromiseInv'
    <2>1. s * Second >= 0
      BY <1>3, ConstantsAssumption
    <2>2. Capacity * (s * Second) >= Window - Refilled
      BY <1>3, ConstantsAssumption
    <2>3. now + s * Second - now = s * Second
      BY <1>3, ConstantsAssumption DEF TypeOK
    <2>4. /\ promise' = now + s * Second
          /\ stamp' = now /\ level' = Refilled
      BY <1>a DEF Store
    <2> QED
      BY <1>1, <1>3, <2>1, <2>2, <2>3, <2>4, Sizes, ConstantsAssumption
      DEF PromiseInv, TypeOK
  <1> QED
    BY <1>2, <1>4, <1>5, <1>6

(* A millisecond refills at most Capacity.                                 *)
LEMMA TickKeeps == IndInv /\ Tick => IndInv'
  <1> SUFFICES ASSUME IndInv, Tick PROVE IndInv'
    OBVIOUS
  <1> USE DEF IndInv
  <1>1. TypeOK' /\ ExpiryInv' /\ PromiseInv'
    BY DEF Tick, bucket, TypeOK, ExpiryInv, PromiseInv
  <1>2. Refilled \in 0 .. Full /\ Refilled' \in 0 .. Full
    BY <1>1, RefilledRange, RefilledRangeNext DEF RefillInRange
  <1>3. Refilled' <= Refilled + Capacity
    <2>1. CASE Found /\ Found'
      BY <2>1, Sizes, ConstantsAssumption
      DEF Tick, bucket, TypeOK, Refilled, Accrued, Least, Greatest
    <2>2. CASE Found /\ ~Found'
      BY <2>2, FullBeforeExpiry, Sizes, ConstantsAssumption
      DEF Tick, bucket, TypeOK, Found, Refilled
    <2>3. CASE ~Found
      BY <2>3, Sizes, ConstantsAssumption DEF Tick, bucket, TypeOK, Found, Refilled
    <2> QED
      BY <2>1, <2>2, <2>3
  <1>4. QuotaInv'
    <2>1. Capacity * (now' - since' + skew')
            = Capacity * (now - since + skew) + Capacity
      BY ConstantsAssumption DEF Tick, TypeOK
    <2>2. granted' = granted /\ granted * Window \in Nat
      BY Sizes DEF Tick, TypeOK
    <2>3. Capacity * (now - since + skew) \in Int
      BY ConstantsAssumption DEF TypeOK
    <2> QED
      BY <1>2, <1>3, <2>1, <2>2, <2>3, Sizes, ConstantsAssumption DEF QuotaInv
  <1> QED
    BY <1>1, <1>4

(* Setting the clock back refills nothing by itself.                       *)
LEMMA ClockSetBackKeeps == IndInv /\ ClockSetBack => IndInv'
  <1> SUFFICES ASSUME IndInv, ClockSetBack PROVE IndInv'
    OBVIOUS
  <1> USE DEF IndInv
  <1>1. TypeOK' /\ ExpiryInv' /\ PromiseInv'
    BY DEF ClockSetBack, bucket, TypeOK, ExpiryInv, PromiseInv
  <1>2. Refilled \in 0 .. Full /\ Refilled' \in 0 .. Full
    BY <1>1, RefilledRange, RefilledRangeNext DEF RefillInRange
  <1>3. Refilled' <= Refilled
    <2>1. CASE Found
      BY <2>1, Sizes, ConstantsAssumption
      DEF ClockSetBack, bucket, TypeOK, Found, Refilled, Accrued, Least, Greatest
    <2>2. CASE ~Found
      BY <1>2, <2>2, Sizes DEF Refilled
    <2> QED
      BY <2>1, <2>2
  <1>4. QuotaInv'
    <2>1. now' - since' + skew' = now - since + skew
      BY DEF ClockSetBack, TypeOK
    <2>2. granted' = granted /\ granted * Window \in Nat
      BY Sizes DEF ClockSetBack, TypeOK
    <2>3. Capacity * (now - since + skew) \in Int
      BY ConstantsAssumption DEF TypeOK
    <2> QED
      BY <1>2, <1>3, <2>1, <2>2, <2>3, Sizes DEF QuotaInv
  <1> QED
    BY <1>1, <1>4

(* An expired hash was not found any more.                                 *)
LEMMA EvictKeeps == IndInv /\ Evict => IndInv'
  BY DEF IndInv, Evict, TypeOK, ExpiryInv, QuotaInv, PromiseInv, Refilled, Accrued, Found

(* A new interval starts with at most a full bucket.                       *)
LEMMA ObserveKeeps == IndInv /\ Observe => IndInv'
  <1> SUFFICES ASSUME IndInv, Observe PROVE IndInv'
    OBVIOUS
  <1> USE DEF IndInv
  <1>1. TypeOK' /\ ExpiryInv' /\ PromiseInv'
    BY DEF Observe, bucket, TypeOK, ExpiryInv, PromiseInv
  <1>2. Refilled' = Refilled
    BY DEF Observe, bucket, Refilled, Accrued, Found
  <1>3. QuotaInv'
    BY <1>2, RefilledRange, Sizes, ConstantsAssumption
    DEF Observe, bucket, TypeOK, QuotaInv, RefillInRange
  <1> QED
    BY <1>1, <1>3

(* The invariant is inductive.                                             *)
LEMMA NextInv == IndInv /\ [Next]_vars => IndInv'
  <1>1. IndInv /\ UNCHANGED vars => IndInv'
    BY DEF vars, IndInv, TypeOK, ExpiryInv, QuotaInv, PromiseInv, Refilled, Accrued, Found
  <1> QED
    BY <1>1, AllowKeeps, RejectKeeps, TickKeeps, ClockSetBackKeeps, EvictKeeps,
       ObserveKeeps DEF Next

(* The quota follows from its strengthening.                               *)
LEMMA QuotaFromInv == IndInv => QuotaBound
  BY RefilledRange, Sizes, ConstantsAssumption
  DEF IndInv, QuotaInv, QuotaBound, TypeOK, RefillInRange

(* One millisecond after its promised time the bucket holds more than a    *)
(* whole token, or is full and was not rounded: enough either way.         *)
LEMMA PromiseFromInv == IndInv => RetryAfterHonest
  <1> SUFFICES ASSUME IndInv, promise # None, now > promise, NEW d \in Rounding
               PROVE  Enough(Refilled, d)
    BY DEF RetryAfterHonest
  <1>1. CASE ~Found
    BY <1>1, Sizes DEF Refilled, Rounding, Enough
  <1>2. CASE Found
    <2>1. /\ promise \in Nat /\ now >= stamp /\ promise + 1 - stamp <= now - stamp
          /\ level + Capacity * (promise - stamp) >= Window
      BY DEF IndInv, TypeOK, PromiseInv
    <2>2. Capacity * (promise + 1 - stamp) <= Capacity * (now - stamp)
      BY <2>1, TimesMono, ConstantsAssumption DEF IndInv, TypeOK
    <2>3. Capacity * (promise + 1 - stamp) = Capacity * (promise - stamp) + Capacity
      BY <2>1, ConstantsAssumption DEF IndInv, TypeOK
    <2>4. Accrued \in Int /\ Accrued = level + Capacity * (now - stamp)
      BY <2>1, ConstantsAssumption DEF Accrued, Greatest, IndInv, TypeOK
    <2>5. Accrued > Window
      <3>1. /\ Capacity * (promise - stamp) \in Int /\ Capacity * (now - stamp) \in Int
            /\ level \in Int
        BY <2>1, ConstantsAssumption DEF IndInv, TypeOK
      <3> QED
        BY <2>1, <2>2, <2>3, <2>4, <3>1, Sizes, ConstantsAssumption
    <2>6. CASE Accrued > Full
      BY <1>2, <2>4, <2>6, Sizes DEF Refilled, Least, Rounding, Enough
    <2>7. CASE Accrued <= Full
      BY <1>2, <2>4, <2>5, <2>7, Sizes DEF Refilled, Least, Enough
    <2> QED
      BY <2>4, <2>6, <2>7, Sizes
  <1> QED
    BY <1>1, <1>2

(* The inductive invariant holds in every reachable state.                 *)
LEMMA Invariance == Spec => []IndInv
  BY InitInv, NextInv, PTL DEF Spec

-----------------------------------------------------------------------------
(* The bucket never holds less than nothing or more than its capacity.     *)
THEOREM TypeCorrect == Spec => []TypeOK
  BY Invariance, PTL DEF IndInv

(* No interval sees more logins than the capacity and its refill, for all  *)
(* replicas together, across expiry of the hash and clock adjustments.     *)
THEOREM QuotaHolds == Spec => []QuotaBound
  BY Invariance, QuotaFromInv, PTL

(* Retry-After is never short by more than the rounding of the script:     *)
(* who waits one millisecond longer is served.                             *)
THEOREM RetryAfterHolds == Spec => []RetryAfterHonest
  BY Invariance, PromiseFromInv, PTL
=============================================================================
