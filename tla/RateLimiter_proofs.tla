------------------------ MODULE RateLimiter_proofs ------------------------
(***************************************************************************)
(* Proofs about RateLimiter for any number of callers, any requests and    *)
(* any rate: nobody oversleeps, and the lazily updated bucket implements   *)
(* the one that is filled on every tick.                                   *)
(***************************************************************************)
EXTENDS RateLimiter, TLAPS

\* The products the proofs meet, for the provers.
LEMMA Products ==
    ASSUME NEW k \in Nat
    PROVE  /\ k * Rate \in Nat
           /\ (k + 1) * Rate = k * Rate + Rate
           /\ k <= TicksPerSecond => k * Rate <= TicksPerSecond * Rate
           /\ k >= TicksPerSecond => k * Rate >= TicksPerSecond * Rate
  BY LimiterAssumption

LEMMA BurstType == Burst \in Nat \ {0} /\ Burst = TicksPerSecond * Rate
  BY LimiterAssumption DEF Burst

LEMMA NeedType == TypeOK => \A c \in Callers : need[c] \in Nat
<1>1. SUFFICES ASSUME TypeOK, NEW c \in Callers PROVE need[c] \in Nat
  OBVIOUS
<1>2. need[c] \in Requests
  BY <1>1 DEF TypeOK
<1>3. QED
  BY <1>2, LimiterAssumption

LEMMA RefreshedType == TypeOK => Refreshed \in 0 .. Burst
<1>1. SUFFICES ASSUME TypeOK PROVE Refreshed \in 0 .. Burst
  OBVIOUS
<1>2. tokens \in 0 .. Burst /\ since * Rate \in Nat
  BY <1>1, Products DEF TypeOK
<1>3. QED
  BY <1>2, BurstType DEF Refreshed, Least

\* A look that brings the bucket up to date does not change what it holds.
LEMMA DeferredRefreshed ==
    ASSUME TypeOK, NEW c \in Callers, Deferred(c)
    PROVE  Refreshed' = Refreshed
<1>1. Refreshed \in 0 .. Burst
  BY RefreshedType
<1>2. tokens' = Refreshed /\ since' = 0
  BY DEF Deferred
<1>3. since' * Rate = 0
  BY <1>2, LimiterAssumption
<1>4. Refreshed' = Least(Burst, tokens' + since' * Rate)
  BY DEF Refreshed, Burst
<1>5. QED
  BY <1>1, <1>2, <1>3, <1>4, BurstType DEF Least

\* What is granted is what the bucket loses.
LEMMA GrantedRefreshed ==
    ASSUME TypeOK, NEW c \in Callers, Granted(c)
    PROVE  Refreshed' = Refreshed - need[c] /\ need[c] <= Refreshed
<1>1. Refreshed \in 0 .. Burst /\ need[c] \in Nat
  BY RefreshedType, LimiterAssumption DEF TypeOK
<1>2. tokens' = Refreshed - need[c] /\ since' = 0 /\ need[c] <= Refreshed
  BY <1>1 DEF Granted
<1>3. since' * Rate = 0
  BY <1>2, LimiterAssumption
<1>4. Refreshed' = Least(Burst, tokens' + since' * Rate)
  BY DEF Refreshed, Burst
<1>5. QED
  BY <1>1, <1>2, <1>3, <1>4, BurstType DEF Least

\* A tick adds its share, up to a full bucket.
LEMMA TickRefreshed ==
    ASSUME TypeOK, Tick
    PROVE  Refreshed' = Least(Burst, Refreshed + Rate)
<1>1. /\ tokens \in 0 .. Burst /\ since \in 0 .. TicksPerSecond
      /\ Rate \in Nat \ {0} /\ TicksPerSecond \in Nat /\ Burst \in Nat
      /\ since * Rate \in Nat
  BY LimiterAssumption, BurstType, Products DEF TypeOK
<1>2. Refreshed' = Least(Burst, tokens + since' * Rate)
  BY DEF Refreshed, Tick, Burst
<1>3. CASE since < TicksPerSecond
  <2>1. since' * Rate = since * Rate + Rate
    BY <1>1, <1>3, Products DEF Tick, Least
  <2>2. QED
    BY <1>1, <1>2, <2>1 DEF Refreshed, Least
<1>4. CASE since = TicksPerSecond
  <2>1. since' = since /\ since * Rate = Burst
    BY <1>1, <1>4, BurstType DEF Tick, Least
  <2>2. QED
    BY <1>1, <1>2, <2>1 DEF Refreshed, Least
<1>5. QED
  BY <1>1, <1>3, <1>4

----------------------------------------------------------------------------
LEMMA InitType == Init => TypeOK
  BY LimiterAssumption, BurstType DEF Init, TypeOK

LEMMA NextType == TypeOK /\ [Next]_vars => TypeOK'
<1>1. SUFFICES ASSUME TypeOK, [Next]_vars PROVE TypeOK'
  OBVIOUS
<1>2. Refreshed \in 0 .. Burst /\ Burst' = Burst
  BY <1>1, RefreshedType DEF Burst
<1>3. ASSUME NEW c \in Callers, NEW n \in Requests, Call(c, n) PROVE TypeOK'
  BY <1>1, <1>2, <1>3 DEF Call, TypeOK
<1>4. ASSUME NEW c \in Callers, Granted(c) PROVE TypeOK'
  <2>1. tokens' \in 0 .. Burst
    BY <1>1, <1>2, <1>4, BurstType, NeedType DEF Granted
  <2>2. QED
    BY <1>1, <1>2, <1>4, <2>1, LimiterAssumption DEF Granted, TypeOK
<1>5. ASSUME NEW c \in Callers, Deferred(c) PROVE TypeOK'
  <2>1. SleepFor(need[c] - Refreshed) \in 0 .. MaxSleep
    <3>1. need[c] \in Nat /\ need[c] - Refreshed \in Nat
      BY <1>1, <1>2, <1>5, BurstType, NeedType DEF Deferred
    <3>2. (need[c] - Refreshed) \div Rate \in Nat
      BY <3>1, LimiterAssumption
    <3>3. QED
      BY <3>2, LimiterAssumption DEF SleepFor, Least
  <2>2. QED
    BY <1>1, <1>2, <1>5, <2>1, LimiterAssumption DEF Deferred, TypeOK
<1>6. ASSUME NEW c \in Callers, Wake(c) PROVE TypeOK'
  BY <1>1, <1>2, <1>6 DEF Wake, TypeOK
<1>7. ASSUME Tick PROVE TypeOK'
  BY <1>1, <1>2, <1>7, LimiterAssumption DEF Tick, TypeOK, Least
<1>8. ASSUME UNCHANGED vars PROVE TypeOK'
  BY <1>1, <1>2, <1>8 DEF vars, TypeOK
<1>9. QED
  BY <1>1, <1>3, <1>4, <1>5, <1>6, <1>7, <1>8 DEF Next, Look

\* The type invariant of RateLimiter.
THEOREM LimiterTypeCorrect == Spec => []TypeOK
BY InitType, NextType, PTL DEF Spec

----------------------------------------------------------------------------
LEMMA NextNeverOversleeps ==
    TypeOK /\ NeverOversleeps /\ [Next]_vars => NeverOversleeps'
<1>1. SUFFICES ASSUME TypeOK, NeverOversleeps, [Next]_vars,
                      NEW c \in Callers, pc'[c] = "sleeping", sleep'[c] > 0
               PROVE  Refreshed' + sleep'[c] * Rate <= need'[c]
  BY DEF NeverOversleeps
<1>2. /\ Refreshed \in 0 .. Burst /\ Burst \in Nat /\ Rate \in Nat \ {0}
      /\ sleep[c] \in 0 .. MaxSleep /\ MaxSleep \in Nat /\ need[c] \in Nat
      /\ sleep[c] * Rate \in Nat
  <2>1. Refreshed \in 0 .. Burst /\ Burst \in Nat /\ Rate \in Nat \ {0}
    BY <1>1, RefreshedType, BurstType, LimiterAssumption
  <2>2. sleep[c] \in 0 .. MaxSleep /\ MaxSleep \in Nat
    BY <1>1, LimiterAssumption DEF TypeOK
  <2>3. sleep[c] * Rate \in Nat
    BY <2>2, Products
  <2>4. QED
    BY <1>1, <2>1, <2>2, <2>3, NeedType
<1>3. pc[c] = "sleeping" /\ sleep[c] > 0 => Refreshed + sleep[c] * Rate <= need[c]
  BY <1>1 DEF NeverOversleeps
<1>4. ASSUME NEW d \in Callers, NEW n \in Requests, Call(d, n)
      PROVE  Refreshed' + sleep'[c] * Rate <= need'[c]
  <2>1. c # d /\ pc[c] = "sleeping" /\ need'[c] = need[c] /\ sleep' = sleep
    BY <1>1, <1>4 DEF Call, TypeOK
  <2>2. Refreshed' = Refreshed
    BY <1>4 DEF Call, Refreshed, Burst
  <2>3. QED
    BY <1>1, <1>3, <2>1, <2>2
<1>5. ASSUME NEW d \in Callers, Granted(d)
      PROVE  Refreshed' + sleep'[c] * Rate <= need'[c]
  <2>1. Refreshed' = Refreshed - need[d] /\ need[d] \in Nat
    BY <1>1, <1>5, GrantedRefreshed, NeedType
  <2>2. c # d /\ pc[c] = "sleeping" /\ need' = need /\ sleep' = sleep
    BY <1>1, <1>5 DEF Granted, TypeOK
  <2>3. QED
    BY <1>1, <1>2, <1>3, <2>1, <2>2
<1>6. ASSUME NEW d \in Callers, Deferred(d)
      PROVE  Refreshed' + sleep'[c] * Rate <= need'[c]
  <2>1. Refreshed' = Refreshed /\ need' = need
    BY <1>1, <1>6, DeferredRefreshed DEF Deferred
  <2>2. CASE c = d
    <3>1. sleep'[c] = SleepFor(need[c] - Refreshed)
      BY <1>1, <1>6, <2>2 DEF Deferred, TypeOK
    <3>2. need[c] - Refreshed \in Nat
      BY <1>2, <1>6, <2>2 DEF Deferred
    <3> DEFINE deficit == need[c] - Refreshed
    <3>3. (deficit \div Rate) * Rate <= deficit /\ deficit \div Rate \in Nat
      BY <1>2, <3>2
    <3>4. SleepFor(deficit) \in Nat /\ SleepFor(deficit) <= deficit \div Rate
      BY <1>2, <3>3 DEF SleepFor, Least
    <3>5. SleepFor(deficit) * Rate <= (deficit \div Rate) * Rate
      BY <1>2, <3>3, <3>4
    <3>6. SleepFor(deficit) * Rate <= deficit
      <4>1. SleepFor(deficit) * Rate \in Int /\ (deficit \div Rate) * Rate \in Int
        BY <1>2, <3>3, <3>4
      <4>2. QED
        BY <4>1, <3>2, <3>3, <3>5
    <3>7. SleepFor(deficit) * Rate \in Int
      BY <1>2, <3>4
    <3>8. Refreshed + SleepFor(deficit) * Rate <= need[c]
      BY <1>2, <3>6, <3>7
    <3>9. QED
      BY <2>1, <3>1, <3>8
  <2>3. CASE c # d
    <3>1. pc[c] = "sleeping" /\ sleep'[c] = sleep[c]
      BY <1>1, <1>6, <2>3 DEF Deferred, TypeOK
    <3>2. QED
      BY <1>1, <1>3, <2>1, <3>1
  <2>4. QED
    BY <2>2, <2>3
<1>7. ASSUME NEW d \in Callers, Wake(d)
      PROVE  Refreshed' + sleep'[c] * Rate <= need'[c]
  <2>1. c # d /\ pc[c] = "sleeping" /\ need' = need /\ sleep' = sleep
    BY <1>1, <1>7 DEF Wake, TypeOK
  <2>2. Refreshed' = Refreshed
    BY <1>7 DEF Wake, Refreshed, Burst
  <2>3. QED
    BY <1>1, <1>3, <2>1, <2>2
<1>8. ASSUME Tick
      PROVE  Refreshed' + sleep'[c] * Rate <= need'[c]
  <2>1. Refreshed' <= Refreshed + Rate /\ Refreshed' \in Int
    BY <1>1, <1>2, <1>8, TickRefreshed DEF Least
  <2>2. pc[c] = "sleeping" /\ sleep[c] > 0 /\ sleep'[c] = sleep[c] - 1 /\ need' = need
    BY <1>1, <1>2, <1>8 DEF Tick, TypeOK
  <2>3. sleep[c] * Rate = sleep'[c] * Rate + Rate /\ sleep'[c] * Rate \in Nat
    BY <1>2, <2>2, Products
  <2>4. QED
    BY <1>2, <1>3, <2>1, <2>2, <2>3
<1>9. ASSUME UNCHANGED vars
      PROVE  Refreshed' + sleep'[c] * Rate <= need'[c]
  BY <1>1, <1>3, <1>9 DEF vars, Refreshed, Burst
<1>10. QED
  BY <1>1, <1>4, <1>5, <1>6, <1>7, <1>8, <1>9 DEF Next, Look

\* Nobody sleeps on while the budget it waits for is there.
THEOREM NobodyOversleeps == Spec => []NeverOversleeps
<1>1. Init => NeverOversleeps
  BY DEF Init, NeverOversleeps
<1>2. QED
  BY <1>1, LimiterTypeCorrect, NextNeverOversleeps, PTL DEF Spec

----------------------------------------------------------------------------
\* The limiter implements the bucket that is filled on every tick.
THEOREM LimiterImplementsBucket == Spec => ImplementsBucket
<1>1. Init => Bucket!BucketInit
  <2>1. SUFFICES ASSUME Init PROVE Refreshed = Burst
    BY DEF Bucket!BucketInit
  <2>2. QED
    BY <2>1, BurstType, LimiterAssumption DEF Init, Refreshed, Least
<1>2. TypeOK /\ [Next]_vars => [Bucket!BucketNext]_Refreshed
  <2>1. SUFFICES ASSUME TypeOK, [Next]_vars
                 PROVE  Bucket!BucketNext \/ Refreshed' = Refreshed
    OBVIOUS
  <2>2. ASSUME NEW c \in Callers, Granted(c) PROVE Bucket!BucketNext
    <3>1. need[c] \in Requests
      BY <2>1 DEF TypeOK
    <3>2. Refreshed' = Refreshed - need[c] /\ need[c] <= Refreshed
      BY <2>1, <2>2, GrantedRefreshed
    <3>3. QED
      BY <3>1, <3>2 DEF Bucket!BucketNext, Bucket!Take
  <2>3. ASSUME NEW c \in Callers, Deferred(c) PROVE Refreshed' = Refreshed
    BY <2>1, <2>3, DeferredRefreshed
  <2>4. CASE Tick
    <3>1. Refreshed \in 0 .. Burst /\ Burst \in Nat /\ Rate \in Nat
      BY <2>1, RefreshedType, BurstType, LimiterAssumption
    <3>2. Refreshed' = Least(Burst, Refreshed + Rate)
      BY <2>1, <2>4, TickRefreshed
    <3>3. Refreshed' = Bucket!Fill(Rate)
      BY <3>1, <3>2 DEF Least, Bucket!Fill
    <3>4. QED
      BY <3>3 DEF Bucket!BucketNext, Bucket!TickBucket
  <2>5. ASSUME tokens' = tokens, since' = since PROVE Refreshed' = Refreshed
    BY <2>5 DEF Refreshed, Burst
  <2>6. QED
    BY <2>1, <2>2, <2>3, <2>4, <2>5 DEF Next, Look, Call, Wake, vars
<1>3. QED
  BY <1>1, <1>2, LimiterTypeCorrect, PTL DEF Spec, ImplementsBucket, Bucket!BucketSpec
=============================================================================
