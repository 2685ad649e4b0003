---------------------------- MODULE SenderProofs ----------------------------
(***************************************************************************)
(* Theorems about WebhookSender, for any number of goroutines, thresholds, *)
(* rates and retries: the wait group, the token bucket and the circuit     *)
(* breaker each under every interleaving.                                  *)
(***************************************************************************)
EXTENDS WebhookSender, FiniteSetTheorems, SequenceTheorems, TLAPS

-----------------------------------------------------------------------------
(* Where a request is, and the wait group that counts it.                   *)

Early  == {"limit", "gate", "execute", "probe", "attempt", "backoff"}
Stages == Early \cup {"idle", "posting", "record"}
Owner  == {"running", "stopping", "drained", "timedout"}

Live == {r \in Requests : pc[r] # "idle"}

GroupInv ==
  /\ pc \in [Requests -> Stages] /\ main \in Owner
  /\ tries \in [Requests -> 0 .. MaxAttempts]
  /\ outcome \in [Requests -> Outcomes] /\ sends \in 0 .. MaxSends
  /\ \A r \in Requests : pc[r] \in Early \cup {"idle"} => tries[r] < MaxAttempts
  /\ group = Cardinality(Live)
  /\ DrainedMeansDone

LEMMA LiveFinite == IsFiniteSet(Live) /\ Cardinality(Live) \in Nat
BY FS_Subset, FS_CardinalityType, SenderAssumption DEF Live

LEMMA GroupInit == SenderInit => GroupInv
<1> SUFFICES ASSUME SenderInit PROVE GroupInv
  OBVIOUS
<1>1. Live = {}
  BY DEF SenderInit, Live
<1>2. Cardinality(Live) = 0
  BY <1>1, FS_EmptySet
<1> QED
  BY <1>2, SenderAssumption
  DEF SenderInit, GroupInv, Stages, Early, Owner, Outcomes, DrainedMeansDone

\* A goroutine that is started is counted, one that ends is not, and no other
\* move changes the count.
LEMMA Moved ==
  ASSUME GroupInv, NEW r \in Requests, NEW from, NEW to, Go(r, from, to)
  PROVE  /\ from = "idle" /\ to # "idle" => Cardinality(Live') = Cardinality(Live) + 1
         /\ from # "idle" /\ to = "idle" => Cardinality(Live') = Cardinality(Live) - 1
         /\ from # "idle" /\ to # "idle" => Live' = Live
<1>1. /\ pc[r] = from /\ pc'[r] = to
      /\ \A q \in Requests : q # r => pc'[q] = pc[q]
  BY DEF GroupInv, Go
<1>2. ASSUME from = "idle", to # "idle"
      PROVE  Cardinality(Live') = Cardinality(Live) + 1
  <2>1. Live' = Live \cup {r} /\ r \notin Live
    BY <1>1, <1>2 DEF Live
  <2> QED
    BY <2>1, LiveFinite, FS_AddElement
<1>3. ASSUME from # "idle", to = "idle"
      PROVE  Cardinality(Live') = Cardinality(Live) - 1
  <2>1. Live' = Live \ {r} /\ r \in Live
    BY <1>1, <1>3 DEF Live
  <2> QED
    BY <2>1, LiveFinite, FS_RemoveElement
<1>4. ASSUME from # "idle", to # "idle"
      PROVE  Live' = Live
  BY <1>1, <1>4 DEF Live
<1> QED
  BY <1>2, <1>3, <1>4

LEMMA GroupNext == GroupInv /\ [SenderNext]_vars => GroupInv'
<1> SUFFICES ASSUME GroupInv, [SenderNext]_vars PROVE GroupInv'
  OBVIOUS
<1> USE DEF Go, Stages, Early, Owner
<1>0. /\ pc \in [Requests -> Stages] /\ main \in Owner
      /\ tries \in [Requests -> 0 .. MaxAttempts]
      /\ outcome \in [Requests -> Outcomes] /\ sends \in 0 .. MaxSends /\ MaxSends \in Nat
      /\ group = Cardinality(Live) /\ group \in Nat /\ MaxAttempts \in Nat \ {0}
  BY LiveFinite, SenderAssumption DEF GroupInv
\* What a move of one request has to say for itself.
<1>1. ASSUME NEW r \in Requests, NEW from \in Stages, NEW to \in Stages,
             Go(r, from, to),
             \/ from = "idle" /\ to # "idle" /\ main = "running" /\ group' = group + 1
             \/ from # "idle" /\ to = "idle" /\ group' = group - 1
             \/ from # "idle" /\ to # "idle" /\ group' = group,
             main' = main, sends' \in 0 .. MaxSends,
             \/ to # "idle" /\ tries' = tries
             \/ to = "idle" /\ tries' = [tries EXCEPT ![r] = 0]
             \/ to = "posting" /\ from = "attempt" /\ tries' = [tries EXCEPT ![r] = @ + 1],
             to \in Early /\ from \notin Early \cup {"idle"} => tries[r] < MaxAttempts,
             outcome' \in [Requests -> Outcomes]
      PROVE  GroupInv'
  <2>1. pc' \in [Requests -> Stages] /\ main' \in Owner
    BY <1>0, <1>1
  <2>2. tries' \in [Requests -> 0 .. MaxAttempts]
    BY <1>0, <1>1 DEF GroupInv
  <2>3. \A q \in Requests : pc'[q] \in Early \cup {"idle"} => tries'[q] < MaxAttempts
    BY <1>0, <1>1 DEF GroupInv
  <2>4. group' = Cardinality(Live')
    <3>1. CASE from = "idle"
      <4>1. Cardinality(Live') = Cardinality(Live) + 1
        BY <1>1, <3>1, Moved
      <4> QED
        BY <1>0, <1>1, <3>1, <4>1
    <3>2. CASE from # "idle" /\ to = "idle"
      <4>1. Cardinality(Live') = Cardinality(Live) - 1
        BY <1>1, <3>2, Moved
      <4> QED
        BY <1>0, <1>1, <3>2, <4>1
    <3>3. CASE from # "idle" /\ to # "idle"
      <4>1. Live' = Live
        BY <1>1, <3>3, Moved
      <4> QED
        BY <1>0, <1>1, <3>3, <4>1
    <3> QED
      BY <3>1, <3>2, <3>3
  <2>5. DrainedMeansDone'
    BY <1>0, <1>1 DEF GroupInv, DrainedMeansDone
  <2> QED
    BY <1>1, <2>1, <2>2, <2>3, <2>4, <2>5 DEF GroupInv
<1>2. ASSUME NEW r \in Requests, SendAsync(r)
      PROVE  GroupInv'
  <2>1. sends' \in 0 .. MaxSends
    BY <1>0, <1>2 DEF SendAsync
  <2> QED
    BY <1>0, <1>1, <1>2, <2>1 DEF SendAsync, local
<1>11. ASSUME NEW r \in Requests, NEW from \in Stages \ {"idle"}, End(r, from), main' = main,
              sends' = sends
       PROVE  GroupInv'
  <2>1. outcome' \in [Requests -> Outcomes]
    BY <1>0, <1>11 DEF End, Outcomes
  <2> QED
    BY <1>0, <1>1, <1>11, <2>1 DEF End
<1>3. ASSUME NEW r \in Requests, Allow(r)
      PROVE  GroupInv'
  <2>1. CASE End(r, "limit")
    BY <1>3, <1>11, <2>1 DEF Allow
  <2>2. CASE Go(r, "limit", "gate") /\ UNCHANGED local /\ UNCHANGED group
    BY <1>0, <1>1, <1>3, <2>2 DEF Allow, local
  <2> QED
    BY <1>3, <2>1, <2>2 DEF Allow
<1>4. ASSUME NEW r \in Requests, Gate(r) \/ Execute(r) \/ Probe(r)
      PROVE  GroupInv'
  <2>1. /\ UNCHANGED <<main, sends>>
        /\ \/ End(r, "gate") \/ End(r, "execute") \/ End(r, "probe")
           \/ /\ UNCHANGED <<local, group>>
              /\ Go(r, "gate", "execute") \/ Go(r, "execute", "attempt")
                   \/ Go(r, "execute", "probe") \/ Go(r, "probe", "attempt")
    BY <1>4 DEF Gate, Execute, Probe
  <2>2. CASE End(r, "gate") \/ End(r, "execute") \/ End(r, "probe")
    BY <1>11, <2>1, <2>2
  <2>3. CASE ~(End(r, "gate") \/ End(r, "execute") \/ End(r, "probe"))
    BY <1>0, <1>1, <2>1, <2>3 DEF local
  <2> QED
    BY <2>2, <2>3
<1>5. ASSUME NEW r \in Requests, Post(r)
      PROVE  GroupInv'
  BY <1>0, <1>1, <1>5 DEF Post, Conclude, Outcomes
<1>6. ASSUME NEW r \in Requests, NEW o \in Outcomes, Answer(r, o)
      PROVE  GroupInv'
  BY <1>0, <1>1, <1>6 DEF Answer, Conclude, Retried
<1>7. ASSUME NEW r \in Requests, Backoff(r)
      PROVE  GroupInv'
  BY <1>0, <1>1, <1>7 DEF Backoff, Conclude, Outcomes
<1>8. ASSUME NEW r \in Requests, Record(r)
      PROVE  GroupInv'
  BY <1>8, <1>11 DEF Record
<1>9. CASE Shutdown
  <2>1. Live' = Live /\ group' = group
    BY <1>9 DEF Shutdown, requestVars, Live
  <2>2. main' = "drained" => main = "drained" \/ Live = {}
    BY <1>0, <1>9, LiveFinite, FS_EmptySet DEF Shutdown
  <2>3. DrainedMeansDone'
    BY <1>9, <2>2 DEF Shutdown, requestVars, DrainedMeansDone, GroupInv, Live
  <2> QED
    BY <1>0, <1>9, <2>1, <2>3 DEF Shutdown, requestVars, GroupInv
<1>10. CASE ParentCancels \/ Tick \/ UNCHANGED vars
  BY <1>10 DEF ParentCancels, Tick, vars, requestVars, GroupInv, DrainedMeansDone, Live
<1> QED
  BY <1>2, <1>3, <1>4, <1>5, <1>6, <1>7, <1>8, <1>9, <1>10 DEF SenderNext, RequestStep

\* A Shutdown that reports success has waited for every request, however many were
\* started and in whatever state they ended (SendAsyncWithContext, Shutdown).
THEOREM ShutdownWaits == SenderSpec => []DrainedMeansDone
<1>1. SenderSpec => []GroupInv
  BY GroupInit, GroupNext, PTL DEF SenderSpec
<1>2. GroupInv => DrainedMeansDone
  BY DEF GroupInv
<1> QED
  BY <1>1, <1>2, PTL

-----------------------------------------------------------------------------
(* The token bucket.  What it holds and what it has let through since any    *)
(* moment are paid for by a full bucket and the time since.                  *)

Full == Capacity * Minute

Paid(i) ==
  (Len(allowed) - i + 1) * Minute + bucket.tokens <= Full + Capacity * (bucket.refilled - allowed[i])

BucketInv ==
  /\ now \in 0 .. MaxTime
  /\ bucket \in [tokens : 0 .. Full, refilled : 0 .. MaxTime] /\ bucket.refilled <= now
  /\ allowed \in Seq(Nat)
  /\ \A i \in DOMAIN allowed : allowed[i] <= bucket.refilled /\ Paid(i)
  /\ BucketBound

LEMMA Product ==
  ASSUME NEW a \in Nat, NEW b \in Nat
  PROVE  a * b \in Nat
OBVIOUS

LEMMA Earned ==
  ASSUME NEW c \in Nat, NEW x \in Int, NEW y \in Int, NEW z \in Int
  PROVE  c * (y - x) + (z - y) * c = c * (z - x)
OBVIOUS

LEMMA BucketInit == SenderInit => BucketInv
<1> SUFFICES ASSUME SenderInit PROVE BucketInv
  OBVIOUS
<1>1. Full \in Nat
  BY Product, SenderAssumption DEF Full
<1> QED
  BY <1>1, SenderAssumption DEF SenderInit, BucketInv, BucketBound, Full

\* What Refilled returns, and what it costs those already let through.
LEMMA Refills ==
  ASSUME BucketInv
  PROVE  /\ Full \in Nat /\ Refilled \in 0 .. Full
         /\ \A i \in DOMAIN allowed :
              (Len(allowed) - i + 1) * Minute + Refilled <= Full + Capacity * (now - allowed[i])
<1>1. /\ Capacity \in Nat /\ Minute \in Nat /\ now \in Nat /\ bucket.refilled \in Nat
      /\ bucket.tokens \in Nat /\ bucket.tokens <= Full /\ bucket.refilled <= now
  BY SenderAssumption DEF BucketInv
<1>2. Full \in Nat /\ (now - bucket.refilled) * Capacity \in Nat
  BY <1>1, Product DEF Full
<1>3. PICK earned \in Nat : earned = (now - bucket.refilled) * Capacity
  BY <1>2
<1>4. Refilled \in 0 .. Full /\ Refilled <= bucket.tokens + earned
  BY <1>1, <1>2, <1>3 DEF Refilled, Smaller, Full
<1>5. ASSUME NEW i \in DOMAIN allowed
      PROVE  (Len(allowed) - i + 1) * Minute + Refilled <= Full + Capacity * (now - allowed[i])
  <2>1. allowed[i] \in Nat /\ i \in Nat /\ Len(allowed) \in Nat /\ Paid(i)
    BY <1>5 DEF BucketInv
  <2>2. Capacity * (bucket.refilled - allowed[i]) + earned = Capacity * (now - allowed[i])
    BY <1>1, <1>3, <2>1, Earned
  <2>3. PICK spent \in Int : spent = (Len(allowed) - i + 1) * Minute
    BY <1>1, <2>1
  <2>4. PICK before \in Int : before = Capacity * (bucket.refilled - allowed[i])
    BY <1>1, <2>1
  <2>5. spent + bucket.tokens <= Full + before
    BY <2>1, <2>3, <2>4 DEF Paid
  <2>6. PICK after \in Int : after = Capacity * (now - allowed[i])
    BY <1>1, <2>1
  <2>7. before + earned = after
    BY <2>2, <2>4, <2>6
  <2>8. spent + Refilled <= Full + after
    BY <1>1, <1>2, <1>4, <2>5, <2>7
  <2> QED
    BY <2>3, <2>6, <2>8
<1> QED
  BY <1>2, <1>4, <1>5

LEMMA BucketNext == BucketInv /\ [SenderNext]_vars => BucketInv'
<1> SUFFICES ASSUME BucketInv, [SenderNext]_vars PROVE BucketInv'
  OBVIOUS
<1>0. /\ Capacity \in Nat /\ Minute \in Nat \ {0} /\ MaxTime \in Nat /\ now \in 0 .. MaxTime
      /\ allowed \in Seq(Nat)
      /\ \A i \in DOMAIN allowed : allowed[i] \in Nat /\ allowed[i] <= now
      /\ Full \in Nat /\ Refilled \in 0 .. Full
      /\ \A i \in DOMAIN allowed :
           (Len(allowed) - i + 1) * Minute + Refilled <= Full + Capacity * (now - allowed[i])
  <2>1. /\ bucket.refilled \in Nat /\ bucket.refilled <= now /\ now \in 0 .. MaxTime
        /\ \A i \in DOMAIN allowed : allowed[i] \in Nat /\ allowed[i] <= bucket.refilled
    BY SenderAssumption DEF BucketInv
  <2>2. allowed \in Seq(Nat)
    BY DEF BucketInv
  <2>3. \A i \in DOMAIN allowed : allowed[i] <= now
    BY <2>1, SenderAssumption
  <2> QED
    BY <2>1, <2>2, <2>3, Refills, SenderAssumption
<1>1. ASSUME NEW r \in Requests, Allow(r), Refilled >= Minute
      PROVE  BucketInv'
  <2>1. /\ bucket' = [tokens |-> Refilled - Minute, refilled |-> now] /\ now' = now
        /\ allowed' = Append(allowed, now)
    BY <1>0, <1>1 DEF Allow
  <2>2. PICK n \in Nat : n = Len(allowed) + 1
    BY <1>0
  <2>3. /\ allowed' \in Seq(Nat) /\ Len(allowed') = n /\ DOMAIN allowed' = 1 .. n
        /\ allowed'[n] = now
        /\ \A i \in DOMAIN allowed : allowed'[i] = allowed[i] /\ i \in 1 .. n - 1
        /\ \A i \in 1 .. n : i # n => i \in DOMAIN allowed
    <3>1. allowed' \in Seq(Nat) /\ Len(allowed') = n /\ allowed'[n] = now
      BY <1>0, <2>1, <2>2
    <3>2. \A i \in 1 .. Len(allowed) : allowed'[i] = allowed[i]
      BY <1>0, <2>1
    <3>3. DOMAIN allowed = 1 .. n - 1 /\ DOMAIN allowed' = 1 .. n
      BY <1>0, <2>2, <3>1
    <3> QED
      BY <2>2, <3>1, <3>2, <3>3
  <2>4. bucket' \in [tokens : 0 .. Full, refilled : 0 .. MaxTime] /\ bucket'.refilled <= now'
    BY <1>0, <1>1, <2>1
  <2>5. ASSUME NEW i \in 1 .. n
        PROVE  allowed'[i] <= bucket'.refilled /\ Paid(i)'
    <3>1. CASE i = n
      <4>1. (n - i + 1) * Minute = Minute /\ Capacity * (now - now) = 0
        BY <1>0, <2>2, <3>1
      <4> QED
        BY <1>0, <2>1, <2>3, <3>1, <4>1 DEF Paid
    <3>2. CASE i # n
      <4>1. /\ i \in DOMAIN allowed /\ allowed'[i] = allowed[i] /\ allowed[i] <= now
            /\ allowed[i] \in Nat
        BY <1>0, <2>3, <3>2
      <4>2. (n - i + 1) * Minute = (Len(allowed) - i + 1) * Minute + Minute
        BY <1>0, <2>2
      <4>3. PICK spent \in Int : spent = (Len(allowed) - i + 1) * Minute
        BY <1>0
      <4>4. PICK since \in Int : since = Capacity * (now - allowed[i])
        BY <1>0, <4>1
      <4>5. spent + Refilled <= Full + since
        BY <1>0, <4>1, <4>3, <4>4
      <4>6. (n - i + 1) * Minute + (Refilled - Minute) <= Full + Capacity * (now - allowed[i])
        BY <1>0, <4>2, <4>3, <4>4, <4>5, SMTT(30)
      <4> QED
        BY <2>1, <2>3, <4>1, <4>6 DEF Paid
    <3> QED
      BY <3>1, <3>2
  <2>6. BucketBound'
    <3> SUFFICES ASSUME NEW i \in 1 .. n, NEW j \in 1 .. n, i <= j
                 PROVE  (j - i + 1) * Minute
                          <= Capacity * Minute + Capacity * (allowed'[j] - allowed'[i])
      BY <2>3 DEF BucketBound
    <3>1. CASE j = n
      <4>1. /\ Paid(i)' /\ bucket'.refilled = allowed'[n] /\ bucket'.tokens \in Nat
            /\ Len(allowed') = n
        BY <2>1, <2>3, <2>4, <2>5
      <4>2. allowed'[i] \in Nat /\ allowed'[n] \in Nat
        BY <2>3
      <4>3. PICK spent \in Int : spent = (n - i + 1) * Minute
        BY <1>0
      <4>4. PICK since \in Int : since = Capacity * (allowed'[n] - allowed'[i])
        BY <1>0, <4>2
      <4>5. spent + bucket'.tokens <= Full + since
        BY <4>1, <4>3, <4>4 DEF Paid
      <4>6. spent <= Full + since
        BY <1>0, <4>1, <4>5
      <4> QED
        BY <3>1, <4>3, <4>4, <4>6 DEF Full
    <3>2. CASE j # n
      <4>1. i \in DOMAIN allowed /\ j \in DOMAIN allowed
        BY <2>3, <3>2
      <4> QED
        BY <2>3, <4>1 DEF BucketInv, BucketBound
    <3> QED
      BY <3>1, <3>2
  <2> QED
    BY <1>0, <2>1, <2>3, <2>4, <2>5, <2>6 DEF BucketInv
<1>2. ASSUME NEW r \in Requests, Allow(r), Refilled < Minute
      PROVE  BucketInv'
  <2>1. /\ bucket' = [tokens |-> Refilled, refilled |-> now] /\ UNCHANGED <<now, allowed>>
    BY <1>0, <1>2 DEF Allow
  <2>2. \A i \in DOMAIN allowed : allowed[i] <= now
    BY <1>0 DEF BucketInv
  <2>3. BucketBound'
    BY <2>1 DEF BucketInv, BucketBound
  <2> QED
    BY <1>0, <2>1, <2>2, <2>3 DEF BucketInv, Paid
<1>3. ASSUME bucket' = bucket, allowed' = allowed, now' = now \/ (now' = now + 1 /\ now < MaxTime)
      PROVE  BucketInv'
  <2>1. BucketBound' /\ \A i \in DOMAIN allowed : Paid(i)' <=> Paid(i)
    BY <1>3 DEF BucketInv, BucketBound, Paid
  <2> QED
    BY <1>0, <1>3, <2>1 DEF BucketInv
<1>4. CASE \E r \in Requests : RequestStep(r) /\ ~Allow(r)
  <2>1. bucket' = bucket /\ allowed' = allowed /\ now' = now
    BY <1>4 DEF RequestStep, SendAsync, Gate, Execute, Probe, Post, Answer, Backoff, Record
  <2> QED
    BY <1>3, <2>1
<1>5. CASE Shutdown \/ ParentCancels \/ Tick \/ UNCHANGED vars
  <2>1. bucket' = bucket /\ allowed' = allowed /\ (now' = now \/ (now' = now + 1 /\ now < MaxTime))
    BY <1>5 DEF Shutdown, ParentCancels, Tick, vars
  <2> QED
    BY <1>3, <2>1
<1>6. Refilled >= Minute \/ Refilled < Minute
  BY <1>0
<1> QED
  BY <1>1, <1>2, <1>4, <1>5, <1>6 DEF SenderNext, RequestStep

\* Between any two requests let through, whatever the goroutines and the pauses, the
\* bucket was full at most once over and above its rate (RateLimiter.Allow, refill).
THEOREM BucketBounds == SenderSpec => []BucketBound
<1>1. SenderSpec => []BucketInv
  BY BucketInit, BucketNext, PTL DEF SenderSpec
<1>2. BucketInv => BucketBound
  BY DEF BucketInv
<1> QED
  BY <1>1, <1>2, PTL

-----------------------------------------------------------------------------
(* The circuit breaker.  Its counters are the streak that ends the record of *)
(* what it was told.                                                         *)

States  == {"closed", "open", "half_open"}
Entries == [outcome : Outcomes, state : States]
Probed  == [outcome |-> "ok", state |-> "half_open"]

Ago(s, k) == s[Len(s) - k]

Streak ==
  /\ breaker.state = "closed" =>
       /\ breaker.failures < FailureThreshold /\ breaker.failures <= Len(recorded)
       /\ \A k \in 0 .. breaker.failures - 1 : Ago(recorded, k).outcome # "ok"
  /\ breaker.state = "half_open" =>
       /\ breaker.successes < SuccessThreshold /\ breaker.successes <= Len(recorded)
       /\ \A k \in 0 .. breaker.successes - 1 : Ago(recorded, k) = Probed

BreakerType ==
  /\ breaker \in [state : States, failures : 0 .. FailureThreshold,
                  successes : 0 .. SuccessThreshold, since : 0 .. MaxTime]
  /\ recorded \in Seq(Entries) /\ Len(recorded) <= Window

BreakerInv == BreakerType /\ Streak

LEMMA WindowWide ==
  /\ FailureThreshold \in Nat \ {0} /\ SuccessThreshold \in Nat \ {0} /\ Window \in Nat
  /\ FailureThreshold <= Window /\ SuccessThreshold <= Window
BY SenderAssumption DEF Window

LEMMA BreakerInit == SenderInit => BreakerInv
BY WindowWide, SenderAssumption DEF SenderInit, BreakerInv, BreakerType, Streak, States

\* What is recorded goes to the end, what was there moves one place back, and the
\* oldest entry leaves a record that is as long as the longer streak.
LEMMA Recording ==
  ASSUME NEW s \in Seq(Entries), Len(s) <= Window, NEW e \in Entries,
         NEW t, t = Recent(Append(s, e))
  PROVE  /\ t \in Seq(Entries) /\ Len(t) <= Window /\ Ago(t, 0) = e
         /\ \A n \in Nat : n <= Len(s) /\ n < Window => n + 1 <= Len(t)
         /\ \A k \in 1 .. Len(t) - 1 : Ago(t, k) = Ago(s, k - 1)
<1>1. PICK u : u = Append(s, e)
  OBVIOUS
<1>2. /\ u \in Seq(Entries) /\ Len(u) = Len(s) + 1 /\ u[Len(u)] = e
      /\ \A i \in 1 .. Len(s) : u[i] = s[i]
  BY <1>1
<1>3. CASE Len(u) <= Window
  BY <1>1, <1>2, <1>3, WindowWide DEF Recent, Ago
<1>4. CASE ~(Len(u) <= Window)
  <2>1. /\ t = Tail(u) /\ Len(u) = Window + 1 /\ Window \in Nat \ {0} /\ u # <<>>
    BY <1>1, <1>2, <1>4, WindowWide DEF Recent
  <2>2. /\ t \in Seq(Entries) /\ Len(t) = Window
        /\ \A i \in 1 .. Window : t[i] = u[i + 1]
    BY <1>2, <2>1
  <2> QED
    BY <1>2, <2>1, <2>2 DEF Ago
<1> QED
  BY <1>3, <1>4

LEMMA Suffix ==
  ASSUME NEW s \in Seq(Entries), NEW n \in 1 .. Len(s), NEW i \in 1 .. n
  PROVE  SubSeq(s, Len(s) - n + 1, Len(s))[i] = Ago(s, n - i)
BY DEF Ago

\* What recording an outcome makes of the breaker and of the record.
LEMMA Recorded ==
  ASSUME GroupInv, BreakerInv, now \in 0 .. MaxTime, NEW r \in Requests, Record(r)
  PROVE  /\ BreakerInv'
         /\ breaker.state = "closed" /\ breaker'.state = "open" =>
              /\ Len(recorded') >= FailureThreshold
              /\ \A k \in 0 .. FailureThreshold - 1 : Ago(recorded', k).outcome # "ok"
         /\ breaker.state # "closed" /\ breaker'.state = "closed" =>
              /\ Len(recorded') >= SuccessThreshold
              /\ \A k \in 0 .. SuccessThreshold - 1 : Ago(recorded', k) = Probed
<1>1. PICK e : e = [outcome |-> outcome[r], state |-> breaker.state]
  OBVIOUS
<1>2. /\ e \in Entries /\ recorded' = Recent(Append(recorded, e))
      /\ breaker' = IF e.outcome = "ok" THEN AfterSuccess ELSE AfterFailure
  BY <1>1 DEF Record, GroupInv, BreakerInv, BreakerType, Entries
<1>3. /\ recorded \in Seq(Entries) /\ Len(recorded) <= Window
      /\ breaker \in [state : States, failures : 0 .. FailureThreshold,
                      successes : 0 .. SuccessThreshold, since : 0 .. MaxTime]
      /\ MaxTime \in Nat
  BY SenderAssumption DEF BreakerInv, BreakerType
<1>4. PICK t : t = recorded'
  OBVIOUS
<1>5. /\ t \in Seq(Entries) /\ Len(t) <= Window /\ Ago(t, 0) = e
      /\ \A n \in Nat : n <= Len(recorded) /\ n < Window => n + 1 <= Len(t)
      /\ \A k \in 1 .. Len(t) - 1 : Ago(t, k) = Ago(recorded, k - 1)
  BY <1>2, <1>3, <1>4, Recording
<1>6. CASE breaker.state = "open"
  <2>1. breaker' = breaker
    BY <1>2, <1>6 DEF AfterSuccess, AfterFailure
  <2> QED
    BY <1>3, <1>4, <1>5, <1>6, <2>1 DEF BreakerInv, BreakerType, Streak
<1>7. CASE breaker.state = "closed"
  <2>0. PICK n \in Nat : n = breaker.failures
    BY <1>3
  <2>1. /\ n < FailureThreshold /\ n <= Len(recorded)
        /\ \A k \in 0 .. n - 1 : Ago(recorded, k).outcome # "ok"
    BY <1>7, <2>0 DEF BreakerInv, Streak
  <2>2. CASE e.outcome = "ok"
    <3>1. breaker' = [breaker EXCEPT !.failures = 0]
      BY <1>2, <1>7, <2>2 DEF AfterSuccess
    <3>2. /\ breaker'.state = "closed" /\ breaker'.failures = 0
          /\ breaker'.successes = breaker.successes /\ breaker'.since = breaker.since
      BY <1>3, <1>7, <3>1
    <3>3. BreakerType'
      BY <1>3, <1>4, <1>5, <3>1, WindowWide, SMTT(30) DEF BreakerType
    <3>4. Streak'
      BY <1>4, <1>5, <3>2, WindowWide DEF Streak
    <3> QED
      BY <1>7, <3>2, <3>3, <3>4 DEF BreakerInv
  <2>3. CASE e.outcome # "ok"
    <3>1. /\ n + 1 <= Len(t)
          /\ \A k \in 0 .. n : Ago(t, k).outcome # "ok"
      BY <1>5, <2>1, <2>3, WindowWide
    <3>2. CASE n + 1 >= FailureThreshold
      <4>1. breaker' = Breaker("open", 0, breaker.successes)
        BY <1>2, <1>7, <2>0, <2>3, <3>2 DEF AfterFailure
      <4>2. BreakerInv'
        BY <1>3, <1>4, <1>5, <4>1, WindowWide DEF BreakerInv, BreakerType, Streak, Breaker, States
      <4>3. FailureThreshold = n + 1
        BY <2>1, <3>2, WindowWide
      <4> QED
        BY <1>4, <1>5, <1>7, <3>1, <4>2, <4>3
    <3>3. CASE ~(n + 1 >= FailureThreshold)
      <4>1. breaker' = [breaker EXCEPT !.failures = n + 1]
        BY <1>2, <1>7, <2>0, <2>3, <3>3 DEF AfterFailure
      <4> QED
        BY <1>3, <1>4, <1>5, <1>7, <2>0, <3>1, <3>3, <4>1, WindowWide, SMTT(30)
        DEF BreakerInv, BreakerType, Streak
    <3> QED
      BY <3>2, <3>3
  <2> QED
    BY <2>2, <2>3
<1>8. CASE breaker.state = "half_open"
  <2>0. PICK n \in Nat : n = breaker.successes
    BY <1>3
  <2>1. /\ n < SuccessThreshold /\ n <= Len(recorded)
        /\ \A k \in 0 .. n - 1 : Ago(recorded, k) = Probed
    BY <1>8, <2>0 DEF BreakerInv, Streak
  <2>2. CASE e.outcome # "ok"
    <3>1. breaker' = Breaker("open", 0, 0)
      BY <1>2, <1>8, <2>2 DEF AfterFailure
    <3> QED
      BY <1>3, <1>4, <1>5, <1>8, <3>1, WindowWide
      DEF BreakerInv, BreakerType, Streak, Breaker, States
  <2>3. CASE e.outcome = "ok"
    <3>1. /\ n + 1 <= Len(t) /\ e = Probed
          /\ \A k \in 0 .. n : Ago(t, k) = Probed
      <4>1. e = Probed
        BY <1>1, <1>8, <2>3 DEF Probed
      <4> QED
        BY <1>5, <2>1, <4>1, WindowWide
    <3>2. CASE n + 1 >= SuccessThreshold
      <4>1. breaker' = Breaker("closed", 0, 0)
        BY <1>2, <1>8, <2>0, <2>3, <3>2 DEF AfterSuccess
      <4>2. BreakerInv'
        BY <1>3, <1>4, <1>5, <4>1, WindowWide DEF BreakerInv, BreakerType, Streak, Breaker, States
      <4>3. SuccessThreshold = n + 1
        BY <2>1, <3>2, WindowWide
      <4> QED
        BY <1>4, <1>5, <1>8, <3>1, <4>2, <4>3
    <3>3. CASE ~(n + 1 >= SuccessThreshold)
      <4>1. breaker' = [breaker EXCEPT !.successes = n + 1]
        BY <1>2, <1>8, <2>0, <2>3, <3>3 DEF AfterSuccess
      <4> QED
        BY <1>3, <1>4, <1>5, <1>8, <2>0, <3>1, <3>3, <4>1, WindowWide, SMTT(30)
        DEF BreakerInv, BreakerType, Streak
    <3> QED
      BY <3>2, <3>3
  <2> QED
    BY <2>2, <2>3
<1> QED
  BY <1>3, <1>6, <1>7, <1>8 DEF States

\* No other step opens or closes the circuit.
LEMMA Unrecorded ==
  ASSUME BreakerInv, now \in 0 .. MaxTime, [SenderNext]_vars,
         \A r \in Requests : ~Record(r)
  PROVE  /\ BreakerInv'
         /\ breaker'.state = breaker.state \/ breaker'.state = "half_open"
<1>1. CASE \E r \in Requests : Probe(r) /\ breaker' # breaker
  <2>1. breaker' = Breaker("half_open", 0, 0) /\ recorded' = recorded
    BY <1>1 DEF Probe
  <2> QED
    BY <2>1, WindowWide, SenderAssumption
    DEF BreakerInv, BreakerType, Streak, Breaker, States
<1>2. CASE breaker' = breaker /\ recorded' = recorded
  BY <1>2 DEF BreakerInv, BreakerType, Streak
<1>3. ASSUME NEW r \in Requests, RequestStep(r)
      PROVE  \/ breaker' = breaker /\ recorded' = recorded
             \/ Probe(r) /\ breaker' # breaker
  BY <1>3 DEF RequestStep, SendAsync, Allow, Gate, Execute, Probe, Post, Answer, Backoff
<1>4. CASE Shutdown \/ ParentCancels \/ Tick \/ UNCHANGED vars
  <2>1. breaker' = breaker /\ recorded' = recorded
    BY <1>4 DEF Shutdown, ParentCancels, Tick, vars
  <2> QED
    BY <1>2, <2>1
<1> QED
  BY <1>1, <1>2, <1>3, <1>4 DEF SenderNext

SenderInv == GroupInv /\ BucketInv /\ BreakerInv

LEMMA SenderInvariant == SenderSpec => []SenderInv
<1>1. SenderInit => SenderInv
  BY GroupInit, BucketInit, BreakerInit DEF SenderInv
<1>2. SenderInv /\ [SenderNext]_vars => SenderInv'
  <2> SUFFICES ASSUME SenderInv, [SenderNext]_vars PROVE SenderInv'
    OBVIOUS
  <2>1. GroupInv' /\ BucketInv' /\ now \in 0 .. MaxTime
    BY GroupNext, BucketNext DEF SenderInv, BucketInv
  <2>2. BreakerInv'
    BY <2>1, Recorded, Unrecorded DEF SenderInv
  <2> QED
    BY <2>1, <2>2 DEF SenderInv
<1> QED
  BY <1>1, <1>2, PTL DEF SenderSpec

\* Every variable of the sender keeps its shape, and the wait group counts the
\* goroutines exactly (SendAsyncWithContext: Add before the start, Done at the end).
THEOREM SenderTypeCorrect == SenderSpec => []SenderTypeOK
<1>1. SenderInv => SenderTypeOK
  BY DEF SenderInv, GroupInv, BucketInv, BreakerInv, BreakerType, SenderTypeOK, States, Full, Live
<1> QED
  BY <1>1, SenderInvariant, PTL

\* Where no client error was recorded, the circuit opens from closed only on a whole streak of
\* failures, however the goroutines interleave (CircuitBreaker.recordFailure).
THEOREM OpensOnlyOnStreak == SenderSpec => OpensOnStreak
<1> DEFINE A == breaker.state = "closed" /\ breaker'.state = "open" /\ NoClientError' =>
                  /\ Len(recorded') >= FailureThreshold
                  /\ \A i \in 1 .. FailureThreshold :
                       Last(FailureThreshold)[i].outcome \in {"server_error", "cancelled"}
<1>1. SenderInv /\ [SenderNext]_vars => A
  <2> SUFFICES ASSUME SenderInv, [SenderNext]_vars,
                      breaker.state = "closed", breaker'.state = "open", NoClientError'
               PROVE  A
    OBVIOUS
  <2>1. PICK r \in Requests : Record(r)
    BY Unrecorded DEF SenderInv, BucketInv
  <2>2. /\ Len(recorded') >= FailureThreshold /\ recorded' \in Seq(Entries)
        /\ \A k \in 0 .. FailureThreshold - 1 : Ago(recorded', k).outcome # "ok"
    BY <2>1, Recorded DEF SenderInv, BucketInv, BreakerInv, BreakerType
  <2>3. PICK t : t = recorded'
    OBVIOUS
  <2>4. ASSUME NEW i \in 1 .. FailureThreshold
        PROVE  Last(FailureThreshold)[i].outcome \in {"server_error", "cancelled"}
    <3>1. /\ t \in Seq(Entries) /\ FailureThreshold \in 1 .. Len(t)
          /\ FailureThreshold - i \in 0 .. FailureThreshold - 1
      BY <2>2, <2>3, WindowWide
    <3>2. SubSeq(t, Len(t) - FailureThreshold + 1, Len(t))[i] = Ago(t, FailureThreshold - i)
      BY <3>1, Suffix
    <3>3. Last(FailureThreshold)[i] = t[Len(t) - (FailureThreshold - i)]
      BY <2>3, <3>2 DEF Last, Ago
    <3>4. Len(t) - (FailureThreshold - i) \in DOMAIN t
      BY <3>1
    <3>5. /\ t[Len(t) - (FailureThreshold - i)].outcome \in Outcomes
          /\ t[Len(t) - (FailureThreshold - i)].outcome # "client_error"
      <4>1. PICK j \in DOMAIN t : j = Len(t) - (FailureThreshold - i)
        BY <3>4
      <4>2. t[j] \in Entries
        BY <3>1, <4>1
      <4>3. t[j].outcome # "client_error"
        BY <2>3, <4>1 DEF NoClientError
      <4> QED
        BY <4>1, <4>2, <4>3 DEF Entries
    <3>6. t[Len(t) - (FailureThreshold - i)].outcome # "ok"
      BY <2>2, <2>3, <3>1 DEF Ago
    <3> QED
      BY <3>3, <3>5, <3>6 DEF Outcomes
  <2> QED
    BY <2>2, <2>4
<1>2. SenderInv /\ [SenderNext]_vars => [A]_vars
  BY <1>1
<1> HIDE DEF A
<1>3. SenderSpec => [][A]_vars
  BY <1>2, SenderInvariant, PTL DEF SenderSpec
<1> QED
  BY <1>3 DEF OpensOnStreak, A

\* It closes again only on a whole streak of successes, all of them recorded while it
\* was half-open: answers that come late do not count (CircuitBreaker.recordSuccess).
THEOREM ClosesOnlyOnProbes == SenderSpec => ClosesOnProbes
<1> DEFINE A == breaker.state # "closed" /\ breaker'.state = "closed" =>
                  /\ Len(recorded') >= SuccessThreshold
                  /\ \A i \in 1 .. SuccessThreshold :
                       Last(SuccessThreshold)[i] = [outcome |-> "ok", state |-> "half_open"]
<1>1. SenderInv /\ [SenderNext]_vars => A
  <2> SUFFICES ASSUME SenderInv, [SenderNext]_vars,
                      breaker.state # "closed", breaker'.state = "closed"
               PROVE  A
    OBVIOUS
  <2>1. PICK r \in Requests : Record(r)
    BY Unrecorded DEF SenderInv, BucketInv
  <2>2. /\ Len(recorded') >= SuccessThreshold /\ recorded' \in Seq(Entries)
        /\ \A k \in 0 .. SuccessThreshold - 1 : Ago(recorded', k) = Probed
    BY <2>1, Recorded DEF SenderInv, BucketInv, BreakerInv, BreakerType
  <2>3. PICK t : t = recorded'
    OBVIOUS
  <2>4. ASSUME NEW i \in 1 .. SuccessThreshold
        PROVE  Last(SuccessThreshold)[i] = Probed
    <3>1. /\ t \in Seq(Entries) /\ SuccessThreshold \in 1 .. Len(t)
          /\ SuccessThreshold - i \in 0 .. SuccessThreshold - 1
      BY <2>2, <2>3, WindowWide
    <3>2. SubSeq(t, Len(t) - SuccessThreshold + 1, Len(t))[i] = Ago(t, SuccessThreshold - i)
      BY <3>1, Suffix
    <3> QED
      BY <2>2, <2>3, <3>1, <3>2 DEF Last
  <2> QED
    BY <2>2, <2>4 DEF Probed
<1>2. SenderInv /\ [SenderNext]_vars => [A]_vars
  BY <1>1
<1> HIDE DEF A
<1>3. SenderSpec => [][A]_vars
  BY <1>2, SenderInvariant, PTL DEF SenderSpec
<1> QED
  BY <1>3 DEF ClosesOnProbes, A
=============================================================================
