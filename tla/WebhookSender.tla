---------------------------- MODULE WebhookSender ----------------------------
(***************************************************************************)
(* internal/webhook: one Sender with its token bucket, its circuit breaker *)
(* and its retries, shared by the goroutines of SendAsyncWithContext.  A   *)
(* request walks                                                           *)
(*                                                                         *)
(*   idle -> limit -> gate -> execute -> attempt -> posting -> record      *)
(*        -> idle                                                          *)
(*                                                                         *)
(* with "probe" between the two critical sections of the breaker's         *)
(* getState and "backoff" between two attempts.  Mutex-protected sections  *)
(* are single steps.  Payloads, headers and metrics are left out.          *)
(***************************************************************************)
EXTENDS Integers, Sequences, FiniteSets

CONSTANTS
  Requests,          \* sends that can be under way at the same time
  FailureThreshold, SuccessThreshold, Timeout,   \* circuit breaker
  MaxAttempts,       \* retry.maxAttempts (1: retries disabled)
  Capacity,          \* rateLimit.requestsPerMinute
  Minute,            \* a minute, in ticks
  MaxTime,           \* bound: ticks modelled
  MaxSends           \* bound: sends started

ASSUME SenderAssumption ==
  /\ IsFiniteSet(Requests)
  /\ FailureThreshold \in Nat \ {0} /\ SuccessThreshold \in Nat \ {0}
  /\ Timeout \in Nat /\ MaxAttempts \in Nat \ {0}
  /\ Capacity \in Nat \ {0} /\ Minute \in Nat \ {0} /\ MaxTime \in Nat
  /\ MaxSends \in Nat

VARIABLES
  now, breaker, bucket,
  pc, tries, outcome,
  main,        \* the goroutine that owns the Sender: running, stopping, drained, timedout
  cancelled,   \* the Sender's context
  group,       \* wait group of asynchronous sends
  sends,       \* sends started
  recorded,    \* history: the last Window outcomes the breaker was told, with its state then
  allowed      \* history: when the bucket let a request through

requestVars == <<pc, tries, outcome>>
local == <<tries, outcome>>
vars == <<now, breaker, bucket, requestVars, main, cancelled, group, sends,
          recorded, allowed>>

Outcomes == {"ok", "client_error", "server_error", "cancelled"}

Breaker(state, failures, successes) ==
  [state |-> state, failures |-> failures, successes |-> successes, since |-> now]

SenderInit ==
  /\ now = 0
  /\ breaker = [state |-> "closed", failures |-> 0, successes |-> 0, since |-> 0]
  /\ bucket = [tokens |-> Capacity * Minute, refilled |-> 0]
  /\ pc = [r \in Requests |-> "idle"]
  /\ tries = [r \in Requests |-> 0]
  /\ outcome = [r \in Requests |-> "ok"]
  /\ main = "running" /\ cancelled = FALSE /\ group = 0 /\ sends = 0
  /\ recorded = <<>> /\ allowed = <<>>

\* The history the properties look at: no longer than the longer streak.
Window == IF FailureThreshold > SuccessThreshold THEN FailureThreshold ELSE SuccessThreshold
Recent(s) == IF Len(s) <= Window THEN s ELSE Tail(s)

Go(r, from, to) == pc[r] = from /\ pc' = [pc EXCEPT ![r] = to]

\* The goroutine ends, sent, failed or refused, with what it knew: wg.Done.
End(r, from) ==
  /\ Go(r, from, "idle")
  /\ tries' = [tries EXCEPT ![r] = 0]
  /\ outcome' = [outcome EXCEPT ![r] = "ok"]
  /\ group' = group - 1

-----------------------------------------------------------------------------
\* Mutant of SendAsync: the wait group is counted by the goroutine, too late.
SendAsyncUncounted(r) ==
  /\ main = "running" /\ sends < MaxSends /\ sends' = sends + 1
  /\ Go(r, "idle", "limit")
  /\ UNCHANGED <<now, breaker, bucket, local, main, cancelled, group, recorded, allowed>>

\* SendAsyncWithContext: the caller counts the goroutine before it starts it.
SendAsync(r) ==
  /\ main = "running" /\ sends < MaxSends /\ sends' = sends + 1
  /\ Go(r, "idle", "limit")
  /\ group' = group + 1
  /\ UNCHANGED <<now, breaker, bucket, local, main, cancelled, recorded, allowed>>

(* Token bucket, in units of 1/Minute of a token: Capacity units per tick.   *)

Smaller(a, b) == IF a < b THEN a ELSE b

\* Mutant of Refilled: the bucket is not capped.
RefilledUncapped == bucket.tokens + (now - bucket.refilled) * Capacity

Refilled == Smaller(bucket.tokens + (now - bucket.refilled) * Capacity, Capacity * Minute)

Allow(r) ==
  \/ /\ Refilled >= Minute
     /\ bucket' = [tokens |-> Refilled - Minute, refilled |-> now]
     /\ allowed' = Append(allowed, now)
     /\ Go(r, "limit", "gate")
     /\ UNCHANGED <<now, breaker, local, main, cancelled, group, sends, recorded>>
  \/ /\ Refilled < Minute
     /\ bucket' = [tokens |-> Refilled, refilled |-> now]
     /\ End(r, "limit")
     /\ UNCHANGED <<now, breaker, main, cancelled, sends, recorded, allowed>>

\* SendWithContext looks at the breaker through GetState, which knows no timeout.
Gate(r) ==
  /\ \/ breaker.state = "open" /\ End(r, "gate")
     \/ breaker.state # "open" /\ Go(r, "gate", "execute") /\ UNCHANGED <<local, group>>
  /\ UNCHANGED <<now, breaker, bucket, main, cancelled, sends, recorded, allowed>>

\* Execute reads the state again through getState, under the read lock.
Execute(r) ==
  /\ \/ breaker.state # "open" /\ Go(r, "execute", "attempt") /\ UNCHANGED <<local, group>>
     \/ /\ breaker.state = "open" /\ now - breaker.since >= Timeout
        /\ Go(r, "execute", "probe") /\ UNCHANGED <<local, group>>
     \/ /\ breaker.state = "open" /\ now - breaker.since < Timeout
        /\ End(r, "execute")
  /\ UNCHANGED <<now, breaker, bucket, main, cancelled, sends, recorded, allowed>>

\* getState under the write lock: only the one that finds it still open moves it
\* to half-open; another keeps the "open" it has read.
Probe(r) ==
  /\ \/ /\ breaker.state = "open" /\ now - breaker.since >= Timeout
        /\ breaker' = Breaker("half_open", 0, 0)
        /\ Go(r, "probe", "attempt") /\ UNCHANGED <<local, group>>
     \/ /\ ~(breaker.state = "open" /\ now - breaker.since >= Timeout)
        /\ End(r, "probe") /\ UNCHANGED breaker
  /\ UNCHANGED <<now, bucket, main, cancelled, sends, recorded, allowed>>

-----------------------------------------------------------------------------
(* Retryer.Do.                                                              *)

Conclude(r, from, o) ==
  /\ Go(r, from, "record")
  /\ outcome' = [outcome EXCEPT ![r] = o]

\* An attempt reaches the network unless the context is already cancelled.
Post(r) ==
  /\ \/ /\ ~cancelled
        /\ Go(r, "attempt", "posting")
        /\ tries' = [tries EXCEPT ![r] = @ + 1]
        /\ UNCHANGED outcome
     \/ /\ cancelled /\ Conclude(r, "attempt", "cancelled") /\ UNCHANGED tries
  /\ UNCHANGED <<now, breaker, bucket, main, cancelled, group, sends, recorded, allowed>>

Retried(r, o) == o \in {"server_error", "cancelled"} /\ tries[r] < MaxAttempts /\ ~cancelled

Answer(r, o) ==
  /\ o = "cancelled" => cancelled
  /\ \/ Retried(r, o) /\ Go(r, "posting", "backoff") /\ UNCHANGED outcome
     \/ ~Retried(r, o) /\ Conclude(r, "posting", o)
  /\ UNCHANGED <<now, breaker, bucket, tries, main, cancelled, group, sends, recorded, allowed>>

Backoff(r) ==
  /\ \/ Go(r, "backoff", "attempt") /\ UNCHANGED outcome
     \/ cancelled /\ Conclude(r, "backoff", "cancelled")
  /\ UNCHANGED <<now, breaker, bucket, tries, main, cancelled, group, sends, recorded, allowed>>

-----------------------------------------------------------------------------
(* Recording: every error counts, whatever its kind, against the state the   *)
(* breaker is in by then.                                                    *)

\* Mutant of AfterSuccess: a success of before the circuit opened counts as a probe.
AfterSuccessLate ==
  CASE breaker.state \in {"half_open", "open"} ->
         IF breaker.successes + 1 >= SuccessThreshold THEN Breaker("closed", 0, 0)
         ELSE [breaker EXCEPT !.successes = @ + 1]
    [] breaker.state = "closed" -> [breaker EXCEPT !.failures = 0]

AfterSuccess ==
  CASE breaker.state = "half_open" ->
         IF breaker.successes + 1 >= SuccessThreshold THEN Breaker("closed", 0, 0)
         ELSE [breaker EXCEPT !.successes = @ + 1]
    [] breaker.state = "closed" -> [breaker EXCEPT !.failures = 0]
    [] breaker.state = "open" -> breaker

\* Mutant of AfterFailure: one failure too few opens.
AfterFailureEager ==
  CASE breaker.state = "half_open" -> Breaker("open", 0, 0)
    [] breaker.state = "closed" ->
         IF breaker.failures + 2 >= FailureThreshold
         THEN Breaker("open", 0, breaker.successes)
         ELSE [breaker EXCEPT !.failures = @ + 1]
    [] breaker.state = "open" -> breaker

AfterFailure ==
  CASE breaker.state = "half_open" -> Breaker("open", 0, 0)
    [] breaker.state = "closed" ->
         IF breaker.failures + 1 >= FailureThreshold
         THEN Breaker("open", 0, breaker.successes)
         ELSE [breaker EXCEPT !.failures = @ + 1]
    [] breaker.state = "open" -> breaker

Record(r) ==
  /\ End(r, "record")
  /\ breaker' = IF outcome[r] = "ok" THEN AfterSuccess ELSE AfterFailure
  /\ recorded' = Recent(Append(recorded, [outcome |-> outcome[r], state |-> breaker.state]))
  /\ UNCHANGED <<now, bucket, main, cancelled, sends, allowed>>

-----------------------------------------------------------------------------
(* The owner: Shutdown waits for the group, cancels the context either way.  *)

Shutdown ==
  /\ \/ main = "running" /\ main' = "stopping" /\ UNCHANGED cancelled
     \/ main = "stopping" /\ group = 0 /\ main' = "drained" /\ cancelled' = TRUE
     \/ main = "stopping" /\ main' = "timedout" /\ cancelled' = TRUE
  /\ UNCHANGED <<now, breaker, bucket, requestVars, group, sends, recorded, allowed>>

ParentCancels ==
  /\ ~cancelled /\ cancelled' = TRUE
  /\ UNCHANGED <<now, breaker, bucket, requestVars, main, group, sends, recorded, allowed>>

Tick ==
  /\ now < MaxTime /\ now' = now + 1
  /\ UNCHANGED <<breaker, bucket, requestVars, main, cancelled, group, sends, recorded, allowed>>

RequestStep(r) ==
  \/ SendAsync(r) \/ Allow(r) \/ Gate(r) \/ Execute(r) \/ Probe(r)
  \/ Post(r) \/ (\E o \in Outcomes : Answer(r, o)) \/ Backoff(r) \/ Record(r)

SenderNext == \/ \E r \in Requests : RequestStep(r)
              \/ Shutdown \/ ParentCancels \/ Tick

SenderSpec == SenderInit /\ [][SenderNext]_vars

-----------------------------------------------------------------------------
(* Properties.                                                              *)

\* Every variable keeps its shape; the wait group counts the goroutines exactly.
SenderTypeOK ==
  /\ now \in 0 .. MaxTime
  /\ breaker \in [state : {"closed", "open", "half_open"}, failures : 0 .. FailureThreshold,
                  successes : 0 .. SuccessThreshold, since : 0 .. MaxTime]
  /\ bucket \in [tokens : 0 .. Capacity * Minute, refilled : 0 .. MaxTime]
  /\ tries \in [Requests -> 0 .. MaxAttempts]
  /\ outcome \in [Requests -> Outcomes]
  /\ group = Cardinality({r \in Requests : pc[r] # "idle"}) /\ sends \in 0 .. MaxSends

\* A Shutdown that reports success has waited for every request ever sent.
DrainedMeansDone == main = "drained" => \A r \in Requests : pc[r] = "idle"

\* A token bucket bounds every interval, not only aligned minutes: between two
\* requests let through L ticks apart there were at most Capacity + L * rate.
BucketBound ==
  \A i, j \in DOMAIN allowed : i <= j =>
    (j - i + 1) * Minute <= Capacity * Minute + Capacity * (allowed[j] - allowed[i])

Last(n) == SubSeq(recorded', Len(recorded') - n + 1, Len(recorded'))

NoClientError == \A i \in DOMAIN recorded : recorded[i].outcome # "client_error"

\* The circuit opens from closed only on FailureThreshold consecutive failures,
\* however the goroutines interleave their reads and their recordings.  Client errors
\* are left out: the code counts them, the documentation says it does not.
OpensOnStreak ==
  [][breaker.state = "closed" /\ breaker'.state = "open" /\ NoClientError' =>
       /\ Len(recorded') >= FailureThreshold
       /\ \A i \in 1 .. FailureThreshold :
            Last(FailureThreshold)[i].outcome \in {"server_error", "cancelled"}]_vars

\* It closes again, from whatever state, only on SuccessThreshold consecutive
\* successes, all of them recorded while it was half-open.
ClosesOnProbes ==
  [][breaker.state # "closed" /\ breaker'.state = "closed" =>
       /\ Len(recorded') >= SuccessThreshold
       /\ \A i \in 1 .. SuccessThreshold :
            Last(SuccessThreshold)[i] = [outcome |-> "ok", state |-> "half_open"]]_vars
=============================================================================
