----------------------------- MODULE JournalOps -----------------------------
(***************************************************************************)
(* What one transaction of internal/agentnotify/journal computes on the    *)
(* snapshot it has read: the logical clock, garbage collection, the rate   *)
(* windows, admission, finalization and the validation every snapshot must *)
(* pass when it is read and again before it is written.                    *)
(*                                                                         *)
(* A snapshot is [clock, events, records].  records is a total function    *)
(* over Keys; a key that the Go map does not hold maps to NoRecord.        *)
(* Receipts are reduced to their status; attempt tokens are numbers that   *)
(* are never reused (32 random bytes in the code).                         *)
(***************************************************************************)
EXTENDS Integers, Sequences, FiniteSets

CONSTANTS
  Keys,          \* scoped idempotency keys
  Sessions,      \* source + session pairs
  SessionOf,     \* the session of each key
  Digests,       \* payload digests
  Statuses,      \* terminal statuses a delivery may report
  NoRecord,      \* stands for "key not in the map"
  Window,        \* rate window, seconds (60 in the code)
  BurstWindow,   \* burst window, seconds (2 in the code)
  Retention,     \* Limits.Retention, seconds (at least 7 days in the code)
  MaxRecords,    \* Limits.Records
  MaxLogical     \* largest value of the logical clock (2^64-1 in the code)

Dispatching == "dispatching"
NoBoot == 0      \* the empty boot identity; boots are numbered from 1

Clocks  == [logical : Nat, boot : Nat, seconds : Nat]
Events  == [at : Nat, session : Sessions]
Records == [session : Sessions, digest : Digests, attempt : Nat,
            created : Nat, state : Statuses \cup {Dispatching}]
Disks   == [clock : Clocks, events : Seq(Events),
            records : [Keys -> Records \cup {NoRecord}]]
Samples == [available : BOOLEAN, boot : Nat, seconds : Nat]
Policies == [runtime : Nat \ {0}, session : Nat \ {0}, burst : Nat \ {0}]

ASSUME JournalAssumption ==
  /\ SessionOf \in [Keys -> Sessions]
  /\ NoRecord \notin Records
  /\ Dispatching \notin Statuses
  /\ Window \in Nat /\ BurstWindow \in Nat /\ Retention \in Nat
  /\ BurstWindow <= Window /\ Window <= Retention
  /\ MaxRecords \in Nat \ {0} /\ MaxLogical \in Nat

-----------------------------------------------------------------------------
(* The logical clock: only an interval measured inside one boot counts, and *)
(* one second of every interval is given up to rounding.                    *)

Proven(clk, x) == /\ x.available
                  /\ clk.boot = x.boot
                  /\ x.seconds >= clk.seconds

\* Mutant of Credit: no rounding is given up.
CreditWhole(clk, x) == IF Proven(clk, x) THEN x.seconds - clk.seconds ELSE 0
Credit(clk, x) ==
  IF Proven(clk, x) /\ x.seconds > clk.seconds THEN x.seconds - clk.seconds - 1 ELSE 0

Overflows(clk, x) == Credit(clk, x) > MaxLogical - clk.logical

Clock(logical, b, secs) == [logical |-> logical, boot |-> b, seconds |-> secs]

\* Mutant of AdvancedClock: a new baseline is credited with the uptime of its boot.
AdvancedClockByUptime(clk, x) ==
  IF ~x.available THEN Clock(clk.logical, NoBoot, 0)
  ELSE IF clk.boot # x.boot THEN Clock(clk.logical + x.seconds, x.boot, x.seconds)
  ELSE Clock(clk.logical + Credit(clk, x), clk.boot, x.seconds)

AdvancedClock(clk, x) ==
  IF ~x.available THEN Clock(clk.logical, NoBoot, 0)
  ELSE IF clk.boot # x.boot THEN Clock(clk.logical, x.boot, x.seconds)
  ELSE IF Proven(clk, x)
       THEN Clock(clk.logical + Credit(clk, x), clk.boot, x.seconds)
       ELSE clk

\* A refusal keeps a new boot baseline and otherwise restores the old clock.
Rebaselined(before, after) == after.boot # NoBoot /\ after.boot # before.boot

-----------------------------------------------------------------------------
Present(records) == {k \in Keys : records[k] # NoRecord}

Expired(r, now) == now - r.created >= Retention

\* Records left by collection at clock clk; an unproven clock freezes collection.
Collected(records, now, proven) ==
  [k \in Keys |-> IF records[k] # NoRecord /\ proven /\ Expired(records[k], now)
                  THEN NoRecord ELSE records[k]]

\* The events inside the window.  Events are in order of time (Valid), so the
\* filter of the code keeps a suffix.
StaleCount(events, now) == Cardinality({i \in DOMAIN events : now - events[i].at >= Window})

LiveEvents(events, now) == SubSeq(events, StaleCount(events, now) + 1, Len(events))

Count(events, P(_)) == Cardinality({i \in DOMAIN events : P(events[i])})

Full(records) == Cardinality(Present(records)) >= MaxRecords

RateLimited(live, now, session, rates) ==
  \/ Len(live) >= rates.runtime
  \/ Count(live, LAMBDA e : e.session = session) >= rates.session
  \/ Count(live, LAMBDA e : now - e.at < BurstWindow) >= rates.burst

\* The filter compacts the array it reads (events := d.Events[:0]): a refusal
\* leaves the live events in front of whatever the old tail held.
CompactedInPlace(events, live) ==
  live \o SubSeq(events, Len(live) + 1, Len(events))

NewRecord(k, digest, attempt, now) ==
  [session |-> SessionOf[k], digest |-> digest, attempt |-> attempt,
   created |-> now, state |-> Dispatching]

-----------------------------------------------------------------------------
(* The admission transaction on snapshot d with clock sample x.             *)

AdmitClock(d, x)   == AdvancedClock(d.clock, x)
AdmitRecords(d, x) == Collected(d.records, AdmitClock(d, x).logical, Proven(d.clock, x))
AdmitLive(d, x)    == LiveEvents(d.events, AdmitClock(d, x).logical)

RefusedFull(d, x) == Full(AdmitRecords(d, x))

RefusedRate(d, x, k, rates) ==
  /\ ~RefusedFull(d, x)
  /\ RateLimited(AdmitLive(d, x), AdmitClock(d, x).logical, SessionOf[k], rates)

Admissible(d, x, k, rates) ==
  /\ d.records[k] = NoRecord
  /\ ~Overflows(d.clock, x)
  /\ ~RefusedFull(d, x)
  /\ ~RefusedRate(d, x, k, rates)

\* The snapshot after collection: what Collect writes, and what a journal_full
\* refusal writes, when it writes one at all.
CollectedDisk(d, x) ==
  [clock |-> AdmitClock(d, x), events |-> d.events, records |-> AdmitRecords(d, x)]

\* The snapshot a rate refusal writes.
RateDisk(d, x) ==
  [clock |-> AdmitClock(d, x), events |-> CompactedInPlace(d.events, AdmitLive(d, x)),
   records |-> AdmitRecords(d, x)]

\* Mutants of AdmittedDisk: stale events are kept; the event alone, or the event and
\* the record, are stamped with the clock as it was read.
AdmittedKeepingStale(d, x, k, digest, attempt) ==
  LET now == AdmitClock(d, x).logical
  IN  [clock   |-> AdmitClock(d, x),
       events  |-> Append(d.events, [at |-> now, session |-> SessionOf[k]]),
       records |-> [AdmitRecords(d, x) EXCEPT ![k] = NewRecord(k, digest, attempt, now)]]

AdmittedAtReadClock(d, x, k, digest, attempt) ==
  LET now == AdmitClock(d, x).logical
  IN  [clock   |-> AdmitClock(d, x),
       events  |-> Append(AdmitLive(d, x), [at |-> d.clock.logical, session |-> SessionOf[k]]),
       records |-> [AdmitRecords(d, x) EXCEPT ![k] = NewRecord(k, digest, attempt, now)]]

AdmittedBeforeAdvance(d, x, k, digest, attempt) ==
  LET read == d.clock.logical
  IN  [clock   |-> AdmitClock(d, x),
       events  |-> Append(AdmitLive(d, x), [at |-> read, session |-> SessionOf[k]]),
       records |-> [AdmitRecords(d, x) EXCEPT ![k] = NewRecord(k, digest, attempt, read)]]

AdmittedDisk(d, x, k, digest, attempt) ==
  LET now == AdmitClock(d, x).logical
  IN  [clock   |-> AdmitClock(d, x),
       events  |-> Append(AdmitLive(d, x), [at |-> now, session |-> SessionOf[k]]),
       records |-> [AdmitRecords(d, x) EXCEPT ![k] = NewRecord(k, digest, attempt, now)]]

-----------------------------------------------------------------------------
(* Finalization is a compare-and-swap on the attempt and on "dispatching".  *)

\* Mutant of Finalizable: the attempt is not compared.
FinalizableByKey(d, k, attempt) ==
  d.records[k] # NoRecord /\ d.records[k].state = Dispatching
Finalizable(d, k, attempt) ==
  /\ d.records[k] # NoRecord
  /\ d.records[k].attempt = attempt
  /\ d.records[k].state = Dispatching

Settled(r, status) == [r EXCEPT !.state = status]

FinalizedDisk(d, k, status) ==
  [clock |-> d.clock, events |-> d.events,
   records |-> [d.records EXCEPT ![k] = Settled(d.records[k], status)]]

-----------------------------------------------------------------------------
(* disk.validate: run on every read and before every write.                 *)

LiveEventCount(d, at, s) ==
  Count(d.events, LAMBDA e : e.at = at /\ e.session = s /\ d.clock.logical - e.at < Window)

LiveRecordCount(d, at, s) ==
  Cardinality({k \in Present(d.records) :
                 /\ d.records[k].created = at /\ d.records[k].session = s
                 /\ d.clock.logical - at < Window})

Valid(d) ==
  /\ d.clock.boot = NoBoot => d.clock.seconds = 0
  /\ Len(d.events) <= MaxRecords
  /\ Cardinality(Present(d.records)) <= MaxRecords
  /\ \A i \in DOMAIN d.events : d.events[i].at <= d.clock.logical
  /\ \A i, j \in DOMAIN d.events : i < j => d.events[i].at <= d.events[j].at
  /\ \A k \in Present(d.records) : d.records[k].created <= d.clock.logical
  /\ \A j, k \in Present(d.records) :
        d.records[j].attempt = d.records[k].attempt => j = k
  /\ \A s \in Sessions :
        \A at \in {d.events[i].at : i \in DOMAIN d.events}
                  \cup {d.records[k].created : k \in Present(d.records)} :
          LiveEventCount(d, at, s) = LiveRecordCount(d, at, s)
=============================================================================
