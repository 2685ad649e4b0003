---------------------------- MODULE JournalProofs ----------------------------
(***************************************************************************)
(* Proofs about JournalStore: type correctness; an acknowledged admission  *)
(* is remembered for Retention seconds of real time and counted in every   *)
(* window it falls into; the logical clock never runs ahead; terminal      *)
(* records belong to their attempt and stay; no transaction computes a     *)
(* snapshot that validate refuses.                                         *)
(***************************************************************************)
EXTENDS JournalStore, TLAPS, SequenceTheorems, FiniteSetTheorems, FunctionTheorems

-----------------------------------------------------------------------------
(* Operators of JournalOps.                                                 *)

\* journal.advance keeps the clock well formed and never takes time back.
LEMMA AdvanceType ==
  ASSUME NEW clk \in Clocks, NEW x \in Samples
  PROVE  /\ AdvancedClock(clk, x) \in Clocks
         /\ AdvancedClock(clk, x).logical = clk.logical + Credit(clk, x)
         /\ Credit(clk, x) \in Nat
<1>1. /\ clk.logical \in Nat /\ clk.boot \in Nat /\ clk.seconds \in Nat
      /\ x.seconds \in Nat /\ x.boot \in Nat
  BY DEF Clocks, Samples
<1>2. Credit(clk, x) \in Nat
  BY <1>1 DEF Credit
<1>3. CASE Proven(clk, x)
  BY <1>1, <1>2, <1>3 DEF AdvancedClock, Clock, Clocks, Proven
<1>4. CASE ~Proven(clk, x)
  <2>1. Credit(clk, x) = 0
    BY <1>4 DEF Credit
  <2> QED
    BY <1>1, <2>1, <1>4 DEF AdvancedClock, Clock, Clocks, NoBoot
<1> QED
  BY <1>3, <1>4

\* The rate window keeps a sequence of events.
LEMMA LiveEventsType ==
  ASSUME NEW events \in Seq(Events), NEW now \in Nat
  PROVE  LiveEvents(events, now) \in Seq(Events)
<1> DEFINE stale == {i \in DOMAIN events : now - events[i].at >= Window}
<1>1. IsFiniteSet(stale)
  <2>1. DOMAIN events = 1 .. Len(events) /\ Len(events) \in Nat
    OBVIOUS
  <2>2. IsFiniteSet(1 .. Len(events))
    BY <2>1, FS_Interval
  <2> QED
    BY <2>1, <2>2, FS_Subset
<1>2. StaleCount(events, now) \in Nat
  BY <1>1, FS_CardinalityType DEF StaleCount
<1> QED
  BY <1>2, SubSeqProperties DEF LiveEvents

\* Collection and admission keep the records of a snapshot well formed.
LEMMA CollectedType ==
  ASSUME NEW records \in [Keys -> Records \cup {NoRecord}], NEW now, NEW proven
  PROVE  Collected(records, now, proven) \in [Keys -> Records \cup {NoRecord}]
BY DEF Collected

LEMMA AdmitDisksType ==
  ASSUME NEW d \in Disks, NEW x \in Samples
  PROVE  /\ RateDisk(d, x) \in Disks
         /\ CollectedDisk(d, x) \in Disks
         /\ \A k \in Keys, digest \in Digests, attempt \in Nat :
              AdmittedDisk(d, x, k, digest, attempt) \in Disks
<1> DEFINE now == AdmitClock(d, x).logical
<1>1. /\ d.clock \in Clocks /\ d.events \in Seq(Events)
      /\ d.records \in [Keys -> Records \cup {NoRecord}]
  BY DEF Disks
<1>2. AdmitClock(d, x) \in Clocks /\ now \in Nat
  BY <1>1, AdvanceType DEF AdmitClock, Clocks
<1>3. AdmitRecords(d, x) \in [Keys -> Records \cup {NoRecord}]
  BY <1>1, CollectedType DEF AdmitRecords
<1>4. AdmitLive(d, x) \in Seq(Events)
  BY <1>1, <1>2, LiveEventsType DEF AdmitLive
<1>5. CompactedInPlace(d.events, AdmitLive(d, x)) \in Seq(Events)
  <2>1. Len(AdmitLive(d, x)) + 1 \in Nat
    BY <1>4
  <2>2. SubSeq(d.events, Len(AdmitLive(d, x)) + 1, Len(d.events)) \in Seq(Events)
    BY <1>1, <2>1, SubSeqProperties
  <2> QED
    BY <1>4, <2>2, ConcatProperties DEF CompactedInPlace
<1>6. RateDisk(d, x) \in Disks
  BY <1>2, <1>3, <1>5 DEF RateDisk, Disks
<1>7. CollectedDisk(d, x) \in Disks
  BY <1>1, <1>2, <1>3 DEF CollectedDisk, Disks
<1>8. ASSUME NEW k \in Keys, NEW digest \in Digests, NEW attempt \in Nat
      PROVE  AdmittedDisk(d, x, k, digest, attempt) \in Disks
  <2>1. NewRecord(k, digest, attempt, now) \in Records
    BY <1>2, JournalAssumption DEF NewRecord, Records
  <2>2. [at |-> now, session |-> SessionOf[k]] \in Events
    BY <1>2, JournalAssumption DEF Events
  <2>3. Append(AdmitLive(d, x), [at |-> now, session |-> SessionOf[k]]) \in Seq(Events)
    BY <1>4, <2>2, AppendProperties
  <2> QED
    BY <1>2, <1>3, <2>1, <2>3 DEF AdmittedDisk, Disks
<1> QED
  BY <1>6, <1>7, <1>8

LEMMA FinalizedType ==
  ASSUME NEW d \in Disks, NEW k \in Keys, NEW a, NEW status \in Statuses,
         Finalizable(d, k, a)
  PROVE  FinalizedDisk(d, k, status) \in Disks
<1>1. /\ d.clock \in Clocks /\ d.events \in Seq(Events)
      /\ d.records \in [Keys -> Records \cup {NoRecord}]
  BY DEF Disks
<1>2. Settled(d.records[k], status) \in Records
  BY <1>1 DEF Finalizable, Settled, Records
<1> QED
  BY <1>1, <1>2 DEF FinalizedDisk, Disks

-----------------------------------------------------------------------------
(* Type correctness.  The boot never begins in the future, so every reading   *)
(* of the clock is a natural number, and the admission between rename and     *)
(* sync is the newest one.                                                    *)

Admitting == writer # Free /\ writer.kind = "admit"
NewestAdmitting == Admitting => writer.attempt = Len(issued) /\ Len(issued) > 0

TypeInv == StoreTypeOK /\ bootAt <= total /\ NewestAdmitting

\* Whole seconds of a boot: the clock reads between `secs` and `secs + 1`.
LEMMA ReadingBounds ==
  ASSUME TypeInv
  PROVE  /\ Reading.seconds \in Nat
         /\ TicksPerSecond * Reading.seconds <= total - bootAt
         /\ total - bootAt < TicksPerSecond * (Reading.seconds + 1)
<1> DEFINE t == total - bootAt
<1>1. t \in Nat /\ TicksPerSecond \in Nat \ {0}
  BY StoreAssumption DEF TypeInv, StoreTypeOK
<1>2. Reading.seconds = t \div TicksPerSecond
  BY DEF Reading
<1>3. ASSUME NEW n \in Nat \ {0}, NEW u \in Nat
      PROVE  /\ u \div n \in Nat
             /\ n * (u \div n) <= u
             /\ u < n * (u \div n + 1)
  OBVIOUS
<1> QED
  BY <1>1, <1>2, <1>3

LEMMA SamplesType ==
  ASSUME TypeInv
  PROVE  CurrentSamples \subseteq Samples
<1>1. Reading \in Samples
  BY ReadingBounds DEF Reading, Samples, TypeInv, StoreTypeOK
<1>2. Unavailable \in Samples
  BY DEF Unavailable, Samples, NoBoot
<1>3. [Reading EXCEPT !.seconds = 0] \in Samples
  BY <1>1 DEF Samples
<1> QED
  BY <1>1, <1>2, <1>3 DEF CurrentSamples

LEMMA TypeInit == StoreInit => TypeInv
<1> SUFFICES ASSUME StoreInit PROVE TypeInv
  OBVIOUS
<1>1. PICK x \in {[available |-> TRUE, boot |-> 1, seconds |-> 0], Unavailable} :
        visible = InitialDisk(x)
  BY DEF StoreInit
<1>2. x \in Samples
  <2>1. [available |-> TRUE, boot |-> 1, seconds |-> 0] \in Samples
    BY DEF Samples
  <2>2. Unavailable \in Samples
    BY DEF Samples, Unavailable, NoBoot
  <2> QED
    BY <2>1, <2>2
<1>3. Clock(0, NoBoot, 0) \in Clocks
  BY DEF Clock, Clocks, NoBoot
<1>4. visible \in Disks
  <2>1. <<>> \in Seq(Events)
    OBVIOUS
  <2> QED
    BY <1>1, <1>2, <1>3, <2>1, AdvanceType DEF InitialDisk, Disks
<1>5. issued \in Seq(Admissions) /\ acked \subseteq Attempts
      /\ finals \subseteq Attempts \X Statuses
  BY DEF StoreInit, Attempts
<1>6. boot \in Nat /\ bootAt \in Nat /\ total \in Nat /\ bootAt <= total /\ writer = Free
      /\ durable = visible
  BY DEF StoreInit
<1>7. NewestAdmitting
  BY <1>6 DEF NewestAdmitting, Admitting
<1> QED
  BY <1>4, <1>5, <1>6, <1>7 DEF TypeInv, StoreTypeOK

LEMMA TypeNext == TypeInv /\ [StoreNext]_storeVars => TypeInv'
<1> SUFFICES ASSUME TypeInv, [StoreNext]_storeVars PROVE TypeInv'
  OBVIOUS
<1> USE DEF TypeInv, StoreTypeOK, Attempts, machine, history
<1>1. CASE UNCHANGED storeVars
  BY <1>1 DEF storeVars, NewestAdmitting, Admitting
<1>2. CASE Tick
  BY <1>2 DEF Tick, NewestAdmitting, Admitting
<1>3. CASE PowerLoss
  BY <1>3 DEF PowerLoss, NewestAdmitting, Admitting
<1>4. CASE HolderCrash
  BY <1>4 DEF HolderCrash, EndUnsynced, NewestAdmitting, Admitting
<1>5. ASSUME NEW c \in Clients, NEW k \in Keys, NEW rates \in RatePolicies,
             NEW x \in CurrentSamples, AdmitRefused(c, k, rates, x)
      PROVE  TypeInv'
  <2>1. x \in Samples
    BY SamplesType
  <2>2. visible' \in Disks
    <3>1. CollectedDisk(visible, x) \in Disks /\ RateDisk(visible, x) \in Disks
      BY <2>1, AdmitDisksType
    <3> QED
      BY <1>5, <3>1 DEF AdmitRefused, Rename
  <2>3. writer' \in Transactions
    BY <1>5 DEF AdmitRefused, Rename, Transactions
  <2>4. NewestAdmitting'
    BY <1>5 DEF AdmitRefused, Rename, NewestAdmitting, Admitting
  <2> QED
    BY <1>5, <2>2, <2>3, <2>4 DEF AdmitRefused
<1>6. ASSUME NEW c \in Clients, NEW k \in Keys, NEW digest \in Digests,
             NEW rates \in RatePolicies, NEW x \in CurrentSamples,
             AdmitFresh(c, k, digest, rates, x)
      PROVE  TypeInv'
  <2> DEFINE a == Len(issued) + 1
             entry == [key |-> k, digest |-> digest, rates |-> rates,
                       created |-> AdmitClock(visible, x).logical, real |-> total]
  <2>1. a \in Nat /\ x \in Samples
    BY SamplesType
  <2>2. visible' \in Disks
    BY <1>6, <2>1, AdmitDisksType DEF AdmitFresh, Rename
  <2>3. writer' \in Transactions
    BY <1>6, <2>1 DEF AdmitFresh, Rename, Transactions
  <2>4. entry \in Admissions
    <3>1. AdmitClock(visible, x).logical \in Nat
      BY <2>1, AdvanceType DEF AdmitClock, Disks, Clocks
    <3> QED
      BY <3>1 DEF Admissions
  <2>5. issued' = Append(issued, entry)
    BY <1>6 DEF AdmitFresh
  <2>6. issued' \in Seq(Admissions) /\ Len(issued') = Len(issued) + 1
    BY <2>4, <2>5, AppendProperties
  <2>7. Attempts \subseteq Attempts'
    BY <2>6
  <2>8. NewestAdmitting'
    BY <1>6, <2>6 DEF AdmitFresh, Rename, NewestAdmitting, Admitting
  <2> QED
    BY <1>6, <2>2, <2>3, <2>6, <2>7, <2>8 DEF AdmitFresh
<1>7. ASSUME NEW c \in Clients, NEW a \in Attempts, NEW status \in Statuses,
             Finalize(c, issued[a].key, a, status)
      PROVE  TypeInv'
  <2>1. issued[a].key \in Keys
    <3>1. issued[a] \in Admissions
      OBVIOUS
    <3> QED
      BY <3>1 DEF Admissions
  <2>2. visible' \in Disks
    BY <1>7, <2>1, FinalizedType DEF Finalize, Rename
  <2>3. writer' \in Transactions
    BY <1>7 DEF Finalize, Rename, Transactions
  <2>4. NewestAdmitting'
    BY <1>7 DEF Finalize, Rename, NewestAdmitting, Admitting
  <2> QED
    BY <1>7, <2>2, <2>3, <2>4 DEF Finalize
<1>8. ASSUME NEW c \in Clients, NEW x \in CurrentSamples, Collect(c, x)
      PROVE  TypeInv'
  <2>1. x \in Samples
    BY SamplesType
  <2>2. visible' \in Disks
    BY <1>8, <2>1, AdmitDisksType DEF Collect, Rename
  <2>3. writer' \in Transactions
    BY <1>8 DEF Collect, Rename, Transactions
  <2>4. NewestAdmitting'
    BY <1>8 DEF Collect, Rename, NewestAdmitting, Admitting
  <2> QED
    BY <1>8, <2>2, <2>3, <2>4 DEF Collect
<1>9. ASSUME NEW c \in Clients, SyncOK(c)
      PROVE  TypeInv'
  <2>1. acked' \subseteq Attempts
    <3>1. writer.kind = "admit" => writer.attempt \in Attempts
      BY <1>9 DEF SyncOK, NewestAdmitting, Admitting
    <3> QED
      BY <1>9, <3>1 DEF SyncOK
  <2> QED
    BY <1>9, <2>1 DEF SyncOK, NewestAdmitting, Admitting
<1>10. ASSUME NEW c \in Clients, SyncFail(c)
       PROVE  TypeInv'
  BY <1>10 DEF SyncFail, EndUnsynced, NewestAdmitting, Admitting
<1>11. ASSUME NEW a \in Attempts, NEW status \in Statuses,
              FinalizeMissed(issued[a].key, a, status)
       PROVE  TypeInv'
  BY <1>11 DEF FinalizeMissed, NewestAdmitting, Admitting
<1> QED
  BY <1>1, <1>2, <1>3, <1>4, <1>5, <1>6, <1>7, <1>8, <1>9, <1>10, <1>11 DEF StoreNext

\* Every variable of the journal keeps its shape.
THEOREM StoreTypeCorrect == StoreSpec => []StoreTypeOK
<1>1. StoreSpec => []TypeInv
  BY TypeInit, TypeNext, PTL DEF StoreSpec
<1> QED
  BY <1>1, PTL DEF TypeInv

-----------------------------------------------------------------------------
(* The journal remembers.  For an acknowledged attempt, and for the one being *)
(* written, each snapshot either still holds the record or has counted        *)
(* Retention logical seconds since (Kept); and the logical seconds counted    *)
(* since are covered by real time, up to now and, within the boot the         *)
(* snapshot measures, up to the end of the second of its last sample (Paced). *)

Kept(clk, records, a) ==
  \/ /\ records[issued[a].key] # NoRecord
     /\ records[issued[a].key].attempt = a
     /\ records[issued[a].key].created = issued[a].created
  \/ clk.logical - issued[a].created >= Retention

Pace(clk, created, real) ==
  /\ TicksPerSecond * (clk.logical - created) <= total - real
  /\ clk.boot = boot =>
       TicksPerSecond * (clk.logical - created)
         <= bootAt + TicksPerSecond * (clk.seconds + 1) - real

Paced(clk, a) == Pace(clk, issued[a].created, issued[a].real)

Remembers(d, a) == Kept(d.clock, d.records, a) /\ Paced(d.clock, a)

BootsKnown == /\ boot >= 1
              /\ visible.clock.boot <= boot /\ durable.clock.boot <= boot

MemoryInv ==
  /\ BootsKnown
  /\ \A a \in acked : Remembers(visible, a) /\ Remembers(durable, a)
  /\ Admitting => Remembers(visible, writer.attempt)

\* Seconds given up to rounding pay for the uncertainty of both endpoints.
LEMMA CreditArithmetic ==
  ASSUME NEW K \in Nat \ {0}, NEW c \in Int, NEW e \in Int, NEW s \in Int, NEW r \in Int,
         NEW B \in Int, NEW T \in Int, NEW R \in Int,
         s < r, K * r <= T - B,
         K * (c - e) <= B + K * (s + 1) - R
  PROVE  /\ K * (c + (r - s - 1) - e) <= T - R
         /\ K * (c + (r - s - 1) - e) <= B + K * (r + 1) - R
<1>1. K * (c + (r - s - 1) - e) = K * (c - e) + K * r - K * (s + 1)
  OBVIOUS
<1>2. K * (r + 1) = K * r + K
  OBVIOUS
<1> QED
  BY <1>1, <1>2

LEMMA ProductMonotone ==
  ASSUME NEW K \in Nat, NEW u \in Int, NEW v \in Int, u <= v
  PROVE  K * u <= K * v
OBVIOUS

\* One sample, taken now, keeps the pace; one behind the high water is not proven
\* and leaves the clock as it is.
LEMMA PaceAdvance ==
  ASSUME TypeInv, BootsKnown, NEW x \in CurrentSamples,
         NEW created \in Nat, NEW real \in Nat, Pace(visible.clock, created, real)
  PROVE  Pace(AdmitClock(visible, x), created, real)
<1> DEFINE clk == visible.clock
           K == TicksPerSecond
<1>1. /\ clk.logical \in Nat /\ clk.boot \in Nat /\ clk.seconds \in Nat
      /\ created \in Nat /\ real \in Nat
      /\ K \in Nat \ {0} /\ boot \in Nat /\ bootAt \in Nat /\ total \in Nat
  <2>1. clk \in Clocks
    BY DEF TypeInv, StoreTypeOK, Disks
  <2> QED
    BY <2>1, StoreAssumption DEF Clocks, TypeInv, StoreTypeOK
<1>2. \/ x = Unavailable
      \/ x = Reading
      \/ /\ x = [Reading EXCEPT !.seconds = 0]
         /\ clk.boot = boot /\ clk.seconds > 0
  BY DEF CurrentSamples
<1>3. CASE x = Unavailable
  <2>1. AdmitClock(visible, x) = Clock(clk.logical, NoBoot, 0)
    BY <1>3 DEF AdmitClock, AdvancedClock, Unavailable
  <2> QED
    BY <1>1, <2>1 DEF Pace, Clock, NoBoot, BootsKnown
<1>4. CASE x = Reading
  <2>1. /\ Reading.available /\ Reading.boot = boot /\ Reading.seconds \in Nat
        /\ K * Reading.seconds <= total - bootAt
        /\ total - bootAt < K * (Reading.seconds + 1)
    BY ReadingBounds DEF Reading
  <2>2. CASE clk.boot # boot
    <3>1. AdmitClock(visible, x) = Clock(clk.logical, boot, Reading.seconds)
      BY <1>4, <2>1, <2>2 DEF AdmitClock, AdvancedClock
    <3>2. K * (clk.logical - created) <= total - real
      BY DEF Pace
    <3> QED
      BY <1>1, <2>1, <3>1, <3>2 DEF Pace, Clock
  <2>3. CASE clk.boot = boot /\ clk.seconds < Reading.seconds
    <3>1. Credit(clk, x) = Reading.seconds - clk.seconds - 1 /\ Proven(clk, x)
      BY <1>1, <1>4, <2>1, <2>3 DEF Credit, Proven
    <3>2. AdmitClock(visible, x) =
            Clock(clk.logical + (Reading.seconds - clk.seconds - 1), boot, Reading.seconds)
      BY <1>4, <2>1, <2>3, <3>1 DEF AdmitClock, AdvancedClock
    <3>3. K * (clk.logical - created)
            <= bootAt + K * (clk.seconds + 1) - real
      BY <2>3 DEF Pace
    <3> HIDE DEF clk, K
    <3>4. /\ K * (clk.logical + (Reading.seconds - clk.seconds - 1) - created)
              <= total - real
          /\ K * (clk.logical + (Reading.seconds - clk.seconds - 1) - created)
              <= bootAt + K * (Reading.seconds + 1) - real
      BY <1>1, <2>1, <2>3, <3>3, CreditArithmetic
    <3> QED
      BY <1>1, <2>1, <3>2, <3>4 DEF Pace, Clock, K
  <2>4. CASE clk.boot = boot /\ Reading.seconds = clk.seconds
    <3>1. Credit(clk, x) = 0 /\ Proven(clk, x)
      BY <1>1, <1>4, <2>1, <2>4 DEF Credit, Proven
    <3>2. AdmitClock(visible, x) = Clock(clk.logical + 0, boot, clk.seconds)
      BY <1>4, <2>1, <2>4, <3>1 DEF AdmitClock, AdvancedClock
    <3> QED
      BY <1>1, <2>4, <3>2 DEF Pace, Clock
  <2>5. CASE clk.boot = boot /\ Reading.seconds < clk.seconds
    <3>1. ~Proven(clk, x)
      BY <1>1, <1>4, <2>1, <2>5 DEF Proven
    <3>2. AdmitClock(visible, x) = clk
      BY <1>4, <2>1, <2>5, <3>1 DEF AdmitClock, AdvancedClock
    <3> QED
      BY <3>2
  <2> QED
    BY <1>1, <2>1, <2>2, <2>3, <2>4, <2>5
<1>5. CASE x = [Reading EXCEPT !.seconds = 0] /\ clk.boot = boot /\ clk.seconds > 0
  <2>1. x.available /\ x.boot = boot /\ x.seconds = 0
    BY <1>5 DEF Reading
  <2>2. ~Proven(clk, x)
    BY <1>1, <1>5, <2>1 DEF Proven
  <2>3. AdmitClock(visible, x) = clk
    BY <1>5, <2>1, <2>2 DEF AdmitClock, AdvancedClock
  <2> QED
    BY <2>3
<1> QED
  BY <1>2, <1>3, <1>4, <1>5

\* Collection forgets a record only when its retention has been counted.
LEMMA KeptAdvance ==
  ASSUME TypeInv, NEW x \in CurrentSamples, NEW a \in Attempts,
         Kept(visible.clock, visible.records, a)
  PROVE  Kept(AdmitClock(visible, x), AdmitRecords(visible, x), a)
<1> DEFINE k == issued[a].key
           now == AdmitClock(visible, x).logical
<1>1. /\ visible.clock \in Clocks /\ k \in Keys
      /\ visible.records \in [Keys -> Records \cup {NoRecord}]
      /\ issued[a].created \in Nat
  <2>1. issued[a] \in Admissions
    BY DEF TypeInv, StoreTypeOK, Attempts
  <2> QED
    BY <2>1 DEF Admissions, TypeInv, StoreTypeOK, Disks
<1>2. now \in Nat /\ now >= visible.clock.logical /\ visible.clock.logical \in Nat
  <2>1. x \in Samples
    BY SamplesType
  <2> QED
    BY <1>1, <2>1, AdvanceType DEF AdmitClock, Clocks
<1>3. CASE visible.clock.logical - issued[a].created >= Retention
  BY <1>1, <1>2, <1>3, JournalAssumption DEF Kept
<1>4. CASE /\ visible.records[k] # NoRecord
           /\ visible.records[k].attempt = a
           /\ visible.records[k].created = issued[a].created
  <2>1. CASE AdmitRecords(visible, x)[k] = visible.records[k]
    BY <1>4, <2>1 DEF Kept
  <2>2. CASE AdmitRecords(visible, x)[k] # visible.records[k]
    <3>1. Expired(visible.records[k], now)
      BY <1>1, <2>2 DEF AdmitRecords, Collected
    <3> QED
      BY <1>4, <3>1 DEF Expired, Kept
  <2> QED
    BY <2>1, <2>2
<1> QED
  BY <1>3, <1>4 DEF Kept

\* Every transaction that samples the clock and collects keeps what it must.
LEMMA RemembersAdvance ==
  ASSUME TypeInv, BootsKnown,
         NEW x \in CurrentSamples, NEW a \in Attempts, Remembers(visible, a)
  PROVE  /\ Kept(AdmitClock(visible, x), AdmitRecords(visible, x), a)
         /\ Paced(AdmitClock(visible, x), a)
<1>1. issued[a].created \in Nat /\ issued[a].real \in Nat
  <2>1. issued[a] \in Admissions
    BY DEF TypeInv, StoreTypeOK, Attempts
  <2> QED
    BY <2>1 DEF Admissions
<1> QED
  BY <1>1, KeptAdvance, PaceAdvance DEF Remembers, Paced

LEMMA BootAdvance ==
  ASSUME TypeInv, BootsKnown, NEW x \in CurrentSamples
  PROVE  AdmitClock(visible, x).boot <= boot
<1>1. x.boot = boot \/ x.boot = NoBoot
  BY DEF CurrentSamples, Reading, Unavailable
<1> QED
  BY <1>1 DEF BootsKnown, AdmitClock, AdvancedClock, Clock, NoBoot, TypeInv, StoreTypeOK

LEMMA MemoryInit == StoreInit => MemoryInv
<1> SUFFICES ASSUME StoreInit PROVE MemoryInv
  OBVIOUS
<1>1. PICK x \in {[available |-> TRUE, boot |-> 1, seconds |-> 0], Unavailable} :
        visible = InitialDisk(x)
  BY DEF StoreInit
<1>2. visible.clock.boot = 0 \/ visible.clock.boot = 1
  <2>1. x.boot = 0 \/ x.boot = 1
    BY DEF Unavailable, NoBoot
  <2> QED
    BY <1>1, <2>1 DEF InitialDisk, AdvancedClock, Clock, NoBoot, Proven
<1> QED
  BY <1>2 DEF StoreInit, MemoryInv, BootsKnown, Admitting

\* A transaction other than an admission that samples the clock: Collect, and a
\* refusal that keeps a new boot baseline.
LEMMA MemoryCollected ==
  ASSUME TypeInv, ~ClockRegresses, MemoryInv, NEW x \in CurrentSamples,
         visible'.clock = AdmitClock(visible, x),
         visible'.records = AdmitRecords(visible, x),
         ~Admitting', UNCHANGED <<durable, machine, history>>
  PROVE  MemoryInv'
<1>1. ASSUME NEW a \in acked
      PROVE  Remembers(visible, a)' /\ Remembers(durable, a)'
  <2>1. a \in Attempts /\ Remembers(visible, a) /\ Remembers(durable, a)
    BY DEF MemoryInv, TypeInv, StoreTypeOK
  <2>2. /\ Kept(AdmitClock(visible, x), AdmitRecords(visible, x), a)
        /\ Paced(AdmitClock(visible, x), a)
    BY <2>1, RemembersAdvance DEF MemoryInv
  <2>3. Remembers(visible, a)'
    BY <2>2 DEF Remembers, Kept, Paced, Pace, machine, history
  <2>4. Remembers(durable, a)'
    BY <2>1 DEF Remembers, Kept, Paced, Pace, machine, history
  <2> QED
    BY <2>3, <2>4
<1>2. BootsKnown'
  BY BootAdvance DEF MemoryInv, BootsKnown, machine
<1> QED
  BY <1>1, <1>2 DEF MemoryInv, history

LEMMA MemoryAdmitted ==
  ASSUME TypeInv, ~ClockRegresses, MemoryInv, NEW x \in CurrentSamples,
         NEW c \in Clients, NEW k \in Keys, NEW digest \in Digests,
         NEW rates \in RatePolicies, AdmitFresh(c, k, digest, rates, x)
  PROVE  MemoryInv'
<1>0. PICK n \in Nat : n = Len(issued) + 1
  BY DEF TypeInv, StoreTypeOK
<1> DEFINE now == AdmitClock(visible, x).logical
           entry == [key |-> k, digest |-> digest, rates |-> rates,
                     created |-> now, real |-> total]
<1>1. /\ issued \in Seq(Admissions) /\ n \notin acked /\ acked \subseteq Attempts
      /\ visible.records \in [Keys -> Records \cup {NoRecord}]
  BY <1>0 DEF TypeInv, StoreTypeOK, Attempts, Disks
<1>2. /\ visible'.clock = AdmitClock(visible, x)
      /\ visible'.records =
           [AdmitRecords(visible, x) EXCEPT ![k] = NewRecord(k, digest, n, now)]
      /\ issued' = Append(issued, entry)
      /\ writer' = [client |-> c, kind |-> "admit", attempt |-> n]
      /\ visible.records[k] = NoRecord
      /\ UNCHANGED <<durable, machine, acked>>
  BY <1>0 DEF AdmitFresh, Rename, AdmittedDisk, Admissible
<1>3. /\ \A a \in Attempts : issued'[a] = issued[a]
      /\ issued'[n] = entry
  BY <1>0, <1>1, <1>2 DEF Attempts
<1>4. /\ x \in Samples /\ visible.clock \in Clocks
      /\ AdmitClock(visible, x) \in Clocks
      /\ AdmitRecords(visible, x) \in [Keys -> Records \cup {NoRecord}]
  <2>1. x \in Samples /\ visible.clock \in Clocks
    BY SamplesType DEF TypeInv, StoreTypeOK, Disks
  <2> QED
    BY <1>1, <2>1, AdvanceType, CollectedType DEF AdmitClock, AdmitRecords
<1>5. ASSUME NEW a \in acked
      PROVE  Remembers(visible, a)' /\ Remembers(durable, a)'
  <2>1. a \in Attempts /\ Remembers(visible, a) /\ Remembers(durable, a)
    BY <1>1 DEF MemoryInv
  <2>2. /\ Kept(AdmitClock(visible, x), AdmitRecords(visible, x), a)
        /\ Paced(AdmitClock(visible, x), a)
    BY <2>1, RemembersAdvance DEF MemoryInv
  <2>3. Paced(visible.clock, a)'
    BY <1>2, <1>3, <2>1, <2>2 DEF Paced, Pace, machine
  <2>4. AdmitRecords(visible, x)[k] = NoRecord
    BY <1>1, <1>2 DEF AdmitRecords, Collected
  <2>5. Kept(visible.clock, visible.records, a)'
    <3>1. issued[a].key \in Keys /\ issued'[a] = issued[a]
      <4>1. issued[a] \in Admissions
        BY <1>1, <2>1 DEF Attempts
      <4> QED
        BY <1>3, <2>1, <4>1 DEF Admissions
    <3>2. Kept(AdmitClock(visible, x), visible'.records, a)
      <4>1. CASE issued[a].key = k
        BY <2>2, <2>4, <4>1 DEF Kept
      <4>2. CASE issued[a].key # k
        <5>1. visible'.records[issued[a].key] = AdmitRecords(visible, x)[issued[a].key]
          BY <1>2, <1>4, <3>1, <4>2
        <5> QED
          BY <2>2, <5>1 DEF Kept
      <4> QED
        BY <4>1, <4>2
    <3> QED
      BY <1>2, <3>1, <3>2 DEF Kept
  <2>6. Remembers(durable, a)'
    BY <1>2, <1>3, <2>1 DEF Remembers, Kept, Paced, Pace, machine
  <2> QED
    BY <2>3, <2>5, <2>6 DEF Remembers
<1>6. Kept(visible.clock, visible.records, n)'
  <2>1. NewRecord(k, digest, n, now) # NoRecord
    <3>1. NewRecord(k, digest, n, now) \in Records
      BY <1>1, <1>4, JournalAssumption DEF NewRecord, Records, Clocks
    <3> QED
      BY <3>1, JournalAssumption
  <2>2. visible'.records[k] = NewRecord(k, digest, n, now)
    BY <1>2, <1>4
  <2>3. issued'[n].key = k /\ issued'[n].created = now
    BY <1>3
  <2> QED
    BY <2>1, <2>2, <2>3 DEF Kept, NewRecord
<1>7. Paced(visible.clock, n)'
  <2>1. /\ now \in Nat /\ total \in Nat /\ bootAt \in Nat /\ boot \in Nat
        /\ TicksPerSecond \in Nat \ {0}
    BY <1>4, StoreAssumption DEF Clocks, TypeInv, StoreTypeOK
  <2>2. TicksPerSecond * (now - now) = 0
    BY <2>1
  <2>3. issued'[n].created = now /\ issued'[n].real = total
    BY <1>3
  <2>4. ASSUME AdmitClock(visible, x).boot = boot
        PROVE  total <= bootAt + TicksPerSecond * (AdmitClock(visible, x).seconds + 1)
    <3>1. x = Reading
      <4>1. x = Reading \/ x = Unavailable
        BY DEF CurrentSamples
      <4>2. x # Unavailable
        BY <2>1, <2>4 DEF AdmitClock, AdvancedClock, Clock, Unavailable, MemoryInv,
                          BootsKnown, NoBoot
      <4> QED
        BY <4>1, <4>2
    <3>2. /\ Reading.available /\ Reading.boot = boot /\ Reading.seconds \in Nat
          /\ total - bootAt < TicksPerSecond * (Reading.seconds + 1)
      BY ReadingBounds DEF Reading
    <3>3. AdmitClock(visible, x).seconds \in Nat
          /\ Reading.seconds <= AdmitClock(visible, x).seconds
      BY <1>4, <3>1, <3>2 DEF AdmitClock, AdvancedClock, Clock, Clocks, Proven
    <3>4. TicksPerSecond * (Reading.seconds + 1)
            <= TicksPerSecond * (AdmitClock(visible, x).seconds + 1)
      BY <2>1, <3>2, <3>3, ProductMonotone
    <3> QED
      BY <2>1, <3>2, <3>3, <3>4
  <2>5. /\ visible'.clock = AdmitClock(visible, x)
        /\ boot' = boot /\ bootAt' = bootAt /\ total' = total
        /\ AdmitClock(visible, x).logical = now
    BY <1>2 DEF machine
  <2>6. visible'.clock.boot = boot' =>
          total <= bootAt' + TicksPerSecond * (visible'.clock.seconds + 1)
    BY <2>4, <2>5
  <2>7. /\ TicksPerSecond * (visible'.clock.logical - now) <= total' - total
        /\ visible'.clock.boot = boot' =>
             TicksPerSecond * (visible'.clock.logical - now)
               <= bootAt' + TicksPerSecond * (visible'.clock.seconds + 1) - total
    <3>1. TicksPerSecond * (visible'.clock.logical - now) = 0
      BY <2>2, <2>5
    <3>2. visible'.clock.seconds \in Nat
      BY <1>4, <2>5 DEF Clocks
    <3>3. PICK product \in Int : product = TicksPerSecond * (visible'.clock.seconds + 1)
      BY <2>1, <3>2
    <3> QED
      BY <2>1, <2>5, <2>6, <3>1, <3>3
  <2> QED
    BY <2>3, <2>7 DEF Paced, Pace
<1>8. BootsKnown'
  BY <1>2, BootAdvance DEF MemoryInv, BootsKnown, machine
<1> QED
  BY <1>2, <1>5, <1>6, <1>7, <1>8 DEF MemoryInv, Remembers

\* A step that leaves snapshots, machine and admissions alone.
LEMMA MemoryKept ==
  ASSUME TypeInv, MemoryInv, ~Admitting',
         UNCHANGED <<visible, durable, boot, bootAt, total, issued, acked>>
  PROVE  MemoryInv'
<1>1. \A a \in acked : Remembers(visible, a)' /\ Remembers(durable, a)'
  BY DEF MemoryInv, Remembers, Kept, Paced, Pace
<1> QED
  BY <1>1 DEF MemoryInv, BootsKnown

\* A transaction that ends without a sync makes durable what was so or what is visible.
LEMMA MemoryUnsynced ==
  ASSUME TypeInv, MemoryInv, EndUnsynced
  PROVE  MemoryInv'
<1>1. /\ durable' \in {durable, visible} /\ visible' = visible /\ writer' = Free
      /\ UNCHANGED <<boot, bootAt, total, issued, acked>>
  BY DEF EndUnsynced, machine, history
<1>2. \A a \in acked' : Remembers(visible, a)' /\ Remembers(durable, a)'
  BY <1>1 DEF MemoryInv, Remembers, Kept, Paced, Pace
<1> QED
  BY <1>1, <1>2 DEF MemoryInv, BootsKnown, Admitting

\* Finalization changes a record's status, never its attempt or its age.
LEMMA MemoryFinalized ==
  ASSUME TypeInv, MemoryInv, NEW c \in Clients, NEW k \in Keys, NEW attempt \in Nat,
         NEW status \in Statuses, Finalize(c, k, attempt, status)
  PROVE  MemoryInv'
<1>1. /\ visible'.clock = visible.clock
      /\ visible'.records = [visible.records EXCEPT ![k] = Settled(visible.records[k], status)]
      /\ writer'.kind = "finalize" /\ writer' # Free
      /\ UNCHANGED <<durable, boot, bootAt, total, issued, acked>>
      /\ visible.records \in [Keys -> Records \cup {NoRecord}]
      /\ visible.records[k] # NoRecord
  <2>1. writer' \in Transactions
    BY DEF Finalize, Rename, Transactions
  <2>2. writer' # Free
    BY <2>1, StoreAssumption
  <2> QED
    BY <2>2 DEF Finalize, Rename, FinalizedDisk, Finalizable, machine, TypeInv, StoreTypeOK, Disks
<1>2. /\ Settled(visible.records[k], status).attempt = visible.records[k].attempt
      /\ Settled(visible.records[k], status).created = visible.records[k].created
      /\ Settled(visible.records[k], status) # NoRecord
  <2>1. visible.records[k] \in Records
    BY <1>1
  <2>2. Settled(visible.records[k], status) \in Records
    BY <2>1 DEF Settled, Records
  <2> QED
    BY <2>1, <2>2, JournalAssumption DEF Settled, Records
<1>3. ASSUME NEW a \in acked
      PROVE  Remembers(visible, a)' /\ Remembers(durable, a)'
  <2>1. Remembers(visible, a) /\ Remembers(durable, a)
    BY DEF MemoryInv
  <2>2. issued[a].key \in Keys
    <3>1. issued[a] \in Admissions
      BY DEF TypeInv, StoreTypeOK, Attempts
    <3> QED
      BY <3>1 DEF Admissions
  <2>3. Kept(visible.clock, visible.records, a)'
    <3>1. CASE issued[a].key = k
      <4>1. visible'.records[issued[a].key] = Settled(visible.records[k], status)
        BY <1>1, <3>1
      <4> QED
        BY <1>1, <1>2, <2>1, <3>1, <4>1 DEF Remembers, Kept
    <3>2. CASE issued[a].key # k
      <4>1. visible'.records[issued[a].key] = visible.records[issued[a].key]
        BY <1>1, <2>2, <3>2
      <4> QED
        BY <1>1, <2>1, <4>1 DEF Remembers, Kept
    <3> QED
      BY <3>1, <3>2
  <2>4. Paced(visible.clock, a)'
    BY <1>1, <2>1 DEF Remembers, Paced, Pace
  <2>5. Remembers(durable, a)'
    BY <1>1, <2>1 DEF Remembers, Kept, Paced, Pace
  <2> QED
    BY <2>3, <2>4, <2>5 DEF Remembers
<1> QED
  BY <1>1, <1>3 DEF MemoryInv, BootsKnown, Admitting

LEMMA MemoryNext ==
  ASSUME TypeInv, ~ClockRegresses, MemoryInv, [StoreNext]_storeVars
  PROVE  MemoryInv'
<1>1. CASE UNCHANGED storeVars
  BY <1>1 DEF storeVars, MemoryInv, BootsKnown, Admitting, Remembers, Kept, Paced, Pace
<1>2. CASE Tick
  <2>1. /\ \A a \in Attempts : issued[a].real \in Nat /\ issued[a].created \in Nat
        /\ total \in Nat /\ visible.clock \in Clocks /\ durable.clock \in Clocks
        /\ TicksPerSecond \in Nat
    <3>1. \A a \in Attempts : issued[a] \in Admissions
      BY DEF TypeInv, StoreTypeOK, Attempts
    <3> QED
      BY <3>1, StoreAssumption DEF Admissions, TypeInv, StoreTypeOK, Disks
  <2>2. ASSUME NEW a \in Attempts, NEW clk \in Clocks, Paced(clk, a)
        PROVE  /\ TicksPerSecond * (clk.logical - issued[a].created) <= total' - issued[a].real
               /\ clk.boot = boot =>
                    TicksPerSecond * (clk.logical - issued[a].created)
                      <= bootAt + TicksPerSecond * (clk.seconds + 1) - issued[a].real
    <3>1. clk.logical - issued[a].created \in Int
      BY <2>1 DEF Clocks
    <3>2. PICK product \in Int :
            product = TicksPerSecond * (clk.logical - issued[a].created)
      BY <2>1, <3>1
    <3>3. product <= total - issued[a].real /\ total' = total + 1
      BY <1>2, <2>2, <3>2 DEF Tick, Paced, Pace
    <3>4. product <= total' - issued[a].real
      BY <2>1, <3>3
    <3> QED
      BY <2>2, <3>2, <3>4 DEF Paced, Pace
  <2>3. ASSUME NEW a \in Attempts, Remembers(visible, a)
        PROVE  Remembers(visible, a)'
    BY <1>2, <2>1, <2>2, <2>3 DEF Remembers, Kept, Paced, Pace, Tick, history
  <2>4. ASSUME NEW a \in Attempts, Remembers(durable, a)
        PROVE  Remembers(durable, a)'
    BY <1>2, <2>1, <2>2, <2>4 DEF Remembers, Kept, Paced, Pace, Tick, history
  <2>5. acked \subseteq Attempts /\ (Admitting => writer.attempt \in Attempts)
    BY DEF TypeInv, StoreTypeOK, NewestAdmitting, Attempts
  <2>6. \A a \in acked' : Remembers(visible, a)' /\ Remembers(durable, a)'
    BY <1>2, <2>3, <2>4, <2>5 DEF MemoryInv, Tick, history
  <2>7. Admitting' => Remembers(visible, writer.attempt)'
    <3>1. writer' = writer
      BY <1>2 DEF Tick
    <3>2. Admitting => Remembers(visible, writer.attempt)
      BY DEF MemoryInv
    <3>3. SUFFICES ASSUME Admitting PROVE Remembers(visible, writer.attempt)'
      BY <3>1 DEF Admitting
    <3>4. PICK b : b = writer.attempt
      OBVIOUS
    <3>5. Remembers(visible, b)'
      BY <2>3, <2>5, <3>2, <3>3, <3>4
    <3> QED
      BY <3>1, <3>4, <3>5 DEF Remembers, Kept, Paced, Pace
  <2> QED
    BY <1>2, <2>6, <2>7 DEF MemoryInv, BootsKnown, Tick
<1>3. CASE PowerLoss
  <2>1. /\ boot' = boot + 1 /\ durable' = visible' /\ visible' \in {visible, durable}
        /\ writer' = Free /\ UNCHANGED <<total, issued, acked>>
    BY <1>3 DEF PowerLoss, history
  <2>2. boot \in Nat /\ visible.clock.boot \in Nat /\ durable.clock.boot \in Nat
    BY DEF TypeInv, StoreTypeOK, Disks, Clocks
  <2>3. /\ visible'.clock.boot <= boot /\ durable'.clock.boot <= boot
        /\ visible'.clock.boot # boot' /\ durable'.clock.boot # boot'
    BY <2>1, <2>2 DEF MemoryInv, BootsKnown
  <2>4. ASSUME NEW a \in acked
        PROVE  Remembers(visible, a)' /\ Remembers(durable, a)'
    <3>1. Remembers(visible, a) /\ Remembers(durable, a)
      BY DEF MemoryInv
    <3> QED
      BY <2>1, <2>3, <3>1 DEF Remembers, Kept, Paced, Pace
  <2>5. BootsKnown'
    BY <2>1, <2>2, <2>3 DEF MemoryInv, BootsKnown
  <2> QED
    BY <2>1, <2>4, <2>5 DEF MemoryInv, Admitting
<1>4. CASE HolderCrash
  BY <1>4, MemoryUnsynced DEF HolderCrash
<1>5. ASSUME NEW c \in Clients, NEW k \in Keys, NEW rates \in RatePolicies,
             NEW x \in CurrentSamples, AdmitRefused(c, k, rates, x)
      PROVE  MemoryInv'
  <2>1. visible'.clock = AdmitClock(visible, x) /\ visible'.records = AdmitRecords(visible, x)
    BY <1>5 DEF AdmitRefused, Rename, CollectedDisk, RateDisk
  <2> QED
    BY <1>5, <2>1, MemoryCollected DEF AdmitRefused, Rename, Admitting
<1>6. ASSUME NEW c \in Clients, NEW k \in Keys, NEW digest \in Digests,
             NEW rates \in RatePolicies, NEW x \in CurrentSamples,
             AdmitFresh(c, k, digest, rates, x)
      PROVE  MemoryInv'
  BY <1>6, MemoryAdmitted
<1>7. ASSUME NEW c \in Clients, NEW a \in Attempts, NEW status \in Statuses,
             Finalize(c, issued[a].key, a, status)
      PROVE  MemoryInv'
  <2>1. issued[a].key \in Keys
    <3>1. issued[a] \in Admissions
      BY DEF TypeInv, StoreTypeOK, Attempts
    <3> QED
      BY <3>1 DEF Admissions
  <2>2. a \in Nat
    BY DEF Attempts
  <2> QED
    BY <1>7, <2>1, <2>2, MemoryFinalized
<1>8. ASSUME NEW c \in Clients, NEW x \in CurrentSamples, Collect(c, x)
      PROVE  MemoryInv'
  <2>1. visible'.clock = AdmitClock(visible, x) /\ visible'.records = AdmitRecords(visible, x)
    BY <1>8 DEF Collect, Rename, CollectedDisk
  <2> QED
    BY <1>8, <2>1, MemoryCollected DEF Collect, Rename, Admitting
<1>9. ASSUME NEW c \in Clients, SyncOK(c)
      PROVE  MemoryInv'
  <2>1. /\ durable' = visible /\ visible' = visible /\ writer' = Free
        /\ UNCHANGED <<boot, bootAt, total, issued>>
    BY <1>9 DEF SyncOK, machine
  <2>2. \A a \in acked' : Remembers(visible, a)
    <3>1. CASE Admitting
      <4>1. acked' = acked \cup {writer.attempt}
        BY <1>9, <3>1 DEF SyncOK, Admitting
      <4> QED
        BY <3>1, <4>1 DEF MemoryInv
    <3>2. CASE ~Admitting
      <4>1. acked' = acked
        BY <1>9, <3>2 DEF SyncOK, Admitting
      <4> QED
        BY <4>1 DEF MemoryInv
    <3> QED
      BY <3>1, <3>2
  <2>3. \A a \in acked' : Remembers(visible, a)' /\ Remembers(durable, a)'
    BY <2>1, <2>2 DEF Remembers, Kept, Paced, Pace
  <2> QED
    BY <2>1, <2>3 DEF MemoryInv, BootsKnown, Admitting
<1>10. ASSUME NEW c \in Clients, SyncFail(c)
       PROVE  MemoryInv'
  BY <1>10, MemoryUnsynced DEF SyncFail
<1>11. ASSUME NEW a \in Attempts, NEW status \in Statuses,
              FinalizeMissed(issued[a].key, a, status)
       PROVE  MemoryInv'
  BY <1>11, MemoryKept DEF FinalizeMissed, machine, Admitting
<1> QED
  BY <1>1, <1>2, <1>3, <1>4, <1>5, <1>6, <1>7, <1>8, <1>9, <1>10, <1>11 DEF StoreNext

\* What the invariant is for: while real time is short of the retention, the
\* logical clock is too, so the record must still be there.
LEMMA MemoryRemembers == ASSUME TypeInv, MemoryInv PROVE Remembered
<1>1. ASSUME NEW a \in acked, Elapsed(a) < Retention * TicksPerSecond,
             NEW d \in {visible, durable}
      PROVE  d.records[issued[a].key] # NoRecord /\ d.records[issued[a].key].attempt = a
  <2>1. Remembers(d, a)
    BY DEF MemoryInv
  <2>2. /\ d.clock.logical \in Nat /\ issued[a].created \in Nat /\ issued[a].real \in Nat
        /\ total \in Nat /\ TicksPerSecond \in Nat \ {0} /\ Retention \in Nat
    <3>1. issued[a] \in Admissions
      BY DEF TypeInv, StoreTypeOK, Attempts
    <3>2. d.clock \in Clocks
      BY DEF TypeInv, StoreTypeOK, Disks
    <3> QED
      BY <3>1, <3>2, StoreAssumption, JournalAssumption
      DEF Admissions, Clocks, TypeInv, StoreTypeOK
  <2>3. ~(d.clock.logical - issued[a].created >= Retention)
    <3>1. SUFFICES ASSUME d.clock.logical - issued[a].created >= Retention PROVE FALSE
      OBVIOUS
    <3>2. TicksPerSecond * Retention
            <= TicksPerSecond * (d.clock.logical - issued[a].created)
      BY <2>2, <3>1, ProductMonotone
    <3>3. TicksPerSecond * (d.clock.logical - issued[a].created) <= total - issued[a].real
      BY <2>1 DEF Remembers, Paced, Pace
    <3>4. total - issued[a].real < TicksPerSecond * Retention
      BY <1>1, <2>2 DEF Elapsed
    <3> QED
      BY <2>2, <3>2, <3>3, <3>4
  <2> QED
    BY <2>1, <2>3 DEF Remembers, Kept
<1> QED
  BY <1>1 DEF Remembered

\* An acknowledged admission is remembered by every snapshot a reader or a
\* restart may see until its retention has passed in real time, if the boot
\* clock never falls behind a sample it gave before (journal.advance keeps the
\* high water and trusts the clock port for the rest).
THEOREM JournalRemembers ==
  ASSUME ~ClockRegresses
  PROVE  StoreSpec => []Remembered
<1>1. StoreInit => TypeInv /\ MemoryInv
  BY TypeInit, MemoryInit
<1>2. TypeInv /\ MemoryInv /\ [StoreNext]_storeVars => (TypeInv /\ MemoryInv)'
  BY TypeNext, MemoryNext
<1>3. TypeInv /\ MemoryInv => Remembered
  BY MemoryRemembers
<1> QED
  BY <1>1, <1>2, <1>3, PTL DEF StoreSpec

-----------------------------------------------------------------------------
(* The logical clock.  It is paced like the age of an admission that was made  *)
(* when the journal was created.                                              *)

Sure(clk) == Pace(clk, 0, 0)

PaceInv == BootsKnown /\ Sure(visible.clock) /\ Sure(durable.clock)

LEMMA SureInit == StoreInit => PaceInv
<1> SUFFICES ASSUME StoreInit PROVE PaceInv
  OBVIOUS
<1>1. PICK x \in {[available |-> TRUE, boot |-> 1, seconds |-> 0], Unavailable} :
        visible = InitialDisk(x)
  BY DEF StoreInit
<1>2. /\ visible.clock.logical = 0 /\ visible.clock.seconds = 0
      /\ visible.clock.boot = 0 \/ visible.clock.boot = 1
  BY <1>1 DEF Unavailable, InitialDisk, AdvancedClock, Clock, NoBoot, Proven, Credit
<1>3. /\ TicksPerSecond \in Nat \ {0} /\ total = 0 /\ bootAt = 0 /\ boot = 1
      /\ durable = visible
  BY StoreAssumption DEF StoreInit
<1>4. TicksPerSecond * (0 - 0) = 0 /\ TicksPerSecond * (0 + 1) >= 0
  BY <1>3
<1> QED
  BY <1>2, <1>3, <1>4 DEF PaceInv, BootsKnown, Sure, Pace

LEMMA SureNext == TypeInv /\ PaceInv /\ [StoreNext]_storeVars => PaceInv'
<1> SUFFICES ASSUME TypeInv, PaceInv, [StoreNext]_storeVars PROVE PaceInv'
  OBVIOUS
<1>1. ASSUME visible'.clock = visible.clock,
             durable'.clock = durable.clock \/ durable'.clock = visible.clock,
             UNCHANGED machine
      PROVE  PaceInv'
  BY <1>1 DEF PaceInv, BootsKnown, Sure, Pace, machine
<1>2. ASSUME NEW x \in CurrentSamples, visible'.clock = AdmitClock(visible, x),
             UNCHANGED <<durable, machine>>
      PROVE  PaceInv'
  <2>1. Pace(AdmitClock(visible, x), 0, 0)
    BY PaceAdvance DEF PaceInv, Sure
  <2>2. AdmitClock(visible, x).boot <= boot
    BY BootAdvance DEF PaceInv
  <2> QED
    BY <1>2, <2>1, <2>2 DEF PaceInv, BootsKnown, Sure, Pace, machine
<1>3. CASE Tick
  <2>1. /\ total \in Nat /\ total' = total + 1
        /\ UNCHANGED <<visible, durable, boot, bootAt>>
    BY <1>3 DEF Tick, TypeInv, StoreTypeOK
  <2>2. ASSUME NEW clk \in Clocks, Sure(clk)
        PROVE  TicksPerSecond * (clk.logical - 0) <= total' - 0
    <3>1. PICK product \in Int : product = TicksPerSecond * (clk.logical - 0)
      BY StoreAssumption DEF Clocks
    <3> QED
      BY <2>1, <2>2, <3>1 DEF Sure, Pace
  <2>3. visible.clock \in Clocks /\ durable.clock \in Clocks
    BY DEF TypeInv, StoreTypeOK, Disks
  <2> QED
    BY <2>1, <2>2, <2>3 DEF PaceInv, BootsKnown, Sure, Pace
<1>4. CASE PowerLoss
  <2>1. /\ boot' = boot + 1 /\ durable' = visible' /\ visible' \in {visible, durable}
        /\ total' = total
    BY <1>4 DEF PowerLoss, history
  <2>2. boot \in Nat /\ visible.clock.boot \in Nat /\ durable.clock.boot \in Nat
    BY DEF TypeInv, StoreTypeOK, Disks, Clocks
  <2>3. /\ visible'.clock.boot <= boot /\ durable'.clock.boot <= boot
        /\ visible'.clock.boot # boot' /\ durable'.clock.boot # boot' /\ boot' >= 1
    BY <2>1, <2>2 DEF PaceInv, BootsKnown
  <2> QED
    BY <2>1, <2>2, <2>3 DEF PaceInv, BootsKnown, Sure, Pace
<1>5. ASSUME NEW c \in Clients, NEW k \in Keys, NEW rates \in RatePolicies,
             NEW x \in CurrentSamples, AdmitRefused(c, k, rates, x)
      PROVE  PaceInv'
  BY <1>2, <1>5 DEF AdmitRefused, Rename, CollectedDisk, RateDisk
<1>6. ASSUME NEW c \in Clients, NEW k \in Keys, NEW digest \in Digests,
             NEW rates \in RatePolicies, NEW x \in CurrentSamples,
             AdmitFresh(c, k, digest, rates, x)
      PROVE  PaceInv'
  BY <1>2, <1>6 DEF AdmitFresh, Rename, AdmittedDisk
<1>7. ASSUME NEW c \in Clients, NEW a \in Attempts, NEW status \in Statuses,
             Finalize(c, issued[a].key, a, status)
      PROVE  PaceInv'
  BY <1>1, <1>7 DEF Finalize, Rename, FinalizedDisk
<1>8. ASSUME NEW c \in Clients, NEW x \in CurrentSamples, Collect(c, x)
      PROVE  PaceInv'
  BY <1>2, <1>8 DEF Collect, Rename, CollectedDisk
<1>9. ASSUME NEW c \in Clients, SyncOK(c) \/ SyncFail(c)
      PROVE  PaceInv'
  BY <1>1, <1>9 DEF SyncOK, SyncFail, EndUnsynced
<1>10. CASE \/ UNCHANGED storeVars \/ HolderCrash
            \/ \E a \in Attempts, status \in Statuses :
                 FinalizeMissed(issued[a].key, a, status)
  BY <1>1, <1>10 DEF storeVars, HolderCrash, EndUnsynced, FinalizeMissed, machine
<1> QED
  BY <1>3, <1>4, <1>5, <1>6, <1>7, <1>8, <1>9, <1>10 DEF StoreNext

LEMMA SureNeverAhead == TypeInv /\ PaceInv => LogicalNeverAhead
<1> SUFFICES ASSUME TypeInv, PaceInv, NEW d \in {visible, durable}
             PROVE  TicksPerSecond * d.clock.logical <= total
  BY DEF LogicalNeverAhead
<1>1. d.clock.logical \in Nat /\ total \in Nat /\ TicksPerSecond \in Nat
  <2>1. d.clock \in Clocks
    BY DEF TypeInv, StoreTypeOK, Disks
  <2> QED
    BY <2>1, StoreAssumption DEF Clocks, TypeInv, StoreTypeOK
<1>2. TicksPerSecond * (d.clock.logical - 0) <= total - 0
  BY DEF PaceInv, Sure, Pace
<1>3. d.clock.logical - 0 = d.clock.logical
  BY <1>1
<1> QED
  BY <1>1, <1>2, <1>3

\* The logical clock never runs ahead of real time, also when samples are missing
\* or fall behind the high water (journal.advance).
THEOREM ClockNeverAhead == StoreSpec => []LogicalNeverAhead
BY TypeInit, TypeNext, SureInit, SureNext, SureNeverAhead, PTL DEF StoreSpec

-----------------------------------------------------------------------------
(* Whose a record is.  A record belongs to an attempt issued for its key; its  *)
(* terminal status was asked for that attempt; and the two snapshots agree     *)
(* about an attempt the durable one holds as terminal.                         *)

OwnRecord(d, k) ==
  d.records[k] # NoRecord =>
    /\ d.records[k].attempt \in Attempts
    /\ issued[d.records[k].attempt].key = k
    /\ d.records[k].state # Dispatching =>
         <<d.records[k].attempt, d.records[k].state>> \in finals

Agreed(k) ==
  /\ durable.records[k] # NoRecord /\ visible.records[k] # NoRecord
  /\ durable.records[k].attempt = visible.records[k].attempt
  /\ durable.records[k].state # Dispatching
  => visible.records[k] = durable.records[k]

RecordInv ==
  \A k \in Keys : OwnRecord(visible, k) /\ OwnRecord(durable, k) /\ Agreed(k)

LEMMA RecordInit == StoreInit => RecordInv
BY DEF StoreInit, InitialDisk, RecordInv, OwnRecord, Agreed

\* A transaction that only collects.
LEMMA RecordCollected ==
  ASSUME TypeInv, RecordInv, NEW x, visible'.records = AdmitRecords(visible, x),
         UNCHANGED <<durable, issued, finals>>
  PROVE  RecordInv'
<1> SUFFICES ASSUME NEW k \in Keys
             PROVE  (OwnRecord(visible, k) /\ OwnRecord(durable, k) /\ Agreed(k))'
  BY DEF RecordInv
<1>1. OwnRecord(visible, k) /\ OwnRecord(durable, k) /\ Agreed(k)
  BY DEF RecordInv
<1>2. visible'.records[k] = NoRecord \/ visible'.records[k] = visible.records[k]
  BY DEF AdmitRecords, Collected
<1> QED
  BY <1>1, <1>2 DEF OwnRecord, Agreed, Attempts

LEMMA RecordAdmitted ==
  ASSUME TypeInv, RecordInv, NEW x \in CurrentSamples,
         NEW c \in Clients, NEW k \in Keys, NEW digest \in Digests,
         NEW rates \in RatePolicies, AdmitFresh(c, k, digest, rates, x)
  PROVE  RecordInv'
<1>0. PICK n \in Nat : n = Len(issued) + 1
  BY DEF TypeInv, StoreTypeOK
<1> DEFINE now == AdmitClock(visible, x).logical
           entry == [key |-> k, digest |-> digest, rates |-> rates,
                     created |-> now, real |-> total]
           fresh == NewRecord(k, digest, n, now)
<1>1. /\ visible'.records = [AdmitRecords(visible, x) EXCEPT ![k] = fresh]
      /\ issued' = Append(issued, entry)
      /\ UNCHANGED <<durable, finals>>
  BY <1>0 DEF AdmitFresh, Rename, AdmittedDisk, history
<1>2. /\ issued \in Seq(Admissions)
      /\ visible.records \in [Keys -> Records \cup {NoRecord}]
  BY DEF TypeInv, StoreTypeOK, Disks
<1>3. /\ \A a \in Attempts : issued'[a] = issued[a]
      /\ issued'[n] = entry
      /\ Attempts' = Attempts \cup {n} /\ n \notin Attempts
  BY <1>0, <1>1, <1>2 DEF Attempts
<1>4. ASSUME NEW j \in Keys
      PROVE  (OwnRecord(visible, j) /\ OwnRecord(durable, j) /\ Agreed(j))'
  <2>1. OwnRecord(visible, j) /\ OwnRecord(durable, j) /\ Agreed(j)
    BY DEF RecordInv
  <2>2. OwnRecord(durable, j)'
    BY <1>1, <1>3, <2>1 DEF OwnRecord
  <2>3. CASE j = k
    <3>1. visible'.records[j] = fresh
      BY <1>1, <1>2, <2>3 DEF AdmitRecords, Collected
    <3>2. fresh.attempt = n /\ fresh.state = Dispatching /\ issued'[n].key = k
      BY <1>3 DEF NewRecord
    <3>3. OwnRecord(visible, j)'
      BY <1>3, <2>3, <3>1, <3>2 DEF OwnRecord
    <3>4. Agreed(j)'
      BY <1>1, <1>3, <2>1, <3>1, <3>2 DEF Agreed, OwnRecord
    <3> QED
      BY <2>2, <3>3, <3>4
  <2>4. CASE j # k
    <3>1. visible'.records[j] = NoRecord \/ visible'.records[j] = visible.records[j]
      BY <1>1, <2>4 DEF AdmitRecords, Collected
    <3> QED
      BY <1>1, <1>3, <2>1, <2>2, <3>1 DEF OwnRecord, Agreed
  <2> QED
    BY <2>3, <2>4
<1> QED
  BY <1>4 DEF RecordInv

LEMMA RecordFinalized ==
  ASSUME TypeInv, RecordInv, NEW c \in Clients, NEW k \in Keys, NEW attempt \in Attempts,
         NEW status \in Statuses, Finalize(c, k, attempt, status)
  PROVE  RecordInv'
<1>1. /\ visible'.records = [visible.records EXCEPT ![k] = Settled(visible.records[k], status)]
      /\ visible.records \in [Keys -> Records \cup {NoRecord}]
      /\ visible.records[k] # NoRecord /\ visible.records[k].attempt = attempt
      /\ visible.records[k].state = Dispatching
      /\ finals' = finals \cup {<<attempt, status>>}
      /\ UNCHANGED <<durable, issued>>
  BY DEF Finalize, Rename, FinalizedDisk, Finalizable, TypeInv, StoreTypeOK, Disks
<1>2. /\ Settled(visible.records[k], status).attempt = attempt
      /\ Settled(visible.records[k], status).state = status
  <2>1. visible.records[k] \in Records
    BY <1>1
  <2> QED
    BY <1>1, <2>1 DEF Settled, Records
<1>3. ASSUME NEW j \in Keys
      PROVE  (OwnRecord(visible, j) /\ OwnRecord(durable, j) /\ Agreed(j))'
  <2>1. OwnRecord(visible, j) /\ OwnRecord(durable, j) /\ Agreed(j)
    BY DEF RecordInv
  <2>2. OwnRecord(durable, j)'
    BY <1>1, <2>1 DEF OwnRecord, Attempts
  <2>3. CASE j = k
    <3>1. visible'.records[j] = Settled(visible.records[k], status)
      BY <1>1, <2>3
    <3>2. OwnRecord(visible, j)'
      BY <1>1, <1>2, <2>1, <2>3, <3>1 DEF OwnRecord, Attempts
    <3>3. Agreed(j)'
      BY <1>1, <1>2, <2>1, <2>3, <3>1 DEF Agreed
    <3> QED
      BY <2>2, <3>2, <3>3
  <2>4. CASE j # k
    <3>1. visible'.records[j] = visible.records[j]
      BY <1>1, <2>4
    <3> QED
      BY <1>1, <2>1, <2>2, <3>1 DEF OwnRecord, Agreed, Attempts
  <2> QED
    BY <2>3, <2>4
<1> QED
  BY <1>3 DEF RecordInv

LEMMA RecordNext == TypeInv /\ RecordInv /\ [StoreNext]_storeVars => RecordInv'
<1> SUFFICES ASSUME TypeInv, RecordInv, [StoreNext]_storeVars PROVE RecordInv'
  OBVIOUS
<1>1. ASSUME visible'.records = visible.records \/ visible'.records = durable.records,
             \/ durable'.records = visible'.records
             \/ durable'.records = durable.records /\ visible'.records = visible.records,
             issued' = issued, finals \subseteq finals'
      PROVE  RecordInv'
  <2> SUFFICES ASSUME NEW k \in Keys
               PROVE  (OwnRecord(visible, k) /\ OwnRecord(durable, k) /\ Agreed(k))'
    BY DEF RecordInv
  <2>1. OwnRecord(visible, k) /\ OwnRecord(durable, k) /\ Agreed(k)
    BY DEF RecordInv
  <2>2. OwnRecord(visible, k)'
    BY <1>1, <2>1 DEF OwnRecord, Attempts
  <2>3. OwnRecord(durable, k)'
    BY <1>1, <2>1, <2>2 DEF OwnRecord, Attempts
  <2>4. Agreed(k)'
    BY <1>1, <2>1 DEF Agreed
  <2> QED
    BY <2>2, <2>3, <2>4
<1>2. CASE UNCHANGED storeVars \/ Tick \/ HolderCrash \/ PowerLoss
  BY <1>1, <1>2 DEF storeVars, Tick, HolderCrash, EndUnsynced, PowerLoss, history
<1>3. ASSUME NEW c \in Clients, NEW k \in Keys, NEW rates \in RatePolicies,
             NEW x \in CurrentSamples, AdmitRefused(c, k, rates, x)
      PROVE  RecordInv'
  BY <1>3, RecordCollected DEF AdmitRefused, Rename, CollectedDisk, RateDisk, history
<1>4. ASSUME NEW c \in Clients, NEW k \in Keys, NEW digest \in Digests,
             NEW rates \in RatePolicies, NEW x \in CurrentSamples,
             AdmitFresh(c, k, digest, rates, x)
      PROVE  RecordInv'
  BY <1>4, RecordAdmitted
<1>5. ASSUME NEW c \in Clients, NEW a \in Attempts, NEW status \in Statuses,
             Finalize(c, issued[a].key, a, status)
      PROVE  RecordInv'
  <2>1. issued[a].key \in Keys
    <3>1. issued[a] \in Admissions
      BY DEF TypeInv, StoreTypeOK, Attempts
    <3> QED
      BY <3>1 DEF Admissions
  <2> QED
    BY <1>5, <2>1, RecordFinalized
<1>6. ASSUME NEW c \in Clients, NEW x \in CurrentSamples, Collect(c, x)
      PROVE  RecordInv'
  BY <1>6, RecordCollected DEF Collect, Rename, CollectedDisk, history
<1>7. ASSUME NEW c \in Clients, SyncOK(c) \/ SyncFail(c)
      PROVE  RecordInv'
  BY <1>1, <1>7 DEF SyncOK, SyncFail, EndUnsynced, history
<1>8. ASSUME NEW a \in Attempts, NEW status \in Statuses,
             FinalizeMissed(issued[a].key, a, status)
      PROVE  RecordInv'
  BY <1>1, <1>8 DEF FinalizeMissed
<1> QED
  BY <1>2, <1>3, <1>4, <1>5, <1>6, <1>7, <1>8 DEF StoreNext

\* A terminal status was reported for the very attempt that holds the record
\* (FinalizeOutcome compares attempt and state under the lock).
THEOREM TerminalsAreOwn == StoreSpec => []TerminalIsOwn
<1>1. RecordInv => TerminalIsOwn
  BY DEF RecordInv, OwnRecord, TerminalIsOwn, Present
<1> QED
  BY <1>1, TypeInit, TypeNext, RecordInit, RecordNext, PTL DEF StoreSpec

\* A terminal state that has reached the disk never changes while its record is
\* kept, whichever finalizations, power losses and failed syncs follow.
THEOREM TerminalsAreFinal == StoreSpec => TerminalIsFinal
<1>1. ASSUME RecordInv, [StoreNext]_storeVars, NEW k \in Keys,
             durable.records[k] # NoRecord, durable.records[k].state # Dispatching,
             durable'.records[k] # NoRecord,
             durable'.records[k].attempt = durable.records[k].attempt
      PROVE  durable'.records[k] = durable.records[k]
  <2>1. durable' = durable \/ durable' = visible
    BY <1>1, ZenonT(30) DEF StoreNext, storeVars, Tick, PowerLoss, HolderCrash, AdmitRefused, AdmitFresh,
                Finalize, FinalizeMissed, Collect, SyncOK, SyncFail, EndUnsynced, machine
  <2> QED
    BY <1>1, <2>1 DEF RecordInv, Agreed
<1>2. RecordInv /\ [StoreNext]_storeVars =>
        [\A k \in Keys :
           /\ durable.records[k] # NoRecord
           /\ durable.records[k].state # Dispatching
           /\ durable'.records[k] # NoRecord
           /\ durable'.records[k].attempt = durable.records[k].attempt
           => durable'.records[k] = durable.records[k]]_storeVars
  BY <1>1
<1> QED
  BY <1>2, TypeInit, TypeNext, RecordInit, RecordNext, PTL DEF StoreSpec, TerminalIsFinal

-----------------------------------------------------------------------------
(* Admissions of one key.  A key is admitted again only when no snapshot holds *)
(* it, which for an acknowledged admission takes its retention of real time.   *)

Spaced ==
  \A a \in acked, b \in Attempts :
    a < b /\ issued[a].key = issued[b].key
      => issued[b].real - issued[a].real >= Retention * TicksPerSecond

SpacedInv ==
  /\ Spaced
  /\ Admitting => writer.attempt \notin acked
  /\ Len(issued) <= MaxAttempts /\ total <= MaxTicks
  /\ \A a \in Attempts : issued[a].real <= total

LEMMA SpacedInit == StoreInit => SpacedInv
<1> SUFFICES ASSUME StoreInit PROVE SpacedInv
  OBVIOUS
<1>1. Len(issued) = 0 /\ total = 0 /\ acked = {} /\ writer = Free
  BY DEF StoreInit
<1>2. 0 <= MaxAttempts /\ 0 <= MaxTicks
  BY StoreAssumption
<1> QED
  BY <1>1, <1>2 DEF SpacedInv, Spaced, Admitting, Attempts

LEMMA SpacedAdmitted ==
  ASSUME TypeInv, Remembered, SpacedInv, NEW x \in CurrentSamples,
         NEW c \in Clients, NEW k \in Keys, NEW digest \in Digests,
         NEW rates \in RatePolicies, AdmitFresh(c, k, digest, rates, x)
  PROVE  SpacedInv'
<1>0. PICK n \in Nat : n = Len(issued) + 1
  BY DEF TypeInv, StoreTypeOK
<1> DEFINE entry == [key |-> k, digest |-> digest, rates |-> rates,
                     created |-> AdmitClock(visible, x).logical, real |-> total]
<1>1. /\ issued' = Append(issued, entry)
      /\ UNCHANGED <<acked, total>> /\ writer'.attempt = n /\ n <= MaxAttempts
      /\ visible.records[k] = NoRecord
  BY <1>0, StoreAssumption
  DEF AdmitFresh, Rename, Admissible, machine, TypeInv, StoreTypeOK
<1>2. /\ issued \in Seq(Admissions) /\ acked \subseteq Attempts
      /\ total \in Nat
  BY DEF TypeInv, StoreTypeOK
<1>3. /\ \A a \in Attempts : issued'[a] = issued[a]
      /\ issued'[n] = entry
      /\ Attempts' = Attempts \cup {n} /\ n \notin Attempts /\ Len(issued') = n
      /\ \A a \in Attempts : a < n
  BY <1>0, <1>1, <1>2 DEF Attempts
<1>4. ASSUME NEW a \in acked, issued[a].key = k
      PROVE  total - issued[a].real >= Retention * TicksPerSecond
  <2>1. ~(Elapsed(a) < Retention * TicksPerSecond)
    BY <1>1, <1>4 DEF Remembered
  <2>2. Retention * TicksPerSecond \in Nat /\ issued[a].real \in Nat
    <3>1. issued[a] \in Admissions
      BY <1>2 DEF Attempts
    <3> QED
      BY <3>1, StoreAssumption, JournalAssumption DEF Admissions
  <2> QED
    BY <1>2, <2>1, <2>2 DEF Elapsed
<1>5. Spaced'
  <2> SUFFICES ASSUME NEW a \in acked, NEW b \in Attempts', a < b,
                      issued'[a].key = issued'[b].key
               PROVE  issued'[b].real - issued'[a].real >= Retention * TicksPerSecond
    BY <1>1 DEF Spaced
  <2>1. a \in Attempts /\ issued'[a] = issued[a]
    BY <1>2, <1>3
  <2>2. CASE b \in Attempts
    BY <1>3, <2>1, <2>2 DEF SpacedInv, Spaced
  <2>3. CASE b = n
    BY <1>3, <1>4, <2>1, <2>3
  <2> QED
    BY <1>3, <2>2, <2>3
<1>6. \A a \in Attempts' : issued'[a].real <= total
  BY <1>2, <1>3 DEF SpacedInv
<1>7. writer'.attempt \notin acked' /\ Len(issued') <= MaxAttempts
  BY <1>1, <1>2, <1>3
<1> QED
  BY <1>1, <1>5, <1>6, <1>7 DEF SpacedInv

LEMMA SpacedNext ==
  ASSUME TypeInv, Remembered, SpacedInv, [StoreNext]_storeVars
  PROVE  SpacedInv'
<1>1. ASSUME UNCHANGED <<issued, acked>>, Admitting' => Admitting /\ writer' = writer,
             total' = total
      PROVE  SpacedInv'
  BY <1>1 DEF SpacedInv, Spaced, Attempts
<1>2. CASE Tick
  <2>1. \A a \in Attempts : issued[a].real \in Nat
    <3>1. \A a \in Attempts : issued[a] \in Admissions
      BY DEF TypeInv, StoreTypeOK, Attempts
    <3> QED
      BY <3>1 DEF Admissions
  <2>2. total \in Nat /\ total' = total + 1 /\ total' <= MaxTicks
    BY <1>2, StoreAssumption DEF Tick, TypeInv, StoreTypeOK
  <2> QED
    BY <1>2, <2>1, <2>2 DEF Tick, history, SpacedInv, Spaced, Attempts, Admitting
<1>3. CASE UNCHANGED storeVars \/ HolderCrash \/ PowerLoss
  BY <1>1, <1>3 DEF storeVars, HolderCrash, EndUnsynced, PowerLoss, machine, history, Admitting
<1>4. ASSUME NEW c \in Clients, NEW k \in Keys, NEW rates \in RatePolicies,
             NEW x \in CurrentSamples, AdmitRefused(c, k, rates, x)
      PROVE  SpacedInv'
  BY <1>1, <1>4 DEF AdmitRefused, Rename, machine, history, Admitting
<1>5. ASSUME NEW c \in Clients, NEW k \in Keys, NEW digest \in Digests,
             NEW rates \in RatePolicies, NEW x \in CurrentSamples,
             AdmitFresh(c, k, digest, rates, x)
      PROVE  SpacedInv'
  BY <1>5, SpacedAdmitted
<1>6. ASSUME NEW c \in Clients, NEW a \in Attempts, NEW status \in Statuses,
             Finalize(c, issued[a].key, a, status)
      PROVE  SpacedInv'
  BY <1>1, <1>6 DEF Finalize, Rename, machine, Admitting
<1>7. ASSUME NEW c \in Clients, NEW x \in CurrentSamples, Collect(c, x)
      PROVE  SpacedInv'
  BY <1>1, <1>7 DEF Collect, Rename, machine, history, Admitting
<1>8. ASSUME NEW c \in Clients, SyncFail(c)
      PROVE  SpacedInv'
  BY <1>1, <1>8 DEF SyncFail, EndUnsynced, machine, history, Admitting
<1>9. ASSUME NEW c \in Clients, SyncOK(c)
      PROVE  SpacedInv'
  <2>1. UNCHANGED <<issued, total>> /\ ~Admitting'
    BY <1>9 DEF SyncOK, machine, Admitting
  <2>2. acked' = acked \/ acked' = acked \cup {Len(issued)}
    BY <1>9 DEF SyncOK, TypeInv, NewestAdmitting, Admitting
  <2>3. \A b \in Attempts : ~(Len(issued) < b)
    BY DEF Attempts, TypeInv, StoreTypeOK
  <2>4. Spaced'
    BY <2>1, <2>2, <2>3 DEF SpacedInv, Spaced, Attempts
  <2> QED
    BY <2>1, <2>4 DEF SpacedInv, Attempts
<1>10. ASSUME NEW a \in Attempts, NEW status \in Statuses,
              FinalizeMissed(issued[a].key, a, status)
       PROVE  SpacedInv'
  BY <1>1, <1>10 DEF FinalizeMissed, machine, Admitting
<1> QED
  BY <1>2, <1>3, <1>4, <1>5, <1>6, <1>7, <1>8, <1>9, <1>10 DEF StoreNext

-----------------------------------------------------------------------------
(* Counting.  validate demands as many live events as live records of each   *)
(* second and session, so the two can be matched one to one.                 *)

\* The elements of S that F maps to c.
Class(S, F, c) == {x \in S : F[x] = c}

\* Sets whose classes are equally large are matched within the classes.
LEMMA ClassInjection ==
  ASSUME NEW A, NEW B, NEW C, NEW f \in [A -> C], NEW g \in [B -> C],
         IsFiniteSet(A), IsFiniteSet(B),
         \A c \in C : Cardinality(Class(A, f, c)) = Cardinality(Class(B, g, c))
  PROVE  \E h \in Injection(A, B) : \A a \in A : g[h[a]] = f[a]
<1> DEFINE ofA(c) == Class(A, f, c)
           ofB(c) == Class(B, g, c)
           pick == [c \in C |-> CHOOSE p : p \in Bijection(ofA(c), ofB(c))]
           h == [a \in A |-> pick[f[a]][a]]
<1>1. ASSUME NEW c \in C
      PROVE  pick[c] \in Bijection(ofA(c), ofB(c))
  <2>1. IsFiniteSet(ofA(c)) /\ IsFiniteSet(ofB(c))
    BY FS_Subset DEF Class
  <2>2. ExistsBijection(ofA(c), ofB(c))
    BY <2>1, FS_SameCardinalityBij
  <2>3. \E p : p \in Bijection(ofA(c), ofB(c))
    BY <2>2, Fun_ExistsBij
  <2> QED
    BY <2>3
<1>2. ASSUME NEW a \in A
      PROVE  /\ h[a] \in ofB(f[a])
             /\ \A b \in ofA(f[a]) : pick[f[a]][b] = pick[f[a]][a] => b = a
  <2>1. f[a] \in C /\ a \in ofA(f[a])
    BY DEF Class
  <2>2. pick[f[a]] \in Bijection(ofA(f[a]), ofB(f[a]))
    BY <1>1, <2>1
  <2> HIDE DEF pick, ofA, ofB
  <2> QED
    BY <2>1, <2>2, Fun_BijectionProperties
<1>3. \A a \in A : h[a] \in B /\ g[h[a]] = f[a]
  BY <1>2 DEF Class
<1>4. ASSUME NEW a \in A, NEW b \in A, h[a] = h[b]
      PROVE  a = b
  <2>1. f[a] = f[b]
    BY <1>3, <1>4
  <2>2. b \in ofA(f[a]) /\ pick[f[a]][b] = pick[f[a]][a]
    BY <1>4, <2>1 DEF Class
  <2> HIDE DEF pick, ofA, ofB, h
  <2> QED
    BY <1>2, <2>2
<1>5. h \in Injection(A, B)
  <2>1. h \in [A -> B]
    BY <1>3
  <2> HIDE DEF h
  <2> QED
    BY <1>4, <2>1, Fun_IsInj
<1> QED
  BY <1>3, <1>5

\* In a valid snapshot the events outside the window come first, and LiveEvents
\* is what follows them.
LEMMA LivePart ==
  ASSUME NEW d \in Disks, Valid(d), NEW now \in Nat
  PROVE  LET stale == StaleCount(d.events, now)
             live  == LiveEvents(d.events, now)
         IN  /\ stale \in 0 .. Len(d.events)
             /\ \A i \in 1 .. Len(d.events) : now - d.events[i].at >= Window <=> i <= stale
             /\ live \in Seq(Events) /\ Len(live) = Len(d.events) - stale
             /\ \A j \in 1 .. Len(live) : live[j] = d.events[j + stale]
<1> DEFINE T == {i \in DOMAIN d.events : now - d.events[i].at >= Window}
<1>0. PICK n \in Nat : n = Len(d.events)
  BY DEF Disks
<1>1. /\ d.events \in Seq(Events) /\ DOMAIN d.events = 1 .. n
      /\ \A i \in 1 .. n : d.events[i].at \in Nat
  <2>1. d.events \in Seq(Events)
    BY DEF Disks
  <2>2. DOMAIN d.events = 1 .. n /\ \A i \in 1 .. n : d.events[i] \in Events
    BY <1>0, <2>1
  <2> QED
    BY <2>1, <2>2 DEF Events
<1>2. ASSUME NEW i \in 1 .. n, NEW j \in 1 .. n, j \in T, i <= j
      PROVE  i \in T
  <2>1. d.events[i].at <= d.events[j].at
    <3>1. i < j => d.events[i].at <= d.events[j].at
      BY <1>1 DEF Valid
    <3> QED
      BY <1>1, <1>2, <3>1
  <2>2. now - d.events[j].at >= Window /\ Window \in Nat
    BY <1>2, JournalAssumption
  <2>3. d.events[i].at \in Nat /\ d.events[j].at \in Nat
    BY <1>1
  <2>4. now - d.events[i].at >= Window
    BY <2>1, <2>2, <2>3
  <2> QED
    BY <1>1, <2>4
<1>3. IsFiniteSet(T) /\ IsFiniteSet(1 .. n) /\ Cardinality(1 .. n) = n
  <2>1. IsFiniteSet(1 .. n) /\ Cardinality(1 .. n) = n
    BY FS_Interval
  <2> QED
    BY <1>1, <2>1, FS_Subset
<1>4. PICK c \in 0 .. n : c = Cardinality(T)
  <2>1. Cardinality(T) \in Nat /\ Cardinality(T) <= n
    BY <1>1, <1>3, FS_Subset, FS_CardinalityType
  <2> HIDE DEF T
  <2> QED
    BY <2>1
<1>5. T \subseteq 1 .. c
  <2>1. SUFFICES ASSUME NEW j \in T, j > c PROVE FALSE
    BY <1>1
  <2>2. j \in 1 .. n /\ 1 .. j \in SUBSET T
    BY <1>1, <1>2, <2>1
  <2>3. Cardinality(1 .. j) = j
    BY <2>2, FS_Interval
  <2>4. Cardinality(1 .. j) <= Cardinality(T)
    BY <1>3, <2>2, FS_Subset
  <2> QED
    BY <1>4, <2>1, <2>2, <2>3, <2>4
<1>6. T = 1 .. c
  <2>1. IsFiniteSet(1 .. c) /\ Cardinality(1 .. c) = c
    BY FS_Interval
  <2> QED
    BY <1>4, <1>5, <2>1, FS_Subset
<1>7. StaleCount(d.events, now) = c
  BY <1>4 DEF StaleCount
<1>8. \A i \in 1 .. n : now - d.events[i].at >= Window <=> i <= c
  <2>1. \A i \in 1 .. n : i \in T <=> now - d.events[i].at >= Window
    BY <1>1
  <2> HIDE DEF T
  <2> QED
    BY <1>6, <2>1
<1>9. LiveEvents(d.events, now) = SubSeq(d.events, c + 1, n)
  BY <1>0, <1>7 DEF LiveEvents
<1>10. /\ SubSeq(d.events, c + 1, n) \in Seq(Events)
       /\ Len(SubSeq(d.events, c + 1, n)) = n - c
       /\ \A j \in 1 .. n - c : SubSeq(d.events, c + 1, n)[j] = d.events[j + c]
  <2>1. \A i \in c + 1 .. n : d.events[i] \in Events
    BY <1>1
  <2>2. /\ SubSeq(d.events, c + 1, n) \in Seq(Events)
        /\ Len(SubSeq(d.events, c + 1, n)) = IF c + 1 <= n THEN n - (c + 1) + 1 ELSE 0
        /\ \A i \in 1 .. n - (c + 1) + 1 :
             SubSeq(d.events, c + 1, n)[i] = d.events[(c + 1) + i - 1]
    BY <2>1, SubSeqProperties
  <2>3. n - (c + 1) + 1 = n - c /\ \A j \in 1 .. n - c : (c + 1) + j - 1 = j + c
    OBVIOUS
  <2> QED
    BY <2>2, <2>3
<1> QED
  BY <1>0, <1>7, <1>8, <1>9, <1>10

\* The live events of one second and session are as many as its live records,
\* also in the window of a later clock.
LEMMA LiveClasses ==
  ASSUME NEW d \in Disks, Valid(d), NEW now \in Nat, d.clock.logical <= now,
         NEW at \in Nat, NEW s \in Sessions
  PROVE  LET live == LiveEvents(d.events, now)
         IN  Cardinality({j \in 1 .. Len(live) : live[j].at = at /\ live[j].session = s})
               = Cardinality({k \in Present(d.records) :
                    /\ d.records[k].created = at /\ d.records[k].session = s
                    /\ now - d.records[k].created < Window})
<1> DEFINE live == LiveEvents(d.events, now)
           stale == StaleCount(d.events, now)
           L == {j \in 1 .. Len(live) : live[j].at = at /\ live[j].session = s}
           E == {i \in DOMAIN d.events : /\ d.events[i].at = at /\ d.events[i].session = s
                                         /\ d.clock.logical - d.events[i].at < Window}
           K == {k \in Present(d.records) : /\ d.records[k].created = at
                                            /\ d.records[k].session = s
                                            /\ d.clock.logical - at < Window}
           R == {k \in Present(d.records) : /\ d.records[k].created = at
                                            /\ d.records[k].session = s
                                            /\ now - d.records[k].created < Window}
<1>1. PICK n \in Nat : n = Len(d.events) /\ DOMAIN d.events = 1 .. n
  BY DEF Disks
<1>2. PICK c \in 0 .. n : c = stale
  BY <1>1, LivePart
<1>3. /\ Len(live) = n - c
      /\ \A j \in 1 .. n - c : live[j] = d.events[j + c]
      /\ \A i \in 1 .. n : now - d.events[i].at >= Window <=> i <= c
  BY <1>1, <1>2, LivePart
<1>4. d.clock.logical \in Nat /\ Window \in Nat
  BY JournalAssumption DEF Disks, Clocks
<1>5. CASE now - at >= Window
  <2>1. L = {}
    <3>1. SUFFICES ASSUME NEW j \in 1 .. n - c, live[j].at = at PROVE FALSE
      BY <1>3
    <3>2. j + c \in 1 .. n /\ ~(j + c <= c)
      BY <1>2
    <3> QED
      BY <1>3, <1>5, <3>1, <3>2
  <2>2. R = {}
    BY <1>5, <1>4
  <2> QED
    BY <2>1, <2>2
<1>6. CASE ~(now - at >= Window)
  <2>1. d.clock.logical - at < Window
    BY <1>4, <1>6
  <2>2. K = R
    BY <1>4, <1>6, <2>1
  <2>3. [j \in L |-> j + c] \in [L -> E]
    <3>1. SUFFICES ASSUME NEW j \in L PROVE j + c \in E
      OBVIOUS
    <3>2. j \in 1 .. n - c /\ live[j].at = at /\ live[j].session = s
      BY <1>3
    <3>3. j + c \in 1 .. n /\ d.events[j + c] = live[j]
      BY <1>2, <1>3, <3>2
    <3> QED
      BY <1>1, <2>1, <3>2, <3>3
  <2>4. \A i \in E : \E j \in L : j + c = i
    <3>1. SUFFICES ASSUME NEW i \in E PROVE \E j \in L : j + c = i
      OBVIOUS
    <3>2. i \in 1 .. n /\ d.events[i].at = at /\ d.events[i].session = s
      BY <1>1
    <3>3. ~(i <= c)
      BY <1>3, <1>6, <3>2
    <3>4. i - c \in 1 .. n - c /\ (i - c) + c = i
      BY <1>2, <3>2, <3>3
    <3>5. live[i - c] = d.events[i]
      BY <1>3, <3>4
    <3>6. i - c \in L
      BY <1>3, <3>2, <3>4, <3>5
    <3> QED
      BY <3>4, <3>6
  <2>5. IsFiniteSet(L)
    <3>1. IsFiniteSet(1 .. n - c)
      BY FS_Interval
    <3> QED
      BY <1>3, <3>1, FS_Subset
  <2>6. [j \in L |-> j + c] \in Bijection(L, E)
    <3>1. \A a, b \in L : a + c = b + c => a = b
      BY <1>2, <1>3
    <3> HIDE DEF L, E
    <3> DEFINE shift == [j \in L |-> j + c]
    <3>2. \A a, b \in L : shift[a] = shift[b] => a = b
      BY <3>1
    <3>3. \A i \in E : \E j \in L : shift[j] = i
      BY <2>4
    <3>4. shift \in [L -> E]
      BY <2>3
    <3> HIDE DEF shift
    <3>5. shift \in Bijection(L, E)
      BY <3>2, <3>3, <3>4, Fun_IsBij
    <3> QED
      BY <3>5 DEF shift
  <2>7. Cardinality(E) = Cardinality(L)
    <3> HIDE DEF L, E
    <3>1. ExistsBijection(L, E)
      BY <2>6, Fun_ExistsBij
    <3> QED
      BY <2>5, <3>1, FS_Bijection
  <2>8. LiveEventCount(d, at, s) = Cardinality(E)
    BY DEF LiveEventCount, Count
  <2>9. LiveRecordCount(d, at, s) = Cardinality(K)
    BY DEF LiveRecordCount
  <2>10. CASE at \in {d.events[i].at : i \in DOMAIN d.events}
                  \cup {d.records[k].created : k \in Present(d.records)}
    <3>1. LiveEventCount(d, at, s) = LiveRecordCount(d, at, s)
      BY <2>10 DEF Valid
    <3> QED
      BY <2>2, <2>7, <2>8, <2>9, <3>1
  <2>11. CASE at \notin {d.events[i].at : i \in DOMAIN d.events}
                   \cup {d.records[k].created : k \in Present(d.records)}
    <3>1. E = {} /\ R = {}
      BY <2>11
    <3> QED
      BY <2>7, <3>1
  <2> QED
    BY <2>10, <2>11
<1> QED
  BY <1>5, <1>6

\* So the live events are matched with the live records, second by second and
\* session by session.
LEMMA LiveMatched ==
  ASSUME NEW d \in Disks, Valid(d), IsFiniteSet(Present(d.records)),
         NEW now \in Nat, d.clock.logical <= now
  PROVE  LET live == LiveEvents(d.events, now)
             alive == {k \in Present(d.records) : now - d.records[k].created < Window}
         IN  /\ IsFiniteSet(alive) /\ Len(live) <= Cardinality(alive)
             /\ \E h \in Injection(alive, 1 .. Len(live)) : \A k \in alive :
                  /\ live[h[k]].at = d.records[k].created
                  /\ live[h[k]].session = d.records[k].session
<1> DEFINE live == LiveEvents(d.events, now)
           alive == {k \in Present(d.records) : now - d.records[k].created < Window}
           f == [j \in 1 .. Len(live) |-> <<live[j].at, live[j].session>>]
           g == [k \in alive |-> <<d.records[k].created, d.records[k].session>>]
           C == Nat \X Sessions
<1>1. PICK n \in Nat : n = Len(live)
  BY LivePart
<1>2. live \in Seq(Events) /\ \A j \in 1 .. n : live[j].at \in Nat /\ live[j].session \in Sessions
  <2>1. live \in Seq(Events)
    BY LivePart
  <2>2. \A j \in 1 .. n : live[j] \in Events
    BY <1>1, <2>1
  <2> QED
    BY <2>1, <2>2 DEF Events
<1>3. \A k \in alive : d.records[k].created \in Nat /\ d.records[k].session \in Sessions
  BY DEF Present, Disks, Records
<1>4. f \in [1 .. Len(live) -> C] /\ g \in [alive -> C]
  BY <1>1, <1>2, <1>3
<1>5. IsFiniteSet(alive) /\ IsFiniteSet(1 .. n) /\ Cardinality(1 .. n) = n
  <2>1. alive \in SUBSET Present(d.records)
    OBVIOUS
  <2>2. IsFiniteSet(1 .. n) /\ Cardinality(1 .. n) = n
    BY FS_Interval
  <2> HIDE DEF alive
  <2> QED
    BY <2>1, <2>2, FS_Subset
<1>6. ASSUME NEW c \in C
      PROVE  Cardinality(Class(1 .. Len(live), f, c)) = Cardinality(Class(alive, g, c))
  <2>1. PICK at \in Nat, s \in Sessions : c = <<at, s>>
    OBVIOUS
  <2>2. Class(1 .. Len(live), f, c)
          = {j \in 1 .. Len(live) : live[j].at = at /\ live[j].session = s}
    BY <2>1 DEF Class
  <2>3. Class(alive, g, c)
          = {k \in Present(d.records) :
               /\ d.records[k].created = at /\ d.records[k].session = s
               /\ now - d.records[k].created < Window}
    BY <2>1 DEF Class
  <2> HIDE DEF f, g
  <2> QED
    BY <2>2, <2>3, LiveClasses, Z3T(30)
<1> DEFINE J == 1 .. Len(live)
<1>11. /\ f \in [J -> C] /\ g \in [alive -> C] /\ IsFiniteSet(alive) /\ IsFiniteSet(J)
       /\ Cardinality(J) = n
       /\ \A c \in C : Cardinality(Class(J, f, c)) = Cardinality(Class(alive, g, c))
  BY <1>1, <1>4, <1>5, <1>6
<1> HIDE DEF f, g, C, alive, J
<1>7. PICK h \in Injection(J, alive) : \A j \in J : g[h[j]] = f[j]
  BY <1>11, ClassInjection, Z3T(30)
<1>8. n <= Cardinality(alive)
  BY <1>11, <1>7, FS_Injection
<1>9. PICK e \in Injection(alive, J) : \A k \in alive : f[e[k]] = g[k]
  <2>1. \A c \in C : Cardinality(Class(alive, g, c)) = Cardinality(Class(J, f, c))
    BY <1>11
  <2> QED
    BY <1>11, <2>1, ClassInjection
<1>10. ASSUME NEW k \in alive
       PROVE  live[e[k]].at = d.records[k].created /\ live[e[k]].session = d.records[k].session
  <2>1. e[k] \in J /\ f[e[k]] = g[k]
    BY <1>9, Fun_InjectionProperties
  <2> QED
    BY <2>1 DEF f, g, J
<1> QED
  BY <1>1, <1>5, <1>8, <1>9, <1>10 DEF alive, J

-----------------------------------------------------------------------------
(* No transaction computes what validate refuses.                            *)

\* A snapshot that differs from a valid one in clock samples and states only.
LEMMA AlikeValid ==
  ASSUME NEW d, NEW e, Valid(d), e.events = d.events, e.clock.logical = d.clock.logical,
         e.clock.boot = NoBoot => e.clock.seconds = 0,
         Present(e.records) = Present(d.records),
         \A k \in Present(d.records) : /\ e.records[k].attempt = d.records[k].attempt
                                       /\ e.records[k].session = d.records[k].session
                                       /\ e.records[k].created = d.records[k].created
  PROVE  Valid(e)
<1>1. \A at, s : LiveEventCount(e, at, s) = LiveEventCount(d, at, s)
  BY DEF LiveEventCount
<1>2. ASSUME NEW at, NEW s
      PROVE  LiveRecordCount(e, at, s) = LiveRecordCount(d, at, s)
  <2>1. {k \in Present(e.records) : /\ e.records[k].created = at /\ e.records[k].session = s
                                    /\ e.clock.logical - at < Window}
          = {k \in Present(d.records) : /\ d.records[k].created = at /\ d.records[k].session = s
                                        /\ d.clock.logical - at < Window}
    OBVIOUS
  <2> QED
    BY <2>1 DEF LiveRecordCount
<1>3. {e.records[k].created : k \in Present(e.records)}
        = {d.records[k].created : k \in Present(d.records)}
  OBVIOUS
<1> QED
  BY <1>1, <1>2, <1>3 DEF Valid

\* What Collect and a refusal write when the clock starts on a new boot: nothing
\* is proven, so nothing is collected.
LEMMA RebaselinedValid ==
  ASSUME NEW d \in Disks, Valid(d), NEW x \in Samples, Rebaselined(d.clock, AdmitClock(d, x))
  PROVE  /\ Valid(CollectedDisk(d, x))
         /\ AdmitClock(d, x).logical = d.clock.logical
         /\ AdmitRecords(d, x) = d.records
<1>1. d.clock \in Clocks /\ d.records \in [Keys -> Records \cup {NoRecord}]
  BY DEF Disks
<1>2. x.available /\ d.clock.boot # x.boot /\ x.boot # NoBoot
  BY DEF Rebaselined, AdmitClock, AdvancedClock, Clock, NoBoot
<1>3. AdmitClock(d, x) = Clock(d.clock.logical, x.boot, x.seconds) /\ ~Proven(d.clock, x)
  BY <1>2 DEF AdmitClock, AdvancedClock, Proven
<1>4. AdmitRecords(d, x) = d.records
  BY <1>1, <1>3 DEF AdmitRecords, Collected
<1>5. CollectedDisk(d, x) = [clock |-> AdmitClock(d, x), events |-> d.events, records |-> d.records]
  BY <1>4 DEF CollectedDisk
<1>6. Valid(CollectedDisk(d, x))
  BY <1>2, <1>3, <1>5, AlikeValid DEF Clock
<1> QED
  BY <1>3, <1>4, <1>6 DEF Clock

LEMMA FinalizedValid ==
  ASSUME NEW d \in Disks, Valid(d), NEW k \in Present(d.records), NEW status \in Statuses
  PROVE  Valid(FinalizedDisk(d, k, status))
<1>1. /\ k \in Keys /\ d.records[k] \in Records
      /\ d.records \in [Keys -> Records \cup {NoRecord}]
  BY DEF Present, Disks
<1>2. PICK r : r = Settled(d.records[k], status)
  OBVIOUS
<1>3. /\ r \in Records /\ r # NoRecord /\ r.attempt = d.records[k].attempt
      /\ r.session = d.records[k].session /\ r.created = d.records[k].created
  <2>1. r \in Records
    BY <1>1, <1>2 DEF Settled, Records
  <2> QED
    BY <1>1, <1>2, <2>1, JournalAssumption DEF Settled, Records
<1>4. PICK e : e = FinalizedDisk(d, k, status)
  OBVIOUS
<1>5. /\ e.clock = d.clock /\ e.events = d.events
      /\ e.records = [d.records EXCEPT ![k] = r]
  BY <1>2, <1>4 DEF FinalizedDisk
<1>6. Present(e.records) = Present(d.records)
  BY <1>1, <1>3, <1>5 DEF Present
<1>7. Valid(e)
  <2>1. e.clock.boot = NoBoot => e.clock.seconds = 0
    BY <1>5 DEF Valid
  <2> QED
    BY <1>1, <1>3, <1>5, <1>6, <2>1, AlikeValid DEF Present
<1> QED
  BY <1>4, <1>7

\* A sample that is available names its boot.
Named(x) == x.available => x.boot # NoBoot

\* What an admission writes: the filtered window leaves room for one event, the
\* collection for one record, and the two are counted alike.
LEMMA AdmittedValid ==
  ASSUME NEW d \in Disks, Valid(d), IsFiniteSet(Present(d.records)),
         NEW x \in Samples, Named(x), NEW k \in Keys, NEW rates \in Policies,
         NEW digest \in Digests, NEW attempt \in Nat, Admissible(d, x, k, rates),
         \A j \in Present(d.records) : d.records[j].attempt # attempt
  PROVE  Valid(AdmittedDisk(d, x, k, digest, attempt))
<1>0. PICK now \in Nat : now = AdmitClock(d, x).logical /\ d.clock.logical <= now
  <2>1. d.clock \in Clocks
    BY DEF Disks
  <2> QED
    BY <2>1, AdvanceType DEF AdmitClock, Clocks
<1> DEFINE alive == {j \in Present(d.records) : now - d.records[j].created < Window}
<1>1. PICK live : live = LiveEvents(d.events, now) /\ live = AdmitLive(d, x)
  BY <1>0 DEF AdmitLive
<1>2. PICK recs : recs = AdmitRecords(d, x)
  OBVIOUS
<1>3. PICK fresh \in Records :
        /\ fresh = NewRecord(k, digest, attempt, now)
        /\ fresh.attempt = attempt /\ fresh.created = now /\ fresh.session = SessionOf[k]
  <2>1. NewRecord(k, digest, attempt, now) \in Records
    BY JournalAssumption DEF NewRecord, Records
  <2> QED
    BY <2>1 DEF NewRecord
<1>4. PICK e : e = AdmittedDisk(d, x, k, digest, attempt)
  OBVIOUS
<1>5. /\ e.clock = AdmitClock(d, x) /\ e.clock.logical = now
      /\ e.events = Append(live, [at |-> now, session |-> SessionOf[k]])
      /\ e.records = [recs EXCEPT ![k] = fresh]
  BY <1>0, <1>1, <1>2, <1>3, <1>4 DEF AdmittedDisk
<1>6. /\ d.records \in [Keys -> Records \cup {NoRecord}] /\ d.records[k] = NoRecord
      /\ \A j \in Keys : recs[j] = d.records[j] \/ recs[j] = NoRecord
      /\ \A j \in alive : recs[j] = d.records[j]
      /\ recs \in [Keys -> Records \cup {NoRecord}]
  <2>1. d.records \in [Keys -> Records \cup {NoRecord}] /\ d.records[k] = NoRecord
    BY DEF Disks, Admissible
  <2>2. recs \in [Keys -> Records \cup {NoRecord}]
    BY <1>2, <2>1, CollectedType DEF AdmitRecords
  <2>3. \A j \in Keys : recs[j] = d.records[j] \/ recs[j] = NoRecord
    BY <1>2 DEF AdmitRecords, Collected
  <2>4. ASSUME NEW j \in alive
        PROVE  recs[j] = d.records[j]
    <3>1. d.records[j].created \in Nat /\ j \in Keys
      BY <2>1 DEF Present, Records
    <3>2. ~Expired(d.records[j], now)
      BY <3>1, JournalAssumption DEF Expired
    <3> QED
      BY <1>0, <1>2, <3>1, <3>2 DEF AdmitRecords, Collected
  <2> QED
    BY <2>1, <2>2, <2>3, <2>4
<1>7. PICK n \in Nat :
        /\ n = Len(live) /\ live \in Seq(Events)
        /\ \A j \in 1 .. n : /\ live[j].at \in Nat /\ live[j].at <= d.clock.logical
                             /\ now - live[j].at < Window
        /\ \A i, j \in 1 .. n : i < j => live[i].at <= live[j].at
  <2>1. PICK m \in Nat : m = Len(d.events) /\ DOMAIN d.events = 1 .. m
    BY DEF Disks
  <2>2. PICK stale \in 0 .. m :
          /\ \A i \in 1 .. m : now - d.events[i].at >= Window <=> i <= stale
          /\ live \in Seq(Events) /\ Len(live) = m - stale
          /\ \A j \in 1 .. Len(live) : live[j] = d.events[j + stale]
    <3>1. LET stale == StaleCount(d.events, now)
              win   == LiveEvents(d.events, now)
          IN  /\ stale \in 0 .. Len(d.events)
              /\ \A i \in 1 .. Len(d.events) : now - d.events[i].at >= Window <=> i <= stale
              /\ win \in Seq(Events) /\ Len(win) = Len(d.events) - stale
              /\ \A j \in 1 .. Len(win) : win[j] = d.events[j + stale]
      BY LivePart
    <3> QED
      BY <1>1, <2>1, <3>1
  <2>3. PICK n \in Nat : n = m - stale
    BY <2>2
  <2>4. ASSUME NEW j \in 1 .. n
        PROVE  /\ live[j].at \in Nat /\ live[j].at <= d.clock.logical
               /\ now - live[j].at < Window
    <3>1. j + stale \in 1 .. m /\ live[j] = d.events[j + stale] /\ ~(j + stale <= stale)
      BY <2>2, <2>3
    <3>2. live[j] \in Events
      BY <2>2, <2>3
    <3>3. live[j].at \in Nat
      BY <3>2 DEF Events
    <3>4. live[j].at <= d.clock.logical
      BY <2>1, <3>1 DEF Valid
    <3>5. ~(now - live[j].at >= Window)
      BY <2>2, <3>1
    <3> QED
      BY <3>3, <3>4, <3>5, JournalAssumption
  <2>5. ASSUME NEW i \in 1 .. n, NEW j \in 1 .. n, i < j
        PROVE  live[i].at <= live[j].at
    <3>1. /\ i + stale \in 1 .. m /\ j + stale \in 1 .. m /\ i + stale < j + stale
          /\ live[i] = d.events[i + stale] /\ live[j] = d.events[j + stale]
      BY <2>2, <2>3, <2>5
    <3> QED
      BY <2>1, <3>1 DEF Valid
  <2> QED
    BY <2>2, <2>3, <2>4, <2>5
<1>8. /\ IsFiniteSet(Present(recs)) /\ k \notin Present(recs)
      /\ Cardinality(Present(recs)) \in Nat /\ Cardinality(Present(recs)) < MaxRecords
      /\ Present(recs) \subseteq Present(d.records)
  <2>1. Present(recs) \in SUBSET Present(d.records) /\ k \notin Present(recs)
    BY <1>6 DEF Present
  <2>2. IsFiniteSet(Present(recs)) /\ Cardinality(Present(recs)) \in Nat
    BY <2>1, FS_Subset, FS_CardinalityType
  <2>3. ~(Cardinality(Present(recs)) >= MaxRecords)
    BY <1>2 DEF Admissible, RefusedFull, Full
  <2> QED
    BY <2>1, <2>2, <2>3, JournalAssumption
<1>9. n < MaxRecords
  <2>1. IsFiniteSet(alive) /\ Len(live) <= Cardinality(alive)
    BY <1>0, <1>1, LiveMatched
  <2>2. alive \in SUBSET Present(recs)
    BY <1>6 DEF Present
  <2> HIDE DEF alive
  <2>3. Cardinality(alive) <= Cardinality(Present(recs)) /\ Cardinality(alive) \in Nat
    BY <1>8, <2>1, <2>2, FS_Subset, FS_CardinalityType
  <2> QED
    BY <1>7, <1>8, <2>1, <2>3, JournalAssumption
<1>10. /\ Len(e.events) = n + 1 /\ DOMAIN e.events = 1 .. n + 1
       /\ \A j \in 1 .. n : e.events[j] = live[j]
       /\ e.events[n + 1] = [at |-> now, session |-> SessionOf[k]]
       /\ \A j \in 1 .. n + 1 : e.events[j].at \in Nat /\ e.events[j].at <= now
  <2>1. PICK last : last = [at |-> now, session |-> SessionOf[k]]
    OBVIOUS
  <2>2. /\ Len(Append(live, last)) = n + 1 /\ DOMAIN Append(live, last) = 1 .. n + 1
        /\ \A j \in 1 .. n : Append(live, last)[j] = live[j]
        /\ Append(live, last)[n + 1] = last
    BY <1>7
  <2>3. ASSUME NEW j \in 1 .. n + 1
        PROVE  e.events[j].at \in Nat /\ e.events[j].at <= now
    <3>1. CASE j = n + 1
      BY <1>5, <2>1, <2>2, <3>1
    <3>2. CASE j \in 1 .. n
      <4>1. e.events[j] = live[j] /\ d.clock.logical \in Nat
        BY <1>5, <2>1, <2>2, <3>2 DEF Disks, Clocks
      <4> QED
        BY <1>0, <1>7, <3>2, <4>1
    <3> QED
      BY <1>7, <3>1, <3>2
  <2> QED
    BY <1>5, <2>1, <2>2, <2>3
<1>11. /\ Present(e.records) = Present(recs) \cup {k}
       /\ e.records[k] = fresh
       /\ \A j \in Present(recs) : /\ e.records[j] = d.records[j] /\ j \in Present(d.records)
                                   /\ e.records[j].created \in Nat
                                   /\ e.records[j].created <= now
  <2>1. \A j \in Keys : e.records[j] = IF j = k THEN fresh ELSE recs[j]
    BY <1>5, <1>6
  <2>2. Present(e.records) = Present(recs) \cup {k}
    BY <2>1, <1>3, JournalAssumption DEF Present
  <2>3. ASSUME NEW j \in Present(recs)
        PROVE  /\ e.records[j] = d.records[j] /\ j \in Present(d.records)
               /\ e.records[j].created \in Nat /\ e.records[j].created <= now
    <3>1. e.records[j] = d.records[j] /\ j \in Present(d.records)
      BY <1>6, <1>8, <2>1 DEF Present
    <3>2. d.records[j].created \in Nat /\ d.clock.logical \in Nat
      BY <1>6, <3>1 DEF Present, Records, Disks, Clocks
    <3>3. d.records[j].created <= d.clock.logical
      BY <3>1 DEF Valid
    <3> QED
      BY <1>0, <3>1, <3>2, <3>3
  <2> QED
    BY <2>1, <2>2, <2>3
<1>12. e.clock.boot = NoBoot => e.clock.seconds = 0
  BY <1>5 DEF Valid, Named, AdmitClock, AdvancedClock, Clock
<1>13. Cardinality(Present(e.records)) <= MaxRecords
  <2>1. Cardinality(Present(recs) \cup {k}) = Cardinality(Present(recs)) + 1
    BY <1>8, FS_AddElement
  <2> QED
    BY <1>8, <1>11, <2>1, JournalAssumption
<1>14. \A i, j \in 1 .. n + 1 : i < j => e.events[i].at <= e.events[j].at
  <2> SUFFICES ASSUME NEW i \in 1 .. n + 1, NEW j \in 1 .. n + 1, i < j
               PROVE  e.events[i].at <= e.events[j].at
    OBVIOUS
  <2>1. CASE j = n + 1
    BY <1>10, <2>1
  <2>2. CASE j \in 1 .. n
    <3>1. i \in 1 .. n
      BY <2>2
    <3> QED
      BY <1>7, <1>10, <2>2, <3>1
  <2>3. j = n + 1 \/ j \in 1 .. n
    OBVIOUS
  <2> QED
    BY <2>1, <2>2, <2>3
<1>15. \A i, j \in Present(e.records) :
         e.records[i].attempt = e.records[j].attempt => i = j
  <2> SUFFICES ASSUME NEW i \in Present(e.records), NEW j \in Present(e.records),
                      e.records[i].attempt = e.records[j].attempt
               PROVE  i = j
    OBVIOUS
  <2>1. CASE i \in Present(recs) /\ j \in Present(recs)
    BY <1>11, <2>1 DEF Valid
  <2>2. CASE i = k /\ j \in Present(recs)
    BY <1>3, <1>11, <2>2
  <2>3. CASE i \in Present(recs) /\ j = k
    BY <1>3, <1>11, <2>3
  <2> QED
    BY <1>11, <2>1, <2>2, <2>3
<1>16. ASSUME NEW s \in Sessions, NEW at \in Nat
       PROVE  LiveEventCount(e, at, s) = LiveRecordCount(e, at, s)
  <2> DEFINE E == {j \in 1 .. n + 1 : /\ e.events[j].at = at /\ e.events[j].session = s
                                      /\ now - e.events[j].at < Window}
             R == {j \in Present(e.records) : /\ e.records[j].created = at
                                              /\ e.records[j].session = s
                                              /\ now - at < Window}
             L == {j \in 1 .. n : live[j].at = at /\ live[j].session = s}
             K == {j \in Present(d.records) :
                     /\ d.records[j].created = at /\ d.records[j].session = s
                     /\ now - d.records[j].created < Window}
  <2>1. LiveEventCount(e, at, s) = Cardinality(E)
    BY <1>5, <1>10 DEF LiveEventCount, Count
  <2>2. LiveRecordCount(e, at, s) = Cardinality(R)
    BY <1>5 DEF LiveRecordCount
  <2>3. Cardinality(L) = Cardinality(K)
    <3>1. Cardinality({j \in 1 .. Len(live) : live[j].at = at /\ live[j].session = s})
            = Cardinality(K)
      <4>1. LET win == LiveEvents(d.events, now)
            IN  Cardinality({j \in 1 .. Len(win) : win[j].at = at /\ win[j].session = s})
                  = Cardinality(K)
        BY <1>0, LiveClasses
      <4> QED
        BY <1>1, <4>1
    <3> QED
      BY <1>7, <3>1
  <2>4. /\ IsFiniteSet(L) /\ IsFiniteSet(K)
        /\ n + 1 \notin L /\ k \notin K
    <3>1. IsFiniteSet(1 .. n)
      BY FS_Interval
    <3>2. L \in SUBSET (1 .. n) /\ K \in SUBSET Present(d.records)
      OBVIOUS
    <3>3. n + 1 \notin L /\ k \notin K
      BY <1>6 DEF Present
    <3> HIDE DEF L, K
    <3> QED
      BY <3>1, <3>2, <3>3, FS_Subset
  <2>5. CASE ~(now - at < Window)
    <3>1. E = {} /\ R = {}
      BY <2>5
    <3> QED
      BY <2>1, <2>2, <3>1
  <2>6. CASE now - at < Window
    <3>1. ASSUME NEW j
          PROVE  j \in K <=> /\ j \in Present(recs)
                             /\ e.records[j].created = at /\ e.records[j].session = s
      <4>1. j \in K => j \in Present(recs)
        BY <1>6 DEF Present
      <4> QED
        BY <1>11, <2>6, <4>1
    <3>2. CASE at = now /\ s = SessionOf[k]
      <4>1. E = L \cup {n + 1}
        BY <1>7, <1>10, <2>6, <3>2
      <4>2. R = K \cup {k}
        BY <1>3, <1>11, <2>6, <3>1, <3>2
      <4> HIDE DEF E, R, L, K
      <4>3. /\ Cardinality(L \cup {n + 1}) = Cardinality(L) + 1
            /\ Cardinality(K \cup {k}) = Cardinality(K) + 1
        BY <2>4, FS_AddElement
      <4> QED
        BY <2>1, <2>2, <2>3, <4>1, <4>2, <4>3
    <3>3. CASE ~(at = now /\ s = SessionOf[k])
      <4>1. E = L
        BY <1>7, <1>10, <2>6, <3>3
      <4>2. R = K
        BY <1>3, <1>11, <2>6, <3>1, <3>3
      <4> HIDE DEF E, R, L, K
      <4> QED
        BY <2>1, <2>2, <2>3, <4>1, <4>2
    <3> QED
      BY <3>2, <3>3
  <2> QED
    BY <2>5, <2>6
<1>17. \A s \in Sessions :
         \A at \in {e.events[i].at : i \in DOMAIN e.events}
                   \cup {e.records[j].created : j \in Present(e.records)} :
           LiveEventCount(e, at, s) = LiveRecordCount(e, at, s)
  <2>1. {e.events[i].at : i \in DOMAIN e.events}
           \cup {e.records[j].created : j \in Present(e.records)} \subseteq Nat
    BY <1>3, <1>10, <1>11
  <2> QED
    BY <1>16, <2>1
<1>18. \A j \in Present(e.records) : e.records[j].created <= e.clock.logical
  <2>1. \A j \in Present(recs) : e.records[j].created <= now
    BY <1>11
  <2>2. e.records[k].created <= now
    BY <1>3, <1>11
  <2> QED
    BY <1>5, <1>11, <2>1, <2>2
<1>19. Valid(e)
  <2>1. Len(e.events) <= MaxRecords
    BY <1>7, <1>9, <1>10, JournalAssumption
  <2> QED
    BY <1>5, <1>10, <1>12, <1>13, <1>14, <1>15, <1>17, <1>18, <2>1 DEF Valid
<1> QED
  BY <1>4, <1>19

-----------------------------------------------------------------------------
(* Every snapshot is valid and holds finitely many records, each under the     *)
(* session of its key: it was empty, or validate let it pass, and no           *)
(* transaction adds more than one record.                                      *)

Owned(records) == \A k \in Present(records) : records[k].session = SessionOf[k]

Healthy(d) == Valid(d) /\ IsFiniteSet(Present(d.records)) /\ Owned(d.records)

HealthyInv == Healthy(visible) /\ Healthy(durable)

LEMMA HealthyInit == StoreInit => HealthyInv
<1> SUFFICES ASSUME StoreInit PROVE HealthyInv
  OBVIOUS
<1>1. PICK x \in {[available |-> TRUE, boot |-> 1, seconds |-> 0], Unavailable} :
        visible = InitialDisk(x)
  BY DEF StoreInit
<1>2. /\ visible.clock.boot = NoBoot => visible.clock.seconds = 0
      /\ visible.events = <<>> /\ DOMAIN visible.events = {} /\ Len(visible.events) = 0
      /\ Present(visible.records) = {}
  BY <1>1 DEF Unavailable, InitialDisk, AdvancedClock, Clock, NoBoot, Present
<1>3. IsFiniteSet({}) /\ Cardinality({}) = 0 /\ 0 <= MaxRecords
  BY FS_EmptySet, JournalAssumption
<1>4. Healthy(visible)
  BY <1>2, <1>3 DEF Healthy, Valid, Owned
<1> QED
  BY <1>4 DEF StoreInit, HealthyInv

LEMMA HealthyNext == TypeInv /\ HealthyInv /\ [StoreNext]_storeVars => HealthyInv'
<1> SUFFICES ASSUME TypeInv, HealthyInv, [StoreNext]_storeVars PROVE HealthyInv'
  OBVIOUS
<1>1. ASSUME visible' \in {visible, durable}, durable' \in {visible, durable}
      PROVE  HealthyInv'
  BY <1>1 DEF HealthyInv
<1>2. ASSUME Valid(visible'), Owned(visible'.records), durable' = durable,
             \E k \in Keys : Present(visible'.records) \subseteq Present(visible.records) \cup {k}
      PROVE  HealthyInv'
  <2>1. IsFiniteSet(Present(visible'.records))
    <3>1. PICK k \in Keys : Present(visible'.records) \subseteq Present(visible.records) \cup {k}
      BY <1>2
    <3>2. IsFiniteSet(Present(visible.records) \cup {k})
      BY FS_AddElement DEF HealthyInv, Healthy
    <3>3. Present(visible'.records) \in SUBSET (Present(visible.records) \cup {k})
      BY <3>1
    <3> QED
      BY <3>2, <3>3, FS_Subset
  <2>2. Healthy(visible')
    BY <1>2, <2>1 DEF Healthy
  <2>3. Healthy(durable')
    BY <1>2 DEF HealthyInv
  <2> QED
    BY <2>2, <2>3 DEF HealthyInv
<1>3. ASSUME NEW c, NEW kind, NEW attempt, NEW new, Rename(c, kind, attempt, new)
      PROVE  Valid(visible') /\ visible' = new
  BY <1>3 DEF Rename
<1>4. /\ visible.records \in [Keys -> Records \cup {NoRecord}]
      /\ \A x : /\ Present(AdmitRecords(visible, x)) \subseteq Present(visible.records)
                /\ AdmitRecords(visible, x) \in [Keys -> Records \cup {NoRecord}]
                /\ Owned(AdmitRecords(visible, x))
  <2>1. visible.records \in [Keys -> Records \cup {NoRecord}]
    BY DEF TypeInv, StoreTypeOK, Disks
  <2> QED
    BY <2>1, CollectedType DEF AdmitRecords, Collected, Present, HealthyInv, Healthy, Owned
<1>5. CASE UNCHANGED storeVars \/ Tick \/ HolderCrash \/ PowerLoss
  BY <1>1, <1>5 DEF storeVars, Tick, HolderCrash, EndUnsynced, PowerLoss
<1>6. ASSUME NEW c \in Clients, NEW k \in Keys, NEW rates \in RatePolicies,
             NEW x \in CurrentSamples, AdmitRefused(c, k, rates, x)
      PROVE  HealthyInv'
  <2>1. Valid(visible') /\ visible'.records = AdmitRecords(visible, x) /\ durable' = durable
    BY <1>3, <1>6 DEF AdmitRefused, CollectedDisk, RateDisk
  <2> QED
    BY <1>2, <1>4, <2>1
<1>7. ASSUME NEW c \in Clients, NEW k \in Keys, NEW digest \in Digests,
             NEW rates \in RatePolicies, NEW x \in CurrentSamples,
             AdmitFresh(c, k, digest, rates, x)
      PROVE  HealthyInv'
  <2>1. PICK fresh : fresh = NewRecord(k, digest, Len(issued) + 1, AdmitClock(visible, x).logical)
    OBVIOUS
  <2>2. /\ Valid(visible') /\ durable' = durable
        /\ visible'.records = [AdmitRecords(visible, x) EXCEPT ![k] = fresh]
    <3>1. visible' = AdmittedDisk(visible, x, k, digest, Len(issued) + 1)
      BY <1>3, <1>7 DEF AdmitFresh
    <3>2. Valid(visible') /\ durable' = durable
      BY <1>3, <1>7 DEF AdmitFresh
    <3> QED
      BY <2>1, <3>1, <3>2 DEF AdmittedDisk
  <2>3. Present(visible'.records) \subseteq Present(AdmitRecords(visible, x)) \cup {k}
    BY <1>4, <2>2 DEF Present
  <2>4. Owned(visible'.records)
    BY <1>4, <2>1, <2>2 DEF Present, Owned, NewRecord
  <2> QED
    BY <1>2, <1>4, <2>2, <2>3, <2>4
<1>8. ASSUME NEW c \in Clients, NEW a \in Attempts, NEW status \in Statuses,
             Finalize(c, issued[a].key, a, status)
      PROVE  HealthyInv'
  <2>1. issued[a].key \in Keys
    <3>1. issued[a] \in Admissions
      BY DEF TypeInv, StoreTypeOK, Attempts
    <3> QED
      BY <3>1 DEF Admissions
  <2>2. PICK r : r = Settled(visible.records[issued[a].key], status)
    OBVIOUS
  <2>3. /\ Valid(visible') /\ durable' = durable
        /\ visible'.records = [visible.records EXCEPT ![issued[a].key] = r]
    BY <1>3, <1>8, <2>2 DEF Finalize, FinalizedDisk
  <2>4. Present(visible'.records) \subseteq Present(visible.records) \cup {issued[a].key}
    BY <1>4, <2>3 DEF Present
  <2>5. Owned(visible'.records)
    <3>1. visible.records[issued[a].key] \in Records /\ issued[a].key \in Present(visible.records)
      BY <1>4, <1>8, <2>1 DEF Finalize, Finalizable, Present
    <3>2. r.session = visible.records[issued[a].key].session
      BY <2>2, <3>1 DEF Settled, Records
    <3>3. r.session = SessionOf[issued[a].key]
      BY <3>1, <3>2 DEF HealthyInv, Healthy, Owned
    <3> QED
      BY <1>4, <2>3, <3>3 DEF HealthyInv, Healthy, Owned, Present
  <2> QED
    BY <1>2, <2>1, <2>3, <2>4, <2>5
<1>9. ASSUME NEW c \in Clients, NEW x \in CurrentSamples, Collect(c, x)
      PROVE  HealthyInv'
  <2>1. Valid(visible') /\ visible'.records = AdmitRecords(visible, x) /\ durable' = durable
    BY <1>3, <1>9 DEF Collect, CollectedDisk
  <2>2. CASE Keys = {}
    <3>1. Present(visible'.records) = {}
      BY <2>2 DEF Present
    <3> QED
      BY <1>4, <2>1, <3>1, FS_EmptySet DEF HealthyInv, Healthy
  <2> QED
    BY <1>2, <1>4, <2>1, <2>2
<1>10. ASSUME NEW c \in Clients, SyncOK(c) \/ SyncFail(c)
       PROVE  HealthyInv'
  BY <1>1, <1>10 DEF SyncOK, SyncFail, EndUnsynced
<1>11. ASSUME NEW a \in Attempts, NEW status \in Statuses,
              FinalizeMissed(issued[a].key, a, status)
       PROVE  HealthyInv'
  BY <1>1, <1>11 DEF FinalizeMissed
<1> QED
  BY <1>5, <1>6, <1>7, <1>8, <1>9, <1>10, <1>11 DEF StoreNext

LEMMA SamplesNamed == ASSUME BootsKnown, NEW x \in CurrentSamples PROVE Named(x)
<1>1. x.available => x.boot = boot
  BY DEF CurrentSamples, Reading, Unavailable
<1> QED
  BY <1>1 DEF Named, BootsKnown, NoBoot

\* No transaction is left with a snapshot validate refuses to write: an admission
\* drops the stale events before it counts, a refusal under a new boot collects
\* nothing, a finalization touches the status alone.
THEOREM NeverRepairsItself == StoreSpec => []NoSelfRepair
<1>1. ASSUME TypeInv, PaceInv, RecordInv, HealthyInv
      PROVE  NoSelfRepair
  <2>1. visible \in Disks /\ Valid(visible) /\ IsFiniteSet(Present(visible.records))
    BY <1>1 DEF TypeInv, StoreTypeOK, HealthyInv, Healthy
  <2>2. PICK n \in Nat : n = Len(issued) + 1
    BY <1>1 DEF TypeInv, StoreTypeOK
  <2>3. ASSUME NEW x \in CurrentSamples, NEW k \in Keys, NEW digest \in Digests,
               NEW rates \in RatePolicies, Admissible(visible, x, k, rates)
        PROVE  Valid(AdmittedDisk(visible, x, k, digest, Len(issued) + 1))
    <3>1. x \in Samples /\ Named(x) /\ rates \in Policies
      BY <1>1, SamplesType, SamplesNamed, StoreAssumption DEF PaceInv
    <3>2. ASSUME NEW j \in Present(visible.records)
          PROVE  visible.records[j].attempt # n
      <4>1. visible.records[j].attempt \in 1 .. Len(issued)
        BY <1>1 DEF RecordInv, OwnRecord, Attempts, Present
      <4>2. Len(issued) \in Nat
        BY <1>1 DEF TypeInv, StoreTypeOK
      <4> QED
        BY <2>2, <4>1, <4>2
    <3>3. Valid(AdmittedDisk(visible, x, k, digest, n))
      BY <2>1, <2>3, <3>1, <3>2, AdmittedValid
    <3> QED
      BY <2>2, <3>3
  <2>4. ASSUME NEW x \in CurrentSamples, Rebaselined(visible.clock, AdmitClock(visible, x))
        PROVE  Valid(CollectedDisk(visible, x))
    <3>1. x \in Samples
      BY <1>1, SamplesType
    <3> QED
      BY <2>1, <2>4, <3>1, RebaselinedValid
  <2>5. \A k \in Present(visible.records), status \in Statuses :
          Valid(FinalizedDisk(visible, k, status))
    BY <2>1, FinalizedValid
  <2> QED
    BY <2>3, <2>4, <2>5 DEF NoSelfRepair
<1>2. StoreInit => TypeInv /\ PaceInv /\ RecordInv /\ HealthyInv
  BY TypeInit, SureInit, RecordInit, HealthyInit
<1>3. TypeInv /\ PaceInv /\ RecordInv /\ HealthyInv /\ [StoreNext]_storeVars
        => (TypeInv /\ PaceInv /\ RecordInv /\ HealthyInv)'
  BY TypeNext, SureNext, RecordNext, HealthyNext
<1>4. TypeInv /\ PaceInv /\ RecordInv /\ HealthyInv => NoSelfRepair
  BY <1>1
<1> QED
  BY <1>2, <1>3, <1>4, PTL DEF StoreSpec

-----------------------------------------------------------------------------
(* A rate refusal under a new boot.  If nothing but admissions collects, both  *)
(* snapshots hold no event outside their own window, and the compaction in     *)
(* place moves nothing.                                                        *)

Compact(d) ==
  \A i \in DOMAIN d.events : Window > 0 => d.clock.logical - d.events[i].at < Window

CompactInv == Compact(visible) /\ Compact(durable)

\* Without a window no admission is refused for its rate.
LEMMA NoWindowNoLimit ==
  ASSUME NEW d \in Disks, Valid(d), NEW x \in Samples, Window = 0,
         NEW session \in Sessions, NEW rates \in Policies
  PROVE  ~RateLimited(AdmitLive(d, x), AdmitClock(d, x).logical, session, rates)
<1>1. PICK now \in Nat : now = AdmitClock(d, x).logical /\ d.clock.logical <= now
                         /\ d.clock.logical \in Nat
  <2>1. d.clock \in Clocks
    BY DEF Disks
  <2> QED
    BY <2>1, AdvanceType DEF AdmitClock, Clocks
<1>2. PICK live : live = LiveEvents(d.events, now)
  OBVIOUS
<1>3. LET stale == StaleCount(d.events, now)
          win   == LiveEvents(d.events, now)
      IN  /\ stale \in 0 .. Len(d.events)
          /\ \A i \in 1 .. Len(d.events) : now - d.events[i].at >= Window <=> i <= stale
          /\ win \in Seq(Events) /\ Len(win) = Len(d.events) - stale
          /\ \A j \in 1 .. Len(win) : win[j] = d.events[j + stale]
  BY LivePart
<1>4. \A i \in 1 .. Len(d.events) : now - d.events[i].at >= Window
  <2>1. ASSUME NEW i \in 1 .. Len(d.events)
        PROVE  now - d.events[i].at >= Window
    <3>1. d.events \in Seq(Events) /\ i \in DOMAIN d.events
      BY DEF Disks
    <3>2. d.events[i] \in Events
      BY <3>1
    <3>3. d.events[i].at \in Nat /\ d.events[i].at <= d.clock.logical
      BY <3>1, <3>2 DEF Events, Valid
    <3> QED
      BY <1>1, <3>3
  <2> QED
    BY <2>1
<1>5. Len(live) = 0 /\ DOMAIN live = {}
  <2>1. PICK m \in Nat : m = Len(d.events)
    BY DEF Disks
  <2>2. PICK c \in 0 .. m : c = StaleCount(d.events, now)
    BY <1>3, <2>1
  <2>3. \A i \in 1 .. m : i <= c
    BY <1>3, <1>4, <2>1, <2>2
  <2>4. m - c = 0
    BY <2>3
  <2> QED
    BY <1>2, <1>3, <2>1, <2>2, <2>4
<1>6. /\ Count(live, LAMBDA e : e.session = session) = 0
      /\ Count(live, LAMBDA e : now - e.at < BurstWindow) = 0
  BY <1>5, FS_EmptySet DEF Count
<1> QED
  BY <1>1, <1>2, <1>5, <1>6 DEF RateLimited, AdmitLive, Policies

\* Within the window everything is live, and the refusal writes what it read.
LEMMA CompactedRate ==
  ASSUME NEW d \in Disks, Valid(d), Compact(d), Window > 0,
         NEW x \in Samples, AdmitClock(d, x).logical = d.clock.logical
  PROVE  /\ CompactedInPlace(d.events, AdmitLive(d, x)) = d.events
         /\ RateDisk(d, x) = CollectedDisk(d, x)
<1>1. PICK now \in Nat : now = AdmitClock(d, x).logical /\ now = d.clock.logical
  BY DEF Disks, Clocks
<1>2. PICK m \in Nat : m = Len(d.events) /\ DOMAIN d.events = 1 .. m /\ d.events \in Seq(Events)
  BY DEF Disks
<1>3. {i \in DOMAIN d.events : now - d.events[i].at >= Window} = {}
  <2>1. ASSUME NEW i \in DOMAIN d.events
        PROVE  ~(now - d.events[i].at >= Window)
    <3>1. d.events[i] \in Events
      BY <1>2
    <3> QED
      BY <1>1, <3>1, JournalAssumption DEF Compact, Events
  <2> QED
    BY <2>1
<1>4. StaleCount(d.events, now) = 0
  BY <1>3, FS_EmptySet DEF StaleCount
<1>5. AdmitLive(d, x) = SubSeq(d.events, 1, m)
  BY <1>1, <1>2, <1>4 DEF AdmitLive, LiveEvents
<1>6. SubSeq(d.events, 1, m) = d.events
  BY <1>2
<1>7. CompactedInPlace(d.events, d.events) = d.events
  <2>1. SubSeq(d.events, m + 1, m) = <<>>
    BY <1>2
  <2>2. d.events \o <<>> = d.events
    BY <1>2
  <2> QED
    BY <1>2, <2>1, <2>2 DEF CompactedInPlace
<1> QED
  BY <1>5, <1>6, <1>7 DEF RateDisk, CollectedDisk

LEMMA CompactInit == StoreInit => CompactInv
BY DEF StoreInit, InitialDisk, CompactInv, Compact

LEMMA CompactNext ==
  ASSUME ~CollectCalled, TypeInv, HealthyInv, CompactInv, [StoreNext]_storeVars
  PROVE  CompactInv'
<1>1. ASSUME visible' \in {visible, durable}, durable' \in {visible, durable}
      PROVE  CompactInv'
  BY <1>1 DEF CompactInv
<1>2. ASSUME Compact(visible'), durable' = durable
      PROVE  CompactInv'
  BY <1>2 DEF CompactInv
<1>3. visible \in Disks /\ Valid(visible) /\ CurrentSamples \subseteq Samples
  BY SamplesType DEF TypeInv, StoreTypeOK, HealthyInv, Healthy
<1>4. CASE UNCHANGED storeVars \/ Tick \/ HolderCrash \/ PowerLoss
  BY <1>1, <1>4 DEF storeVars, Tick, HolderCrash, EndUnsynced, PowerLoss
<1>5. ASSUME NEW c \in Clients, NEW k \in Keys, NEW rates \in RatePolicies,
             NEW x \in CurrentSamples, AdmitRefused(c, k, rates, x)
      PROVE  CompactInv'
  <2>1. /\ Rebaselined(visible.clock, AdmitClock(visible, x)) /\ durable' = durable
        /\ \/ visible' = CollectedDisk(visible, x)
           \/ RefusedRate(visible, x, k, rates) /\ visible' = RateDisk(visible, x)
    BY <1>5 DEF AdmitRefused, Rename
  <2>2. AdmitClock(visible, x).logical = visible.clock.logical
    BY <1>3, <2>1, RebaselinedValid
  <2>3. Compact(CollectedDisk(visible, x))
    BY <2>2 DEF CompactInv, Compact, CollectedDisk
  <2>4. Compact(RateDisk(visible, x))
    <3>1. CASE Window > 0
      BY <1>3, <2>2, <2>3, <3>1, CompactedRate DEF CompactInv
    <3>2. CASE ~(Window > 0)
      BY <3>2 DEF Compact
    <3> QED
      BY <3>1, <3>2
  <2> QED
    BY <1>2, <2>1, <2>3, <2>4
<1>6. ASSUME NEW c \in Clients, NEW k \in Keys, NEW digest \in Digests,
             NEW rates \in RatePolicies, NEW x \in CurrentSamples,
             AdmitFresh(c, k, digest, rates, x)
      PROVE  CompactInv'
  <2>1. PICK now \in Nat : now = AdmitClock(visible, x).logical
    <3>1. visible.clock \in Clocks /\ x \in Samples
      BY <1>3 DEF Disks
    <3> QED
      BY <3>1, AdvanceType DEF AdmitClock, Clocks
  <2>2. PICK last : last = [at |-> now, session |-> SessionOf[k]]
    OBVIOUS
  <2>3. PICK live : live = LiveEvents(visible.events, now)
    OBVIOUS
  <2>4. /\ visible'.clock.logical = now /\ durable' = durable
        /\ visible'.events = Append(live, last)
    <3>1. visible' = AdmittedDisk(visible, x, k, digest, Len(issued) + 1) /\ durable' = durable
      BY <1>6 DEF AdmitFresh, Rename
    <3> QED
      BY <2>1, <2>2, <2>3, <3>1 DEF AdmittedDisk, AdmitLive
  <2>5. LET stale == StaleCount(visible.events, now)
            win   == LiveEvents(visible.events, now)
        IN  /\ stale \in 0 .. Len(visible.events)
            /\ \A i \in 1 .. Len(visible.events) :
                 now - visible.events[i].at >= Window <=> i <= stale
            /\ win \in Seq(Events) /\ Len(win) = Len(visible.events) - stale
            /\ \A j \in 1 .. Len(win) : win[j] = visible.events[j + stale]
    BY <1>3, LivePart
  <2>6. PICK n \in Nat : n = Len(live) /\ live \in Seq(Events)
    BY <2>3, <2>5
  <2>7. ASSUME NEW j \in 1 .. n
        PROVE  now - live[j].at < Window
    <3>1. PICK m \in Nat : m = Len(visible.events)
      BY <1>3 DEF Disks
    <3>2. PICK c0 \in 0 .. m : c0 = StaleCount(visible.events, now) /\ n = m - c0
      BY <2>3, <2>5, <2>6, <3>1
    <3>3. /\ j + c0 \in 1 .. m /\ ~(j + c0 <= c0)
      BY <3>2
    <3>4. ~(now - live[j].at >= Window)
      BY <2>3, <2>5, <2>6, <3>1, <3>2, <3>3
    <3>5. live[j] \in Events
      BY <2>6
    <3> QED
      BY <3>4, <3>5, JournalAssumption DEF Events
  <2>8. /\ DOMAIN Append(live, last) = 1 .. n + 1
        /\ \A j \in 1 .. n : Append(live, last)[j] = live[j]
        /\ Append(live, last)[n + 1] = last
    BY <2>6
  <2>9. ASSUME NEW i \in DOMAIN visible'.events, Window > 0
        PROVE  visible'.clock.logical - visible'.events[i].at < Window
    <3>1. i \in 1 .. n \/ i = n + 1
      BY <2>4, <2>8
    <3>2. CASE i \in 1 .. n
      BY <2>4, <2>7, <2>8, <3>2
    <3>3. CASE i = n + 1
      BY <2>2, <2>4, <2>8, <2>9, <3>3
    <3> QED
      BY <3>1, <3>2, <3>3
  <2>10. Compact(visible')
    BY <2>9 DEF Compact
  <2> QED
    BY <1>2, <2>4, <2>10
<1>7. ASSUME NEW c \in Clients, NEW a \in Attempts, NEW status \in Statuses,
             Finalize(c, issued[a].key, a, status)
      PROVE  CompactInv'
  <2>1. /\ visible'.clock = visible.clock /\ visible'.events = visible.events
        /\ durable' = durable
    BY <1>7 DEF Finalize, Rename, FinalizedDisk
  <2>2. Compact(visible')
    BY <2>1 DEF CompactInv, Compact
  <2> QED
    BY <1>2, <2>1, <2>2
<1>8. ASSUME NEW c \in Clients, NEW x \in CurrentSamples, Collect(c, x)
      PROVE  CompactInv'
  BY <1>8 DEF Collect
<1>9. ASSUME NEW c \in Clients, SyncOK(c) \/ SyncFail(c)
      PROVE  CompactInv'
  BY <1>1, <1>9 DEF SyncOK, SyncFail, EndUnsynced
<1>10. ASSUME NEW a \in Attempts, NEW status \in Statuses,
              FinalizeMissed(issued[a].key, a, status)
       PROVE  CompactInv'
  BY <1>1, <1>10 DEF FinalizeMissed
<1> QED
  BY <1>4, <1>5, <1>6, <1>7, <1>8, <1>9, <1>10 DEF StoreNext

\* A rate refusal after a reboot always stores its new baseline, as long as
\* Collect is never called: AdmitConditional then never sees a stale event it
\* would leave behind the live ones.
THEOREM RateRefusalsRebaseline ==
  ASSUME ~CollectCalled
  PROVE  StoreSpec => []RateRefusalRebaselines
<1>1. ASSUME TypeInv, HealthyInv, CompactInv
      PROVE  RateRefusalRebaselines
  <2> SUFFICES ASSUME NEW x \in CurrentSamples, NEW k \in Keys, NEW rates \in RatePolicies,
                      RefusedRate(visible, x, k, rates),
                      Rebaselined(visible.clock, AdmitClock(visible, x))
               PROVE  Valid(RateDisk(visible, x))
    BY DEF RateRefusalRebaselines
  <2>1. /\ visible \in Disks /\ Valid(visible) /\ Compact(visible)
        /\ x \in Samples /\ rates \in Policies /\ SessionOf[k] \in Sessions
    BY <1>1, SamplesType, StoreAssumption, JournalAssumption
    DEF TypeInv, StoreTypeOK, HealthyInv, Healthy, CompactInv
  <2>2. Window > 0
    <3>1. Window # 0
      BY <2>1, NoWindowNoLimit DEF RefusedRate
    <3> QED
      BY <3>1, JournalAssumption
  <2>3. /\ AdmitClock(visible, x).logical = visible.clock.logical
        /\ Valid(CollectedDisk(visible, x))
    BY <2>1, RebaselinedValid
  <2> QED
    BY <2>1, <2>2, <2>3, CompactedRate
<1>2. StoreInit => TypeInv /\ HealthyInv /\ CompactInv
  BY TypeInit, HealthyInit, CompactInit
<1>3. TypeInv /\ HealthyInv /\ CompactInv /\ [StoreNext]_storeVars
        => (TypeInv /\ HealthyInv /\ CompactInv)'
  BY TypeNext, HealthyNext, CompactNext
<1>4. TypeInv /\ HealthyInv /\ CompactInv => RateRefusalRebaselines
  BY <1>1
<1> QED
  BY <1>2, <1>3, <1>4, PTL DEF StoreSpec

-----------------------------------------------------------------------------
(* Quotas.  An admission acknowledged within a window of real time still has   *)
(* its record, the record is live on the logical clock, and every live record  *)
(* has a live event of its own: the window the admission counts is no smaller  *)
(* than what real time holds.                                                  *)

Recent(b, secs) ==
  {a \in acked \cup {b} : a <= b /\ issued[b].real - issued[a].real < secs * TicksPerSecond}

SessionRecent(b, secs) ==
  {a \in Recent(b, secs) : SessionOf[issued[a].key] = SessionOf[issued[b].key]}

WithinQuota(b) ==
  /\ Cardinality(Recent(b, Window)) <= issued[b].rates.runtime
  /\ Cardinality(SessionRecent(b, Window)) <= issued[b].rates.session
  /\ Cardinality(Recent(b, BurstWindow)) <= issued[b].rates.burst

QuotaInv == \A b \in Attempts : WithinQuota(b)

\* The record of an admission made in the last `secs` seconds.
LEMMA RecentKept ==
  ASSUME TypeInv, MemoryInv, NEW x \in CurrentSamples, NEW secs \in Nat, secs <= Window,
         NEW a \in acked, total - issued[a].real < secs * TicksPerSecond
  PROVE  LET k == issued[a].key
         IN  /\ k \in Present(visible.records)
             /\ visible.records[k].attempt = a
             /\ AdmitClock(visible, x).logical - visible.records[k].created < secs
<1>1. /\ a \in Attempts /\ issued[a].key \in Keys
      /\ issued[a].created \in Nat /\ issued[a].real \in Nat
  <2>1. a \in Attempts
    BY DEF TypeInv, StoreTypeOK
  <2>2. issued[a] \in Admissions
    BY <2>1 DEF TypeInv, StoreTypeOK, Attempts
  <2> QED
    BY <2>1, <2>2 DEF Admissions
<1>2. Kept(visible.clock, visible.records, a) /\ Paced(AdmitClock(visible, x), a)
  BY <1>1, RemembersAdvance DEF MemoryInv, Remembers
<1>3. PICK now \in Nat : now = AdmitClock(visible, x).logical /\ visible.clock.logical <= now
                         /\ visible.clock.logical \in Nat
  <2>1. visible.clock \in Clocks /\ x \in Samples
    BY SamplesType DEF TypeInv, StoreTypeOK, Disks
  <2> QED
    BY <2>1, AdvanceType DEF AdmitClock, Clocks
<1>4. TicksPerSecond * (now - issued[a].created) <= total - issued[a].real
  BY <1>2, <1>3 DEF Paced, Pace
<1>5. now - issued[a].created < secs
  <2>1. SUFFICES ASSUME secs <= now - issued[a].created PROVE FALSE
    BY <1>1, <1>3
  <2>2. TicksPerSecond \in Nat /\ total \in Nat
    BY StoreAssumption DEF TypeInv, StoreTypeOK
  <2>3. TicksPerSecond * secs <= TicksPerSecond * (now - issued[a].created)
    BY <1>1, <1>3, <2>1, <2>2, ProductMonotone
  <2>4. TicksPerSecond * secs = secs * TicksPerSecond
    BY <2>2
  <2>5. PICK p \in Int, q \in Int :
          p = secs * TicksPerSecond /\ q = TicksPerSecond * (now - issued[a].created)
    BY <1>1, <1>3, <2>2
  <2>6. p <= q /\ q <= total - issued[a].real /\ total - issued[a].real < p
    BY <1>4, <2>3, <2>4, <2>5
  <2> QED
    BY <1>1, <2>2, <2>6
<1>6. ~(visible.clock.logical - issued[a].created >= Retention)
  BY <1>1, <1>3, <1>5, JournalAssumption
<1> QED
  BY <1>1, <1>2, <1>3, <1>5, <1>6 DEF Kept, Present

\* Recent admissions are matched with live events of their sessions.
LEMMA RecentCounted ==
  ASSUME TypeInv, MemoryInv, HealthyInv, NEW x \in CurrentSamples,
         NEW secs \in Nat, secs <= Window, NEW W \in SUBSET acked,
         \A a \in W : total - issued[a].real < secs * TicksPerSecond
  PROVE  LET live == AdmitLive(visible, x)
             now  == AdmitClock(visible, x).logical
         IN  \E h \in Injection(W, 1 .. Len(live)) : \A a \in W :
               /\ live[h[a]].session = SessionOf[issued[a].key]
               /\ now - live[h[a]].at < secs
<1>1. PICK now \in Nat : now = AdmitClock(visible, x).logical /\ visible.clock.logical <= now
  <2>1. visible.clock \in Clocks /\ x \in Samples
    BY SamplesType DEF TypeInv, StoreTypeOK, Disks
  <2> QED
    BY <2>1, AdvanceType DEF AdmitClock, Clocks
<1>2. PICK live : live = AdmitLive(visible, x) /\ live = LiveEvents(visible.events, now)
  BY <1>1 DEF AdmitLive
<1> DEFINE alive == {k \in Present(visible.records) : now - visible.records[k].created < Window}
<1>4. PICK e \in Injection(alive, 1 .. Len(live)) : \A k \in alive :
        /\ live[e[k]].at = visible.records[k].created
        /\ live[e[k]].session = visible.records[k].session
  <2>1. visible \in Disks /\ Valid(visible) /\ IsFiniteSet(Present(visible.records))
    BY DEF TypeInv, StoreTypeOK, HealthyInv, Healthy
  <2>2. LET win  == LiveEvents(visible.events, now)
        IN  \E e \in Injection(alive, 1 .. Len(win)) : \A k \in alive :
              /\ win[e[k]].at = visible.records[k].created
              /\ win[e[k]].session = visible.records[k].session
    BY <1>1, <2>1, LiveMatched
  <2> QED
    BY <1>2, <2>2, ZenonT(30)
<1>5. ASSUME NEW a \in W
      PROVE  /\ issued[a].key \in alive
             /\ visible.records[issued[a].key].attempt = a
             /\ now - visible.records[issued[a].key].created < secs
             /\ visible.records[issued[a].key].session = SessionOf[issued[a].key]
  <2>1. PICK k : k = issued[a].key
    OBVIOUS
  <2>2. /\ k \in Present(visible.records) /\ visible.records[k].attempt = a
        /\ now - visible.records[k].created < secs
    BY <1>1, <2>1, RecentKept
  <2>3. visible.records[k].session = SessionOf[k]
    BY <2>2 DEF HealthyInv, Healthy, Owned
  <2>4. visible.records[k].created \in Nat
    <3>1. visible.records \in [Keys -> Records \cup {NoRecord}]
      BY DEF TypeInv, StoreTypeOK, Disks
    <3> QED
      BY <2>2, <3>1 DEF Present, Records
  <2>5. now - visible.records[k].created < Window
    BY <2>2, <2>4, JournalAssumption
  <2> QED
    BY <2>1, <2>2, <2>3, <2>5
<1> HIDE DEF alive
<1> DEFINE key == [a \in W |-> issued[a].key]
           h == [a \in W |-> e[key[a]]]
           J == 1 .. Len(live)
<1>6. \A a \in W : key[a] = issued[a].key /\ h[a] = e[issued[a].key]
  OBVIOUS
<1>7. e \in [alive -> J] /\ \A k, l \in alive : e[k] = e[l] => k = l
  BY <1>4, Fun_InjectionProperties
<1>8. h \in [W -> J]
  BY <1>5, <1>7
<1>9. \A a, b \in W : h[a] = h[b] => a = b
  <2> SUFFICES ASSUME NEW a \in W, NEW b \in W, h[a] = h[b] PROVE a = b
    OBVIOUS
  <2>1. issued[a].key = issued[b].key
    BY <1>5, <1>6, <1>7
  <2> QED
    BY <1>5, <2>1
<1>10. \A a \in W : /\ live[h[a]].session = SessionOf[issued[a].key]
                    /\ now - live[h[a]].at < secs
  BY <1>4, <1>5, <1>6
<1> HIDE DEF key, h
<1>11. h \in Injection(W, J)
  <2> HIDE DEF J
  <2> QED
    BY <1>8, <1>9, Fun_IsInj
<1> QED
  BY <1>1, <1>2, <1>10, <1>11

\* The new admission and what real time counts with it.
LEMMA QuotaAdmitted ==
  ASSUME TypeInv, MemoryInv, HealthyInv, NEW x \in CurrentSamples,
         NEW k \in Keys, NEW rates \in Policies, Admissible(visible, x, k, rates),
         NEW secs \in Nat, secs <= Window
  PROVE  LET recent == {a \in acked : total - issued[a].real < secs * TicksPerSecond}
             same   == {a \in recent : SessionOf[issued[a].key] = SessionOf[k]}
         IN  /\ IsFiniteSet(recent) /\ IsFiniteSet(same)
             /\ Cardinality(recent) < rates.runtime
             /\ Cardinality(same) < rates.session
             /\ secs = BurstWindow => Cardinality(recent) < rates.burst
<1> DEFINE recent == {a \in acked : total - issued[a].real < secs * TicksPerSecond}
           same   == {a \in recent : SessionOf[issued[a].key] = SessionOf[k]}
<1>1. PICK now \in Nat : now = AdmitClock(visible, x).logical
  <2>1. visible.clock \in Clocks /\ x \in Samples
    BY SamplesType DEF TypeInv, StoreTypeOK, Disks
  <2> QED
    BY <2>1, AdvanceType DEF AdmitClock, Clocks
<1>2. PICK live : live = AdmitLive(visible, x)
  OBVIOUS
<1>0. Len(live) \in Nat /\ DOMAIN live = 1 .. Len(live)
  <2>1. live \in Seq(Events)
    BY <1>1, <1>2, LiveEventsType DEF AdmitLive, TypeInv, StoreTypeOK, Disks
  <2> QED
    BY <2>1
<1>13. PICK n : n = Len(live)
  OBVIOUS
<1>3. n \in Nat /\ n = Len(live) /\ DOMAIN live = 1 .. n /\ IsFiniteSet(1 .. n) /\ Cardinality(1 .. n) = n
  <2>1. \A m \in Nat : IsFiniteSet(1 .. m) /\ Cardinality(1 .. m) = m
    BY FS_Interval
  <2>2. n \in Nat
    BY <1>0, <1>13
  <2> QED
    BY <1>0, <1>13, <2>1, <2>2
<1>4. PICK inSession : inSession = {j \in 1 .. n : live[j].session = SessionOf[k]}
  OBVIOUS
<1>5. PICK inBurst : inBurst = {j \in 1 .. n : now - live[j].at < BurstWindow}
  OBVIOUS
<1>6. /\ n < rates.runtime /\ Cardinality(inSession) < rates.session
      /\ Cardinality(inBurst) < rates.burst
      /\ IsFiniteSet(inSession) /\ IsFiniteSet(inBurst)
  <2>1. ~RateLimited(live, now, SessionOf[k], rates)
    BY <1>1, <1>2 DEF Admissible, RefusedRate
  <2>2. /\ Count(live, LAMBDA e : e.session = SessionOf[k]) = Cardinality(inSession)
        /\ Count(live, LAMBDA e : now - e.at < BurstWindow) = Cardinality(inBurst)
    BY <1>3, <1>4, <1>5 DEF Count
  <2>3. inSession \in SUBSET (1 .. n) /\ inBurst \in SUBSET (1 .. n)
    BY <1>4, <1>5
  <2>4. IsFiniteSet(inSession) /\ IsFiniteSet(inBurst)
    BY <1>3, <2>3, FS_Subset
  <2>5. Cardinality(inSession) \in Nat /\ Cardinality(inBurst) \in Nat
    BY <2>4, FS_CardinalityType
  <2>6. rates.runtime \in Nat /\ rates.session \in Nat /\ rates.burst \in Nat
    BY DEF Policies
  <2>7. /\ ~(n >= rates.runtime) /\ ~(Cardinality(inSession) >= rates.session)
        /\ ~(Cardinality(inBurst) >= rates.burst)
    BY <1>3, <2>1, <2>2 DEF RateLimited
  <2> QED
    BY <1>3, <2>4, <2>5, <2>6, <2>7
<1>7. PICK h \in Injection(recent, 1 .. n) : \A a \in recent :
        /\ live[h[a]].session = SessionOf[issued[a].key]
        /\ now - live[h[a]].at < secs
  <2>1. recent \in SUBSET acked
    OBVIOUS
  <2>2. \A a \in recent : total - issued[a].real < secs * TicksPerSecond
    OBVIOUS
  <2>3. PICK W : W = recent
    OBVIOUS
  <2>4. LET win   == AdmitLive(visible, x)
            clock == AdmitClock(visible, x).logical
        IN  \E h \in Injection(W, 1 .. Len(win)) : \A a \in W :
              /\ win[h[a]].session = SessionOf[issued[a].key]
              /\ clock - win[h[a]].at < secs
    BY <2>1, <2>2, <2>3, RecentCounted
  <2> QED
    BY <1>1, <1>2, <1>3, <2>3, <2>4
<1>8. h \in [recent -> 1 .. n] /\ \A a, b \in recent : h[a] = h[b] => a = b
  <2> HIDE DEF recent
  <2> QED
    BY <1>7, Fun_InjectionProperties
<1>9. IsFiniteSet(recent) /\ Cardinality(recent) <= n /\ Cardinality(recent) \in Nat
  <2> HIDE DEF recent
  <2> QED
    BY <1>3, <1>7, FS_Injection, FS_CardinalityType
<1>10. /\ IsFiniteSet(same) /\ Cardinality(same) <= Cardinality(inSession)
       /\ Cardinality(same) \in Nat
  <2>1. PICK g : g = [a \in same |-> h[a]]
    OBVIOUS
  <2>2. \A a \in same : a \in recent /\ SessionOf[issued[a].key] = SessionOf[k]
    OBVIOUS
  <2>3. g \in [same -> inSession] /\ \A a, b \in same : g[a] = g[b] => a = b
    <3> HIDE DEF same, recent
    <3> QED
      BY <1>4, <1>7, <1>8, <2>1, <2>2
  <2> HIDE DEF same
  <2>4. g \in Injection(same, inSession)
    BY <2>3, Fun_IsInj
  <2> QED
    BY <1>6, <2>4, FS_Injection, FS_CardinalityType
<1>11. secs = BurstWindow => Cardinality(recent) <= Cardinality(inBurst)
  <2> HIDE DEF recent
  <2>1. SUFFICES ASSUME secs = BurstWindow
                 PROVE  Cardinality(recent) <= Cardinality(inBurst)
    OBVIOUS
  <2>2. h \in [recent -> inBurst]
    BY <1>5, <1>7, <1>8, <2>1
  <2>3. h \in Injection(recent, inBurst)
    BY <1>8, <2>2, Fun_IsInj
  <2> QED
    BY <1>6, <2>3, FS_Injection
<1>12. /\ Cardinality(inSession) \in Nat /\ Cardinality(inBurst) \in Nat
       /\ rates.runtime \in Nat /\ rates.session \in Nat /\ rates.burst \in Nat
  BY <1>6, FS_CardinalityType DEF Policies
<1> QED
  <2> HIDE DEF same, recent
  <2>3. Cardinality(recent) < rates.runtime
    BY <1>3, <1>6, <1>9, <1>12
  <2>4. Cardinality(same) < rates.session
    BY <1>6, <1>10, <1>12
  <2>5. secs = BurstWindow => Cardinality(recent) < rates.burst
    BY <1>6, <1>9, <1>11, <1>12
  <2>1. /\ Cardinality(recent) < rates.runtime /\ Cardinality(same) < rates.session
        /\ secs = BurstWindow => Cardinality(recent) < rates.burst
    BY <2>3, <2>4, <2>5
  <2>2. IsFiniteSet(recent) /\ IsFiniteSet(same)
    BY <1>9, <1>10
  <2> QED
    BY <2>1, <2>2 DEF same, recent

LEMMA QuotaInit == StoreInit => QuotaInv
BY DEF StoreInit, QuotaInv, Attempts

\* An older admission's window does not change: what is acknowledged later is
\* newer, or is the admission itself.
LEMMA QuotaKept ==
  ASSUME TypeInv, QuotaInv, NEW b \in Attempts, issued'[b] = issued[b],
         \A a \in Attempts : issued'[a] = issued[a],
         acked' = acked \/ acked' = acked \cup {Len(issued)}
  PROVE  WithinQuota(b)'
<1>1. acked \subseteq Attempts /\ Attempts = 1 .. Len(issued) /\ Len(issued) \in Nat
  BY DEF TypeInv, StoreTypeOK, Attempts
<1>2. \A a : (a \in acked' \cup {b} /\ a <= b) <=> (a \in acked \cup {b} /\ a <= b)
  BY <1>1
<1>3. ASSUME NEW secs
      PROVE  /\ {a \in acked' \cup {b} : a <= b /\ issued'[b].real - issued'[a].real
                                                      < secs * TicksPerSecond} = Recent(b, secs)
             /\ {a \in Recent(b, secs) : SessionOf[issued'[a].key] = SessionOf[issued'[b].key]}
                  = SessionRecent(b, secs)
  BY <1>1, <1>2 DEF Recent, SessionRecent
<1>4. WithinQuota(b)
  BY DEF QuotaInv
<1> QED
  BY <1>3, <1>4 DEF WithinQuota, Recent, SessionRecent

LEMMA QuotaNext ==
  ASSUME TypeInv, MemoryInv, HealthyInv, QuotaInv, [StoreNext]_storeVars
  PROVE  QuotaInv'
<1>1. ASSUME issued' = issued, acked' = acked \/ acked' = acked \cup {Len(issued)}
      PROVE  QuotaInv'
  <2>1. Attempts' = Attempts
    BY <1>1 DEF Attempts
  <2>2. ASSUME NEW b \in Attempts
        PROVE  WithinQuota(b)'
    BY <1>1, QuotaKept
  <2> QED
    BY <2>1, <2>2 DEF QuotaInv
<1>2. CASE UNCHANGED storeVars \/ Tick \/ HolderCrash \/ PowerLoss
  BY <1>1, <1>2 DEF storeVars, Tick, HolderCrash, EndUnsynced, PowerLoss, history
<1>3. ASSUME NEW c \in Clients, NEW k \in Keys, NEW rates \in RatePolicies,
             NEW x \in CurrentSamples, AdmitRefused(c, k, rates, x)
      PROVE  QuotaInv'
  BY <1>1, <1>3 DEF AdmitRefused, history
<1>4. ASSUME NEW c \in Clients, NEW k \in Keys, NEW digest \in Digests,
             NEW rates \in RatePolicies, NEW x \in CurrentSamples,
             AdmitFresh(c, k, digest, rates, x)
      PROVE  QuotaInv'
  <2>0. PICK n \in Nat : n = Len(issued) + 1
    BY DEF TypeInv, StoreTypeOK
  <2>1. PICK entry : entry = [key |-> k, digest |-> digest, rates |-> rates,
                              created |-> AdmitClock(visible, x).logical, real |-> total]
    OBVIOUS
  <2>2. issued' = Append(issued, entry) /\ acked' = acked /\ Admissible(visible, x, k, rates)
    BY <1>4, <2>1 DEF AdmitFresh
  <2>3. /\ \A a \in Attempts : issued'[a] = issued[a]
        /\ issued'[n] = entry
        /\ Attempts' = Attempts \cup {n} /\ n \notin acked /\ acked \subseteq Attempts
        /\ \A a \in Attempts : a <= n
    BY <2>0, <2>2 DEF Attempts, TypeInv, StoreTypeOK
  <2>4. ASSUME NEW b \in Attempts
        PROVE  WithinQuota(b)'
    BY <2>2, <2>3, QuotaKept
  <2>5. ASSUME NEW secs \in Nat, secs <= Window
        PROVE  /\ Cardinality(Recent(n, secs)') <= rates.runtime
               /\ Cardinality(SessionRecent(n, secs)') <= rates.session
               /\ secs = BurstWindow => Cardinality(Recent(n, secs)') <= rates.burst
    <3>1. PICK recent : recent = {a \in acked : total - issued[a].real < secs * TicksPerSecond}
      OBVIOUS
    <3>2. PICK same : same = {a \in recent : SessionOf[issued[a].key] = SessionOf[k]}
      OBVIOUS
    <3>3. /\ IsFiniteSet(recent) /\ IsFiniteSet(same)
          /\ Cardinality(recent) < rates.runtime /\ Cardinality(same) < rates.session
          /\ secs = BurstWindow => Cardinality(recent) < rates.burst
      <4>1. rates \in Policies
        BY StoreAssumption
      <4>2. LET late  == {a \in acked : total - issued[a].real < secs * TicksPerSecond}
                alike == {a \in late : SessionOf[issued[a].key] = SessionOf[k]}
            IN  /\ IsFiniteSet(late) /\ IsFiniteSet(alike)
                /\ Cardinality(late) < rates.runtime
                /\ Cardinality(alike) < rates.session
                /\ secs = BurstWindow => Cardinality(late) < rates.burst
        BY <2>2, <2>5, <4>1, QuotaAdmitted
      <4> QED
        BY <3>1, <3>2, <4>2
    <3>4. Recent(n, secs)' \in SUBSET (recent \cup {n})
      <4> SUFFICES ASSUME NEW a \in Recent(n, secs)', a # n PROVE a \in recent
        OBVIOUS
      <4>1. a \in acked /\ issued'[n].real - issued'[a].real < secs * TicksPerSecond
        BY <2>2 DEF Recent
      <4>2. issued'[a] = issued[a] /\ issued'[n].real = total
        BY <2>1, <2>3, <4>1
      <4> QED
        BY <3>1, <4>1, <4>2
    <3>5. SessionRecent(n, secs)' \in SUBSET (same \cup {n})
      <4>1. \A a \in SessionRecent(n, secs)' : a = n \/ a \in recent
        BY <3>4 DEF SessionRecent
      <4>2. ASSUME NEW a \in SessionRecent(n, secs)', a \in recent
            PROVE  a \in same
        <5>1. SessionOf[issued'[a].key] = SessionOf[issued'[n].key]
          BY <4>2 DEF SessionRecent
        <5>2. issued'[a] = issued[a] /\ issued'[n].key = k
          BY <2>1, <2>3, <3>1, <4>2
        <5> QED
          BY <3>2, <4>2, <5>1, <5>2
      <4> QED
        BY <4>1, <4>2
    <3>6. ASSUME NEW S, IsFiniteSet(S), NEW T \in SUBSET (S \cup {n}), NEW limit \in Nat,
                 Cardinality(S) < limit
          PROVE  Cardinality(T) <= limit
      <4>1. /\ IsFiniteSet(S \cup {n}) /\ Cardinality(S) \in Nat
            /\ Cardinality(S \cup {n}) <= Cardinality(S) + 1
        <5>1. Cardinality(S) \in Nat
          BY <3>6, FS_CardinalityType
        <5>2. /\ IsFiniteSet(S \cup {n})
              /\ Cardinality(S \cup {n}) = Cardinality(S) \/ Cardinality(S \cup {n}) = Cardinality(S) + 1
          BY <3>6, FS_AddElement
        <5> QED
          BY <5>1, <5>2
      <4>2. /\ Cardinality(T) <= Cardinality(S \cup {n}) /\ IsFiniteSet(T)
        BY <3>6, <4>1, FS_Subset
      <4>3. Cardinality(T) \in Nat /\ Cardinality(S \cup {n}) \in Nat
        BY <4>1, <4>2, FS_CardinalityType
      <4> QED
        BY <3>6, <4>1, <4>2, <4>3
    <3>7. rates.runtime \in Nat /\ rates.session \in Nat /\ rates.burst \in Nat
      BY StoreAssumption DEF Policies
    <3> QED
      BY <3>3, <3>4, <3>5, <3>6, <3>7
  <2>6. WithinQuota(n)'
    <3>1. issued'[n].rates = rates
      BY <2>1, <2>3
    <3>2. /\ Window \in Nat /\ BurstWindow \in Nat /\ Window <= Window /\ BurstWindow <= Window
      BY JournalAssumption
    <3>3. /\ Cardinality(Recent(n, Window)') <= rates.runtime
          /\ Cardinality(SessionRecent(n, Window)') <= rates.session
          /\ Cardinality(Recent(n, BurstWindow)') <= rates.burst
      BY <2>5, <3>2
    <3> QED
      BY <3>1, <3>3 DEF WithinQuota
  <2> QED
    BY <2>3, <2>4, <2>6 DEF QuotaInv
<1>5. ASSUME NEW c \in Clients, NEW a \in Attempts, NEW status \in Statuses,
             Finalize(c, issued[a].key, a, status)
      PROVE  QuotaInv'
  BY <1>1, <1>5 DEF Finalize
<1>6. ASSUME NEW c \in Clients, NEW x \in CurrentSamples, Collect(c, x)
      PROVE  QuotaInv'
  BY <1>1, <1>6 DEF Collect, history
<1>7. ASSUME NEW c \in Clients, SyncFail(c)
      PROVE  QuotaInv'
  BY <1>1, <1>7 DEF SyncFail, EndUnsynced, history
<1>8. ASSUME NEW c \in Clients, SyncOK(c)
      PROVE  QuotaInv'
  BY <1>1, <1>8 DEF SyncOK, TypeInv, NewestAdmitting, Admitting
<1>9. ASSUME NEW a \in Attempts, NEW status \in Statuses,
             FinalizeMissed(issued[a].key, a, status)
      PROVE  QuotaInv'
  BY <1>1, <1>9 DEF FinalizeMissed
<1> QED
  BY <1>2, <1>3, <1>4, <1>5, <1>6, <1>7, <1>8, <1>9 DEF StoreNext

\* No window of real time holds more acknowledged admissions than the policy of
\* its last one allows, whatever crashes, reboots and lost samples come in
\* between, if the boot clock never falls behind a sample it gave before
\* (AdmitConditional counts the events its logical clock still holds live).
THEOREM QuotasHold ==
  ASSUME ~ClockRegresses
  PROVE  StoreSpec => []QuotaHolds
<1>1. ASSUME TypeInv, QuotaInv
      PROVE  QuotaHolds
  <2> SUFFICES ASSUME NEW b \in acked
               PROVE  /\ Cardinality({a \in acked : /\ a <= b
                           /\ issued[b].real - issued[a].real < Window * TicksPerSecond})
                           <= issued[b].rates.runtime
                      /\ Cardinality({a \in acked : /\ a <= b
                           /\ SessionOf[issued[a].key] = SessionOf[issued[b].key]
                           /\ issued[b].real - issued[a].real < Window * TicksPerSecond})
                           <= issued[b].rates.session
                      /\ Cardinality({a \in acked : /\ a <= b
                           /\ issued[b].real - issued[a].real < BurstWindow * TicksPerSecond})
                           <= issued[b].rates.burst
    BY DEF QuotaHolds, Within
  <2>1. WithinQuota(b) /\ acked \cup {b} = acked
    BY <1>1 DEF QuotaInv, TypeInv, StoreTypeOK
  <2>2. \A secs : {a \in acked : /\ a <= b
                      /\ issued[b].real - issued[a].real < secs * TicksPerSecond} = Recent(b, secs)
    BY <2>1 DEF Recent
  <2>3. {a \in acked : /\ a <= b /\ SessionOf[issued[a].key] = SessionOf[issued[b].key]
                       /\ issued[b].real - issued[a].real < Window * TicksPerSecond}
          = SessionRecent(b, Window)
    BY <2>1 DEF Recent, SessionRecent
  <2> QED
    BY <2>1, <2>2, <2>3 DEF WithinQuota
<1>2. StoreInit => TypeInv /\ MemoryInv /\ HealthyInv /\ QuotaInv
  BY TypeInit, MemoryInit, HealthyInit, QuotaInit
<1>3. TypeInv /\ MemoryInv /\ HealthyInv /\ QuotaInv /\ [StoreNext]_storeVars
        => (TypeInv /\ MemoryInv /\ HealthyInv /\ QuotaInv)'
  BY TypeNext, MemoryNext, HealthyNext, QuotaNext
<1>4. TypeInv /\ QuotaInv => QuotaHolds
  BY <1>1
<1> QED
  BY <1>2, <1>3, <1>4, PTL DEF StoreSpec
=============================================================================
