---------------------------- MODULE JournalStore ----------------------------
(***************************************************************************)
(* The durable admission journal of internal/agentnotify/journal, shared   *)
(* by every process of a user through one lock file and one snapshot.      *)
(*                                                                         *)
(* A transaction takes the lock, reads and validates the snapshot,         *)
(* computes its successor (JournalOps), renames the new file over the old  *)
(* one, syncs the directory and releases the lock.  The lock is exclusive, *)
(* so everything up to the rename is one step; the directory sync is a     *)
(* step of its own, because a process can die or the machine can lose      *)
(* power in between.  A transaction that fails before its rename changes   *)
(* nothing and is not an action here.                                      *)
(*                                                                         *)
(*   visible   the snapshot every process reads                            *)
(*   durable   the snapshot a power loss may fall back to                  *)
(*   writer    the transaction between rename and unlock, or Free          *)
(*   boot, bootAt, total   the machine: boot identity, the tick the boot   *)
(*             began at, ticks of real time since the journal was created  *)
(*   issued, acked, finals   history: admissions in order, those the       *)
(*             caller was told are fresh, finalizations that were asked    *)
(***************************************************************************)
EXTENDS JournalOps

CONSTANTS
  Clients,         \* callers of the store
  Free,            \* no transaction holds the lock
  RatePolicies,    \* rate policies an admission may carry
  TicksPerSecond,  \* real time is finer than the clock's whole seconds
  MaxTicks,        \* bound: real time modelled
  MaxBoots,        \* bound: boots modelled
  MaxAttempts,     \* bound: admissions modelled
  MaxFinals,       \* bound: distinct finalizations asked for
  ClockFails,      \* whether a sample may be missing
  ClockRegresses,  \* whether a sample may fall behind the stored high water
  CollectCalled    \* whether Store.Collect is called at all

Transactions ==
  [client : Clients, kind : {"admit", "finalize", "collect", "clock"}, attempt : Nat]

ASSUME StoreAssumption ==
  /\ Free \notin Transactions
  /\ TicksPerSecond \in Nat \ {0}
  /\ RatePolicies \subseteq Policies
  /\ {ClockFails, ClockRegresses, CollectCalled} \subseteq BOOLEAN
  /\ MaxTicks \in Nat /\ MaxBoots \in Nat /\ MaxAttempts \in Nat /\ MaxFinals \in Nat

VARIABLES visible, durable, writer, boot, bootAt, total, issued, acked, finals

machine   == <<boot, bootAt, total>>
history   == <<issued, acked, finals>>
storeVars == <<visible, durable, writer, boot, bootAt, total, issued, acked, finals>>

Attempts == 1 .. Len(issued)

\* Clock port: the truth in whole seconds, nothing (ClockFails), or a reading behind
\* the one the journal already holds for this boot (ClockRegresses).
Reading == [available |-> TRUE, boot |-> boot,
            seconds |-> (total - bootAt) \div TicksPerSecond]
Unavailable == [available |-> FALSE, boot |-> NoBoot, seconds |-> 0]

CurrentSamples ==
  {Reading}
    \cup {x \in {Unavailable} : ClockFails}
    \cup {x \in {[Reading EXCEPT !.seconds = 0]} :
            /\ ClockRegresses
            /\ visible.clock.boot = boot /\ visible.clock.seconds > 0}

InitialDisk(x) == [clock   |-> AdvancedClock(Clock(0, NoBoot, 0), x),
                   events  |-> <<>>,
                   records |-> [k \in Keys |-> NoRecord]]

StoreInit ==
  /\ boot = 1 /\ bootAt = 0 /\ total = 0
  /\ \E x \in {[available |-> TRUE, boot |-> 1, seconds |-> 0], Unavailable} :
        (x = Unavailable => ClockFails) /\ visible = InitialDisk(x)
  /\ durable = visible
  /\ writer = Free
  /\ issued = <<>> /\ acked = {} /\ finals = {}

-----------------------------------------------------------------------------
(* Machine.                                                                 *)

Tick == /\ total < MaxTicks
        /\ total' = total + 1
        /\ UNCHANGED <<visible, durable, writer, boot, bootAt, history>>

\* Power loss: an unsynced rename may or may not have reached the disk.
PowerLoss == /\ boot < MaxBoots
             /\ boot' = boot + 1 /\ bootAt' = total
             /\ visible' \in {visible, durable}
             /\ durable' = visible'
             /\ writer' = Free
             /\ UNCHANGED <<total, history>>

\* The transaction ends without a sync: the rename stays visible and may or may not
\* be on disk.
EndUnsynced == /\ writer # Free
               /\ writer' = Free
               /\ durable' \in {durable, visible}
               /\ UNCHANGED <<visible, machine, history>>

\* The process that holds the lock dies: the kernel releases the lock.
HolderCrash == EndUnsynced

-----------------------------------------------------------------------------
(* Transactions.                                                            *)

\* Rename the new snapshot into place; write validates it first.
Rename(c, kind, attempt, new) ==
  /\ writer = Free
  /\ Valid(new)
  /\ visible' = new
  /\ writer' = [client |-> c, kind |-> kind, attempt |-> attempt]

\* Admit creates a record for a key the journal does not hold.
AdmitFresh(c, k, digest, rates, x) ==
  /\ Len(issued) < MaxAttempts
  /\ Admissible(visible, x, k, rates)
  /\ Rename(c, "admit", Len(issued) + 1,
            AdmittedDisk(visible, x, k, digest, Len(issued) + 1))
  /\ issued' = Append(issued, [key |-> k, digest |-> digest, rates |-> rates,
                               created |-> AdmitClock(visible, x).logical, real |-> total])
  /\ UNCHANGED <<durable, machine, acked, finals>>

\* Admit refuses with journal_full or rate_limited, but keeps a new boot baseline.
AdmitRefused(c, k, rates, x) ==
  /\ visible.records[k] = NoRecord
  /\ ~Overflows(visible.clock, x)
  /\ Rebaselined(visible.clock, AdmitClock(visible, x))
  /\ \/ RefusedFull(visible, x) /\ Rename(c, "clock", 0, CollectedDisk(visible, x))
     \/ RefusedRate(visible, x, k, rates) /\ Rename(c, "clock", 0, RateDisk(visible, x))
  /\ UNCHANGED <<durable, machine, history>>

MayAsk(attempt, status) ==
  <<attempt, status>> \notin finals => Cardinality(finals) < MaxFinals

\* Finalize stores the terminal status of an attempt that is still dispatching.
Finalize(c, k, attempt, status) ==
  /\ MayAsk(attempt, status)
  /\ Finalizable(visible, k, attempt)
  /\ Rename(c, "finalize", attempt, FinalizedDisk(visible, k, status))
  /\ finals' = finals \cup {<<attempt, status>>}
  /\ UNCHANGED <<durable, machine, issued, acked>>

\* A finalization whose record is gone, replaced or already terminal: ErrCAS.
FinalizeMissed(k, attempt, status) ==
  /\ writer = Free
  /\ MayAsk(attempt, status)
  /\ ~Finalizable(visible, k, attempt)
  /\ finals' = finals \cup {<<attempt, status>>}
  /\ UNCHANGED <<visible, durable, writer, machine, issued, acked>>

Collect(c, x) ==
  /\ CollectCalled
  /\ ~Overflows(visible.clock, x)
  /\ Rename(c, "collect", 0, CollectedDisk(visible, x))
  /\ UNCHANGED <<durable, machine, history>>

\* The directory sync succeeds: the transaction returns success.
SyncOK(c) ==
  /\ writer # Free /\ writer.client = c
  /\ durable' = visible
  /\ writer' = Free
  /\ acked' = IF writer.kind = "admit" THEN acked \cup {writer.attempt} ELSE acked
  /\ UNCHANGED <<visible, machine, issued, finals>>

\* Mutant of SyncFail: the error is dropped and the caller told of success.
SyncFailIgnored(c) ==
  /\ writer # Free /\ writer.client = c
  /\ durable' \in {durable, visible}
  /\ writer' = Free
  /\ acked' = IF writer.kind = "admit" THEN acked \cup {writer.attempt} ELSE acked
  /\ UNCHANGED <<visible, machine, issued, finals>>

\* The directory sync fails: the caller sees an error.
SyncFail(c) == writer # Free /\ writer.client = c /\ EndUnsynced

StoreNext ==
  \/ Tick
  \/ PowerLoss
  \/ HolderCrash
  \/ \E c \in Clients :
       \/ \E k \in Keys, rates \in RatePolicies, x \in CurrentSamples :
            \/ AdmitRefused(c, k, rates, x)
            \/ \E digest \in Digests : AdmitFresh(c, k, digest, rates, x)
       \/ \E a \in Attempts, status \in Statuses : Finalize(c, issued[a].key, a, status)
       \/ \E x \in CurrentSamples : Collect(c, x)
       \/ SyncOK(c)
       \/ SyncFail(c)
  \/ \E a \in Attempts, status \in Statuses : FinalizeMissed(issued[a].key, a, status)

StoreSpec == StoreInit /\ [][StoreNext]_storeVars

-----------------------------------------------------------------------------
(* Properties.                                                              *)

Admissions == [key : Keys, digest : Digests, rates : RatePolicies,
               created : Nat, real : Nat]

\* Every variable keeps its shape: snapshots, machine, history.
StoreTypeOK ==
  /\ visible \in Disks /\ durable \in Disks
  /\ writer \in Transactions \cup {Free}
  /\ boot \in Nat /\ bootAt \in Nat /\ total \in Nat
  /\ issued \in Seq(Admissions)
  /\ acked \subseteq Attempts
  /\ finals \subseteq Attempts \X Statuses

Elapsed(a) == total - issued[a].real

\* journal.advance may lose time but never invent it: across reboots, missing
\* and regressed samples the logical clock never runs ahead of real time.
LogicalNeverAhead ==
  \A d \in {visible, durable} : TicksPerSecond * d.clock.logical <= total

\* An acknowledged admission is remembered, on disk and by every reader, until
\* Retention seconds of REAL time have passed, whatever crashes, reboots and
\* clock faults happen in between: until then its key replays.
Remembered ==
  \A a \in acked :
    Elapsed(a) < Retention * TicksPerSecond =>
      \A d \in {visible, durable} :
        /\ d.records[issued[a].key] # NoRecord
        /\ d.records[issued[a].key].attempt = a

\* Admissions acknowledged in the `secs` seconds of real time that end with b.
Within(b, secs, S(_)) ==
  {a \in acked : /\ a <= b /\ S(a)
                 /\ issued[b].real - issued[a].real < secs * TicksPerSecond}

\* No real-time window ever holds more acknowledged admissions than the policy
\* of its last one allows, per runtime, per session and per burst: a restart, a
\* reboot or a frozen clock never refills a quota.
QuotaHolds ==
  \A b \in acked :
    LET p == issued[b].rates
        session == SessionOf[issued[b].key]
    IN  /\ Cardinality(Within(b, Window, LAMBDA a : TRUE)) <= p.runtime
        /\ Cardinality(Within(b, Window,
             LAMBDA a : SessionOf[issued[a].key] = session)) <= p.session
        /\ Cardinality(Within(b, BurstWindow, LAMBDA a : TRUE)) <= p.burst

\* A terminal state in a snapshot is one that was asked for that very attempt:
\* a late finalization never lands on a record that replaced its own.
TerminalIsOwn ==
  \A d \in {visible, durable} : \A k \in Present(d.records) :
    d.records[k].state # Dispatching =>
      <<d.records[k].attempt, d.records[k].state>> \in finals

\* No transaction computes a snapshot that validate would refuse: admission,
\* finalization and refusal all leave the store able to write (and read) again.
NoSelfRepair ==
  writer = Free =>
    \A x \in CurrentSamples : ~Overflows(visible.clock, x) =>
      /\ \A k \in Keys, digest \in Digests, rates \in RatePolicies :
           /\ Admissible(visible, x, k, rates) =>
                Valid(AdmittedDisk(visible, x, k, digest, Len(issued) + 1))
           /\ /\ visible.records[k] = NoRecord
              /\ RefusedFull(visible, x)
              /\ Rebaselined(visible.clock, AdmitClock(visible, x))
              => Valid(CollectedDisk(visible, x))
      /\ \A k \in Present(visible.records), status \in Statuses :
           Valid(FinalizedDisk(visible, k, status))

\* A rate refusal after a reboot persists the new clock baseline
\* (TestRateLimitPersistsClockAcrossRebootWithoutCollect): what it writes must
\* pass validate, or the refusal becomes state_repair_required and, with no
\* baseline, no later sample of that boot can ever prove time to the journal.
RateRefusalRebaselines ==
  writer = Free =>
    \A x \in CurrentSamples, k \in Keys, rates \in RatePolicies :
      /\ visible.records[k] = NoRecord
      /\ ~Overflows(visible.clock, x)
      /\ RefusedRate(visible, x, k, rates)
      /\ Rebaselined(visible.clock, AdmitClock(visible, x))
      => Valid(RateDisk(visible, x))

\* Once an attempt is terminal in the durable snapshot it stays exactly that
\* until its record is collected (a completed token cannot be finalized twice).
TerminalIsFinal ==
  [][\A k \in Keys :
       /\ durable.records[k] # NoRecord
       /\ durable.records[k].state # Dispatching
       /\ durable'.records[k] # NoRecord
       /\ durable'.records[k].attempt = durable.records[k].attempt
       => durable'.records[k] = durable.records[k]]_storeVars
=============================================================================
