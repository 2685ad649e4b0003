---------------------------- MODULE NotifyService ----------------------------
(***************************************************************************)
(* Service.Notify of internal/agentnotify over the shared journal.  A      *)
(* client is one call slot of a service process; several processes share   *)
(* the journal.  A call walks                                              *)
(*                                                                         *)
(*   idle -> lookup -> enter -> preflight -> admit -> admitting -> deliver *)
(*        -> finalize -> finalizing -> done                                *)
(*                                                                         *)
(* and may return early at every step.  "admitting", "refusing" and        *)
(* "finalizing" hold the journal lock between rename and directory sync.   *)
(* A failed deadline check, a lock that is not obtained in time and an I/O *)
(* error before the rename all end the call with the receipt the code      *)
(* gives for them; they are choices here, not functions of a clock.        *)
(*                                                                         *)
(*   active, closed, drained   per process: calls inside, Close called,    *)
(*                             times the drained channel was closed        *)
(*   att     the attempt this call has put into the journal, 0 if none     *)
(*   sends   history: every invocation of Delivery.Deliver, with its answer*)
(*   told    history: terminal statuses their own caller was told          *)
(***************************************************************************)
EXTENDS JournalStore

CONSTANTS
  Procs, ProcOf,   \* processes, and the process of each call slot
  MaxActive,       \* calls a process admits at a time (2 in the code)
  CloseCalled,     \* whether Close is called at all
  NoReceipt, NoCall

ASSUME ServiceAssumption ==
  /\ IsFiniteSet(Clients)
  /\ ProcOf \in [Clients -> Procs]
  /\ MaxActive \in Nat \ {0} /\ CloseCalled \in BOOLEAN

VARIABLES pc, call, att, answer, receipt, active, closed, drained, sends, told

serviceVars == <<pc, call, att, answer, receipt, active, closed, drained, sends, told>>
vars == <<storeVars, serviceVars>>

Inside == {"preflight", "admit", "admitting", "refusing", "deliver", "finalize", "finalizing"}
Locations == Inside \cup {"idle", "lookup", "enter", "done"}

Calls == [key : Keys, digest : Digests]
Reasons == {"refused", "conflict", "journal_failed", "pending_submission",
            "finalization_failed", "delivered"}
Receipts == [reason : Reasons, status : Statuses \cup {Dispatching, "none"},
             attempt : Nat, replayed : BOOLEAN, retrySafe : BOOLEAN]

Receipt(reason, status, attempt, replayed, retrySafe) ==
  [reason |-> reason, status |-> status, attempt |-> attempt,
   replayed |-> replayed, retrySafe |-> retrySafe]

\* Rejections before admission are the only retry-safe receipts.
Refused       == Receipt("refused", "none", 0, FALSE, TRUE)
Conflicting   == Receipt("conflict", "none", 0, FALSE, FALSE)
AdmitError    == Receipt("journal_failed", "none", 0, FALSE, FALSE)
Pending(a)    == Receipt("pending_submission", Dispatching, a, FALSE, FALSE)
Unfinalized(a) == Receipt("finalization_failed", "none", a, FALSE, FALSE)
Delivered(a, status) == Receipt("delivered", status, a, FALSE, FALSE)
Replay(r) == IF r.state = Dispatching
             THEN Receipt("pending_submission", Dispatching, r.attempt, TRUE, FALSE)
             ELSE Receipt("delivered", r.state, r.attempt, TRUE, FALSE)

ServiceInit ==
  /\ StoreInit
  /\ pc = [c \in Clients |-> "idle"]
  /\ call = [c \in Clients |-> NoCall]
  /\ att = [c \in Clients |-> 0]
  /\ answer = [c \in Clients |-> Dispatching]
  /\ receipt = [c \in Clients |-> NoReceipt]
  /\ active = [p \in Procs |-> 0]
  /\ closed = [p \in Procs |-> FALSE]
  /\ drained = [p \in Procs |-> 0]
  /\ sends = <<>> /\ told = {}

-----------------------------------------------------------------------------
(* Steps of a call.  Go(c, from, to) moves it; Finish ends it.              *)

Go(c, from, to) == pc[c] = from /\ pc' = [pc EXCEPT ![c] = to]

\* Mutant of Leave: any call that leaves a closed service closes the channel.
LeaveAny(p) ==
  /\ active' = [active EXCEPT ![p] = @ - 1]
  /\ drained' = IF closed[p] THEN [drained EXCEPT ![p] = @ + 1] ELSE drained

\* The deferred leave of a call that had entered; the last one out of a closed
\* service closes the drained channel.
Leave(p) ==
  /\ active' = [active EXCEPT ![p] = @ - 1]
  /\ drained' = IF closed[p] /\ active[p] = 1
                THEN [drained EXCEPT ![p] = @ + 1] ELSE drained

\* Return before enter, and return from inside.
Return(c, from, r) ==
  /\ Go(c, from, "done")
  /\ receipt' = [receipt EXCEPT ![c] = r]
  /\ UNCHANGED <<call, answer, active, closed, drained, sends>>

ReturnLeaving(c, from, r) ==
  /\ Go(c, from, "done")
  /\ receipt' = [receipt EXCEPT ![c] = r]
  /\ Leave(ProcOf[c])
  /\ UNCHANGED <<call, answer, closed, sends>>

\* Notify begins: a closed service refuses, and so do the deadline and payload checks.
Begin(c, k, digest) ==
  /\ pc[c] = "idle"
  /\ \/ pc' = [pc EXCEPT ![c] = "lookup"] /\ ~closed[ProcOf[c]] /\ UNCHANGED receipt
     \/ pc' = [pc EXCEPT ![c] = "done"] /\ receipt' = [receipt EXCEPT ![c] = Refused]
  /\ call' = [call EXCEPT ![c] = [key |-> k, digest |-> digest]]
  /\ UNCHANGED <<storeVars, att, answer, active, closed, drained, sends, told>>

Held(c) == visible.records[call[c].key]

\* Lookup in a transaction of its own, before the call is counted.
Lookup(c) ==
  /\ pc[c] = "lookup" /\ writer = Free
  /\ \/ /\ Held(c) = NoRecord
        /\ Go(c, "lookup", "enter")
        /\ UNCHANGED <<call, answer, receipt, active, closed, drained, sends>>
     \/ /\ Held(c) # NoRecord /\ Held(c).digest # call[c].digest
        /\ Return(c, "lookup", Conflicting)
     \/ /\ Held(c) # NoRecord /\ Held(c).digest = call[c].digest
        /\ Return(c, "lookup", Replay(Held(c)))
  /\ UNCHANGED <<storeVars, att, told>>

LookupFails(c) == /\ Return(c, "lookup", Refused)
                  /\ UNCHANGED <<storeVars, att, told>>

\* enter: closed and busy are decided and the call counted under one mutex.
Enter(c) ==
  LET p == ProcOf[c] IN
  /\ \/ /\ closed[p] \/ active[p] >= MaxActive
        /\ Return(c, "enter", Refused)
     \/ /\ ~closed[p] /\ active[p] < MaxActive
        /\ Go(c, "enter", "preflight")
        /\ active' = [active EXCEPT ![p] = @ + 1]
        /\ UNCHANGED <<call, answer, receipt, closed, drained, sends>>
  /\ UNCHANGED <<storeVars, att, told>>

\* Policy, locality, target, readiness and three deadline checks: refuse or go on.
Preflight(c) ==
  /\ \/ ReturnLeaving(c, "preflight", Refused)
     \/ /\ Go(c, "preflight", "admit")
        /\ UNCHANGED <<call, answer, receipt, active, closed, drained, sends>>
  /\ UNCHANGED <<storeVars, att, told>>

\* Admission repeats the lookup under the lock.
Admit(c) ==
  /\ pc[c] = "admit" /\ writer = Free
  /\ \/ /\ Held(c) # NoRecord /\ Held(c).digest # call[c].digest
        /\ ReturnLeaving(c, "admit", Conflicting)
        /\ UNCHANGED <<storeVars, att>>
     \/ /\ Held(c) # NoRecord /\ Held(c).digest = call[c].digest
        /\ ReturnLeaving(c, "admit", Replay(Held(c)))
        /\ UNCHANGED <<storeVars, att>>
     \/ \E rates \in RatePolicies, x \in CurrentSamples :
          /\ AdmitFresh(c, call[c].key, call[c].digest, rates, x)
          /\ Go(c, "admit", "admitting")
          /\ att' = [att EXCEPT ![c] = Len(issued) + 1]
          /\ UNCHANGED <<call, answer, receipt, active, closed, drained, sends>>
     \/ \E rates \in RatePolicies, x \in CurrentSamples :
          /\ AdmitRefused(c, call[c].key, rates, x)
          /\ Go(c, "admit", "refusing")
          /\ UNCHANGED <<att, call, answer, receipt, active, closed, drained, sends>>
  /\ UNCHANGED told

\* Rate or capacity refusal without a new baseline, a lock timeout, an I/O error
\* before the rename: nothing is written.
AdmitFails(c) == /\ ReturnLeaving(c, "admit", AdmitError)
                 /\ UNCHANGED <<storeVars, att, told>>

AdmitSynced(c) ==
  /\ SyncOK(c)
  /\ \/ /\ Go(c, "admitting", "deliver")
        /\ UNCHANGED <<call, answer, receipt, active, closed, drained, sends>>
     \/ ReturnLeaving(c, "refusing", AdmitError)
  /\ UNCHANGED <<att, told>>

\* Mutant of AdmitSyncFails: the refusal is called retry safe.
AdmitSyncFailsSafe(c) ==
  /\ SyncFail(c)
  /\ ReturnLeaving(c, "admitting", Refused) \/ ReturnLeaving(c, "refusing", Refused)
  /\ UNCHANGED <<att, told>>

AdmitSyncFails(c) ==
  /\ SyncFail(c)
  /\ \/ ReturnLeaving(c, "admitting", AdmitError)
     \/ ReturnLeaving(c, "refusing", AdmitError)
  /\ UNCHANGED <<att, told>>

\* The port is invoked once and answers with a status (an invalid receipt is
\* read as "unknown").
Deliver(c, status) ==
  /\ Go(c, "deliver", "finalize")
  /\ sends' = Append(sends, [attempt |-> att[c], status |-> status])
  /\ answer' = [answer EXCEPT ![c] = status]
  /\ UNCHANGED <<storeVars, call, att, receipt, active, closed, drained, told>>

\* The deadline passed during admission: the pending receipt is returned.
SkipDelivery(c) == /\ ReturnLeaving(c, "deliver", Pending(att[c]))
                   /\ UNCHANGED <<storeVars, att, told>>

FinalizeCall(c) ==
  /\ Go(c, "finalize", "finalizing")
  /\ Finalize(c, call[c].key, att[c], answer[c])
  /\ UNCHANGED <<call, att, answer, receipt, active, closed, drained, sends, told>>

\* Mutants of FinalizeFails: delivery is tried again; the call never leaves.
FinalizeFailsRedelivers(c) ==
  /\ Go(c, "finalize", "deliver")
  /\ UNCHANGED <<storeVars, call, att, answer, receipt, active, closed, drained, sends, told>>
FinalizeFailsInside(c) == /\ Return(c, "finalize", Unfinalized(att[c]))
                          /\ UNCHANGED <<storeVars, att, told>>

\* ErrCAS, the one-second budget spent waiting for the lock, an I/O error.
FinalizeFails(c) == /\ ReturnLeaving(c, "finalize", Unfinalized(att[c]))
                    /\ UNCHANGED <<storeVars, att, told>>

FinalizeSynced(c) ==
  /\ SyncOK(c)
  /\ ReturnLeaving(c, "finalizing", Delivered(att[c], answer[c]))
  /\ told' = told \cup {<<att[c], answer[c]>>}
  /\ UNCHANGED att

\* Mutant of FinalizeSyncFails: the error is dropped and the status told.
FinalizeSyncFailsIgnored(c) ==
  /\ SyncFail(c)
  /\ ReturnLeaving(c, "finalizing", Delivered(att[c], answer[c]))
  /\ told' = told \cup {<<att[c], answer[c]>>}
  /\ UNCHANGED att

FinalizeSyncFails(c) == /\ SyncFail(c)
                        /\ ReturnLeaving(c, "finalizing", Unfinalized(att[c]))
                        /\ UNCHANGED <<att, told>>

\* The slot is free for another call.
Reuse(c) ==
  /\ Go(c, "done", "idle")
  /\ receipt' = [receipt EXCEPT ![c] = NoReceipt]
  /\ att' = [att EXCEPT ![c] = 0]
  /\ answer' = [answer EXCEPT ![c] = Dispatching]
  /\ call' = [call EXCEPT ![c] = NoCall]
  /\ UNCHANGED <<storeVars, active, closed, drained, sends, told>>

CallStep(c) ==
  \/ Lookup(c) \/ LookupFails(c) \/ Enter(c) \/ Preflight(c)
  \/ Admit(c) \/ AdmitFails(c) \/ AdmitSynced(c) \/ AdmitSyncFails(c)
  \/ \E status \in Statuses : Deliver(c, status)
  \/ SkipDelivery(c)
  \/ FinalizeCall(c) \/ FinalizeFails(c) \/ FinalizeSynced(c) \/ FinalizeSyncFails(c)

-----------------------------------------------------------------------------
(* Processes and machine.                                                   *)

\* Close: the first call with nobody inside closes the drained channel itself.
Close(p) ==
  /\ CloseCalled /\ ~closed[p]
  /\ closed' = [closed EXCEPT ![p] = TRUE]
  /\ drained' = IF active[p] = 0 THEN [drained EXCEPT ![p] = @ + 1] ELSE drained
  /\ UNCHANGED <<storeVars, pc, call, att, answer, receipt, active, sends, told>>

\* The processes in ps die with their calls and are started again.
Restart(ps) ==
  /\ pc' = [c \in Clients |-> IF ProcOf[c] \in ps THEN "idle" ELSE pc[c]]
  /\ att' = [c \in Clients |-> IF ProcOf[c] \in ps THEN 0 ELSE att[c]]
  /\ answer' = [c \in Clients |-> IF ProcOf[c] \in ps THEN Dispatching ELSE answer[c]]
  /\ receipt' = [c \in Clients |-> IF ProcOf[c] \in ps THEN NoReceipt ELSE receipt[c]]
  /\ call' = [c \in Clients |-> IF ProcOf[c] \in ps THEN NoCall ELSE call[c]]
  /\ active' = [p \in Procs |-> IF p \in ps THEN 0 ELSE active[p]]
  /\ closed' = [p \in Procs |-> IF p \in ps THEN FALSE ELSE closed[p]]
  /\ drained' = [p \in Procs |-> IF p \in ps THEN 0 ELSE drained[p]]
  /\ UNCHANGED <<sends, told>>

ProcessCrash(p) ==
  /\ Restart({p})
  /\ IF writer # Free /\ ProcOf[writer.client] = p
     THEN HolderCrash ELSE UNCHANGED storeVars

MachineCrash == PowerLoss /\ Restart(Procs)

ServiceTick == Tick /\ UNCHANGED serviceVars

ServiceNext ==
  \/ \E c \in Clients : \/ \E k \in Keys, digest \in Digests : Begin(c, k, digest)
                        \/ CallStep(c)
                        \/ Reuse(c)
  \/ \E p \in Procs : Close(p) \/ ProcessCrash(p)
  \/ MachineCrash
  \/ ServiceTick

ServiceSpec == ServiceInit /\ [][ServiceNext]_vars

\* Every wait inside a call is bounded (lock polling, ports and finalization run
\* under deadlines), so a call that has begun keeps taking steps.
Fairness == \A c \in Clients : WF_vars(CallStep(c))

FairServiceSpec == ServiceSpec /\ Fairness

-----------------------------------------------------------------------------
(* Properties.                                                              *)

Sends == [attempt : Nat, status : Statuses]

\* Every variable keeps its shape.
ServiceTypeOK ==
  /\ StoreTypeOK
  /\ pc \in [Clients -> Locations]
  /\ call \in [Clients -> Calls \cup {NoCall}]
  /\ att \in [Clients -> Nat]
  /\ answer \in [Clients -> Statuses \cup {Dispatching}]
  /\ receipt \in [Clients -> Receipts \cup {NoReceipt}]
  /\ active \in [Procs -> Nat]
  /\ closed \in [Procs -> BOOLEAN]
  /\ drained \in [Procs -> Nat]
  /\ sends \in Seq(Sends)
  /\ told \subseteq Nat \X Statuses

\* Notify: "delivery is invoked at most once after durable admission".  No attempt
\* is handed to the port twice, whichever calls, processes and crashes follow.
AtMostOnce ==
  \A i, j \in DOMAIN sends : sends[i].attempt = sends[j].attempt => i = j

\* Two deliveries for one key are at least Retention seconds of REAL time apart:
\* a retry, a concurrent twin in another process, a call after a crash replays.
NoEarlyResend ==
  \A i, j \in DOMAIN sends :
    LET a == sends[i].attempt  b == sends[j].attempt
    IN  a < b /\ issued[a].key = issued[b].key
          => issued[b].real - issued[a].real >= Retention * TicksPerSecond

\* The service keeps the promise of IdempotentDelivery: the ledger is what the
\* journal acknowledged, pending the calls about to deliver, sent the invocations
\* of the port.
Promise == INSTANCE IdempotentDelivery WITH
  Attempt <- 1 .. MaxAttempts, Key <- Keys, Time <- 0 .. MaxTicks,
  Gap <- Retention * TicksPerSecond,
  ledger <- {[attempt |-> a, key |-> issued[a].key, at |-> issued[a].real] : a \in acked},
  pending <- {att[c] : c \in {d \in Clients : pc[d] = "deliver"}},
  sent <- {sends[i].attempt : i \in DOMAIN sends}

KeepsPromise == Promise!PromiseSpec

\* A receipt that calls a retry safe belongs to a call that has left nothing in
\* the journal, not even a rename whose directory sync failed.
RetrySafeIsSafe ==
  \A c \in Clients : pc[c] = "done" /\ receipt[c].retrySafe => att[c] = 0

\* A terminal status in any receipt, replayed or not, is what the port answered
\* for that attempt: no crash, race or late finalization fabricates one.
ReceiptsTruthful ==
  \A c \in Clients : pc[c] = "done" /\ receipt[c].reason = "delivered" =>
    \E i \in DOMAIN sends : sends[i] = [attempt |-> receipt[c].attempt,
                                        status |-> receipt[c].status]

\* Once its own caller was told a terminal status, the journal never shows
\* another state for that attempt, even after a power loss.
ToldIsStable ==
  \A t \in told : \A d \in {visible, durable} : \A k \in Present(d.records) :
    d.records[k].attempt = t[1] => d.records[k].state = t[2]

\* When Close has returned, no call is inside, and the channel it waited for was
\* closed once only (closing it again would panic).
DrainedMeansQuiet ==
  \A p \in Procs :
    /\ drained[p] <= 1
    /\ drained[p] = 1 => \A c \in Clients : ProcOf[c] = p => pc[c] \notin Inside

\* Close drains: the calls that were inside all leave, unless the process dies.
CloseDrains == \A p \in Procs : closed[p] ~> (drained[p] = 1 \/ ~closed[p])
=============================================================================
