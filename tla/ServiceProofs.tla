---------------------------- MODULE ServiceProofs ----------------------------
(***************************************************************************)
(* Proofs about NotifyService: its steps are steps of the journal, so that *)
(* what JournalProofs establishes holds here too; calls are counted, sent  *)
(* once and told the truth; and the service implements IdempotentDelivery. *)
(***************************************************************************)
EXTENDS NotifyService, JournalProofs

-----------------------------------------------------------------------------
(* The calls inside a process are counted, and its drained channel is closed   *)
(* as soon as it is closed with nobody inside.                                *)

InsideOf(p) == {c \in Clients : ProcOf[c] = p /\ pc[c] \in Inside}

Counted(p) ==
  /\ active[p] = Cardinality(InsideOf(p))
  /\ drained[p] = IF closed[p] /\ active[p] = 0 THEN 1 ELSE 0

CountType ==
  /\ pc \in [Clients -> Locations]
  /\ active \in [Procs -> Nat]
  /\ closed \in [Procs -> BOOLEAN]
  /\ drained \in [Procs -> Nat]

CountInv == CountType /\ \A p \in Procs : Counted(p)

LEMMA InsideFinite == ASSUME NEW p PROVE IsFiniteSet(InsideOf(p))
BY ServiceAssumption, FS_Subset DEF InsideOf

LEMMA CountInit == ServiceInit => CountInv
<1> SUFFICES ASSUME ServiceInit PROVE CountInv
  OBVIOUS
<1>1. \A p \in Procs : InsideOf(p) = {}
  BY DEF ServiceInit, InsideOf, Inside
<1>2. Cardinality({}) = 0
  BY FS_EmptySet
<1>3. CountType
  BY DEF ServiceInit, CountType, Locations
<1> QED
  BY <1>1, <1>2, <1>3 DEF CountInv, Counted, ServiceInit

\* The step of one call that neither enters nor leaves.
LEMMA CountStay ==
  ASSUME CountInv, NEW c \in Clients, NEW to \in Locations,
         pc' = [pc EXCEPT ![c] = to], to \in Inside <=> pc[c] \in Inside,
         UNCHANGED <<active, closed, drained>>
  PROVE  CountInv'
<1>1. \A p \in Procs : InsideOf(p)' = InsideOf(p)
  <2>1. \A d \in Clients : pc'[d] \in Inside <=> pc[d] \in Inside
    BY DEF CountInv, CountType
  <2> QED
    BY <2>1 DEF InsideOf
<1>2. CountType'
  BY DEF CountInv, CountType
<1> QED
  BY <1>1, <1>2 DEF CountInv, Counted

LEMMA CountEnter ==
  ASSUME CountInv, NEW c \in Clients, pc[c] \notin Inside, ~closed[ProcOf[c]],
         pc' = [pc EXCEPT ![c] = "preflight"],
         active' = [active EXCEPT ![ProcOf[c]] = @ + 1],
         UNCHANGED <<closed, drained>>
  PROVE  CountInv'
<1>1. "preflight" \in Inside /\ "preflight" \in Locations
  BY DEF Inside, Locations
<1>2. CountType' /\ ProcOf[c] \in Procs
  <2>1. ProcOf[c] \in Procs
    BY ServiceAssumption
  <2>2. active' \in [Procs -> Nat] /\ pc' \in [Clients -> Locations]
    BY <1>1, <2>1 DEF CountInv, CountType
  <2> QED
    BY <2>1, <2>2 DEF CountInv, CountType
<1>3. ASSUME NEW p \in Procs PROVE Counted(p)'
  <2>1. Counted(p) /\ CountType
    BY DEF CountInv
  <2>2. CASE p = ProcOf[c]
    <3>1. InsideOf(p)' = InsideOf(p) \cup {c} /\ c \notin InsideOf(p)
      BY <1>1, <2>1, <2>2 DEF InsideOf, CountType
    <3>2. Cardinality(InsideOf(p)') = Cardinality(InsideOf(p)) + 1
      BY <3>1, InsideFinite, FS_AddElement
    <3>3. active'[p] = active[p] + 1 /\ closed'[p] = FALSE /\ drained'[p] = drained[p]
      BY <1>2, <2>1, <2>2 DEF CountType
    <3> QED
      BY <2>1, <2>2, <3>2, <3>3 DEF Counted
  <2>3. CASE p # ProcOf[c]
    <3>1. InsideOf(p)' = InsideOf(p)
      BY <2>1, <2>3 DEF InsideOf, CountType
    <3>2. active'[p] = active[p]
      BY <1>2, <2>1, <2>3 DEF CountType
    <3> QED
      BY <2>1, <3>1, <3>2 DEF Counted
  <2> QED
    BY <2>2, <2>3
<1> QED
  BY <1>2, <1>3 DEF CountInv

\* A call inside keeps the count positive.
LEMMA InsideCounted ==
  ASSUME CountInv, NEW c \in Clients, pc[c] \in Inside
  PROVE  active[ProcOf[c]] \in Nat \ {0}
<1>1. ProcOf[c] \in Procs /\ c \in InsideOf(ProcOf[c])
  BY ServiceAssumption DEF InsideOf
<1>2. Cardinality(InsideOf(ProcOf[c])) # 0
  BY <1>1, InsideFinite, FS_EmptySet
<1> QED
  BY <1>1, <1>2 DEF CountInv, CountType, Counted

LEMMA CountLeave ==
  ASSUME CountInv, NEW c \in Clients, pc[c] \in Inside,
         pc' = [pc EXCEPT ![c] = "done"], Leave(ProcOf[c]), UNCHANGED closed
  PROVE  CountInv'
<1>1. "done" \notin Inside /\ "done" \in Locations
  BY DEF Inside, Locations
<1>2. PICK q \in Procs : q = ProcOf[c]
  BY ServiceAssumption
<1>3. /\ active[q] \in Nat \ {0} /\ CountType
      /\ active' = [active EXCEPT ![q] = @ - 1]
      /\ drained' = IF closed[q] /\ active[q] = 1 THEN [drained EXCEPT ![q] = @ + 1] ELSE drained
  BY <1>2, InsideCounted DEF CountInv, Leave
<1>4. CountType'
  <2>1. pc' \in [Clients -> Locations] /\ closed' \in [Procs -> BOOLEAN]
    BY <1>1, <1>3 DEF CountType
  <2>2. active[q] - 1 \in Nat
    BY <1>3
  <2>3. active' \in [Procs -> Nat]
    BY <1>3, <2>2 DEF CountType
  <2>4. drained' \in [Procs -> Nat]
    BY <1>3 DEF CountType
  <2> QED
    BY <2>1, <2>3, <2>4 DEF CountType
<1>5. ASSUME NEW p \in Procs PROVE Counted(p)'
  <2>1. Counted(p)
    BY DEF CountInv
  <2>2. CASE p = q
    <3>1. InsideOf(p)' = InsideOf(p) \ {c} /\ c \in InsideOf(p)
      BY <1>1, <1>2, <1>3, <2>2 DEF InsideOf, CountType
    <3>2. Cardinality(InsideOf(p)') = Cardinality(InsideOf(p)) - 1
      BY <3>1, InsideFinite, FS_RemoveElement
    <3>3. active'[p] = active[p] - 1 /\ closed'[p] = closed[p]
      BY <1>3, <2>2 DEF CountType
    <3>4. CASE closed[p] /\ active[p] = 1
      <4>1. drained'[p] = drained[p] + 1
        BY <1>3, <2>2, <3>4 DEF CountType
      <4> QED
        BY <1>3, <2>1, <2>2, <3>2, <3>3, <3>4, <4>1 DEF Counted
    <3>5. CASE ~(closed[p] /\ active[p] = 1)
      <4>1. drained'[p] = drained[p]
        BY <1>3, <2>2, <3>5
      <4> QED
        BY <1>3, <2>1, <2>2, <3>2, <3>3, <3>5, <4>1 DEF Counted
    <3> QED
      BY <3>4, <3>5
  <2>3. CASE p # q
    <3>1. InsideOf(p)' = InsideOf(p)
      BY <1>2, <1>3, <2>3 DEF InsideOf, CountType
    <3>2. active'[p] = active[p] /\ drained'[p] = drained[p] /\ closed'[p] = closed[p]
      BY <1>3, <2>3 DEF CountType
    <3> QED
      BY <2>1, <3>1, <3>2 DEF Counted
  <2> QED
    BY <2>2, <2>3
<1> QED
  BY <1>4, <1>5 DEF CountInv

LEMMA CountRestart ==
  ASSUME CountInv, NEW ps, Restart(ps)
  PROVE  CountInv'
<1>1. "idle" \notin Inside /\ "idle" \in Locations
  BY DEF Inside, Locations
<1>2. CountType /\ CountType'
  BY <1>1 DEF CountInv, CountType, Restart
<1>3. ASSUME NEW p \in Procs PROVE Counted(p)'
  <2>1. Counted(p)
    BY DEF CountInv
  <2>2. CASE p \in ps
    <3>1. InsideOf(p)' = {}
      BY <1>1, <2>2 DEF InsideOf, Restart
    <3>2. Cardinality({}) = 0
      BY FS_EmptySet
    <3> QED
      BY <2>2, <3>1, <3>2 DEF Counted, Restart
  <2>3. CASE p \notin ps
    <3>1. InsideOf(p)' = InsideOf(p)
      BY <2>3 DEF InsideOf, Restart
    <3> QED
      BY <2>1, <2>3, <3>1 DEF Counted, Restart
  <2> QED
    BY <2>2, <2>3
<1> QED
  BY <1>2, <1>3 DEF CountInv

LEMMA CountClose ==
  ASSUME CountInv, NEW q \in Procs, Close(q)
  PROVE  CountInv'
<1>1. CountType /\ CountType'
  BY DEF CountInv, CountType, Close
<1>2. ASSUME NEW p \in Procs PROVE Counted(p)'
  <2>1. Counted(p) /\ InsideOf(p)' = InsideOf(p)
    BY DEF CountInv, Close, InsideOf
  <2>2. CASE p = q
    BY <1>1, <2>1, <2>2 DEF Counted, Close, CountType
  <2>3. CASE p # q
    BY <1>1, <2>1, <2>3 DEF Counted, Close, CountType
  <2> QED
    BY <2>2, <2>3
<1> QED
  BY <1>1, <1>2 DEF CountInv

\* The steps a call takes between entering and leaving.
CallInside(c) ==
  \/ Preflight(c) \/ Admit(c) \/ AdmitFails(c) \/ AdmitSynced(c) \/ AdmitSyncFails(c)
  \/ \E status \in Statuses : Deliver(c, status)
  \/ SkipDelivery(c)
  \/ FinalizeCall(c) \/ FinalizeFails(c) \/ FinalizeSynced(c) \/ FinalizeSyncFails(c)

LEMMA CountNext == CountInv /\ [ServiceNext]_vars => CountInv'
<1> SUFFICES ASSUME CountInv, [ServiceNext]_vars PROVE CountInv'
  OBVIOUS
<1> USE DEF Go
<1>1. ASSUME NEW c \in Clients, NEW to \in Locations,
             pc' = [pc EXCEPT ![c] = to], to \in Inside <=> pc[c] \in Inside,
             UNCHANGED <<active, closed, drained>>
      PROVE  CountInv'
  BY <1>1, CountStay
<1>2. ASSUME NEW c \in Clients, NEW from \in Inside, NEW r, ReturnLeaving(c, from, r)
      PROVE  CountInv'
  BY <1>2, CountLeave DEF ReturnLeaving
<1>3. ASSUME NEW c \in Clients, NEW k \in Keys, NEW digest \in Digests, Begin(c, k, digest)
      PROVE  CountInv'
  BY <1>1, <1>3 DEF Begin, Inside, Locations
<1>4. ASSUME NEW c \in Clients, Lookup(c) \/ LookupFails(c)
      PROVE  CountInv'
  BY <1>1, <1>4 DEF Lookup, LookupFails, Return, Inside, Locations
<1>5. ASSUME NEW c \in Clients, Enter(c)
      PROVE  CountInv'
  <2>1. pc[c] \notin Inside /\ "done" \in Locations /\ "done" \notin Inside
    BY <1>5 DEF Enter, Return, Inside, Locations
  <2> QED
    BY <1>1, <1>5, <2>1, CountEnter DEF Enter, Return
<1>6. /\ {"preflight", "admit", "admitting", "refusing", "deliver", "finalize", "finalizing"} = Inside
      /\ Inside \subseteq Locations
  BY DEF Inside, Locations
<1>7. ASSUME NEW c \in Clients, CallInside(c)
      PROVE  CountInv'
  <2>1. CASE Preflight(c) \/ AdmitFails(c) \/ SkipDelivery(c) \/ FinalizeFails(c)
    BY <1>1, <1>2, <1>6, <2>1 DEF Preflight, AdmitFails, SkipDelivery, FinalizeFails
  <2>2. CASE Admit(c)
    BY <1>1, <1>2, <1>6, <2>2 DEF Admit
  <2>3. CASE AdmitSynced(c) \/ AdmitSyncFails(c)
    BY <1>1, <1>2, <1>6, <2>3 DEF AdmitSynced, AdmitSyncFails
  <2>4. CASE (\E status \in Statuses : Deliver(c, status)) \/ FinalizeCall(c)
    BY <1>1, <1>6, <2>4 DEF Deliver, FinalizeCall
  <2>5. CASE FinalizeSynced(c) \/ FinalizeSyncFails(c)
    BY <1>2, <1>6, <2>5 DEF FinalizeSynced, FinalizeSyncFails
  <2> QED
    BY <1>7, <2>1, <2>2, <2>3, <2>4, <2>5 DEF CallInside
<1>9. ASSUME NEW c \in Clients, Reuse(c)
      PROVE  CountInv'
  BY <1>1, <1>9 DEF Reuse, Inside, Locations
<1>10. CASE \/ \E p \in Procs : Close(p) \/ ProcessCrash(p)
            \/ MachineCrash
  BY <1>10, CountClose, CountRestart DEF ProcessCrash, MachineCrash
<1>11. CASE ServiceTick \/ UNCHANGED vars
  BY <1>11 DEF ServiceTick, vars, serviceVars, CountInv, CountType, Counted, InsideOf
<1> QED
  BY <1>3, <1>4, <1>5, <1>7, <1>9, <1>10, <1>11 DEF ServiceNext, CallStep, CallInside

\* The drained channel is closed once, and then nobody is inside: the last call
\* to leave a closed service, or Close itself, closes it (service.go, leave and Close).
THEOREM DrainedQuiet == ServiceSpec => []DrainedMeansQuiet
<1>1. CountInv => DrainedMeansQuiet
  <2> SUFFICES ASSUME CountInv, NEW p \in Procs
               PROVE  /\ drained[p] <= 1
                      /\ drained[p] = 1 =>
                           \A c \in Clients : ProcOf[c] = p => pc[c] \notin Inside
    BY DEF DrainedMeansQuiet
  <2>1. Counted(p)
    BY DEF CountInv
  <2>2. drained[p] = 1 => InsideOf(p) = {}
    BY <2>1, InsideFinite, FS_EmptySet DEF Counted
  <2>3. drained[p] <= 1
    BY <2>1 DEF Counted
  <2> QED
    BY <2>2, <2>3 DEF InsideOf
<1> QED
  BY <1>1, CountInit, CountNext, PTL DEF ServiceSpec

-----------------------------------------------------------------------------
(* The shape of a call: what it has put into the journal, and what it holds.   *)

Unadmitted == {"idle", "lookup", "enter", "preflight", "admit", "refusing"}
Holding    == {"admitting", "refusing", "finalizing"}

CallType ==
  /\ call \in [Clients -> Calls \cup {NoCall}]
  /\ att \in [Clients -> Nat]
  /\ answer \in [Clients -> Statuses \cup {Dispatching}]
  /\ receipt \in [Clients -> Receipts \cup {NoReceipt}]
  /\ sends \in Seq(Sends)
  /\ told \subseteq Nat \X Statuses

MyCall(c) ==
  /\ pc[c] \in Inside \cup {"lookup", "enter"} => call[c] \in Calls
  /\ pc[c] \in Unadmitted => att[c] = 0
  /\ pc[c] \in {"admitting", "deliver", "finalize", "finalizing"} => att[c] # 0
  /\ pc[c] \in {"finalize", "finalizing"} => answer[c] \in Statuses
  /\ att[c] # 0 => att[c] \in Attempts /\ issued[att[c]].key = call[c].key

\* The lock of the journal is held by the call that says so.
HeldBy(c) ==
  \/ pc[c] = "admitting" /\ writer.kind = "admit" /\ writer.attempt = att[c]
  \/ pc[c] = "refusing" /\ writer.kind = "clock"
  \/ pc[c] = "finalizing" /\ writer.kind = "finalize"

Holder ==
  /\ writer # Free => HeldBy(writer.client)
  /\ \A c \in Clients : pc[c] \in Holding => writer # Free /\ writer.client = c

Shape == TypeInv /\ CountInv /\ CallType /\ Holder /\ \A c \in Clients : MyCall(c)

LEMMA HeldType ==
  ASSUME Shape, NEW c \in Clients, pc[c] \in Inside \cup {"lookup", "enter"}
  PROVE  /\ call[c] \in Calls /\ call[c].key \in Keys /\ call[c].digest \in Digests
         /\ Held(c) # NoRecord =>
              /\ Held(c) \in Records
              /\ call[c].key \in Present(visible.records)
              /\ Replay(Held(c)) \in Receipts
<1>1. call[c] \in Calls
  BY DEF Shape, MyCall
<1>2. call[c].key \in Keys /\ call[c].digest \in Digests
  BY <1>1 DEF Calls
<1>3. visible.records \in [Keys -> Records \cup {NoRecord}]
  BY DEF Shape, TypeInv, StoreTypeOK, Disks
<1>4. ASSUME NEW r \in Records PROVE Replay(r) \in Receipts
  <2>1. r.attempt \in Nat /\ r.state \in Statuses \cup {Dispatching}
    BY DEF Records
  <2> QED
    BY <2>1 DEF Replay, Receipt, Receipts, Reasons
<1> QED
  BY <1>1, <1>2, <1>3, <1>4 DEF Held, Present

\* Every step of the service is one of the journal, or leaves it alone.
LEMMA StepIsStore ==
  ASSUME Shape, [ServiceNext]_vars
  PROVE  [StoreNext]_storeVars
<1>1. CASE UNCHANGED storeVars
  BY <1>1
<1>2. ASSUME NEW c \in Clients, Admit(c)
      PROVE  [StoreNext]_storeVars
  <2>1. pc[c] \in Inside
    BY <1>2 DEF Admit, Inside
  <2>2. call[c].key \in Keys /\ call[c].digest \in Digests
    BY <2>1, HeldType
  <2> QED
    BY <1>2, <2>2 DEF Admit, StoreNext
<1>3. ASSUME NEW c \in Clients, FinalizeCall(c)
      PROVE  [StoreNext]_storeVars
  <2>1. pc[c] = "finalize" /\ Finalize(c, call[c].key, att[c], answer[c])
    BY <1>3 DEF FinalizeCall, Go
  <2>2. /\ att[c] \in Attempts /\ issued[att[c]].key = call[c].key
        /\ answer[c] \in Statuses
    BY <2>1 DEF Shape, MyCall
  <2> QED
    BY <2>1, <2>2 DEF StoreNext
<1>4. ASSUME NEW c \in Clients, SyncOK(c) \/ SyncFail(c)
      PROVE  [StoreNext]_storeVars
  BY <1>4 DEF StoreNext
<1>5. CASE HolderCrash \/ PowerLoss \/ Tick
  BY <1>5 DEF StoreNext
<1>6. CASE \E c \in Clients, k \in Keys, digest \in Digests : Begin(c, k, digest)
  BY <1>1, <1>6 DEF Begin
<1>7. CASE \E c \in Clients : CallStep(c)
  <2>1. PICK c \in Clients : CallStep(c)
    BY <1>7
  <2>2. CASE Lookup(c) \/ LookupFails(c) \/ Enter(c) \/ Preflight(c) \/ AdmitFails(c)
    BY <1>1, <2>2 DEF Lookup, LookupFails, Enter, Preflight, AdmitFails
  <2>3. CASE (\E status \in Statuses : Deliver(c, status)) \/ SkipDelivery(c) \/ FinalizeFails(c)
    BY <1>1, <2>3 DEF Deliver, SkipDelivery, FinalizeFails
  <2>4. CASE AdmitSynced(c) \/ AdmitSyncFails(c) \/ FinalizeSynced(c) \/ FinalizeSyncFails(c)
    BY <1>4, <2>4 DEF AdmitSynced, AdmitSyncFails, FinalizeSynced, FinalizeSyncFails
  <2> QED
    BY <1>2, <1>3, <2>1, <2>2, <2>3, <2>4 DEF CallStep
<1>8. CASE \E c \in Clients : Reuse(c)
  BY <1>1, <1>8 DEF Reuse
<1>9. CASE \E p \in Procs : Close(p) \/ ProcessCrash(p)
  BY <1>1, <1>5, <1>9 DEF Close, ProcessCrash
<1>10. CASE MachineCrash \/ ServiceTick \/ UNCHANGED vars
  BY <1>1, <1>5, <1>10 DEF MachineCrash, ServiceTick, vars
<1> QED
  BY <1>6, <1>7, <1>8, <1>9, <1>10 DEF ServiceNext

-----------------------------------------------------------------------------
(* What a step of one call comes to.  The invariants below look at steps this  *)
(* way: the locations it joins, what it does to the journal, what it says.     *)

Others(c) ==
  \A d \in Clients : d # c =>
    /\ pc'[d] = pc[d] /\ call'[d] = call[d] /\ att'[d] = att[d]
    /\ answer'[d] = answer[d] /\ receipt'[d] = receipt[d]

Moves(c, from, to) == pc[c] = from /\ pc'[c] = to

Mute == UNCHANGED <<sends, told>>
SameCall(c) == call'[c] = call[c] /\ att'[c] = att[c] /\ answer'[c] = answer[c]

\* On the way to admission.
Waits(c) ==
  /\ pc[c] \in {"idle", "lookup", "enter", "preflight"}
  /\ pc'[c] \in {"lookup", "enter", "preflight", "admit"}
  /\ call'[c] \in Calls /\ att'[c] = att[c] /\ answer'[c] = answer[c]
  /\ UNCHANGED storeVars /\ Mute

Replays == {Replay(visible.records[k]) : k \in Present(visible.records)}

\* Returns before admission.
TurnedAway(c) ==
  /\ pc[c] \in {"idle", "lookup", "enter", "preflight", "admit"} /\ pc'[c] = "done"
  /\ att'[c] = att[c]
  /\ receipt'[c] \in {Refused, Conflicting, AdmitError} \cup Replays
  /\ UNCHANGED storeVars /\ Mute

Admits(c) ==
  /\ Moves(c, "admit", "admitting")
  /\ call'[c] = call[c] /\ answer'[c] = answer[c] /\ att'[c] = Len(issued) + 1
  /\ \E digest \in Digests, rates \in RatePolicies, x \in CurrentSamples :
       AdmitFresh(c, call[c].key, digest, rates, x)
  /\ Mute

Refuses(c) ==
  /\ Moves(c, "admit", "refusing") /\ SameCall(c)
  /\ \E rates \in RatePolicies, x \in CurrentSamples :
       AdmitRefused(c, call[c].key, rates, x)
  /\ Mute

Acknowledged(c) == /\ Moves(c, "admitting", "deliver") /\ SameCall(c)
                   /\ SyncOK(c) /\ Mute

\* Returns after a sync, with an error.
Unsynced(c) ==
  /\ \/ Moves(c, "admitting", "done") /\ SyncFail(c) /\ receipt'[c] = AdmitError
     \/ Moves(c, "refusing", "done") /\ (SyncOK(c) \/ SyncFail(c)) /\ receipt'[c] = AdmitError
     \/ Moves(c, "finalizing", "done") /\ SyncFail(c) /\ receipt'[c] = Unfinalized(att[c])
  /\ SameCall(c) /\ Mute

Delivers(c) ==
  /\ Moves(c, "deliver", "finalize")
  /\ call'[c] = call[c] /\ att'[c] = att[c] /\ answer'[c] \in Statuses
  /\ sends' = Append(sends, [attempt |-> att[c], status |-> answer'[c]])
  /\ UNCHANGED <<storeVars, told>>

GivesUp(c) ==
  /\ pc[c] \in {"deliver", "finalize"} /\ pc'[c] = "done" /\ SameCall(c)
  /\ receipt'[c] \in {Pending(att[c]), Unfinalized(att[c])}
  /\ UNCHANGED storeVars /\ Mute

Finalizes(c) ==
  /\ Moves(c, "finalize", "finalizing") /\ SameCall(c)
  /\ Finalize(c, call[c].key, att[c], answer[c]) /\ Mute

Tells(c) ==
  /\ Moves(c, "finalizing", "done") /\ SameCall(c) /\ SyncOK(c)
  /\ receipt'[c] = Delivered(att[c], answer[c])
  /\ told' = told \cup {<<att[c], answer[c]>>} /\ UNCHANGED sends

Frees(c) ==
  /\ Moves(c, "done", "idle") /\ att'[c] = 0
  /\ UNCHANGED storeVars /\ Mute

Moved(c) ==
  /\ Others(c)
  /\ \/ Waits(c) \/ TurnedAway(c) \/ Admits(c) \/ Refuses(c) \/ Acknowledged(c)
     \/ Unsynced(c) \/ Delivers(c) \/ GivesUp(c) \/ Finalizes(c) \/ Tells(c) \/ Frees(c)

\* Processes that die take their calls with them, and the lock if one holds it.
Dies == \E ps \in SUBSET Procs :
  /\ Restart(ps)
  /\ \/ UNCHANGED storeVars /\ (writer # Free => ProcOf[writer.client] \notin ps)
     \/ HolderCrash /\ ProcOf[writer.client] \in ps
     \/ PowerLoss /\ ps = Procs

Idles == /\ UNCHANGED <<pc, call, att, answer, receipt, sends, told>>
         /\ UNCHANGED storeVars \/ Tick

LEMMA OtherCalls ==
  ASSUME Shape, NEW c \in Clients,
         \/ \E k \in Keys, digest \in Digests : Begin(c, k, digest)
         \/ CallStep(c) \/ Reuse(c)
  PROVE  Others(c)
<1> USE DEF Others, Go, Return, ReturnLeaving, Shape, CountInv, CountType, CallType
<1>1. CASE \E k \in Keys, digest \in Digests : Begin(c, k, digest)
  BY <1>1 DEF Begin
<1>2. CASE Lookup(c) \/ LookupFails(c) \/ Enter(c) \/ Preflight(c)
  BY <1>2 DEF Lookup, LookupFails, Enter, Preflight
<1>3. CASE Admit(c)
  BY <1>3 DEF Admit
<1>4. CASE AdmitFails(c) \/ AdmitSynced(c) \/ AdmitSyncFails(c)
  BY <1>4 DEF AdmitFails, AdmitSynced, AdmitSyncFails
<1>5. CASE (\E status \in Statuses : Deliver(c, status)) \/ SkipDelivery(c) \/ FinalizeCall(c)
  BY <1>5 DEF Deliver, SkipDelivery, FinalizeCall
<1>6. CASE FinalizeFails(c) \/ FinalizeSynced(c) \/ FinalizeSyncFails(c)
  BY <1>6 DEF FinalizeFails, FinalizeSynced, FinalizeSyncFails
<1>7. CASE Reuse(c)
  BY <1>7 DEF Reuse
<1> QED
  BY <1>1, <1>2, <1>3, <1>4, <1>5, <1>6, <1>7 DEF CallStep

LEMMA Movements ==
  ASSUME Shape, [ServiceNext]_vars
  PROVE  Idles \/ Dies \/ \E c \in Clients : Moved(c)
<1> USE DEF Go, Moves, Mute, SameCall
<1>0. /\ pc \in [Clients -> Locations] /\ call \in [Clients -> Calls \cup {NoCall}]
      /\ att \in [Clients -> Nat] /\ answer \in [Clients -> Statuses \cup {Dispatching}]
      /\ receipt \in [Clients -> Receipts \cup {NoReceipt}]
  BY DEF Shape, CountInv, CountType, CallType
<1>1. ASSUME NEW c \in Clients, NEW k \in Keys, NEW digest \in Digests, Begin(c, k, digest)
      PROVE  Waits(c) \/ TurnedAway(c)
  <2>1. [key |-> k, digest |-> digest] \in Calls
    BY DEF Calls
  <2> QED
    BY <1>0, <1>1, <2>1 DEF Begin, Waits, TurnedAway
<1>2. ASSUME NEW c \in Clients, Lookup(c) \/ LookupFails(c) \/ Enter(c)
      PROVE  Waits(c) \/ TurnedAway(c)
  <2>1. pc[c] \in {"lookup", "enter"}
    BY <1>2 DEF Lookup, LookupFails, Enter, Return
  <2>2. /\ call[c] \in Calls
        /\ Held(c) # NoRecord => Replay(Held(c)) \in Replays
    BY <2>1, HeldType DEF Replays, Held
  <2> QED
    BY <1>0, <1>2, <2>1, <2>2 DEF Lookup, LookupFails, Enter, Return, Waits, TurnedAway
<1>3. ASSUME NEW c \in Clients, Preflight(c) \/ AdmitFails(c)
      PROVE  Waits(c) \/ TurnedAway(c)
  <2>1. pc[c] \in Inside
    BY <1>3 DEF Preflight, AdmitFails, ReturnLeaving, Inside
  <2>2. call[c] \in Calls
    BY <2>1, HeldType
  <2> QED
    BY <1>0, <1>3, <2>2 DEF Preflight, AdmitFails, ReturnLeaving, Waits, TurnedAway
<1>4. ASSUME NEW c \in Clients, Admit(c)
      PROVE  TurnedAway(c) \/ Admits(c) \/ Refuses(c)
  <2>1. pc[c] \in Inside /\ pc[c] = "admit"
    BY <1>4 DEF Admit, Inside
  <2>2. /\ call[c].digest \in Digests
        /\ Held(c) # NoRecord => Replay(Held(c)) \in Replays
    BY <2>1, HeldType DEF Replays, Held
  <2>3. CASE \/ Held(c) # NoRecord /\ ReturnLeaving(c, "admit", Conflicting)
                /\ UNCHANGED <<storeVars, att>>
             \/ Held(c) # NoRecord /\ ReturnLeaving(c, "admit", Replay(Held(c)))
                /\ UNCHANGED <<storeVars, att>>
    BY <1>0, <1>4, <2>1, <2>2, <2>3 DEF Admit, ReturnLeaving, TurnedAway
  <2>4. ASSUME NEW rates \in RatePolicies, NEW x \in CurrentSamples,
               AdmitFresh(c, call[c].key, call[c].digest, rates, x),
               Go(c, "admit", "admitting"),
               att' = [att EXCEPT ![c] = Len(issued) + 1],
               UNCHANGED <<call, answer, sends, told>>
        PROVE  Admits(c)
    BY <1>0, <2>2, <2>4 DEF Admits
  <2>5. ASSUME NEW rates \in RatePolicies, NEW x \in CurrentSamples,
               AdmitRefused(c, call[c].key, rates, x),
               Go(c, "admit", "refusing"),
               UNCHANGED <<att, call, answer, sends, told>>
        PROVE  Refuses(c)
    BY <1>0, <2>5 DEF Refuses
  <2> QED
    BY <1>4, <2>3, <2>4, <2>5 DEF Admit
<1>5. ASSUME NEW c \in Clients, AdmitSynced(c) \/ AdmitSyncFails(c)
      PROVE  Acknowledged(c) \/ Unsynced(c)
  BY <1>0, <1>5 DEF AdmitSynced, AdmitSyncFails, ReturnLeaving, Acknowledged, Unsynced
<1>6. ASSUME NEW c \in Clients, NEW status \in Statuses, Deliver(c, status)
      PROVE  Delivers(c)
  BY <1>0, <1>6 DEF Deliver, Delivers
<1>7. ASSUME NEW c \in Clients, SkipDelivery(c) \/ FinalizeFails(c)
      PROVE  GivesUp(c)
  BY <1>0, <1>7 DEF SkipDelivery, FinalizeFails, ReturnLeaving, GivesUp
<1>8. ASSUME NEW c \in Clients, FinalizeCall(c)
      PROVE  Finalizes(c)
  BY <1>0, <1>8 DEF FinalizeCall, Finalizes
<1>9. ASSUME NEW c \in Clients, FinalizeSynced(c) \/ FinalizeSyncFails(c)
      PROVE  Tells(c) \/ Unsynced(c)
  BY <1>0, <1>9 DEF FinalizeSynced, FinalizeSyncFails, ReturnLeaving, Tells, Unsynced
<1>10. ASSUME NEW c \in Clients, Reuse(c)
       PROVE  Frees(c)
  BY <1>0, <1>10 DEF Reuse, Frees
<1>11. ASSUME NEW p \in Procs, ProcessCrash(p)
       PROVE  Dies
  <2>1. {p} \in SUBSET Procs
    OBVIOUS
  <2>2. \/ UNCHANGED storeVars /\ (writer # Free => ProcOf[writer.client] \notin {p})
        \/ HolderCrash /\ ProcOf[writer.client] \in {p}
    BY <1>11 DEF ProcessCrash
  <2>3. Restart({p})
    BY <1>11 DEF ProcessCrash
  <2> QED
    BY <2>1, <2>2, <2>3 DEF Dies
<1>12. CASE MachineCrash
  <2>1. Procs \in SUBSET Procs
    OBVIOUS
  <2> QED
    BY <1>12, <2>1 DEF MachineCrash, Dies
<1>13. CASE ServiceTick \/ UNCHANGED vars \/ \E p \in Procs : Close(p)
  BY <1>13 DEF ServiceTick, vars, serviceVars, Close, Idles
<1>14. ASSUME NEW c \in Clients, CallStep(c)
       PROVE  Moved(c)
  BY <1>2, <1>3, <1>4, <1>5, <1>6, <1>7, <1>8, <1>9, <1>14, OtherCalls DEF CallStep, Moved
<1>15. ASSUME NEW c \in Clients, NEW k \in Keys, NEW digest \in Digests, Begin(c, k, digest)
       PROVE  Moved(c)
  BY <1>1, <1>15, OtherCalls DEF Moved
<1>16. ASSUME NEW c \in Clients, Reuse(c)
       PROVE  Moved(c)
  BY <1>10, <1>16, OtherCalls DEF Moved
<1> QED
  BY <1>11, <1>12, <1>13, <1>14, <1>15, <1>16 DEF ServiceNext

-----------------------------------------------------------------------------
(* The shape is kept.                                                         *)

LEMMA IssuedStable ==
  ASSUME TypeInv, [StoreNext]_storeVars
  PROVE  Attempts \subseteq Attempts' /\ \A a \in Attempts : issued'[a] = issued[a]
<1>1. CASE issued' = issued
  BY <1>1 DEF Attempts
<1>2. ASSUME NEW entry, issued' = Append(issued, entry)
      PROVE  Attempts \subseteq Attempts' /\ \A a \in Attempts : issued'[a] = issued[a]
  <2>1. issued \in Seq(Admissions)
    BY DEF TypeInv, StoreTypeOK
  <2> QED
    BY <1>2, <2>1 DEF Attempts
<1>3. CASE issued' # issued
  <2>1. PICK c \in Clients, k \in Keys, rates \in RatePolicies, x \in CurrentSamples,
             digest \in Digests : AdmitFresh(c, k, digest, rates, x)
    BY <1>3 DEF StoreNext, storeVars, Tick, PowerLoss, HolderCrash, AdmitRefused, Finalize,
                FinalizeMissed, Collect, SyncOK, SyncFail, EndUnsynced, machine, history
  <2> QED
    BY <1>2, <2>1 DEF AdmitFresh
<1> QED
  BY <1>1, <1>3

LEMMA ShapeInit == ServiceInit => Shape
<1> SUFFICES ASSUME ServiceInit PROVE Shape
  OBVIOUS
<1>1. TypeInv /\ CountInv /\ writer = Free
  BY TypeInit, CountInit DEF ServiceInit, StoreInit
<1>2. CallType
  <2>1. <<>> \in Seq(Sends)
    OBVIOUS
  <2> QED
    BY <2>1 DEF ServiceInit, CallType
<1>3. Holder /\ \A c \in Clients : MyCall(c)
  BY <1>1 DEF ServiceInit, Holder, Holding, MyCall, Unadmitted, Inside
<1> QED
  BY <1>1, <1>2, <1>3 DEF Shape

LEMMA ReceiptTypes ==
  ASSUME NEW a \in Nat, NEW status \in Statuses
  PROVE  {Refused, Conflicting, AdmitError, Pending(a), Unfinalized(a), Delivered(a, status)}
           \subseteq Receipts
BY DEF Refused, Conflicting, AdmitError, Pending, Unfinalized, Delivered,
       Receipt, Receipts, Reasons

LEMMA PlainReceipts == {Refused, Conflicting, AdmitError} \subseteq Receipts
BY DEF Refused, Conflicting, AdmitError, Receipt, Receipts, Reasons

LEMMA CallTypeNext ==
  ASSUME Shape, [ServiceNext]_vars
  PROVE  CallType'
<1> USE DEF Go
<1>0. /\ call \in [Clients -> Calls \cup {NoCall}]
      /\ att \in [Clients -> Nat]
      /\ answer \in [Clients -> Statuses \cup {Dispatching}]
      /\ receipt \in [Clients -> Receipts \cup {NoReceipt}]
      /\ sends \in Seq(Sends)
      /\ told \subseteq Nat \X Statuses
  BY DEF Shape, CallType
<1>1. ASSUME NEW c \in Clients, NEW r \in Receipts,
             receipt' = receipt \/ receipt' = [receipt EXCEPT ![c] = r],
             UNCHANGED <<call, att, answer, sends, told>>
      PROVE  CallType'
  BY <1>0, <1>1 DEF CallType
<1>2. ASSUME NEW c \in Clients, NEW k \in Keys, NEW digest \in Digests, Begin(c, k, digest)
      PROVE  CallType'
  <2>1. [key |-> k, digest |-> digest] \in Calls
    BY DEF Calls
  <2> QED
    BY <1>0, <1>2, <2>1, PlainReceipts DEF Begin, CallType
<1>3. ASSUME NEW c \in Clients,
             Lookup(c) \/ LookupFails(c) \/ Enter(c) \/ Preflight(c) \/ AdmitFails(c)
      PROVE  CallType'
  <2>1. pc[c] \in Inside \cup {"lookup", "enter"}
    BY <1>3 DEF Lookup, LookupFails, Enter, Preflight, AdmitFails, Return, ReturnLeaving, Inside
  <2>2. Held(c) # NoRecord => Replay(Held(c)) \in Receipts
    BY <2>1, HeldType
  <2> QED
    BY <1>1, <1>3, <2>2, PlainReceipts
    DEF Lookup, LookupFails, Enter, Preflight, AdmitFails, Return, ReturnLeaving
<1>4. ASSUME NEW c \in Clients, Admit(c)
      PROVE  CallType'
  <2>1. pc[c] \in Inside
    BY <1>4 DEF Admit, Inside
  <2>2. Held(c) # NoRecord => Replay(Held(c)) \in Receipts
    BY <2>1, HeldType
  <2>3. Len(issued) + 1 \in Nat
    BY DEF Shape, TypeInv, StoreTypeOK
  <2>4. CASE att' = [att EXCEPT ![c] = Len(issued) + 1] /\ UNCHANGED receipt
    BY <1>0, <1>4, <2>3, <2>4 DEF Admit, CallType, ReturnLeaving
  <2> QED
    BY <1>1, <1>4, <2>2, <2>4, PlainReceipts DEF Admit, ReturnLeaving
<1>5. ASSUME NEW c \in Clients, AdmitSynced(c) \/ AdmitSyncFails(c)
      PROVE  CallType'
  BY <1>1, <1>5, PlainReceipts DEF AdmitSynced, AdmitSyncFails, ReturnLeaving
<1>6. ASSUME NEW c \in Clients, NEW status \in Statuses, Deliver(c, status)
      PROVE  CallType'
  <2>1. [attempt |-> att[c], status |-> status] \in Sends
    BY <1>0 DEF Sends
  <2>2. sends' \in Seq(Sends)
    BY <1>0, <1>6, <2>1, AppendProperties DEF Deliver
  <2> QED
    BY <1>0, <1>6, <2>2 DEF Deliver, CallType
<1>7. ASSUME NEW c \in Clients, SkipDelivery(c) \/ FinalizeFails(c) \/ FinalizeSyncFails(c)
      PROVE  CallType'
  <2>1. att[c] \in Nat
    BY <1>0
  <2>2. Pending(att[c]) \in Receipts /\ Unfinalized(att[c]) \in Receipts
    BY <2>1 DEF Pending, Unfinalized, Receipt, Receipts, Reasons
  <2> QED
    BY <1>1, <1>7, <2>2 DEF SkipDelivery, FinalizeFails, FinalizeSyncFails, ReturnLeaving
<1>8. ASSUME NEW c \in Clients, FinalizeCall(c)
      PROVE  CallType'
  BY <1>0, <1>8 DEF FinalizeCall, CallType
<1>9. ASSUME NEW c \in Clients, FinalizeSynced(c)
      PROVE  CallType'
  <2>1. att[c] \in Nat /\ answer[c] \in Statuses
    BY <1>0, <1>9 DEF FinalizeSynced, ReturnLeaving, Shape, MyCall
  <2>2. Delivered(att[c], answer[c]) \in Receipts
    BY <2>1, ReceiptTypes
  <2>3. told' \subseteq Nat \X Statuses
    BY <1>0, <1>9, <2>1 DEF FinalizeSynced
  <2>4. receipt' \in [Clients -> Receipts \cup {NoReceipt}]
    BY <1>0, <1>9, <2>2 DEF FinalizeSynced, ReturnLeaving
  <2> QED
    BY <1>0, <1>9, <2>3, <2>4 DEF FinalizeSynced, ReturnLeaving, CallType
<1>10. ASSUME NEW c \in Clients, Reuse(c)
       PROVE  CallType'
  BY <1>0, <1>10 DEF Reuse, CallType
<1>11. ASSUME NEW ps, Restart(ps)
       PROVE  CallType'
  BY <1>0, <1>11 DEF Restart, CallType
<1>12. CASE ServiceTick \/ UNCHANGED vars \/ \E p \in Procs : Close(p)
  BY <1>0, <1>12 DEF ServiceTick, vars, serviceVars, Close, CallType
<1> QED
  BY <1>2, <1>3, <1>4, <1>5, <1>6, <1>7, <1>8, <1>9, <1>10, <1>11, <1>12
  DEF ServiceNext, CallStep, ProcessCrash, MachineCrash

LEMMA MyCallNext ==
  ASSUME Shape, [ServiceNext]_vars, NEW c \in Clients
  PROVE  MyCall(c)'
<1>1. /\ MyCall(c) /\ pc[c] \in Locations
      /\ Attempts \subseteq Attempts' /\ \A a \in Attempts : issued'[a] = issued[a]
  BY StepIsStore, IssuedStable DEF Shape, CountInv, CountType
<1>2. CASE /\ pc'[c] = pc[c] /\ call'[c] = call[c] /\ att'[c] = att[c]
           /\ answer'[c] = answer[c]
  BY <1>1, <1>2 DEF MyCall
<1>3. CASE Idles
  BY <1>2, <1>3 DEF Idles
<1>4. CASE Dies
  <2>1. PICK ps \in SUBSET Procs : Restart(ps)
    BY <1>4 DEF Dies
  <2>2. CASE ProcOf[c] \in ps
    <3>1. pc'[c] = "idle" /\ att'[c] = 0
      BY <2>1, <2>2 DEF Restart
    <3> QED
      BY <3>1 DEF MyCall, Inside
  <2>3. CASE ProcOf[c] \notin ps
    BY <1>2, <2>1, <2>3 DEF Restart
  <2> QED
    BY <2>2, <2>3
<1>5. ASSUME NEW d \in Clients, Moved(d)
      PROVE  MyCall(c)'
  <2>1. CASE d # c
    BY <1>2, <1>5, <2>1 DEF Moved, Others
  <2>2. CASE d = c
    <3> USE DEF MyCall, Moves, SameCall
    <3>1. CASE Waits(c)
      BY <1>1, <3>1 DEF Waits, Unadmitted, Inside
    <3>2. CASE TurnedAway(c)
      BY <1>1, <3>2 DEF TurnedAway, Unadmitted, Inside
    <3>3. CASE Admits(c)
      <4>1. call[c] \in Calls /\ call'[c] = call[c] /\ pc'[c] = "admitting"
        BY <1>1, <3>3 DEF Admits, Inside
      <4>2. PICK entry : issued' = Append(issued, entry) /\ entry.key = call[c].key
        BY <3>3 DEF Admits, AdmitFresh
      <4>3. PICK n \in Nat : n = Len(issued) + 1
        BY DEF Shape, TypeInv, StoreTypeOK
      <4>4. n \in Attempts' /\ issued'[n] = entry /\ n # 0
        <5>1. issued \in Seq(Admissions)
          BY DEF Shape, TypeInv, StoreTypeOK
        <5> QED
          BY <4>2, <4>3, <5>1 DEF Attempts
      <4>5. att'[c] = n
        BY <3>3, <4>3 DEF Admits
      <4> QED
        BY <4>1, <4>2, <4>4, <4>5 DEF Unadmitted
    <3>4. CASE Refuses(c)
      BY <1>1, <3>4 DEF Refuses, Unadmitted, Inside
    <3>5. CASE Acknowledged(c)
      BY <1>1, <3>5 DEF Acknowledged, Unadmitted, Inside
    <3>6. CASE Unsynced(c)
      BY <1>1, <3>6 DEF Unsynced, Unadmitted, Inside
    <3>7. CASE Delivers(c)
      BY <1>1, <3>7 DEF Delivers, Unadmitted, Inside
    <3>8. CASE GivesUp(c)
      BY <1>1, <3>8 DEF GivesUp, Unadmitted, Inside
    <3>9. CASE Finalizes(c)
      BY <1>1, <3>9 DEF Finalizes, Unadmitted, Inside
    <3>10. CASE Tells(c)
      BY <1>1, <3>10 DEF Tells, Unadmitted, Inside
    <3>11. CASE Frees(c)
      BY <1>1, <3>11 DEF Frees, Unadmitted, Inside
    <3> QED
      BY <1>5, <2>2, <3>1, <3>2, <3>3, <3>4, <3>5, <3>6, <3>7, <3>8, <3>9, <3>10, <3>11
      DEF Moved
  <2> QED
    BY <2>1, <2>2
<1> QED
  BY <1>3, <1>4, <1>5, Movements

\* Renaming takes a free lock, a sync gives it back.
LEMMA HolderNext ==
  ASSUME Shape, [ServiceNext]_vars
  PROVE  Holder'
<1>0. Holder /\ (writer # Free => writer.client \in Clients) /\ writer' \in Transactions \cup {Free}
  BY StepIsStore, TypeNext DEF Shape, TypeInv, StoreTypeOK, Transactions
<1>1. CASE Idles
  BY <1>0, <1>1 DEF Idles, storeVars, Tick, Holder, HeldBy
<1>2. CASE Dies
  <2>1. PICK ps \in SUBSET Procs :
          /\ Restart(ps)
          /\ \/ UNCHANGED storeVars /\ (writer # Free => ProcOf[writer.client] \notin ps)
             \/ HolderCrash /\ ProcOf[writer.client] \in ps
             \/ PowerLoss /\ ps = Procs
    BY <1>2 DEF Dies
  <2>2. /\ \A c \in Clients : ProcOf[c] \in Procs
        /\ \A c \in Clients : ProcOf[c] \in ps => pc'[c] = "idle"
        /\ \A c \in Clients : ProcOf[c] \notin ps => pc'[c] = pc[c] /\ att'[c] = att[c]
    BY <2>1, ServiceAssumption DEF Restart
  <2>3. CASE UNCHANGED storeVars /\ (writer # Free => ProcOf[writer.client] \notin ps)
    BY <1>0, <2>2, <2>3 DEF storeVars, Holder, HeldBy, Holding
  <2>4. CASE HolderCrash /\ ProcOf[writer.client] \in ps
    BY <1>0, <2>2, <2>4 DEF HolderCrash, EndUnsynced, Holder, Holding
  <2>5. CASE PowerLoss /\ ps = Procs
    BY <1>0, <2>2, <2>5 DEF PowerLoss, Holder, Holding
  <2> QED
    BY <2>1, <2>3, <2>4, <2>5
<1>3. ASSUME NEW c \in Clients, Moved(c)
      PROVE  Holder'
  <2>0. \A d \in Clients : d # c => pc'[d] = pc[d] /\ att'[d] = att[d]
    BY <1>3 DEF Moved, Others
  <2>1. ASSUME UNCHANGED storeVars, pc[c] \notin Holding, pc'[c] \notin Holding
        PROVE  Holder'
    BY <1>0, <2>0, <2>1 DEF storeVars, Holder, HeldBy, Holding
  <2>2. ASSUME writer = Free, NEW kind \in {"admit", "clock", "finalize"}, NEW attempt \in Nat,
               writer' = [client |-> c, kind |-> kind, attempt |-> attempt],
               \/ kind = "admit" /\ pc'[c] = "admitting" /\ attempt = att'[c]
               \/ kind = "clock" /\ pc'[c] = "refusing"
               \/ kind = "finalize" /\ pc'[c] = "finalizing"
        PROVE  Holder'
    <3>1. writer' # Free
      <4>1. writer' \in Transactions
        BY <2>2 DEF Transactions
      <4> QED
        BY <4>1, StoreAssumption
    <3>2. writer'.client = c /\ writer'.kind = kind /\ writer'.attempt = attempt
      BY <2>2
    <3>3. HeldBy(c)'
      BY <2>2, <3>2 DEF HeldBy
    <3>4. \A d \in Clients : d # c => pc'[d] \notin Holding
      BY <1>0, <2>0, <2>2 DEF Holder
    <3> QED
      BY <3>1, <3>2, <3>3, <3>4 DEF Holder, HeldBy
  <2>3. ASSUME writer # Free, writer.client = c, writer' = Free, pc'[c] \notin Holding
        PROVE  Holder'
    <3>1. \A d \in Clients : d # c => pc[d] \notin Holding
      BY <1>0, <2>3 DEF Holder
    <3> QED
      BY <2>0, <2>3, <3>1 DEF Holder
  <2> USE DEF Moves
  <2>4. CASE Waits(c) \/ TurnedAway(c) \/ GivesUp(c) \/ Frees(c)
    BY <2>1, <2>4 DEF Waits, TurnedAway, GivesUp, Frees, Holding
  <2>5. CASE Delivers(c)
    BY <2>1, <2>5 DEF Delivers, Holding
  <2>6. CASE Admits(c)
    <3>1. Len(issued) + 1 \in Nat
      BY DEF Shape, TypeInv, StoreTypeOK
    <3>2. /\ writer = Free
          /\ writer' = [client |-> c, kind |-> "admit", attempt |-> Len(issued) + 1]
          /\ pc'[c] = "admitting" /\ att'[c] = Len(issued) + 1
      BY <2>6 DEF Admits, AdmitFresh, Rename
    <3> QED
      BY <2>2, <3>1, <3>2
  <2>7. CASE Refuses(c)
    <3>1. /\ writer = Free /\ pc'[c] = "refusing"
          /\ writer' = [client |-> c, kind |-> "clock", attempt |-> 0]
      BY <2>7 DEF Refuses, AdmitRefused, Rename
    <3> QED
      BY <2>2, <3>1
  <2>8. CASE Finalizes(c)
    <3>1. att[c] \in Nat
      BY DEF Shape, CallType
    <3>2. /\ writer = Free /\ pc'[c] = "finalizing"
          /\ writer' = [client |-> c, kind |-> "finalize", attempt |-> att[c]]
      BY <2>8 DEF Finalizes, Finalize, Rename
    <3> QED
      BY <2>2, <3>1, <3>2
  <2>9. CASE Acknowledged(c) \/ Unsynced(c) \/ Tells(c)
    <3>1. writer # Free /\ writer.client = c /\ writer' = Free /\ pc'[c] \notin Holding
      BY <2>9 DEF Acknowledged, Unsynced, Tells, SyncOK, SyncFail, EndUnsynced, Holding
    <3> QED
      BY <2>3, <3>1
  <2> QED
    BY <1>3, <2>4, <2>5, <2>6, <2>7, <2>8, <2>9 DEF Moved
<1> QED
  BY <1>1, <1>2, <1>3, Movements

LEMMA ShapeNext == Shape /\ [ServiceNext]_vars => Shape'
<1> SUFFICES ASSUME Shape, [ServiceNext]_vars PROVE Shape'
  OBVIOUS
<1>1. TypeInv'
  BY StepIsStore, TypeNext DEF Shape
<1>2. CountInv'
  BY CountNext DEF Shape
<1> QED
  BY <1>1, <1>2, CallTypeNext, MyCallNext, HolderNext DEF Shape

\* Every variable of the service and its journal keeps its shape.
THEOREM ServiceTypeCorrect == ServiceSpec => []ServiceTypeOK
<1>1. Shape => ServiceTypeOK
  BY DEF Shape, TypeInv, CountInv, CountType, CallType, ServiceTypeOK
<1> QED
  BY <1>1, ShapeInit, ShapeNext, PTL DEF ServiceSpec

\* The service takes no step the journal does not allow.
THEOREM ServiceUsesJournal == ServiceSpec => StoreSpec
<1>1. ServiceInit => StoreInit
  BY DEF ServiceInit
<1>2. Shape /\ [ServiceNext]_vars => [StoreNext]_storeVars
  BY StepIsStore
<1> QED
  BY <1>1, <1>2, ShapeInit, ShapeNext, PTL DEF ServiceSpec, StoreSpec

-----------------------------------------------------------------------------
(* An attempt belongs to one call, is handed over once, and what was finalized *)
(* or is being finalized is what the port answered.                           *)

Said(a, status) ==
  \E i \in DOMAIN sends : sends[i] = [attempt |-> a, status |-> status]

Unsent(a) == \A i \in DOMAIN sends : sends[i].attempt # a

Sending(c) ==
  /\ pc[c] = "admitting" => att[c] \notin acked
  /\ pc[c] = "deliver" => att[c] \in acked /\ Unsent(att[c])
  /\ pc[c] \in {"finalize", "finalizing"} => Said(att[c], answer[c])

Distinct == \A c, d \in Clients : att[c] # 0 /\ att[c] = att[d] => c = d

SendInv ==
  /\ \A i \in DOMAIN sends : sends[i].attempt \in acked
  /\ AtMostOnce
  /\ Distinct
  /\ \A c \in Clients : Sending(c)
  /\ \A f \in finals : Said(f[1], f[2])

\* The history a move writes: what is acknowledged and what is finalized.
LEMMA MoveHistory ==
  ASSUME Shape, NEW c \in Clients, Moved(c)
  PROVE  /\ \/ acked' = acked
            \/ Acknowledged(c) /\ acked' = acked \cup {att[c]}
         /\ \/ finals' = finals
            \/ Finalizes(c) /\ finals' = finals \cup {<<att[c], answer[c]>>}
<1> USE DEF history, machine, Moves
<1>1. CASE Waits(c) \/ TurnedAway(c) \/ GivesUp(c) \/ Frees(c) \/ Delivers(c)
  BY <1>1 DEF Waits, TurnedAway, GivesUp, Frees, Delivers, storeVars
<1>2. CASE Admits(c) \/ Refuses(c) \/ Finalizes(c)
  BY <1>2 DEF Admits, Refuses, Finalizes, AdmitFresh, AdmitRefused, Finalize
<1>3. CASE Acknowledged(c)
  <2>1. HeldBy(c)
    BY <1>3 DEF Acknowledged, SyncOK, Shape, Holder
  <2> QED
    BY <1>3, <2>1 DEF Acknowledged, SyncOK, HeldBy
<1>4. CASE Unsynced(c) \/ Tells(c)
  <2>1. HeldBy(c)
    BY <1>4 DEF Unsynced, Tells, SyncOK, SyncFail, EndUnsynced, Shape, Holder
  <2> QED
    BY <1>4, <2>1 DEF Unsynced, Tells, SyncOK, SyncFail, EndUnsynced, HeldBy
<1> QED
  BY <1>1, <1>2, <1>3, <1>4 DEF Moved

LEMMA SendInit == ServiceInit => SendInv
BY DEF ServiceInit, StoreInit, SendInv, AtMostOnce, Distinct, Sending

LEMMA SendQuiet ==
  ASSUME Shape, SendInv, UNCHANGED <<sends, acked, finals>>,
         \A c \in Clients :
           \/ pc'[c] = pc[c] /\ att'[c] = att[c] /\ answer'[c] = answer[c]
           \/ pc'[c] \notin {"admitting", "deliver", "finalize", "finalizing"} /\ att'[c] = 0
  PROVE  SendInv'
<1>1. Distinct'
  BY DEF SendInv, Distinct
<1>2. \A c \in Clients : Sending(c)'
  BY DEF SendInv, Sending, Said, Unsent
<1> QED
  BY <1>1, <1>2 DEF SendInv, AtMostOnce, Said

LEMMA SendMoved ==
  ASSUME Shape, SendInv, NEW c \in Clients, Moved(c)
  PROVE  SendInv'
<1> USE DEF Moves, SameCall, Mute
<1>0. /\ \A d \in Clients : d # c => pc'[d] = pc[d] /\ att'[d] = att[d] /\ answer'[d] = answer[d]
      /\ \A d \in Clients : MyCall(d) /\ Sending(d) /\ att[d] \in Nat
      /\ sends \in Seq(Sends) /\ acked \subseteq Attempts
  BY DEF Moved, Others, Shape, SendInv, CallType, TypeInv, StoreTypeOK
<1>1. ASSUME sends' = sends, acked \subseteq acked', finals' = finals,
             att'[c] = att[c] \/ att'[c] = 0, Sending(c)',
             \A d \in Clients : pc[d] = "admitting" /\ d # c => acked' = acked
      PROVE  SendInv'
  <2>1. Distinct'
    BY <1>0, <1>1 DEF SendInv, Distinct
  <2>2. \A d \in Clients : d # c => Sending(d)'
    BY <1>0, <1>1 DEF Sending, Said, Unsent
  <2> QED
    BY <1>1, <2>1, <2>2 DEF SendInv, AtMostOnce, Said
<1>2. CASE Waits(c) \/ TurnedAway(c) \/ GivesUp(c) \/ Frees(c)
  BY <1>1, <1>2 DEF Waits, TurnedAway, GivesUp, Frees, storeVars, Sending
<1>3. CASE Refuses(c) \/ Unsynced(c) \/ Tells(c)
  <2>1. acked' = acked /\ finals' = finals
    BY <1>3, MoveHistory DEF Acknowledged, Finalizes, Refuses, Unsynced, Tells
  <2> QED
    BY <1>1, <1>3, <2>1 DEF Refuses, Unsynced, Tells, Sending
<1>4. CASE Acknowledged(c)
  <2>1. /\ acked' = acked \/ acked' = acked \cup {att[c]} 
        /\ finals' = finals /\ sends' = sends
    BY <1>4, MoveHistory DEF Acknowledged, Finalizes
  <2>2. att[c] \in acked'
    <3>1. HeldBy(c)
      BY <1>4 DEF Acknowledged, SyncOK, Shape, Holder
    <3> QED
      BY <1>4, <3>1 DEF Acknowledged, SyncOK, HeldBy
  <2>3. Unsent(att[c])
    BY <1>0, <1>4 DEF Acknowledged, Sending, SendInv, Unsent
  <2>4. \A d \in Clients : pc[d] = "admitting" => d = c
    BY <1>4 DEF Acknowledged, Shape, Holder, Holding
  <2>5. Sending(c)'
    BY <1>4, <2>1, <2>2, <2>3 DEF Acknowledged, Sending, Unsent
  <2> QED
    BY <1>1, <1>4, <2>1, <2>4, <2>5 DEF Acknowledged
<1>5. CASE Admits(c)
  <2>1. PICK n \in Nat : n = Len(issued) + 1
    BY DEF Shape, TypeInv, StoreTypeOK
  <2>2. att'[c] = n /\ n \notin Attempts /\ pc'[c] = "admitting"
    BY <1>5, <2>1 DEF Admits, Attempts, Shape, TypeInv, StoreTypeOK
  <2>3. acked' = acked /\ finals' = finals /\ sends' = sends
    BY <1>5, MoveHistory DEF Admits, Acknowledged, Finalizes
  <2>4. \A d \in Clients : att[d] = 0 \/ att[d] \in Attempts
    BY <1>0 DEF MyCall
  <2>5. Distinct'
    BY <1>0, <2>2, <2>4, <2>1 DEF SendInv, Distinct
  <2>6. Sending(c)'
    BY <1>0, <2>2, <2>3 DEF Sending
  <2>7. \A d \in Clients : d # c => Sending(d)'
    BY <1>0, <2>3 DEF Sending, Said, Unsent
  <2> QED
    BY <2>3, <2>5, <2>6, <2>7 DEF SendInv, AtMostOnce, Said
<1>6. CASE Delivers(c)
  <2> DEFINE last == [attempt |-> att[c], status |-> answer'[c]]
  <2>1. PICK n \in Nat : n = Len(sends) + 1
    BY <1>0
  <2>2. /\ sends' = Append(sends, last) /\ acked' = acked /\ finals' = finals
        /\ att'[c] = att[c] /\ pc'[c] = "finalize"
        /\ att[c] \in acked /\ Unsent(att[c]) /\ att[c] # 0
    BY <1>0, <1>6 DEF Delivers, storeVars, Sending, MyCall
  <2>3. /\ DOMAIN sends' = DOMAIN sends \cup {n} /\ n \notin DOMAIN sends
        /\ sends'[n] = last
        /\ \A i \in DOMAIN sends : sends'[i] = sends[i]
    BY <1>0, <2>1, <2>2
  <2>4. \A i \in DOMAIN sends' : sends'[i].attempt \in acked'
    BY <2>2, <2>3 DEF SendInv
  <2>5. AtMostOnce'
    BY <2>2, <2>3 DEF SendInv, AtMostOnce, Unsent
  <2>6. Distinct'
    BY <1>0, <2>2 DEF SendInv, Distinct
  <2>7. \A a, status : Said(a, status) => Said(a, status)'
    BY <2>3 DEF Said
  <2>8. Said(att[c], answer[c])'
    BY <2>2, <2>3 DEF Said
  <2>9. Sending(c)'
    BY <2>2, <2>8 DEF Sending
  <2>10. ASSUME NEW d \in Clients, d # c
         PROVE  Sending(d)'
    <3>1. pc'[d] = pc[d] /\ att'[d] = att[d] /\ answer'[d] = answer[d] /\ Sending(d) /\ MyCall(d)
      BY <1>0, <2>10
    <3>2. pc[d] = "deliver" => att[d] # att[c]
      BY <2>2, <2>10, <3>1 DEF SendInv, Distinct
    <3>3. pc[d] = "deliver" => Unsent(att[d])'
      BY <2>2, <2>3, <3>1, <3>2 DEF Sending, Unsent
    <3> QED
      BY <2>2, <2>7, <3>1, <3>3 DEF Sending
  <2> QED
    BY <2>2, <2>4, <2>5, <2>6, <2>7, <2>9, <2>10 DEF SendInv
<1>7. CASE Finalizes(c)
  <2>1. /\ acked' = acked /\ sends' = sends /\ pc'[c] = "finalizing"
        /\ att'[c] = att[c] /\ answer'[c] = answer[c] /\ Said(att[c], answer[c])
        /\ finals' = finals \/ finals' = finals \cup {<<att[c], answer[c]>>}
    BY <1>0, <1>7, MoveHistory DEF Finalizes, Acknowledged, Sending
  <2>2. \A f \in finals' : Said(f[1], f[2])
    BY <2>1 DEF SendInv
  <2>3. \A d \in Clients : Sending(d)'
    BY <1>0, <2>1 DEF Sending, Said, Unsent
  <2>4. Distinct'
    BY <1>0, <2>1 DEF SendInv, Distinct
  <2> QED
    BY <2>1, <2>2, <2>3, <2>4 DEF SendInv, AtMostOnce, Said
<1> QED
  BY <1>2, <1>3, <1>4, <1>5, <1>6, <1>7 DEF Moved

LEMMA SendNext == Shape /\ SendInv /\ [ServiceNext]_vars => SendInv'
<1> SUFFICES ASSUME Shape, SendInv, [ServiceNext]_vars PROVE SendInv'
  OBVIOUS
<1>1. CASE Idles
  BY <1>1, SendQuiet DEF Idles, storeVars, Tick, history
<1>2. CASE Dies
  <2>1. UNCHANGED <<sends, acked, finals>>
    BY <1>2 DEF Dies, Restart, storeVars, HolderCrash, EndUnsynced, PowerLoss, history
  <2>2. \A c \in Clients :
           \/ pc'[c] = pc[c] /\ att'[c] = att[c] /\ answer'[c] = answer[c]
           \/ pc'[c] \notin {"admitting", "deliver", "finalize", "finalizing"} /\ att'[c] = 0
    BY <1>2 DEF Dies, Restart
  <2> QED
    BY <2>1, <2>2, SendQuiet
<1> QED
  BY <1>1, <1>2, SendMoved, Movements

\* No attempt is handed to the port twice, whichever calls, processes and crashes
\* follow (Service.Notify: delivery is invoked at most once after durable admission).
THEOREM SentAtMostOnce == ServiceSpec => []AtMostOnce
<1>1. SendInv => AtMostOnce
  BY DEF SendInv
<1> QED
  BY <1>1, ShapeInit, ShapeNext, SendInit, SendNext, PTL DEF ServiceSpec

-----------------------------------------------------------------------------
(* Receipts.  A status in a receipt was answered by the port, and a receipt    *)
(* that calls a retry safe left nothing behind.                               *)

Honest(c) ==
  pc[c] = "done" =>
    /\ receipt[c].retrySafe => att[c] = 0
    /\ receipt[c].reason = "delivered" => Said(receipt[c].attempt, receipt[c].status)

LEMMA HonestInit == ServiceInit => \A c \in Clients : Honest(c)
BY DEF ServiceInit, Honest

LEMMA HonestNext ==
  ASSUME Shape, RecordInv, SendInv, [ServiceNext]_vars,
         \A c \in Clients : Honest(c), NEW c \in Clients
  PROVE  Honest(c)'
<1>1. /\ Honest(c) /\ MyCall(c) /\ Sending(c)
      /\ sends \in Seq(Sends)
  BY DEF Shape, SendInv, CallType
<1>2. ASSUME NEW a, NEW status, Said(a, status), ~Dies
      PROVE  Said(a, status)'
  <2>1. CASE sends' = sends
    BY <1>2, <2>1 DEF Said
  <2>2. CASE sends' # sends
    <3>1. PICK e : sends' = Append(sends, e)
      <4>1. PICK d \in Clients : Delivers(d)
        BY <1>2, <2>2, Movements
        DEF Idles, Moved, Waits, TurnedAway, Admits, Refuses, Acknowledged, Unsynced, GivesUp,
            Finalizes, Tells, Frees, Mute
      <4> QED
        BY <4>1 DEF Delivers
    <3> QED
      BY <1>1, <1>2, <3>1 DEF Said
  <2> QED
    BY <2>1, <2>2
<1>3. CASE pc'[c] = pc[c] /\ att'[c] = att[c] /\ receipt'[c] = receipt[c] /\ ~Dies
  <2>1. Said(receipt[c].attempt, receipt[c].status)
          => Said(receipt[c].attempt, receipt[c].status)'
    <3>1. PICK a, status : a = receipt[c].attempt /\ status = receipt[c].status
      OBVIOUS
    <3>2. Said(a, status) => Said(a, status)'
      BY <1>2, <1>3
    <3>3. Said(a, status)' => Said(receipt[c].attempt, receipt[c].status)'
      BY <1>3, <3>1 DEF Said
    <3> QED
      BY <3>1, <3>2, <3>3
  <2> QED
    BY <1>1, <1>3, <2>1 DEF Honest
<1>4. CASE Dies
  BY <1>1, <1>4 DEF Dies, Restart, Honest, Said
<1>5. CASE Idles
  BY <1>3, <1>4, <1>5 DEF Idles
<1>6. ASSUME NEW d \in Clients, Moved(d), d # c
      PROVE  Honest(c)'
  BY <1>3, <1>4, <1>6 DEF Moved, Others
<1>7. CASE Moved(c)
  <2> USE DEF Moves, SameCall, Mute
  <2>1. CASE pc'[c] # "done"
    BY <2>1 DEF Honest
  <2>2. CASE TurnedAway(c)
    <3>1. att[c] = 0 /\ att'[c] = 0 /\ sends' = sends
      BY <1>1, <2>2 DEF TurnedAway, MyCall, Unadmitted
    <3>2. CASE receipt'[c] \in {Refused, Conflicting, AdmitError}
      BY <3>1, <3>2 DEF Honest, Refused, Conflicting, AdmitError, Receipt
    <3>3. CASE receipt'[c] \in Replays
      <4>1. PICK k \in Present(visible.records) : receipt'[c] = Replay(visible.records[k])
        BY <3>3 DEF Replays
      <4>2. PICK r : r = visible.records[k]
        OBVIOUS
      <4>3. r.state # Dispatching => Said(r.attempt, r.state)
        <5>1. OwnRecord(visible, k)
          BY <4>1 DEF RecordInv, Present
        <5> QED
          BY <4>1, <4>2, <5>1 DEF OwnRecord, SendInv, Present
      <4>4. /\ ~receipt'[c].retrySafe
            /\ receipt'[c].reason = "delivered" =>
                 /\ r.state # Dispatching
                 /\ receipt'[c].attempt = r.attempt /\ receipt'[c].status = r.state
        BY <4>1, <4>2 DEF Replay, Receipt
      <4> QED
        BY <3>1, <4>3, <4>4 DEF Honest, Said
    <3> QED
      BY <2>2, <3>2, <3>3 DEF TurnedAway
  <2>3. CASE Unsynced(c)
    BY <2>3 DEF Unsynced, Honest, AdmitError, Unfinalized, Receipt
  <2>4. CASE GivesUp(c)
    BY <2>4 DEF GivesUp, Honest, Pending, Unfinalized, Receipt
  <2>5. CASE Tells(c)
    <3>1. Said(att[c], answer[c]) /\ sends' = sends
      BY <1>1, <2>5 DEF Tells, Sending
    <3>2. /\ ~receipt'[c].retrySafe
          /\ receipt'[c].attempt = att[c] /\ receipt'[c].status = answer[c]
      BY <2>5 DEF Tells, Delivered, Receipt
    <3> QED
      BY <3>1, <3>2 DEF Honest, Said
  <2>6. CASE \/ Waits(c) \/ Admits(c) \/ Refuses(c) \/ Acknowledged(c) \/ Delivers(c)
             \/ Finalizes(c) \/ Frees(c)
    BY <2>1, <2>6 DEF Waits, Admits, Refuses, Acknowledged, Delivers, Finalizes, Frees
  <2> QED
    BY <1>7, <2>2, <2>3, <2>4, <2>5, <2>6 DEF Moved
<1> QED
  BY <1>4, <1>5, <1>6, <1>7, Movements

\* What holds of the service whatever the clock does.
Honesty == Shape /\ RecordInv /\ SendInv /\ \A c \in Clients : Honest(c)

LEMMA HonestyInv == ServiceSpec => []Honesty
<1>1. ServiceInit => Honesty
  BY ShapeInit, RecordInit, SendInit, HonestInit DEF ServiceInit, Honesty
<1>2. Honesty /\ [ServiceNext]_vars => Honesty'
  <2> SUFFICES ASSUME Honesty, [ServiceNext]_vars PROVE Honesty'
    OBVIOUS
  <2>1. Shape' /\ SendInv'
    BY ShapeNext, SendNext DEF Honesty
  <2>2. RecordInv'
    BY StepIsStore, RecordNext DEF Honesty, Shape
  <2>3. \A c \in Clients : Honest(c)'
    BY HonestNext DEF Honesty
  <2> QED
    BY <2>1, <2>2, <2>3 DEF Honesty
<1> QED
  BY <1>1, <1>2, PTL DEF ServiceSpec

\* A terminal status in any receipt, replayed or not, was answered by the port for
\* that attempt (service.go: replay of the record, terminal after finalization).
THEOREM TruthfulReceipts == ServiceSpec => []ReceiptsTruthful
<1>1. Honesty => ReceiptsTruthful
  BY DEF Honesty, Honest, Said, ReceiptsTruthful
<1> QED
  BY <1>1, HonestyInv, PTL

\* A call told that a retry is safe has put nothing into the journal, not even a
\* rename whose directory sync failed.
THEOREM SafeRetries == ServiceSpec => []RetrySafeIsSafe
<1>1. Honesty => RetrySafeIsSafe
  BY DEF Honesty, Honest, RetrySafeIsSafe
<1> QED
  BY <1>1, HonestyInv, PTL

-----------------------------------------------------------------------------
(* A status that was told is the one every snapshot shows for its attempt:     *)
(* while a finalization waits for its sync the visible snapshot shows it, and  *)
(* no call that could finalize the attempt again is left.                      *)

Shows(d, a, status) ==
  \A k \in Keys : d.records[k] # NoRecord /\ d.records[k].attempt = a
                    => d.records[k].state = status

Over(a) == a \in Attempts /\ \A c \in Clients : att[c] = a => pc[c] = "done"

Stable(t) == Over(t[1]) /\ Shows(visible, t[1], t[2]) /\ Shows(durable, t[1], t[2])

Finalizing(c) == pc[c] = "finalizing" => Shows(visible, att[c], answer[c])

ToldInv == (\A t \in told : Stable(t)) /\ \A c \in Clients : Finalizing(c)

LEMMA ToldInit == ServiceInit => ToldInv
BY DEF ServiceInit, ToldInv, Finalizing

\* Records that a transaction leaves behind: old ones, or one for `a`.
LEMMA ShowsKept ==
  ASSUME NEW d, NEW e, NEW b, NEW a, NEW status, a # b, Shows(d, a, status),
         \A k \in Keys :
           \/ e.records[k] = NoRecord
           \/ e.records[k] = d.records[k]
           \/ e.records[k].attempt = b
  PROVE  Shows(e, a, status)
BY DEF Shows

\* What a move of c does to the visible records.
LEMMA MoveRecords ==
  ASSUME Shape, NEW c \in Clients, Moved(c)
  PROVE  /\ durable' = durable \/ durable' = visible
         /\ \/ visible' = visible
            \/ /\ Admits(c) \/ Refuses(c) \/ Finalizes(c)
               /\ \A k \in Keys :
                    \/ visible'.records[k] = NoRecord
                    \/ visible'.records[k] = visible.records[k]
                    \/ Admits(c) /\ visible'.records[k].attempt = Len(issued) + 1
                    \/ Finalizes(c) /\ visible'.records[k].attempt = att[c]
<1> USE DEF Moves, SameCall, Mute, machine, history
<1>0. visible.records \in [Keys -> Records \cup {NoRecord}]
  BY DEF Shape, TypeInv, StoreTypeOK, Disks
<1>1. CASE Waits(c) \/ TurnedAway(c) \/ GivesUp(c) \/ Frees(c) \/ Delivers(c)
  BY <1>1 DEF Waits, TurnedAway, GivesUp, Frees, Delivers, storeVars
<1>2. CASE Acknowledged(c) \/ Unsynced(c) \/ Tells(c)
  BY <1>2 DEF Acknowledged, Unsynced, Tells, SyncOK, SyncFail, EndUnsynced
<1>3. CASE Admits(c)
  <2>1. PICK digest \in Digests, rates \in RatePolicies, x \in CurrentSamples :
          AdmitFresh(c, call[c].key, digest, rates, x)
    BY <1>3 DEF Admits
  <2>2. PICK fresh : /\ fresh.attempt = Len(issued) + 1
                     /\ visible'.records = [AdmitRecords(visible, x) EXCEPT ![call[c].key] = fresh]
    <3>1. NewRecord(call[c].key, digest, Len(issued) + 1, AdmitClock(visible, x).logical).attempt
            = Len(issued) + 1
      BY DEF NewRecord
    <3> QED
      BY <2>1, <3>1 DEF AdmitFresh, Rename, AdmittedDisk
  <2>3. durable' = durable
    BY <2>1 DEF AdmitFresh
  <2> QED
    BY <1>0, <1>3, <2>2, <2>3 DEF AdmitRecords, Collected
<1>4. CASE Refuses(c)
  <2>1. PICK rates \in RatePolicies, x \in CurrentSamples :
          AdmitRefused(c, call[c].key, rates, x)
    BY <1>4 DEF Refuses
  <2>2. visible'.records = AdmitRecords(visible, x) /\ durable' = durable
    BY <2>1 DEF AdmitRefused, Rename, CollectedDisk, RateDisk
  <2> QED
    BY <1>4, <2>2 DEF AdmitRecords, Collected
<1>5. CASE Finalizes(c)
  <2>1. /\ visible'.records =
             [visible.records EXCEPT ![call[c].key] = Settled(visible.records[call[c].key], answer[c])]
        /\ visible.records[call[c].key].attempt = att[c]
        /\ visible.records[call[c].key] # NoRecord
        /\ durable' = durable
    BY <1>5 DEF Finalizes, Finalize, Rename, FinalizedDisk, Finalizable
  <2>2. ASSUME NEW k \in Keys, k = call[c].key
        PROVE  visible'.records[k].attempt = att[c]
    <3>1. visible.records[k] \in Records /\ visible.records[k].attempt = att[c]
      BY <1>0, <2>1, <2>2
    <3>2. Settled(visible.records[k], answer[c]).attempt = att[c]
      BY <3>1 DEF Settled, Records
    <3> QED
      BY <1>0, <2>1, <2>2, <3>2
  <2> QED
    BY <1>0, <1>5, <2>1, <2>2
<1> QED
  BY <1>1, <1>2, <1>3, <1>4, <1>5 DEF Moved

\* A finalization shows its status in the visible snapshot, for every record of
\* its attempt: there is one only, since a record is of its own attempt's key.
LEMMA FinalizedShows ==
  ASSUME Shape, RecordInv, NEW c \in Clients, Finalizes(c)
  PROVE  Shows(visible, att[c], answer[c])'
<1>1. PICK k \in Keys, a \in Attempts, status \in Statuses :
        /\ k = call[c].key /\ a = att[c] /\ status = answer[c] /\ issued[a].key = k
        /\ pc[c] = "finalize"
  <2>1. MyCall(c) /\ pc[c] = "finalize"
    BY DEF Shape, Finalizes, Moves
  <2>2. pc[c] \in Inside
    BY <2>1 DEF Inside
  <2> QED
    BY <2>1, <2>2, HeldType DEF MyCall
<1>2. /\ visible'.records = [visible.records EXCEPT ![k] = Settled(visible.records[k], status)]
      /\ visible.records \in [Keys -> Records \cup {NoRecord}]
      /\ visible.records[k] # NoRecord
      /\ att'[c] = a /\ answer'[c] = status
  BY <1>1 DEF Finalizes, Finalize, Rename, FinalizedDisk, Finalizable, SameCall, Shape, TypeInv,
              StoreTypeOK, Disks
<1>3. Settled(visible.records[k], status).state = status
  <2>1. visible.records[k] \in Records
    BY <1>2
  <2> QED
    BY <2>1 DEF Settled, Records
<1>4. ASSUME NEW j \in Keys, visible'.records[j] # NoRecord, visible'.records[j].attempt = a
      PROVE  visible'.records[j].state = status
  <2>1. CASE j = k
    BY <1>2, <1>3, <2>1
  <2>2. CASE j # k
    <3>1. visible.records[j] # NoRecord /\ visible.records[j].attempt = a
      BY <1>2, <1>4, <2>2
    <3>2. issued[a].key = j
      BY <3>1 DEF RecordInv, OwnRecord
    <3> QED
      BY <1>1, <2>2, <3>2
  <2> QED
    BY <2>1, <2>2
<1> QED
  BY <1>2, <1>4 DEF Shows

LEMMA ToldMoved ==
  ASSUME Shape, RecordInv, SendInv, ToldInv, NEW c \in Clients, Moved(c),
         [ServiceNext]_vars
  PROVE  ToldInv'
<1> USE DEF Moves, SameCall, Mute
<1>0. /\ \A d \in Clients : d # c => pc'[d] = pc[d] /\ att'[d] = att[d] /\ answer'[d] = answer[d]
      /\ \A d \in Clients : MyCall(d)
      /\ Attempts \subseteq Attempts'
      /\ Len(issued) + 1 \notin Attempts /\ issued \in Seq(Admissions)
  BY StepIsStore, IssuedStable DEF Moved, Others, Shape, TypeInv, StoreTypeOK, Attempts
\* What is over stays over: no call takes up an old attempt, none that is done goes on.
<1>1. ASSUME NEW a, Over(a)
      PROVE  Over(a)'
  <2>1. a \in Attempts /\ a \in Attempts'
    BY <1>0, <1>1 DEF Over
  <2>2. att'[c] = a => pc'[c] = "done"
    <3>1. CASE Admits(c)
      BY <1>0, <2>1, <3>1 DEF Admits
    <3>2. CASE Frees(c)
      <4>1. a # 0
        BY <2>1 DEF Attempts
      <4> QED
        BY <3>2, <4>1 DEF Frees
    <3>3. CASE Waits(c) \/ TurnedAway(c)
      BY <1>1, <3>3 DEF Waits, TurnedAway, Over
    <3>4. CASE Refuses(c) \/ Acknowledged(c) \/ Unsynced(c) \/ Delivers(c)
      BY <1>1, <3>4 DEF Refuses, Acknowledged, Unsynced, Delivers, Over
    <3>5. CASE GivesUp(c) \/ Finalizes(c) \/ Tells(c)
      BY <1>1, <3>5 DEF GivesUp, Finalizes, Tells, Over
    <3> QED
      BY <3>1, <3>2, <3>3, <3>4, <3>5 DEF Moved
  <2> QED
    BY <1>0, <1>1, <2>1, <2>2 DEF Over
\* What the visible snapshot shows of an attempt, it shows until a call finalizes it.
<1>2. ASSUME NEW a \in Attempts, NEW status, Shows(visible, a, status),
             Finalizes(c) => a # att[c]
      PROVE  Shows(visible', a, status)
  <2>1. CASE visible' = visible
    BY <1>2, <2>1
  <2>2. CASE visible' # visible
    <3>1. CASE Admits(c)
      <4>1. \A k \in Keys :
              \/ visible'.records[k] = NoRecord
              \/ visible'.records[k] = visible.records[k]
              \/ visible'.records[k].attempt = Len(issued) + 1
        BY <2>2, <3>1, MoveRecords DEF Admits, Finalizes
      <4>2. a # Len(issued) + 1
        BY <1>0, <1>2
      <4> QED
        BY <1>2, <4>1, <4>2 DEF Shows
    <3>2. CASE Refuses(c)
      <4>1. \A k \in Keys : visible'.records[k] = NoRecord \/ visible'.records[k] = visible.records[k]
        BY <2>2, <3>2, MoveRecords DEF Refuses, Admits, Finalizes
      <4> QED
        BY <1>2, <4>1 DEF Shows
    <3>3. CASE Finalizes(c)
      <4>1. \A k \in Keys :
              \/ visible'.records[k] = NoRecord
              \/ visible'.records[k] = visible.records[k]
              \/ visible'.records[k].attempt = att[c]
        BY <2>2, <3>3, MoveRecords DEF Admits, Finalizes
      <4> QED
        BY <1>2, <3>3, <4>1, ShowsKept
    <3> QED
      BY <2>2, <3>1, <3>2, <3>3, MoveRecords
  <2> QED
    BY <2>1, <2>2
<1>3. ASSUME NEW t \in told PROVE Stable(t)'
  <2>1. Over(t[1]) /\ Shows(visible, t[1], t[2]) /\ Shows(durable, t[1], t[2])
    BY DEF ToldInv, Stable
  <2>2. Finalizes(c) => t[1] # att[c]
    BY <2>1 DEF Over, Finalizes
  <2>3. Shows(visible', t[1], t[2])
    BY <1>2, <2>1, <2>2 DEF Over
  <2>4. Shows(durable', t[1], t[2])
    BY <2>1, MoveRecords
  <2>5. Over(t[1])'
    <3>1. PICK a : a = t[1]
      OBVIOUS
    <3> QED
      BY <1>1, <2>1, <3>1 DEF Over
  <2> QED
    BY <2>3, <2>4, <2>5 DEF Stable, Shows
<1>4. ASSUME Tells(c), NEW t, t = <<att[c], answer[c]>>
      PROVE  Stable(t)'
  <2>1. PICK a \in Attempts : a = att[c] /\ a # 0
    BY <1>0, <1>4 DEF Tells, MyCall
  <2>2. PICK status : status = answer[c]
    OBVIOUS
  <2>3. Shows(visible, a, status)
    BY <1>4, <2>1, <2>2 DEF Tells, ToldInv, Finalizing
  <2>4. visible' = visible /\ durable' = visible
    BY <1>4 DEF Tells, SyncOK
  <2>5. Over(a)'
    <3>1. \A d \in Clients : d # c => att'[d] # a
      BY <1>0, <2>1 DEF SendInv, Distinct
    <3>2. att'[c] = a /\ pc'[c] = "done"
      BY <1>4, <2>1 DEF Tells
    <3> QED
      BY <1>0, <2>1, <3>1, <3>2 DEF Over
  <2> QED
    BY <1>4, <2>1, <2>2, <2>3, <2>4, <2>5 DEF Stable, Shows
<1>5. told' = told \/ (Tells(c) /\ told' = told \cup {<<att[c], answer[c]>>})
  BY DEF Moved, Waits, TurnedAway, Admits, Refuses, Acknowledged, Unsynced, Delivers, GivesUp,
         Finalizes, Tells, Frees
<1>6. \A t \in told' : Stable(t)'
  BY <1>3, <1>4, <1>5
<1>7. ASSUME NEW d \in Clients PROVE Finalizing(d)'
  <2>1. CASE d # c
    <3>1. SUFFICES ASSUME pc'[d] = "finalizing" PROVE Shows(visible', att'[d], answer'[d])
      BY DEF Finalizing, Shows
    <3>2. pc[d] = "finalizing" /\ att'[d] = att[d] /\ answer'[d] = answer[d]
      BY <1>0, <2>1, <3>1
    <3>3. Shows(visible, att[d], answer[d]) /\ att[d] \in Attempts /\ att[d] # 0
      BY <1>0, <3>2 DEF ToldInv, Finalizing, MyCall
    <3>4. att[d] # att[c]
      BY <2>1, <3>3 DEF SendInv, Distinct
    <3> QED
      BY <1>2, <3>2, <3>3, <3>4
  <2>2. CASE d = c
    <3>1. CASE Finalizes(c)
      <4>1. Shows(visible, att[c], answer[c])'
        BY <3>1, FinalizedShows
      <4> QED
        BY <2>2, <4>1 DEF Finalizing
    <3>2. CASE ~Finalizes(c)
      <4>1. pc'[c] # "finalizing"
        BY <3>2 DEF Moved, Waits, TurnedAway, Admits, Refuses, Acknowledged, Unsynced, Delivers,
                    GivesUp, Tells, Frees
      <4> QED
        BY <2>2, <4>1 DEF Finalizing
    <3> QED
      BY <3>1, <3>2
  <2> QED
    BY <2>1, <2>2
<1> QED
  BY <1>6, <1>7 DEF ToldInv

LEMMA ToldNext ==
  ASSUME Shape, RecordInv, SendInv, ToldInv, [ServiceNext]_vars
  PROVE  ToldInv'
<1>1. CASE Idles
  BY <1>1 DEF Idles, storeVars, Tick, history, ToldInv, Stable, Over, Shows, Finalizing, Attempts
<1>2. CASE Dies
  <2>1. /\ told' = told /\ issued' = issued
        /\ visible' \in {visible, durable} /\ durable' \in {visible, durable}
        /\ \A d \in Clients :
             \/ pc'[d] = pc[d] /\ att'[d] = att[d] /\ answer'[d] = answer[d] /\ visible' = visible
             \/ pc'[d] = "idle" /\ att'[d] = 0
    BY <1>2, ServiceAssumption DEF Dies, Restart, storeVars, HolderCrash, EndUnsynced, PowerLoss, machine, history
  <2>2. ASSUME NEW t \in told PROVE Stable(t)'
    <3>1. Stable(t) /\ t[1] \in Attempts /\ t[1] # 0
      BY DEF ToldInv, Stable, Over, Attempts
    <3>2. Over(t[1])'
      BY <2>1, <3>1 DEF Stable, Over, Attempts
    <3> QED
      BY <2>1, <3>1, <3>2 DEF Stable, Shows
  <2>3. ASSUME NEW d \in Clients PROVE Finalizing(d)'
    BY <2>1 DEF ToldInv, Finalizing, Shows
  <2> QED
    BY <2>1, <2>2, <2>3 DEF ToldInv
<1> QED
  BY <1>1, <1>2, ToldMoved, Movements

\* Once its caller was told a terminal status, the journal never shows another for
\* that attempt, also after a power loss: the status is told after the sync.
THEOREM ToldStable == ServiceSpec => []ToldIsStable
<1>1. ToldInv => ToldIsStable
  BY DEF ToldInv, Stable, Shows, ToldIsStable, Present
<1>2. ServiceInit => ToldInv
  BY ToldInit
<1>3. Honesty /\ ToldInv /\ [ServiceNext]_vars => ToldInv'
  BY ToldNext DEF Honesty
<1> QED
  BY <1>1, <1>2, <1>3, HonestyInv, PTL DEF ServiceSpec

-----------------------------------------------------------------------------
(* The service implements IdempotentDelivery, if the boot clock never falls    *)
(* behind a sample it gave: then the journal remembers (JournalProofs), and    *)
(* admissions of one key are spaced.                                          *)

Entry(a) == [attempt |-> a, key |-> issued[a].key, at |-> issued[a].real]
Ledger   == {Entry(a) : a \in acked}
Awaiting == {att[c] : c \in {d \in Clients : pc[d] = "deliver"}}
Handed   == {sends[i].attempt : i \in DOMAIN sends}

Promising == Shape /\ SendInv /\ MemoryInv /\ SpacedInv

LEMMA PromisingInv ==
  ASSUME ~ClockRegresses
  PROVE  ServiceSpec => []Promising
<1>1. ServiceInit => Promising
  BY ShapeInit, SendInit, MemoryInit, SpacedInit DEF ServiceInit, Promising
<1>2. Promising /\ [ServiceNext]_vars => Promising'
  <2> SUFFICES ASSUME Promising, [ServiceNext]_vars PROVE Promising'
    OBVIOUS
  <2>1. Shape' /\ SendInv'
    BY ShapeNext, SendNext DEF Promising
  <2>2. TypeInv /\ [StoreNext]_storeVars
    BY StepIsStore DEF Promising, Shape
  <2>3. Remembered
    BY <2>2, MemoryRemembers DEF Promising
  <2>4. MemoryInv'
    BY <2>2, MemoryNext DEF Promising
  <2>5. SpacedInv'
    BY <2>2, <2>3, SpacedNext DEF Promising
  <2> QED
    BY <2>1, <2>4, <2>5 DEF Promising
<1> QED
  BY <1>1, <1>2, PTL DEF ServiceSpec

\* Two deliveries for one key are a retention of real time apart: a retry, a twin
\* in another process and a call after a crash replay (service.go:84 and Admit).
THEOREM NoResendEarly ==
  ASSUME ~ClockRegresses
  PROVE  ServiceSpec => []NoEarlyResend
<1>1. Promising => NoEarlyResend
  <2> SUFFICES ASSUME Promising, NEW i \in DOMAIN sends, NEW j \in DOMAIN sends,
                      sends[i].attempt < sends[j].attempt,
                      issued[sends[i].attempt].key = issued[sends[j].attempt].key
               PROVE  issued[sends[j].attempt].real - issued[sends[i].attempt].real
                        >= Retention * TicksPerSecond
    BY DEF NoEarlyResend
  <2>1. sends[i].attempt \in acked /\ sends[j].attempt \in Attempts
    BY DEF Promising, SendInv, Shape, TypeInv, StoreTypeOK
  <2> QED
    BY <2>1 DEF Promising, SpacedInv, Spaced
<1> QED
  BY <1>1, PromisingInv, PTL

\* The entry of the attempt whose admission is being acknowledged is new, its
\* attempt too, and it is late enough.
LEMMA NewEntry ==
  ASSUME Promising, NEW c \in Clients, Acknowledged(c)
  PROVE  /\ Entry(att[c]) \in Promise!Entry
         /\ acked' = acked \cup {att[c]} /\ att[c] \notin acked
         /\ \A f \in Ledger : f.attempt # att[c]
         /\ \A f \in Ledger :
              f.key = Entry(att[c]).key
                => Entry(att[c]).at - f.at >= Retention * TicksPerSecond
<1>1. PICK n : n = att[c] /\ n = Len(issued) /\ n \in Attempts /\ acked' = acked \cup {n}
               /\ n \notin acked
  <2>1. HeldBy(c) /\ pc[c] = "admitting"
    BY DEF Acknowledged, SyncOK, Promising, Shape, Holder, Moves
  <2>2. Admitting /\ writer.attempt = att[c]
    BY <2>1 DEF HeldBy, Admitting, Acknowledged, SyncOK
  <2>3. att[c] = Len(issued) /\ att[c] \in Attempts
    BY <2>2 DEF Promising, Shape, TypeInv, StoreTypeOK, NewestAdmitting, Attempts
  <2> QED
    BY <2>2, <2>3 DEF Acknowledged, SyncOK, Admitting, Promising, SpacedInv
<1>2. /\ issued \in Seq(Admissions) /\ total \in Nat /\ acked \subseteq Attempts
      /\ Len(issued) \in Nat
  BY DEF Promising, Shape, TypeInv, StoreTypeOK
<1>3. issued[n].key \in Keys /\ issued[n].real \in Nat /\ issued[n].real <= MaxTicks
      /\ n \in 1 .. MaxAttempts
  <2>1. issued[n] \in Admissions
    BY <1>1, <1>2 DEF Attempts
  <2>2. issued[n].real <= total /\ total <= MaxTicks /\ Len(issued) <= MaxAttempts
    BY <1>1 DEF Promising, SpacedInv
  <2> QED
    BY <1>1, <1>2, <2>1, <2>2, StoreAssumption DEF Admissions, Attempts
<1>4. Entry(n) \in Promise!Entry
  <2>1. issued[n].real \in 0 .. MaxTicks
    BY <1>3, StoreAssumption
  <2> QED
    BY <1>3, <2>1 DEF Entry, Promise!Entry
<1>5. ASSUME NEW f \in Ledger
      PROVE  /\ f.attempt # n
             /\ f.key = Entry(n).key => Entry(n).at - f.at >= Retention * TicksPerSecond
  <2>1. PICK a \in acked : f = Entry(a)
    BY DEF Ledger
  <2>2. a \in Attempts /\ a < n
    BY <1>1, <1>2, <2>1 DEF Attempts
  <2> QED
    BY <1>1, <2>1, <2>2 DEF Entry, Promising, SpacedInv, Spaced
<1> QED
  BY <1>1, <1>4, <1>5

\* A move that neither acknowledges nor delivers abandons at most.
LEMMA Abandons ==
  ASSUME Shape, SendInv, [ServiceNext]_vars, acked' = acked, sends' = sends,
         \A c \in Clients : pc'[c] = "deliver" => pc[c] = "deliver" /\ att'[c] = att[c]
  PROVE  Promise!Abandon
<1>1. Awaiting' \subseteq Awaiting
  BY DEF Awaiting
<1>2. Ledger' = Ledger
  <2>1. \A a \in acked : issued'[a] = issued[a]
    BY StepIsStore, IssuedStable DEF Shape, TypeInv, StoreTypeOK
  <2> QED
    BY <2>1 DEF Ledger, Entry
<1>3. Handed' = Handed
  BY DEF Handed
<1> QED
  BY <1>1, <1>2, <1>3 DEF Promise!Abandon, Awaiting, Ledger, Handed, Entry

LEMMA PromiseAcknowledged ==
  ASSUME Promising, [ServiceNext]_vars, NEW c \in Clients, Moved(c), Acknowledged(c)
  PROVE  Promise!PromiseNext
<1> DEFINE e == Entry(att[c])
<1>1. /\ e \in Promise!Entry /\ acked' = acked \cup {att[c]}
      /\ \A f \in Ledger : f.attempt # e.attempt
      /\ \A f \in Ledger : f.key = e.key => e.at - f.at >= Retention * TicksPerSecond
  BY NewEntry DEF Entry
<1>2. Ledger' = Ledger \cup {e}
  <2>1. issued' = issued
    BY DEF Acknowledged, SyncOK
  <2> QED
    BY <1>1, <2>1 DEF Ledger, Entry
<1>3. Awaiting' = Awaiting \cup {e.attempt}
  <2>1. /\ \A d \in Clients : d # c => pc'[d] = pc[d] /\ att'[d] = att[d]
        /\ pc[c] = "admitting" /\ pc'[c] = "deliver" /\ att'[c] = att[c]
    BY DEF Moved, Others, Acknowledged, Moves, SameCall
  <2>2. e.attempt = att[c]
    BY DEF Entry
  <2> HIDE DEF e
  <2> QED
    BY <2>1, <2>2 DEF Awaiting
<1>4. Handed' = Handed
  BY DEF Acknowledged, Mute, Handed
<1> HIDE DEF e
<1>5. PICK f \in Promise!Entry : f = e
  BY <1>1
<1>6. Promise!Acknowledge(f)
  BY <1>1, <1>2, <1>3, <1>4, <1>5 DEF Promise!Acknowledge, Ledger, Awaiting, Handed, Entry
<1> QED
  BY <1>6 DEF Promise!PromiseNext

LEMMA PromiseDelivered ==
  ASSUME Promising, [ServiceNext]_vars, NEW c \in Clients, Moved(c), Delivers(c)
  PROVE  Promise!PromiseNext
<1>1. PICK a : a = att[c]
  OBVIOUS
<1>2. /\ \A d \in Clients : d # c => pc'[d] = pc[d] /\ att'[d] = att[d]
      /\ pc[c] = "deliver" /\ pc'[c] = "finalize" /\ att'[c] = att[c] /\ att[c] # 0
      /\ Unsent(a) /\ sends \in Seq(Sends)
      /\ sends' = Append(sends, [attempt |-> a, status |-> answer'[c]])
      /\ UNCHANGED <<acked, issued>>
  BY <1>1 DEF Moved, Others, Delivers, Moves, Promising, SendInv, Sending, Shape, MyCall,
              CallType, storeVars
<1>3. a \in Awaiting /\ a \notin Handed
  BY <1>1, <1>2 DEF Awaiting, Handed, Unsent
<1>4. Awaiting' = Awaiting \ {a}
  <2>1. \A d \in Clients : d # c => att[d] # a
    BY <1>1, <1>2 DEF Promising, SendInv, Distinct
  <2> QED
    BY <1>1, <1>2, <2>1 DEF Awaiting
<1>5. Handed' = Handed \cup {a}
  <2>1. PICK n \in Nat : n = Len(sends) + 1
    BY <1>2
  <2>2. /\ DOMAIN sends' = DOMAIN sends \cup {n}
        /\ sends'[n].attempt = a
        /\ \A i \in DOMAIN sends : sends'[i] = sends[i]
    BY <1>2, <2>1
  <2> QED
    BY <2>2 DEF Handed
<1>6. Ledger' = Ledger
  BY <1>2 DEF Ledger, Entry
<1>7. Promise!HandOver(a)
  BY <1>3, <1>4, <1>5, <1>6 DEF Promise!HandOver, Ledger, Awaiting, Handed, Entry
<1> QED
  BY <1>3, <1>7 DEF Promise!PromiseNext, Awaiting

LEMMA PromiseStep ==
  ASSUME Promising, [ServiceNext]_vars
  PROVE  [Promise!PromiseNext]_(Promise!promiseVars)
<1>0. Shape /\ SendInv
  BY DEF Promising
<1>1. CASE Idles
  <2>1. acked' = acked /\ sends' = sends /\ pc' = pc /\ att' = att
    BY <1>1 DEF Idles, storeVars, Tick, history
  <2> QED
    BY <1>0, <2>1, Abandons DEF Promise!PromiseNext
<1>2. CASE Dies
  <2>1. acked' = acked /\ sends' = sends
    BY <1>2 DEF Dies, Restart, storeVars, HolderCrash, EndUnsynced, PowerLoss, history
  <2>2. \A c \in Clients : pc'[c] = "deliver" => pc[c] = "deliver" /\ att'[c] = att[c]
    BY <1>2 DEF Dies, Restart
  <2> QED
    BY <1>0, <2>1, <2>2, Abandons DEF Promise!PromiseNext
<1>3. ASSUME NEW c \in Clients, Moved(c)
      PROVE  Promise!PromiseNext
  <2>1. CASE Acknowledged(c)
    BY <1>3, <2>1, PromiseAcknowledged
  <2>2. CASE Delivers(c)
    BY <1>3, <2>2, PromiseDelivered
  <2>3. CASE ~Acknowledged(c) /\ ~Delivers(c)
    <3>1. acked' = acked
      BY <1>0, <1>3, <2>3, MoveHistory
    <3>2. sends' = sends /\ pc'[c] # "deliver"
      BY <1>3, <2>3 DEF Moved, Waits, TurnedAway, Admits, Refuses, Unsynced, GivesUp, Finalizes,
                        Tells, Frees, Moves, Mute
    <3>3. \A d \in Clients : pc'[d] = "deliver" => pc[d] = "deliver" /\ att'[d] = att[d]
      BY <1>3, <3>2 DEF Moved, Others
    <3> QED
      BY <1>0, <3>1, <3>2, <3>3, Abandons DEF Promise!PromiseNext
  <2> QED
    BY <2>1, <2>2, <2>3
<1> QED
  BY <1>0, <1>1, <1>2, <1>3, Movements

\* The service keeps its promise: an acknowledged attempt is handed over once or
\* abandoned, and a key is acknowledged once per retention of real time.
THEOREM ServiceKeepsPromise ==
  ASSUME ~ClockRegresses
  PROVE  ServiceSpec => KeepsPromise
<1>1. ServiceInit => Promise!PromiseInit
  BY DEF ServiceInit, StoreInit, Promise!PromiseInit
<1>2. Promising /\ [ServiceNext]_vars => [Promise!PromiseNext]_(Promise!promiseVars)
  BY PromiseStep
<1> QED
  BY <1>1, <1>2, PromisingInv, PTL DEF ServiceSpec, KeepsPromise, Promise!PromiseSpec
=============================================================================
