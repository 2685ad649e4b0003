-------------------------- MODULE InstallTransaction --------------------------
(***************************************************************************)
(* The shared installation: an ownership ledger (ownership.json), the      *)
(* generation fence deliveries read (policy-generation.json), the user's   *)
(* policy document, the managed files and the native callback bundles.     *)
(* Commit changes them as one transaction under the component lock, with a *)
(* redo journal (transaction.json) that any later Commit replays:          *)
(*                                                                         *)
(*   decide -> write -> check -> revoke -> promote -> publish <-> rename   *)
(*          -> ledger (-> clean) -> policy -> unlink                       *)
(*                                                                         *)
(* A process may stop, by a crash or an error, before every one of these   *)
(* steps; the kernel then releases its lock.  Users and other programs edit *)
(* the files without a lock, at any time.  A delivery holds the same lock  *)
(* for its handoff.                                                        *)
(*                                                                         *)
(* The policy generation and the installation generation move together and *)
(* are one counter here.  The config locks are taken inside the component  *)
(* lock by the same processes and add nothing to it.  Content stands for a *)
(* fingerprint: bytes, mode or link.                                       *)
(***************************************************************************)
EXTENDS Naturals, FiniteSets

CONSTANTS
  Writers,       \* processes that call Commit
  Readers,       \* processes that deliver a notification
  Assets,        \* the managed file paths
  Keepers,       \* the assets a managed writer runs from (managedWriter)
  Policy,        \* the path of agent-notifications.json
  Versions,      \* contents the product ships
  Edits,         \* contents somebody else may write to an asset
  Consumers,
  Natives,       \* native bundle identities
  Menu,          \* the requests that may be made
  None,          \* an absent file, record or choice
  Nobody,        \* holder of the free lock
  MaxGen,        \* bound: no request is made from this generation on
  MaxEdits,      \* bound: edits by others
  MaxStops       \* bound: interruptions of a writer

Paths == Assets \cup {Policy}
On == "on"
Off == "off"
Contents == Versions \cup Edits \cup {On, Off, None}
AnyGeneration == None

\* The request kinds; "discard" is what is left of one that ended.
Kinds == {"install", "remove", "policy", "reserve", "clear", "recover", "rollback", "discard"}

\* Functions on some of the elements of S.
Partial(S, V) == UNION {[T -> V] : T \in SUBSET S}

Reservations == {None} \cup {m.reservation : m \in Menu}
Bundles == Natives \cup {None}
Fences == [gen : Nat, on : BOOLEAN]
Ledgers ==
  [gen : Nat, on : BOOLEAN, consumers : SUBSET Consumers, files : [Assets -> Versions \cup {None}],
   native : Bundles, pending : Reservations]
Requests ==
  [kind : Kinds, consumer : Consumers, files : Partial(Assets, Versions \cup {None}),
   was : Partial(Assets, Contents), on : BOOLEAN, reservation : Reservations, purge : BOOLEAN,
   gen : Nat \cup {AnyGeneration}, policy : Contents, native : Bundles, active : Bundles]
Transactions ==
  [before : Ledgers, after : Ledgers, files : Partial(Paths, [was : Contents, will : Contents]),
   native : [kind : {"none", "promote", "purge", "hold"}, bundle : Bundles], rollback : BOOLEAN]

ASSUME InstallAssumption ==
  /\ Policy \notin Assets
  /\ Keepers \subseteq Assets
  /\ None \notin Versions \cup Edits \cup Natives \cup Nat
  /\ None \notin Fences \cup Ledgers \cup Transactions
  /\ Versions \cap Edits = {}
  /\ Nobody \notin Writers \cup Readers
  /\ Writers \cap Readers = {}
  /\ \A m \in Menu :
       /\ m.kind \in Kinds \ {"discard"}
       /\ m.consumer \in Consumers
       /\ m.files \in Partial(Assets, Versions \cup {None})
       /\ {m.bundle, m.on, m.purge, m.fenced} \subseteq BOOLEAN

VARIABLES
  disk,       \* the content at each path
  ledger,     \* ownership.json
  fence,      \* policy-generation.json
  journal,    \* transaction.json, or None
  live,       \* published native bundles
  staged,     \* staged native candidates
  holder,     \* the process that holds the component lock
  step,       \* where the holder is
  request,    \* of each writer: the request it has staged, or None
  plan,       \* the decision the holder has not written yet, or None
  own,        \* the holder carries out its own request, not a pending one
  todo,       \* paths the holder has still to publish
  seen,       \* the path and content the holder's last fingerprint showed
  snapshot,   \* of each reader: the installation it observed, or None
  edits, stops,
  origin,     \* history: the pending decision as it was first written, and its
              \* request, or None
  touched,    \* history: paths edited since the installation was last whole there
  drift       \* history: paths edited since the pending decision captured them

disks   == <<disk, ledger, fence, journal, live, staged>>
locals  == <<holder, step, request, plan, own, todo, seen>>
history == <<edits, stops, origin, touched, drift>>
vars    == <<disks, locals, snapshot, history>>

NoNative == [kind |-> "none", bundle |-> None]
NoPath == [path |-> None, content |-> None]

InstallInit ==
  /\ disk = [p \in Paths |-> None]
  /\ ledger = [gen |-> 0, on |-> FALSE, consumers |-> {},
               files |-> [p \in Assets |-> None], native |-> None, pending |-> None]
  /\ fence = None
  /\ journal = None
  /\ live = {} /\ staged = {}
  /\ holder = Nobody /\ step = "idle"
  /\ request = [w \in Writers |-> None]
  /\ plan = None /\ own = FALSE /\ todo = {} /\ seen = NoPath
  /\ snapshot = [d \in Readers |-> None]
  /\ edits = 0 /\ stops = 0
  /\ origin = None /\ touched = {} /\ drift = {}

Owned == {p \in Assets : ledger.files[p] # None}

\* The native bundles an uninstall may still have to delete are those published
\* in the record: the active one and every earlier generation.
NativePresent(l) == l.native # None => l.native \in live

\* checkPolicyGeneration
FenceMatches ==
  IF fence = None THEN ledger.gen = 0
  ELSE fence = [gen |-> ledger.gen, on |-> ledger.on]

-----------------------------------------------------------------------------
(* Staging, before the lock: the adapter fingerprints its targets, reads the *)
(* ledger and copies the native candidate.                                   *)

\* A candidate's name is new: no record, request or journal has it.
Named ==
  live \cup staged \cup {ledger.native}
  \cup (UNION {{request[v].native, request[v].active} : v \in {u \in Writers : request[u] # None}})
  \cup (IF journal = None THEN {} ELSE {journal.before.native, journal.native.bundle})

Stage(w, m) ==
  /\ request[w] = None
  /\ holder # w
  /\ m.kind \in {"recover", "rollback"} \/ ledger.gen < MaxGen
  /\ \E n \in IF m.bundle THEN Natives \ Named ELSE {None} :
       /\ staged' = staged \cup ({n} \ {None})
       /\ request' = [request EXCEPT ![w] =
            [kind |-> m.kind, consumer |-> m.consumer, files |-> m.files,
             was |-> [p \in DOMAIN m.files |-> disk[p]],
             on |-> m.on, reservation |-> m.reservation, purge |-> m.purge,
             gen |-> IF m.fenced THEN ledger.gen ELSE AnyGeneration,
             policy |-> disk[Policy],
             native |-> n, active |-> ledger.native]]
  /\ UNCHANGED <<disk, ledger, fence, journal, live, holder, step, plan, own, todo,
                 seen, snapshot, history>>

Lock(w) ==
  /\ holder = Nobody
  /\ request[w] # None
  /\ holder' = w
  /\ step' = IF request[w].kind = "discard" THEN "discard" ELSE "decide"
  /\ own' = FALSE
  /\ UNCHANGED <<disks, request, plan, todo, seen, snapshot, history>>

\* What is left of a request that ended: an unused candidate its owner discards.
Leftover(r) ==
  IF r.native = None \/ r.kind = "discard" THEN None ELSE [r EXCEPT !.kind = "discard"]

Release(w, left) ==
  /\ holder' = Nobody
  /\ step' = "idle"
  /\ request' = [request EXCEPT ![w] = left]
  /\ plan' = None /\ own' = FALSE /\ todo' = {} /\ seen' = NoPath

\* Commit returns, with a result or a refusal.
Return(w) ==
  /\ Release(w, Leftover(request[w]))
  /\ UNCHANGED <<disks, snapshot, history>>

\* The deadline of the lock wait.
GiveUp(w) ==
  /\ request[w] # None
  /\ holder # w
  /\ holder # Nobody
  /\ request' = [request EXCEPT ![w] = Leftover(@)]
  /\ UNCHANGED <<disks, holder, step, plan, own, todo, seen, snapshot, history>>

-----------------------------------------------------------------------------
(* The decision of an ordinary request.                                      *)

Disabling(r) == r.kind = "policy" /\ ~r.on /\ r.reservation = None

ReservationAllows(r) ==
  \/ ledger.pending = None
  \/ Disabling(r)
  \/ r.reservation = ledger.pending

\* Managed files must be as the ledger has them; a missing one may be replaced.
Unaltered(r) ==
  \A p \in Owned :
    \/ disk[p] = ledger.files[p]
    \/ p \in DOMAIN r.files /\ disk[p] = None

\* Mutant of StagedUnchanged: the targets' fingerprints are not compared again.
StagedUnchangedUnread(r) == TRUE

StagedUnchanged(r) == \A p \in DOMAIN r.files : disk[p] = r.was[p]

\* "Native purge requires final consumer removal".
PurgeAllowed(r) == r.purge => r.kind = "remove" /\ ledger.consumers \subseteq {r.consumer}

Admitted(r) ==
  /\ ReservationAllows(r)
  /\ r.kind = "clear" => ledger.pending # None /\ r.reservation = ledger.pending
  /\ Disabling(r) \/ NativePresent(ledger)
  /\ r.kind = "policy" => ledger.consumers # {}
  /\ r.kind = "reserve" => ledger.gen > 0
  /\ r.kind = "remove" => r.consumer \in ledger.consumers \/ r.purge
  /\ PurgeAllowed(r)
  /\ r.gen \in {AnyGeneration, ledger.gen}
  /\ Unaltered(r)
  /\ r.kind = "policy" => r.policy = disk[Policy]
  /\ r.native # None => r.active = ledger.native
  /\ StagedUnchanged(r)

NextConsumers(r) ==
  CASE r.kind = "install" -> ledger.consumers \cup {r.consumer}
    [] r.kind = "remove" -> ledger.consumers \ {r.consumer}
    [] OTHER -> ledger.consumers

Final(r) == r.kind = "remove" /\ NextConsumers(r) = {}

NextOn(r) ==
  /\ NextConsumers(r) # {}
  /\ IF r.kind = "policy" THEN r.on ELSE disk[Policy] = On

\* Mutant of NextPending: a request without the reservation drops it.
NextPendingDropped(r) == IF r.kind = "clear" THEN None ELSE r.reservation

NextPending(r) ==
  CASE r.kind = "clear" -> None
    [] r.reservation # None -> r.reservation
    [] OTHER -> ledger.pending

NativeChange(r) ==
  CASE r.purge /\ ledger.native # None -> [kind |-> "purge", bundle |-> ledger.native]
    [] r.native # None -> [kind |-> "promote", bundle |-> r.native]
    [] OTHER -> NoNative

\* What the request makes of each path it writes.
Targets(r) ==
  DOMAIN r.files \cup (IF r.kind = "policy" \/ Final(r) THEN {Policy} ELSE {})
                 \cup (IF Final(r) THEN Owned ELSE {})

Target(r, p) ==
  CASE p = Policy -> IF NextOn(r) THEN On ELSE Off
    [] p \in DOMAIN r.files -> r.files[p]
    [] OTHER -> None

Changes(r) == [p \in Targets(r) |-> [was |-> disk[p], will |-> Target(r, p)]]

NextLedger(r) ==
  [gen |-> ledger.gen + 1, on |-> NextOn(r), consumers |-> NextConsumers(r),
   files |-> [p \in Assets |-> IF p \in Targets(r) THEN Target(r, p) ELSE ledger.files[p]],
   native |-> CASE NativeChange(r).kind = "purge" -> None
                [] NativeChange(r).kind = "promote" -> r.native
                [] OTHER -> ledger.native,
   pending |-> NextPending(r)]

Transaction(r) ==
  [before |-> ledger, after |-> NextLedger(r), files |-> Changes(r),
   native |-> NativeChange(r), rollback |-> FALSE]

-----------------------------------------------------------------------------
(* The reversal of a pending decision: a decision of its own, each file back *)
(* to the bytes captured for it, nothing enabled.  A published bundle stays,  *)
(* a published writer stays.                                                 *)

AsBeforeOrAfter(t, p) == disk[p] \in {t.files[p].was, t.files[p].will}

Kept(t) == {p \in DOMAIN t.files \cap Keepers : t.files[p].was = None /\ disk[p] # None}

\* Mutant of Undo: a file goes back to what the ledger had, not to its bytes.
UndoToLedger(t, p) ==
  [was |-> disk[p], will |-> IF p = Policy THEN t.files[p].was ELSE t.before.files[p]]

Undo(t, p) == [was |-> disk[p], will |-> t.files[p].was]

Reversible(t) ==
  /\ ledger \in {t.before, t.after}
  /\ t.native.kind # "purge"
  /\ t.native.kind = "promote" /\ t.native.bundle \notin live => NativePresent(t.before)
  /\ \A p \in DOMAIN t.files : AsBeforeOrAfter(t, p)

Reversal(t) ==
  LET native == IF t.native.kind = "promote" /\ t.native.bundle \in live
                THEN t.native.bundle ELSE t.before.native
  IN [before |-> ledger,
      after |-> [t.before EXCEPT !.on = FALSE, !.gen = t.after.gen + 1, !.native = native,
                   !.files = [p \in Assets |-> IF p \in Kept(t) THEN disk[p] ELSE @[p]]],
      files |-> [p \in DOMAIN t.files \ Kept(t) |-> Undo(t, p)],
      native |-> IF t.native.kind = "promote" /\ native # None
                 THEN [kind |-> "hold", bundle |-> native] ELSE NoNative,
      rollback |-> TRUE]

Planned(w, t) ==
  /\ plan' = t
  /\ own' = TRUE
  /\ step' = "write"
  /\ drift' = {}
  /\ UNCHANGED <<disks, holder, request, todo, seen, snapshot, edits, stops, origin, touched>>

\* Without a journal: a fresh decision, after the fence has been compared.
Decide(w) ==
  /\ holder = w /\ step = "decide"
  /\ journal = None
  /\ IF FenceMatches /\ request[w].kind \notin {"recover", "rollback"} /\ Admitted(request[w])
     THEN Planned(w, Transaction(request[w]))
     ELSE Return(w)

\* Mutant of ToReverse: a reversal is reversed.
ToReverseAgain(w) == request[w].kind = "rollback"

ToReverse(w) == request[w].kind = "rollback" /\ ~journal.rollback

\* With a journal: it is replayed first, reversed on request, and left to an
\* installer by a policy change.
Resume(w) ==
  /\ holder = w /\ step = "decide"
  /\ journal # None
  /\ \/ request[w].kind = "policy" /\ Return(w)
     \/ /\ ToReverse(w)
        /\ IF Reversible(journal) THEN Planned(w, Reversal(journal)) ELSE Return(w)
     \/ /\ request[w].kind # "policy"
        /\ ~ToReverse(w)
        /\ step' = "check"
        /\ own' = (request[w].kind \in {"recover", "rollback"})
        /\ UNCHANGED <<disks, holder, request, plan, todo, seen, snapshot, history>>

WriteJournal(w) ==
  /\ holder = w /\ step = "write"
  /\ journal' = plan
  /\ origin' = IF plan.rollback THEN origin ELSE 
             [before |-> plan.before, files |-> plan.files, request |-> request[w]]
  /\ plan' = None
  /\ step' = "check"
  /\ UNCHANGED <<disk, ledger, fence, live, staged, holder, request, own, todo, seen,
                 snapshot, edits, stops, touched, drift>>

-----------------------------------------------------------------------------
(* recoverTransaction, for the holder's own decision and for a pending one.  *)

\* boundedPolicyRevocation: a plain disabling, which asks nothing of a bundle.
Bounded(t) ==
  /\ ~t.rollback /\ t.native = NoNative
  /\ DOMAIN t.files = {Policy}
  /\ t.before.consumers # {}
  /\ t.after = [t.before EXCEPT !.gen = @ + 1, !.on = FALSE]

NativeReady(t) ==
  CASE t.native.kind = "promote" ->
         \/ t.native.bundle \in live
         \/ t.native.bundle \in staged /\ NativePresent(t.before)
    [] t.native.kind = "hold" -> t.native.bundle \in live
    [] t.native.kind = "purge" -> TRUE
    [] OTHER -> Bounded(t) \/ NativePresent(t.after)

Recoverable(t) ==
  /\ ledger \in {t.before, t.after}
  /\ \A p \in DOMAIN t.files : AsBeforeOrAfter(t, p)
  /\ NativeReady(t)

Check(w) ==
  /\ holder = w /\ step = "check"
  /\ IF Recoverable(journal)
     THEN /\ step' = "revoke"
          /\ UNCHANGED <<disks, holder, request, plan, own, todo, seen, snapshot, history>>
     ELSE Return(w)

\* Mutant of Revoke: files are replaced under an enabled fence.
RevokeSkipped(w) ==
  /\ holder = w /\ step = "revoke"
  /\ step' = "promote"
  /\ UNCHANGED <<disks, holder, request, plan, own, todo, seen, snapshot, history>>

Revoke(w) ==
  /\ holder = w /\ step = "revoke"
  /\ fence' = [gen |-> journal.after.gen, on |-> FALSE]
  /\ step' = "promote"
  /\ UNCHANGED <<disk, ledger, journal, live, staged, holder, request, plan, own, todo,
                 seen, snapshot, history>>

Promote(w) ==
  /\ holder = w /\ step = "promote"
  /\ LET n == journal.native.bundle
     IN CASE journal.native.kind = "promote" /\ n \notin live ->
               live' = live \cup {n} /\ staged' = staged \ {n}
          [] journal.native.kind = "purge" -> live' = live \ {n} /\ UNCHANGED staged
          [] OTHER -> UNCHANGED <<live, staged>>
  /\ step' = "publish"
  /\ todo' = DOMAIN journal.files
  /\ UNCHANGED <<disk, ledger, fence, journal, holder, request, plan, own, seen, snapshot,
                 history>>

\* safePublish compares the content once more ...
Publish(w, p) ==
  /\ holder = w /\ step = "publish"
  /\ p \in todo
  /\ CASE disk[p] = journal.files[p].will ->
            /\ todo' = todo \ {p}
            /\ UNCHANGED <<disks, holder, step, request, plan, own, seen, snapshot, history>>
       [] disk[p] # journal.files[p].will /\ disk[p] = journal.files[p].was ->
            /\ seen' = [path |-> p, content |-> disk[p]]
            /\ step' = "rename"
            /\ UNCHANGED <<disks, holder, request, plan, own, todo, snapshot, history>>
       [] OTHER -> Return(w)

\* ... and then renames or unlinks, whatever is there by now.
Rename(w) ==
  /\ holder = w /\ step = "rename"
  /\ disk' = [disk EXCEPT ![seen.path] = journal.files[seen.path].will]
  /\ todo' = todo \ {seen.path}
  /\ seen' = NoPath
  /\ step' = "publish"
  /\ UNCHANGED <<ledger, fence, journal, live, staged, holder, request, plan, own, snapshot,
                 history>>

\* Mutant of WriteLedger: the marker goes before the final policy.
WriteLedgerLast(w) ==
  /\ holder = w /\ step = "publish"
  /\ todo = {}
  /\ ledger' = journal.after
  /\ step' = "unlink"
  /\ UNCHANGED <<disk, fence, journal, live, staged, holder, request, plan, own, todo, seen,
                 snapshot, history>>

WriteLedger(w) ==
  /\ holder = w /\ step = "publish"
  /\ todo = {}
  /\ ledger' = journal.after
  /\ step' = IF journal.native.kind = "purge" THEN "clean" ELSE "policy"
  /\ UNCHANGED <<disk, fence, journal, live, staged, holder, request, plan, own, todo, seen,
                 snapshot, history>>

\* cleanupPurgedNative: the renamed bundle and every retained generation.
Clean(w) ==
  /\ holder = w /\ step = "clean"
  /\ live' = {}
  /\ step' = "policy"
  /\ UNCHANGED <<disk, ledger, fence, journal, staged, holder, request, plan, own, todo, seen,
                 snapshot, history>>

FinalPolicy(w) ==
  /\ holder = w /\ step = "policy"
  /\ fence' = [gen |-> journal.after.gen, on |-> journal.after.on]
  /\ step' = "unlink"
  /\ UNCHANGED <<disk, ledger, journal, live, staged, holder, request, plan, own, todo, seen,
                 snapshot, history>>

\* The marker is gone: the holder returns, or goes on with its own request.
Unlink(w) ==
  /\ holder = w /\ step = "unlink"
  /\ journal' = None
  /\ origin' = None
  /\ touched' = {p \in touched \cap Owned : disk[p] # ledger.files[p]}
  /\ IF own THEN Release(w, Leftover(request[w]))
     ELSE /\ step' = "decide"
          /\ UNCHANGED <<holder, request, plan, own, todo, seen>>
  /\ UNCHANGED <<disk, ledger, fence, live, staged, snapshot, edits, stops, drift>>

-----------------------------------------------------------------------------
\* Mutant of Discard: the pending journal is not consulted.
DiscardUnasked(w) ==
  /\ holder = w /\ step = "discard"
  /\ staged' = staged \ {request[w].native}
  /\ Release(w, None)
  /\ UNCHANGED <<disk, ledger, fence, journal, live, snapshot, history>>

\* DiscardNative, unless a journal or the record refers to the candidate.
Discard(w) ==
  /\ holder = w /\ step = "discard"
  /\ staged' = IF journal # None /\ journal.native = [kind |-> "promote", bundle |-> request[w].native]
               THEN staged ELSE staged \ {request[w].native}
  /\ Release(w, None)
  /\ UNCHANGED <<disk, ledger, fence, journal, live, snapshot, history>>

\* The holder stops, by an error it returns or by a crash that takes its request.
Stop(w) ==
  /\ holder = w
  /\ stops < MaxStops
  /\ stops' = stops + 1
  /\ \E left \in {None, Leftover(request[w])} : Release(w, left)
  /\ UNCHANGED <<disks, snapshot, edits, origin, touched, drift>>

\* Somebody else writes or deletes an asset, or flips the policy by hand.
Edit(p, c) ==
  /\ edits < MaxEdits
  /\ c \in IF p = Policy THEN {On, Off} ELSE Edits \cup {None}
  /\ disk[p] # c
  /\ disk' = [disk EXCEPT ![p] = c]
  /\ edits' = edits + 1
  /\ touched' = touched \cup {p}
  /\ drift' = drift \cup {p}
  /\ UNCHANGED <<ledger, fence, journal, live, staged, locals, snapshot, stops, origin>>

-----------------------------------------------------------------------------
(* A delivery reads the installation without the lock, and takes the lock for *)
(* its handoff if nothing has changed.                                       *)

Whole ==
  /\ journal = None
  /\ FenceMatches
  /\ \A p \in Owned : disk[p] = ledger.files[p]
  /\ NativePresent(ledger)

Observation == [ledger |-> ledger, on |-> ledger.on /\ disk[Policy] = On]

Observe(d) ==
  /\ holder # d
  /\ Whole
  /\ Observation.on
  /\ snapshot[d] # Observation
  /\ snapshot' = [snapshot EXCEPT ![d] = Observation]
  /\ UNCHANGED <<disks, locals, history>>

\* Mutant of LeaseValid: a lease compares the enablement only.
LeaseEnabledOnly(d) == Whole /\ Observation.on

LeaseValid(d) == Whole /\ Observation = snapshot[d] /\ Observation.on

Lease(d) ==
  /\ holder = Nobody
  /\ snapshot[d] # None
  /\ LeaseValid(d)
  /\ holder' = d
  /\ step' = "handoff"
  /\ UNCHANGED <<disks, request, plan, own, todo, seen, snapshot, history>>

\* The handoff is over, or its process is.
Delivered(d) ==
  /\ holder = d
  /\ holder' = Nobody
  /\ step' = "idle"
  /\ snapshot' = [snapshot EXCEPT ![d] = None]
  /\ UNCHANGED <<disks, request, plan, own, todo, seen, history>>

InstallNext ==
  \/ \E w \in Writers :
       \/ \E m \in Menu : Stage(w, m)
       \/ Lock(w) \/ GiveUp(w) \/ Decide(w) \/ Resume(w) \/ WriteJournal(w)
       \/ Check(w) \/ Revoke(w) \/ Promote(w) \/ \E p \in Paths : Publish(w, p)
       \/ Rename(w) \/ WriteLedger(w) \/ Clean(w) \/ FinalPolicy(w) \/ Unlink(w)
       \/ Discard(w) \/ Stop(w)
  \/ \E p \in Paths, c \in Contents : Edit(p, c)
  \/ \E d \in Readers : Observe(d) \/ Lease(d) \/ Delivered(d)

InstallSpec == InstallInit /\ [][InstallNext]_vars

-----------------------------------------------------------------------------
Steps == {"idle", "decide", "write", "check", "revoke", "promote", "publish", "rename",
          "clean", "policy", "unlink", "discard", "handoff"}

(* Every stored record is well formed, the generation counts up from zero, no   *)
(* bundle is published and a candidate at once, and a process that is somewhere *)
(* in Commit holds the component lock.                                          *)
InstallTypeOK ==
  /\ disk \in [Paths -> Contents]
  /\ ledger \in Ledgers
  /\ fence \in Fences \cup {None}
  /\ journal \in Transactions \cup {None}
  /\ live \subseteq Natives /\ staged \subseteq Natives /\ live \cap staged = {}
  /\ holder \in Writers \cup Readers \cup {Nobody}
  /\ step \in Steps
  /\ holder = Nobody <=> step = "idle"
  /\ holder \in Readers <=> step = "handoff"
  /\ request \in [Writers -> Requests \cup {None}]
  /\ plan \in Transactions \cup {None}
  /\ step = "write" <=> plan # None
  /\ own \in BOOLEAN
  /\ todo \subseteq Paths
  /\ seen.path \in Paths \cup {None}
  /\ snapshot \in [Readers -> [ledger : Ledgers, on : BOOLEAN] \cup {None}]
  /\ touched \subseteq Paths /\ drift \subseteq Paths

(* The fence says "enabled" only over one complete generation: while it does,  *)
(* the ledger, every managed file nobody else has edited and the native bundle *)
(* are those of the generation it names, journal or not.                       *)
EnabledIsWhole ==
  fence # None /\ fence.on =>
    /\ ledger.gen = fence.gen /\ ledger.on
    /\ \A p \in Owned \ touched : disk[p] = ledger.files[p]
    /\ NativePresent(ledger)

(* Without a journal there is nothing ambiguous to repair: Commit never comes  *)
(* to "policy/ledger mismatch without transaction" or to a changed file nobody *)
(* edited.                                                                     *)
SettledIsWhole ==
  journal = None =>
    /\ FenceMatches
    /\ \A p \in Owned \ touched : disk[p] = ledger.files[p]
    /\ NativePresent(ledger)

(* However a decision was interrupted, its journal can be replayed, unless     *)
(* somebody has since edited a file it changes.                                *)
Replayable ==
  journal # None =>
    /\ ledger \in {journal.before, journal.after}
    /\ \A p \in DOMAIN journal.files \ drift : AsBeforeOrAfter(journal, p)
    /\ NativeReady(journal)

(* A handoff runs from the installation the delivery observed, complete and    *)
(* enabled.                                                                    *)
HandoffFenced ==
  \A d \in Readers : holder = d =>
    /\ journal = None
    /\ ledger = snapshot[d].ledger
    /\ fence = [gen |-> ledger.gen, on |-> TRUE]

(* What somebody else wrote to an asset is overwritten only by a request that  *)
(* saw it when it was staged, or within the last fingerprint and its rename.   *)
EditsKept ==
  [][\A p \in Assets :
       disk[p] \in Edits /\ disk'[p] # disk[p] /\ edits' = edits =>
         \/ p \in DOMAIN origin.request.was /\ origin.request.was[p] = disk[p]
         \/ seen = [path |-> p, content |-> seen.content] /\ seen.content # disk[p]]_vars

(* A reversed decision leaves every file it had published as it was captured, *)
(* but for a new writer binary, which it keeps, and for later edits.          *)
UndoneIsAsBefore ==
  [][journal # None /\ journal.rollback /\ journal' = None =>
       \A p \in DOMAIN origin.files \ drift :
         \/ disk[p] = origin.files[p].was
         \/ p \in Keepers /\ origin.files[p].was = None]_vars

\* The installation as it was last complete.
Settled == IF journal = None THEN ledger ELSE origin.before

(* A reservation ends only with the request that clears it.                   *)
ReservationSticks ==
  [][Settled.pending # None /\ Settled'.pending # Settled.pending =>
       origin.request.kind = "clear" /\ origin.request.reservation = Settled.pending]_vars

(* A published callback bundle disappears only with an explicit purge, when   *)
(* no consumer is left but the one that asks for it.                          *)
CallbacksKept ==
  [][\/ live \subseteq live'
     \/ origin.request.purge /\ ledger'.consumers \subseteq {origin.request.consumer}]_vars

(* The transaction implements the promise of InstallPromise.                  *)
Promise == INSTANCE InstallPromise WITH
  Generations <- Ledgers,
  Nowhere     <- None,
  installed   <- Settled,
  goal        <- IF journal = None THEN None ELSE journal.after,
  undoing     <- journal # None /\ journal.rollback

KeepsPromise == Promise!PromiseSpec
=============================================================================
