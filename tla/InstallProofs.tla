----------------------------- MODULE InstallProofs -----------------------------
(***************************************************************************)
(* Proofs about InstallTransaction, for any writers, readers, assets and   *)
(* menu of requests, any number of generations, edits and interruptions.   *)
(*                                                                         *)
(* InstallInv follows a decision from its plan to its last step.  Sound    *)
(* says what a decision claims of the paths it leaves alone and of the     *)
(* bundle it relies on; it is true when the decision is made, and stays    *)
(* true because nobody but the holder changes anything, other than edits,  *)
(* which are recorded in touched.  Progress says what has been done of it  *)
(* at each step.  Together they carry "the installation is one whole       *)
(* generation" from one settled state to the next.                         *)
(*                                                                         *)
(* Replaying adds that what an interrupted decision needs is still there;  *)
(* Promised, Purging and Faithful relate the pending decision to the       *)
(* request it came from: the history variable origin is what the action    *)
(* properties compare it with.                                             *)
(***************************************************************************)
EXTENDS InstallTransaction, TLAPS

Working == {"check", "revoke", "promote", "publish", "rename", "clean", "policy", "unlink"}

\* The files of a ledger are there, but for those edited since.
FilesAre(l) == \A p \in Assets \ touched : l.files[p] # None => disk[p] = l.files[p]

\* Outside the paths a decision writes, the files are those of its after image,
\* and what it writes leads there.
Leads(t) ==
  /\ \A p \in Assets \ touched : t.after.files[p] # None =>
       IF p \in DOMAIN t.files THEN t.files[p].will = t.after.files[p]
       ELSE disk[p] = t.after.files[p]
  /\ ~t.rollback => \A p \in Assets :
       IF p \in DOMAIN t.files
       THEN /\ t.files[p].will \in Versions \cup {None}
            /\ p \notin touched /\ t.before.files[p] # None => t.files[p].was = t.before.files[p]
       ELSE t.after.files[p] = t.before.files[p]

\* The bundle the after image names is there, or is the one to be promoted.
Backed(t) ==
  CASE t.native.kind = "promote" -> t.native.bundle # None /\ t.after.native = t.native.bundle
    [] t.native.kind = "purge" -> t.after.native = None /\ ~t.rollback
    [] t.native.kind = "hold" -> /\ t.native.bundle \in live /\ t.after.native = t.native.bundle
                                 /\ t.rollback
    [] OTHER -> /\ t.native = NoNative /\ NativePresent(t.after)
                /\ ~t.rollback => t.after.native = t.before.native

Sound(t) == t.after.gen > 0 /\ Leads(t) /\ Backed(t)

\* What has been done of the pending decision at each step of its holder.
Progress ==
  /\ step \in Working => journal # None
  /\ step \in {"promote", "publish", "rename", "clean", "policy"} =>
       fence = [gen |-> journal.after.gen, on |-> FALSE]
  /\ step = "unlink" => fence = [gen |-> journal.after.gen, on |-> journal.after.on]
  /\ step \in {"publish", "rename"} =>
       /\ todo \subseteq DOMAIN journal.files
       /\ \A p \in DOMAIN journal.files \ (todo \cup touched) : disk[p] = journal.files[p].will
       /\ NativePresent(journal.after)
  /\ step = "rename" => seen.path \in todo
  /\ step = "clean" => journal.native.kind = "purge"
  /\ step \in {"clean", "policy", "unlink"} =>
       ledger = journal.after /\ FilesAre(ledger) /\ NativePresent(ledger)

\* A process that works on a request has one, and an enabled ledger has a generation.
Grounded ==
  /\ holder \in Writers => request[holder] # None
  /\ ledger.on => ledger.gen > 0

Decisions ==
  /\ journal # None => Sound(journal)
  /\ plan # None => Sound(plan) /\ plan.before = ledger

InstallInv ==
  /\ InstallTypeOK /\ Grounded /\ Progress /\ Decisions
  /\ SettledIsWhole /\ EnabledIsWhole /\ HandoffFenced

-----------------------------------------------------------------------------
\* A decision can be carried out: its files are as captured or as wanted, and
\* the bundle to be promoted is still a candidate or is published already.
Ready(t) ==
  /\ \A p \in DOMAIN t.files \ drift : AsBeforeOrAfter(t, p)
  /\ t.native.kind = "promote" =>
       t.native.bundle \in live \/ (t.native.bundle \in staged /\ NativePresent(t.before))

\* A request that has not ended, and whose decision is not the holder's own.
Waiting(w) == request[w] # None /\ request[w].kind # "discard" /\ ~(holder = w /\ own)

\* Candidates belong to one request each, and are there until it has ended.
Candidates ==
  /\ \A w \in Writers : Waiting(w) /\ request[w].native # None =>
       /\ request[w].native \in staged
       /\ journal # None => journal.native # [kind |-> "promote", bundle |-> request[w].native]
  /\ \A v, w \in Writers :
       v # w /\ request[v] # None /\ request[w] # None /\ request[v].native # None =>
         request[v].native # request[w].native
  /\ plan # None =>
       /\ own
       /\ plan.native.kind = "promote" => plan.native.bundle = request[holder].native
  /\ step \in Working \cup {"decide", "write"} => request[holder].kind # "discard"
  /\ step = "decide" => ~own

Replaying ==
  /\ Candidates
  /\ journal # None => ledger \in {journal.before, journal.after} /\ Ready(journal)
  /\ plan # None => Ready(plan)

\* A decision is the next generation of what was there, or the reversal of the
\* one pending.
Promised ==
  /\ journal # None => origin.before \in Ledgers
  /\ journal # None /\ ~journal.rollback => origin.before = journal.before
  /\ plan # None =>
       IF plan.rollback
       THEN /\ journal # None /\ ~journal.rollback
            /\ plan.after.gen > journal.after.gen /\ ~plan.after.on
            /\ plan.after.consumers = journal.before.consumers
       ELSE journal = None /\ plan.after.gen = ledger.gen + 1
-----------------------------------------------------------------------------
LEMMA InitInv == InstallInit => InstallInv
<1> SUFFICES ASSUME InstallInit PROVE InstallInv
  OBVIOUS
<1> USE InstallAssumption DEF InstallInit
<1>1. InstallTypeOK
  BY DEF InstallTypeOK, Steps, Contents, Paths, Ledgers, Bundles, Reservations, NoPath
<1>2. SettledIsWhole
  BY DEF SettledIsWhole, FenceMatches, Owned, NativePresent
<1> QED
  BY <1>1, <1>2 DEF InstallInv, Grounded, Progress, Decisions, Working, EnabledIsWhole, HandoffFenced

LEMMA RevokeInv ==
  ASSUME InstallInv, NEW w \in Writers, Revoke(w)
  PROVE  InstallInv'
<1> USE InstallAssumption DEF InstallInv, Revoke, disks, locals, history
<1>1. InstallTypeOK'
  BY DEF InstallTypeOK, Progress, Working, Fences, Transactions, Ledgers, Steps
<1>2. Grounded' /\ Progress'
  BY DEF InstallTypeOK, Progress, Working, Grounded
<1>3. Decisions'
  BY DEF Decisions, Sound, Leads, Backed, NativePresent, InstallTypeOK
<1>4. SettledIsWhole' /\ EnabledIsWhole' /\ HandoffFenced'
  BY DEF Progress, Working, SettledIsWhole, EnabledIsWhole, HandoffFenced, InstallTypeOK
<1> QED
  BY <1>1, <1>2, <1>3, <1>4 DEF InstallInv

\* What is left of a request is a request, or nothing.
LEMMA LeftoverType ==
  ASSUME NEW r \in Requests
  PROVE  Leftover(r) \in Requests \cup {None}
BY DEF Leftover, Requests, Kinds

LEMMA ReleaseInv ==
  ASSUME InstallInv, NEW w \in Writers, NEW left \in Requests \cup {None},
         holder = w, Release(w, left),
         UNCHANGED <<disk, ledger, fence, journal, live, snapshot, touched, drift>>,
         staged' \subseteq staged
  PROVE  InstallInv'
<1> USE InstallAssumption DEF InstallInv, Release
<1>1. InstallTypeOK'
  BY DEF InstallTypeOK, Steps, NoPath
<1>2. Grounded' /\ Progress'
  BY DEF InstallTypeOK, Progress, Working, Grounded
<1>3. Decisions'
  BY DEF Decisions, Sound, Leads, Backed, NativePresent
<1>4. SettledIsWhole' /\ EnabledIsWhole' /\ HandoffFenced'
  BY DEF SettledIsWhole, EnabledIsWhole, HandoffFenced, InstallTypeOK, FenceMatches, NativePresent, Owned
<1> QED
  BY <1>1, <1>2, <1>3, <1>4 DEF InstallInv

LEMMA ReturnInv ==
  ASSUME InstallInv, NEW w \in Writers, holder = w, request[w] # None, Return(w)
  PROVE  InstallInv'
<1>1. request[w] \in Requests
  BY DEF InstallInv, InstallTypeOK
<1> QED
  BY <1>1, LeftoverType, ReleaseInv DEF Return, disks, history

LEMMA StopInv ==
  ASSUME InstallInv, NEW w \in Writers, Stop(w)
  PROVE  InstallInv'
<1>1. holder = w /\ request[w] \in Requests
  BY DEF Stop, InstallInv, InstallTypeOK, Grounded
<1>2. PICK left \in {None, Leftover(request[w])} : Release(w, left)
  BY DEF Stop
<1>3. left \in Requests \cup {None}
  BY <1>1, <1>2, LeftoverType
<1> QED
  BY <1>1, <1>2, <1>3, ReleaseInv DEF Stop, disks

LEMMA LockInv ==
  ASSUME InstallInv, NEW w \in Writers, Lock(w)
  PROVE  InstallInv'
<1> USE InstallAssumption DEF InstallInv, Lock, disks, history
<1>1. InstallTypeOK'
  BY DEF InstallTypeOK, Steps
<1>2. Grounded' /\ Progress'
  BY DEF InstallTypeOK, Progress, Working, Grounded
<1>3. Decisions'
  BY DEF Decisions, Sound, Leads, Backed, NativePresent
<1>4. SettledIsWhole' /\ EnabledIsWhole' /\ HandoffFenced'
  BY DEF SettledIsWhole, EnabledIsWhole, HandoffFenced, InstallTypeOK, FenceMatches, NativePresent, Owned
<1> QED
  BY <1>1, <1>2, <1>3, <1>4 DEF InstallInv

LEMMA GiveUpInv ==
  ASSUME InstallInv, NEW w \in Writers, GiveUp(w)
  PROVE  InstallInv'
<1> USE InstallAssumption DEF InstallInv, GiveUp, disks, history
<1>1. request[w] \in Requests /\ Leftover(request[w]) \in Requests \cup {None}
  BY LeftoverType DEF InstallTypeOK
<1>2. InstallTypeOK'
  BY <1>1 DEF InstallTypeOK
<1>3. Grounded' /\ Progress'
  BY DEF InstallTypeOK, Progress, Grounded, FilesAre, NativePresent
<1>4. Decisions'
  BY DEF Decisions, Sound, Leads, Backed, NativePresent
<1>5. SettledIsWhole' /\ EnabledIsWhole' /\ HandoffFenced'
  BY DEF SettledIsWhole, EnabledIsWhole, HandoffFenced, InstallTypeOK, FenceMatches, NativePresent, Owned
<1> QED
  BY <1>2, <1>3, <1>4, <1>5 DEF InstallInv

LEMMA StageInv ==
  ASSUME InstallInv, NEW w \in Writers, NEW m \in Menu, Stage(w, m)
  PROVE  InstallInv'
<1> USE InstallAssumption DEF InstallInv, Stage, history
<1>1. PICK n \in (IF m.bundle THEN Natives \ Named ELSE {None}) :
        /\ staged' = staged \cup ({n} \ {None})
        /\ request' = [request EXCEPT ![w] =
             [kind |-> m.kind, consumer |-> m.consumer, files |-> m.files,
             was |-> [p \in DOMAIN m.files |-> disk[p]],
             on |-> m.on, reservation |-> m.reservation, purge |-> m.purge,
             gen |-> IF m.fenced THEN ledger.gen ELSE AnyGeneration,
             policy |-> disk[Policy],
             native |-> n, active |-> ledger.native]]
  OBVIOUS
<1>2. n \in Bundles /\ (n # None => n \notin live)
  BY <1>1 DEF Bundles, Named
<1>3. DOMAIN m.files \in SUBSET Assets
  BY DEF Partial
<1>4. [p \in DOMAIN m.files |-> disk[p]] \in Partial(Assets, Contents)
  BY <1>3 DEF Partial, InstallTypeOK, Paths
<1>5. request' \in [Writers -> Requests \cup {None}]
  <2>1. m.reservation \in Reservations
    BY DEF Reservations
  <2>2. ledger.gen \in Nat /\ ledger.native \in Bundles /\ disk[Policy] \in Contents
    BY DEF InstallTypeOK, Ledgers, Paths
  <2> QED
    BY <1>1, <1>2, <1>4, <2>1, <2>2 DEF InstallTypeOK, Requests, Kinds
<1>6. InstallTypeOK'
  BY <1>1, <1>2, <1>5 DEF InstallTypeOK, Bundles
<1>7. Grounded' /\ Progress'
  BY <1>1 DEF InstallTypeOK, Progress, Grounded, FilesAre, NativePresent
<1>8. Decisions'
  BY DEF Decisions, Sound, Leads, Backed, NativePresent
<1>9. SettledIsWhole' /\ EnabledIsWhole' /\ HandoffFenced'
  BY DEF SettledIsWhole, EnabledIsWhole, HandoffFenced, InstallTypeOK, FenceMatches, NativePresent, Owned
<1> QED
  BY <1>6, <1>7, <1>8, <1>9 DEF InstallInv
-----------------------------------------------------------------------------
LEMMA WriteJournalInv ==
  ASSUME InstallInv, NEW w \in Writers, WriteJournal(w)
  PROVE  InstallInv'
<1> USE InstallAssumption DEF InstallInv, WriteJournal
<1>1. InstallTypeOK'
  BY DEF InstallTypeOK, Steps
<1>2. Grounded' /\ Progress'
  BY DEF InstallTypeOK, Progress, Working, Grounded
<1>3. Decisions'
  BY DEF Decisions, Sound, Leads, Backed, NativePresent, InstallTypeOK
<1>4. SettledIsWhole' /\ EnabledIsWhole' /\ HandoffFenced'
  BY DEF SettledIsWhole, EnabledIsWhole, HandoffFenced, InstallTypeOK, FenceMatches, NativePresent, Owned
<1> QED
  BY <1>1, <1>2, <1>3, <1>4 DEF InstallInv

LEMMA CheckInv ==
  ASSUME InstallInv, NEW w \in Writers, Check(w)
  PROVE  InstallInv'
<1> USE InstallAssumption DEF InstallInv, Check
<1>1. CASE Return(w)
  BY <1>1, ReturnInv DEF Grounded
<1>2. CASE step' = "revoke" /\ UNCHANGED <<disks, holder, request, plan, own, todo, seen, snapshot, history>>
  <2> USE <1>2 DEF disks, history
  <2>1. InstallTypeOK'
    BY DEF InstallTypeOK, Steps
  <2>2. Grounded' /\ Progress'
    BY DEF InstallTypeOK, Progress, Working, Grounded
  <2>3. Decisions'
    BY DEF Decisions, Sound, Leads, Backed, NativePresent, InstallTypeOK
  <2>4. SettledIsWhole' /\ EnabledIsWhole' /\ HandoffFenced'
    BY DEF SettledIsWhole, EnabledIsWhole, HandoffFenced, InstallTypeOK, FenceMatches, NativePresent, Owned
  <2> QED
    BY <2>1, <2>2, <2>3, <2>4 DEF InstallInv
<1> QED
  BY <1>1, <1>2

LEMMA PromoteInv ==
  ASSUME InstallInv, NEW w \in Writers, Promote(w)
  PROVE  InstallInv'
<1> USE InstallAssumption DEF InstallInv, Promote, history
<1>1. journal # None /\ journal \in Transactions /\ plan = None /\ Sound(journal)
  BY DEF Progress, Working, InstallTypeOK, Decisions
<1>2. journal.native.bundle \in Bundles
  BY <1>1 DEF Transactions
<1>3. InstallTypeOK'
  BY <1>1, <1>2 DEF InstallTypeOK, Steps, Transactions, Partial, Bundles, Sound, Backed
<1>4. NativePresent(journal.after)' /\ Sound(journal)'
  <2> USE <1>1 DEF Sound, Backed, NativePresent
  <2>1. CASE journal.native.kind = "promote"
    BY <2>1 DEF Leads
  <2>2. CASE journal.native.kind = "purge"
    BY <2>2 DEF Leads
  <2>3. CASE journal.native.kind \notin {"promote", "purge"}
    BY <2>3 DEF Leads
  <2> QED
    BY <2>1, <2>2, <2>3
<1>5. Grounded' /\ Progress'
  BY <1>1, <1>4 DEF InstallTypeOK, Progress, Working, Grounded
<1>6. Decisions'
  BY <1>1, <1>4 DEF Decisions
<1>7. SettledIsWhole' /\ EnabledIsWhole' /\ HandoffFenced'
  BY <1>1 DEF Progress, SettledIsWhole, EnabledIsWhole, HandoffFenced, InstallTypeOK
<1> QED
  BY <1>3, <1>5, <1>6, <1>7 DEF InstallInv

LEMMA PublishInv ==
  ASSUME InstallInv, NEW w \in Writers, NEW p \in Paths, Publish(w, p)
  PROVE  InstallInv'
<1> USE InstallAssumption DEF InstallInv, Publish
<1>1. CASE Return(w)
  BY <1>1, ReturnInv DEF Grounded
<1>2. CASE ~Return(w)
  <2> USE <1>2 DEF disks, history
  <2>1. InstallTypeOK'
    BY DEF InstallTypeOK, Steps
  <2>2. Grounded' /\ Progress'
    BY DEF InstallTypeOK, Progress, Working, Grounded, NativePresent
  <2>3. Decisions'
    BY DEF Decisions, Sound, Leads, Backed, NativePresent, InstallTypeOK
  <2>4. SettledIsWhole' /\ EnabledIsWhole' /\ HandoffFenced'
    BY DEF SettledIsWhole, EnabledIsWhole, HandoffFenced, InstallTypeOK, FenceMatches, NativePresent, Owned
  <2> QED
    BY <2>1, <2>2, <2>3, <2>4 DEF InstallInv
<1> QED
  BY <1>1, <1>2

LEMMA RenameInv ==
  ASSUME InstallInv, NEW w \in Writers, Rename(w)
  PROVE  InstallInv'
<1> USE InstallAssumption DEF InstallInv, Rename, history
<1>1. journal # None /\ journal \in Transactions /\ plan = None /\ Sound(journal)
  BY DEF Progress, Working, InstallTypeOK, Decisions
<1>2. seen.path \in DOMAIN journal.files /\ DOMAIN journal.files \subseteq Paths
  BY <1>1 DEF Progress, Transactions, Partial
<1>3. journal.files[seen.path].will \in Contents
  BY <1>1, <1>2 DEF Transactions, Partial
<1>4. InstallTypeOK'
  BY <1>2, <1>3 DEF InstallTypeOK, Steps, NoPath
<1>5. Sound(journal)'
  BY <1>1, <1>2 DEF InstallTypeOK, Sound, Leads, Backed, NativePresent
<1>6. Grounded' /\ Progress'
  BY <1>1, <1>2 DEF InstallTypeOK, Progress, Working, Grounded, NativePresent
<1>7. Decisions'
  BY <1>1, <1>5 DEF Decisions
<1>8. SettledIsWhole' /\ EnabledIsWhole' /\ HandoffFenced'
  BY <1>1 DEF Progress, SettledIsWhole, EnabledIsWhole, HandoffFenced, InstallTypeOK
<1> QED
  BY <1>4, <1>6, <1>7, <1>8 DEF InstallInv

LEMMA WriteLedgerInv ==
  ASSUME InstallInv, NEW w \in Writers, WriteLedger(w)
  PROVE  InstallInv'
<1> USE InstallAssumption DEF InstallInv, WriteLedger, history
<1>1. journal # None /\ journal \in Transactions /\ plan = None /\ Sound(journal)
  BY DEF Progress, Working, InstallTypeOK, Decisions
<1>2. InstallTypeOK'
  BY <1>1 DEF InstallTypeOK, Steps, Transactions
<1>3. FilesAre(journal.after) /\ NativePresent(journal.after)
  BY <1>1 DEF Progress, FilesAre, Sound, Leads
<1>4. Grounded' /\ Progress'
  BY <1>1, <1>3 DEF InstallTypeOK, Progress, Working, Grounded, NativePresent, FilesAre, Sound
<1>5. Decisions'
  BY <1>1 DEF Decisions, Sound, Leads, Backed, NativePresent
<1>6. SettledIsWhole' /\ EnabledIsWhole' /\ HandoffFenced'
  BY <1>1 DEF Progress, SettledIsWhole, EnabledIsWhole, HandoffFenced, InstallTypeOK
<1> QED
  BY <1>2, <1>4, <1>5, <1>6 DEF InstallInv

LEMMA CleanInv ==
  ASSUME InstallInv, NEW w \in Writers, Clean(w)
  PROVE  InstallInv'
<1> USE InstallAssumption DEF InstallInv, Clean, history
<1>1. journal # None /\ plan = None /\ Sound(journal) /\ journal.native.kind = "purge"
  BY DEF Progress, Working, InstallTypeOK, Decisions
<1>2. InstallTypeOK'
  BY DEF InstallTypeOK, Steps
<1>3. Grounded' /\ Progress'
  BY <1>1 DEF InstallTypeOK, Progress, Working, Grounded, NativePresent, FilesAre, Sound, Backed
<1>4. Decisions'
  BY <1>1 DEF Decisions, Sound, Leads, Backed, NativePresent
<1>5. SettledIsWhole' /\ EnabledIsWhole' /\ HandoffFenced'
  BY <1>1 DEF Progress, SettledIsWhole, EnabledIsWhole, HandoffFenced, InstallTypeOK
<1> QED
  BY <1>2, <1>3, <1>4, <1>5 DEF InstallInv

LEMMA FinalPolicyInv ==
  ASSUME InstallInv, NEW w \in Writers, FinalPolicy(w)
  PROVE  InstallInv'
<1> USE InstallAssumption DEF InstallInv, FinalPolicy, history
<1>1. journal # None /\ journal \in Transactions /\ plan = None
  BY DEF Progress, Working, InstallTypeOK
<1>2. InstallTypeOK'
  BY <1>1 DEF InstallTypeOK, Steps, Fences, Transactions, Ledgers
<1>3. Grounded' /\ Progress'
  BY <1>1 DEF InstallTypeOK, Progress, Working, Grounded, NativePresent, FilesAre
<1>4. Decisions'
  BY <1>1 DEF Decisions, Sound, Leads, Backed, NativePresent
<1>5. SettledIsWhole' /\ EnabledIsWhole' /\ HandoffFenced'
  BY <1>1 DEF Progress, SettledIsWhole, EnabledIsWhole, HandoffFenced, InstallTypeOK, FilesAre, Owned, NativePresent
<1> QED
  BY <1>2, <1>3, <1>4, <1>5 DEF InstallInv

LEMMA UnlinkInv ==
  ASSUME InstallInv, NEW w \in Writers, Unlink(w)
  PROVE  InstallInv'
<1> USE InstallAssumption DEF InstallInv, Unlink
<1>1. /\ journal # None /\ plan = None
      /\ ledger = journal.after /\ FilesAre(ledger) /\ NativePresent(ledger)
      /\ fence = [gen |-> ledger.gen, on |-> ledger.on] /\ fence # None
  <2>1. step = "unlink" /\ [gen |-> ledger.gen, on |-> ledger.on] \in Fences
    BY DEF InstallTypeOK, Ledgers, Fences
  <2> QED
    BY <2>1 DEF Progress, Working, InstallTypeOK
<1>2. request[w] \in Requests /\ Leftover(request[w]) \in Requests \cup {None}
  BY LeftoverType DEF InstallTypeOK, Grounded
<1>3. /\ \A p \in Owned \ touched' : disk[p] = ledger.files[p]
      /\ touched' \subseteq Paths
  BY <1>1 DEF FilesAre, Owned, Paths
<1>4. /\ plan' = None /\ own' \in BOOLEAN /\ request' \in [Writers -> Requests \cup {None}]
      /\ \/ holder' = Nobody /\ step' = "idle"
         \/ holder' = w /\ step' = "decide" /\ request' = request
      /\ todo' \subseteq Paths /\ seen'.path \in Paths \cup {None}
  <2>1. CASE own
    <3>1. Release(w, Leftover(request[w]))
      BY <2>1
    <3>2. own' = FALSE /\ holder' = Nobody /\ step' = "idle" /\ plan' = None /\ todo' = {}
      BY <3>1 DEF Release
    <3>3. request' \in [Writers -> Requests \cup {None}]
      BY <1>2, <3>1 DEF Release, InstallTypeOK
    <3>4. seen'.path = None
      BY <3>1 DEF Release, NoPath
    <3> QED
      BY <3>2, <3>3, <3>4
  <2>2. CASE ~own
    BY <1>1, <2>2 DEF InstallTypeOK
  <2> QED
    BY <2>1, <2>2
<1>5. InstallTypeOK'
  BY <1>3, <1>4 DEF InstallTypeOK, Steps
<1>6. Grounded' /\ Progress'
  BY <1>2, <1>4 DEF InstallTypeOK, Progress, Working, Grounded
<1>7. Decisions'
  BY <1>4 DEF Decisions
<1>8. SettledIsWhole' /\ EnabledIsWhole' /\ HandoffFenced'
  BY <1>1, <1>3, <1>4 DEF SettledIsWhole, EnabledIsWhole, HandoffFenced, FenceMatches, Owned, NativePresent
<1> QED
  BY <1>5, <1>6, <1>7, <1>8 DEF InstallInv

LEMMA DiscardInv ==
  ASSUME InstallInv, NEW w \in Writers, Discard(w)
  PROVE  InstallInv'
BY ReleaseInv DEF Discard, history

LEMMA EditInv ==
  ASSUME InstallInv, NEW p \in Paths, NEW c \in Contents, Edit(p, c)
  PROVE  InstallInv'
<1> USE InstallAssumption DEF InstallInv, Edit, locals
<1>1. InstallTypeOK'
  BY DEF InstallTypeOK
<1>2. Grounded' /\ Progress'
  BY DEF InstallTypeOK, Progress, Grounded, FilesAre, NativePresent
<1>3. Decisions'
  BY DEF Decisions, Sound, Leads, Backed, NativePresent, InstallTypeOK
<1>4. SettledIsWhole' /\ EnabledIsWhole' /\ HandoffFenced'
  BY DEF SettledIsWhole, EnabledIsWhole, HandoffFenced, InstallTypeOK, FenceMatches, NativePresent, Owned
<1> QED
  BY <1>1, <1>2, <1>3, <1>4 DEF InstallInv

LEMMA ReaderInv ==
  ASSUME InstallInv, NEW d \in Readers, Observe(d) \/ Lease(d) \/ Delivered(d)
  PROVE  InstallInv'
<1> USE InstallAssumption DEF InstallInv, Observe, Lease, Delivered, disks, locals, history
<1>1. InstallTypeOK'
  <2>1. CASE Lease(d)
    BY <2>1 DEF InstallTypeOK, Steps
  <2>2. CASE Observe(d)
    <3>1. Observation \in [ledger : Ledgers, on : BOOLEAN]
      BY DEF Observation, InstallTypeOK, Ledgers
    <3> QED
      BY <2>2, <3>1 DEF InstallTypeOK
  <2>3. CASE Delivered(d)
    BY <2>3 DEF InstallTypeOK, Steps
  <2> QED
    BY <2>1, <2>2, <2>3
<1>2. Grounded' /\ Progress'
  BY DEF InstallTypeOK, Progress, Grounded, Working, FilesAre, NativePresent
<1>3. Decisions'
  BY DEF Decisions, Sound, Leads, Backed, NativePresent, InstallTypeOK
<1>4. SettledIsWhole' /\ EnabledIsWhole'
  BY DEF SettledIsWhole, EnabledIsWhole, FenceMatches, NativePresent, Owned
<1>5. HandoffFenced'
  <2>1. CASE Lease(d)
    BY <2>1 DEF HandoffFenced, InstallTypeOK, LeaseValid, Whole, Observation, FenceMatches, Grounded
  <2>2. CASE Observe(d)
    BY <2>2 DEF HandoffFenced, InstallTypeOK
  <2>3. CASE Delivered(d)
    BY <2>3 DEF HandoffFenced, InstallTypeOK
  <2> QED
    BY <2>1, <2>2, <2>3
<1> QED
  BY <1>1, <1>2, <1>3, <1>4, <1>5 DEF InstallInv
-----------------------------------------------------------------------------
\* A decision that is sound where it is made may be planned.
LEMMA PlannedInv ==
  ASSUME InstallInv, NEW w \in Writers, NEW t \in Transactions, holder = w, step = "decide",
         Sound(t), t.before = ledger, Planned(w, t)
  PROVE  InstallInv'
<1> USE InstallAssumption DEF InstallInv, Planned, disks
<1>1. t # None
  OBVIOUS
<1>2. InstallTypeOK'
  BY <1>1 DEF InstallTypeOK, Steps
<1>3. Grounded' /\ Progress'
  BY DEF InstallTypeOK, Progress, Grounded, Working
<1>4. Decisions'
  BY DEF Decisions, Sound, Leads, Backed, NativePresent
<1>5. SettledIsWhole' /\ EnabledIsWhole' /\ HandoffFenced'
  BY DEF SettledIsWhole, EnabledIsWhole, HandoffFenced, InstallTypeOK, FenceMatches, NativePresent, Owned
<1> QED
  BY <1>2, <1>3, <1>4, <1>5 DEF InstallInv

\* What decide makes of a request is a transaction.
LEMMA DecisionType ==
  ASSUME InstallTypeOK, NEW r \in Requests
  PROVE  Transaction(r) \in Transactions
<1> USE InstallAssumption
<1>1. /\ ledger \in Ledgers /\ \A p \in Paths : disk[p] \in Contents
      /\ r.native \in Bundles /\ r.reservation \in Reservations
      /\ r.files \in Partial(Assets, Versions \cup {None}) /\ r.consumer \in Consumers
  BY DEF InstallTypeOK, Requests
<1>2. DOMAIN r.files \subseteq Assets /\ \A p \in DOMAIN r.files : r.files[p] \in Versions \cup {None}
  BY <1>1 DEF Partial
<1>3. Targets(r) \subseteq Paths /\ \A p \in Targets(r) : Target(r, p) \in Contents
  BY <1>1, <1>2 DEF Targets, Target, Owned, Paths, Contents
<1>4. \A p \in Assets \cap Targets(r) : Target(r, p) \in Versions \cup {None}
  BY <1>2 DEF Target
<1>5. Changes(r) \in Partial(Paths, [was : Contents, will : Contents])
  <2>1. Changes(r) \in [Targets(r) -> [was : Contents, will : Contents]]
    BY <1>1, <1>3 DEF Changes
  <2> QED
    BY <1>3, <2>1 DEF Partial
<1>6. NativeChange(r) \in [kind : {"none", "promote", "purge", "hold"}, bundle : Bundles]
  BY <1>1 DEF NativeChange, NoNative, Ledgers, Bundles
<1>7. NextLedger(r) \in Ledgers
  <2>1. ledger.gen + 1 \in Nat /\ NextConsumers(r) \in SUBSET Consumers
    BY <1>1 DEF Ledgers, NextConsumers
  <2>2. NextOn(r) \in BOOLEAN
    BY <1>1 DEF NextOn, Requests
  <2>3. [p \in Assets |-> IF p \in Targets(r) THEN Target(r, p) ELSE ledger.files[p]]
          \in [Assets -> Versions \cup {None}]
    BY <1>1, <1>4 DEF Ledgers
  <2>4. (CASE NativeChange(r).kind = "purge" -> None
           [] NativeChange(r).kind = "promote" -> r.native
           [] OTHER -> ledger.native) \in Bundles
    BY <1>1 DEF Ledgers, Bundles
  <2>5. NextPending(r) \in Reservations
    BY <1>1 DEF NextPending, Ledgers, Reservations
  <2> QED
    BY <2>1, <2>2, <2>3, <2>4, <2>5 DEF NextLedger, Ledgers
<1> QED
  BY <1>1, <1>5, <1>6, <1>7 DEF Transaction, Transactions

\* Over a settled installation the decision is sound.
LEMMA DecisionSound ==
  ASSUME InstallInv, NEW r \in Requests, journal = None
  PROVE  Sound(Transaction(r))
<1> USE InstallAssumption DEF InstallInv
<1> DEFINE t == Transaction(r)
<1>1. /\ t.before = ledger /\ t.after = NextLedger(r) /\ t.files = Changes(r)
      /\ t.native = NativeChange(r) /\ t.rollback = FALSE
  BY DEF Transaction
<1>2. DOMAIN t.files = Targets(r)
      /\ \A p \in Targets(r) : t.files[p].was = disk[p] /\ t.files[p].will = Target(r, p)
  BY <1>1 DEF Changes
<1>3. \A p \in Assets : t.after.files[p] = IF p \in Targets(r) THEN Target(r, p) ELSE ledger.files[p]
  BY <1>1 DEF NextLedger
<1>4. \A p \in Assets \ touched : ledger.files[p] # None => disk[p] = ledger.files[p]
  BY DEF SettledIsWhole, Owned
<1>5. \A p \in Assets \cap Targets(r) : Target(r, p) \in Versions \cup {None}
  BY DEF Target, Requests, Partial
<1>6. Leads(t)
  BY <1>1, <1>2, <1>3, <1>4, <1>5 DEF Leads
<1>7. t.after.gen > 0
  BY <1>1 DEF NextLedger, InstallTypeOK, Ledgers
<1>8. Backed(t)
  <2>1. CASE NativeChange(r).kind = "purge"
    BY <1>1, <2>1 DEF Backed, NextLedger
  <2>2. CASE NativeChange(r).kind = "promote"
    <3>1. NativeChange(r).bundle = r.native /\ r.native # None
      BY <2>2 DEF NativeChange, NoNative
    <3> QED
      BY <1>1, <2>2, <3>1 DEF Backed, NextLedger
  <2>3. CASE NativeChange(r).kind \notin {"promote", "purge"}
    <3>1. NativeChange(r) = NoNative
      BY <2>3 DEF NativeChange
    <3>2. t.after.native = ledger.native
      BY <1>1, <2>3 DEF NextLedger
    <3>3. NativePresent(t.after)
      BY <3>2 DEF SettledIsWhole, NativePresent
    <3> QED
      BY <1>1, <3>1, <3>2, <3>3 DEF Backed, NoNative
  <2> QED
    BY <2>1, <2>2, <2>3
<1> QED
  BY <1>6, <1>7, <1>8 DEF Sound

LEMMA DecideInv ==
  ASSUME InstallInv, NEW w \in Writers, Decide(w)
  PROVE  InstallInv'
<1>1. request[w] \in Requests /\ holder = w /\ step = "decide" /\ journal = None
  BY DEF InstallInv, InstallTypeOK, Grounded, Decide
<1>2. CASE Return(w)
  BY <1>1, <1>2, ReturnInv DEF InstallInv, Grounded
<1>3. CASE Planned(w, Transaction(request[w]))
  <2>1. Transaction(request[w]) \in Transactions
    BY <1>1, DecisionType DEF InstallInv
  <2>2. Sound(Transaction(request[w])) /\ Transaction(request[w]).before = ledger
    BY <1>1, DecisionSound DEF Transaction
  <2> QED
    BY <1>1, <1>3, <2>1, <2>2, PlannedInv
<1> QED
  BY <1>2, <1>3 DEF Decide

\* The record that reverses a pending decision is well formed: a file it keeps
\* has what the decision was going to write there.
LEMMA ReversalType ==
  ASSUME InstallInv, journal # None, ~journal.rollback, Reversible(journal)
  PROVE  Reversal(journal) \in Transactions
<1> USE InstallAssumption
<1> DEFINE t == journal
           native == IF t.native.kind = "promote" /\ t.native.bundle \in live
                     THEN t.native.bundle ELSE t.before.native
<1>1. t \in Transactions /\ ledger \in Ledgers /\ \A p \in Paths : disk[p] \in Contents
  BY DEF InstallInv, InstallTypeOK
<1>2. /\ t.before \in Ledgers /\ t.after \in Ledgers /\ t.native.bundle \in Bundles
      /\ DOMAIN t.files \subseteq Paths
      /\ \A p \in DOMAIN t.files : t.files[p].was \in Contents /\ t.files[p].will \in Contents
  BY <1>1 DEF Transactions, Partial
<1>3. \A p \in Assets \cap DOMAIN t.files : t.files[p].will \in Versions \cup {None}
  BY DEF InstallInv, Decisions, Sound, Leads
<1>4. \A p \in Kept(t) : p \in Assets /\ disk[p] \in Versions \cup {None}
  BY <1>3 DEF Kept, Reversible, AsBeforeOrAfter
<1>5. native \in Bundles
  BY <1>2 DEF Ledgers
<1>6. [t.before EXCEPT !.on = FALSE, !.gen = t.after.gen + 1, !.native = native,
                   !.files = [p \in Assets |-> IF p \in Kept(t) THEN disk[p] ELSE @[p]]] \in Ledgers
  <2>1. t.after.gen + 1 \in Nat
    BY <1>2 DEF Ledgers
  <2>2. [p \in Assets |-> IF p \in Kept(t) THEN disk[p] ELSE t.before.files[p]] \in [Assets -> Versions \cup {None}]
    BY <1>2, <1>4 DEF Ledgers
  <2> QED
    BY <1>2, <1>5, <2>1, <2>2 DEF Ledgers
<1>7. [p \in DOMAIN t.files \ Kept(t) |-> Undo(t, p)] \in Partial(Paths, [was : Contents, will : Contents])
  <2>1. [p \in DOMAIN t.files \ Kept(t) |-> Undo(t, p)] \in [DOMAIN t.files \ Kept(t) -> [was : Contents, will : Contents]]
    BY <1>1, <1>2 DEF Undo
  <2> QED
    BY <1>2, <2>1 DEF Partial
<1>8. (IF t.native.kind = "promote" /\ native # None
       THEN [kind |-> "hold", bundle |-> native] ELSE NoNative)
         \in [kind : {"none", "promote", "purge", "hold"}, bundle : Bundles]
  BY <1>5 DEF NoNative, Bundles
<1> QED
  BY <1>1, <1>6, <1>7, <1>8 DEF Reversal, Transactions

\* The reversal of a sound decision is sound.
LEMMA ReversalSound ==
  ASSUME InstallInv, journal # None, ~journal.rollback, Reversible(journal)
  PROVE  Sound(Reversal(journal)) /\ Reversal(journal).before = ledger
<1> USE InstallAssumption
<1> DEFINE t == journal
           u == Reversal(journal)
           native == IF t.native.kind = "promote" /\ t.native.bundle \in live
                     THEN t.native.bundle ELSE t.before.native
<1>1. t \in Transactions /\ Sound(t)
  BY DEF InstallInv, InstallTypeOK, Decisions
<1>2. t.before \in Ledgers /\ t.after \in Ledgers
  BY <1>1 DEF Transactions
<1>3. /\ u.before = ledger /\ u.rollback = TRUE
      /\ u.after.gen = t.after.gen + 1 /\ u.after.native = native
      /\ u.after.files = [p \in Assets |-> IF p \in Kept(t) THEN disk[p] ELSE t.before.files[p]]
      /\ u.files = [p \in DOMAIN t.files \ Kept(t) |-> Undo(t, p)]
      /\ u.native = IF t.native.kind = "promote" /\ native # None
                    THEN [kind |-> "hold", bundle |-> native] ELSE NoNative
  BY <1>2 DEF Reversal, Ledgers
<1>4. u.after.gen > 0
  BY <1>2, <1>3 DEF Ledgers
<1>5. Leads(u)
  <2>1. \A p \in Assets \ touched : t.after.files[p] # None /\ p \notin DOMAIN t.files =>
          disk[p] = t.after.files[p]
    BY <1>1 DEF Sound, Leads
  <2>2. \A p \in Assets :
          IF p \in DOMAIN t.files
          THEN p \notin touched /\ t.before.files[p] # None => t.files[p].was = t.before.files[p]
          ELSE t.after.files[p] = t.before.files[p]
    BY <1>1 DEF Sound, Leads
  <2>3. \A p \in DOMAIN u.files : u.files[p].will = t.files[p].was
    BY <1>3 DEF Undo
  <2>4. \A p \in Assets \ touched : u.after.files[p] # None =>
          IF p \in DOMAIN u.files THEN u.files[p].will = u.after.files[p]
          ELSE disk[p] = u.after.files[p]
    BY <1>3, <2>1, <2>2, <2>3, ZenonT(30) DEF Kept
  <2> QED
    BY <1>3, <2>4 DEF Leads
<1>6. Backed(u)
  <2>1. CASE t.native.kind = "promote" /\ t.native.bundle \in live
    <3>1. native # None
      BY <2>1 DEF InstallInv, InstallTypeOK
    <3> QED
      BY <1>3, <2>1, <3>1 DEF Backed
  <2>2. CASE t.native.kind = "promote" /\ t.native.bundle \notin live
    BY <1>3, <2>2 DEF Reversible, Backed, NativePresent, NoNative
  <2>3. CASE t.native.kind # "promote"
    <3>1. t.native = NoNative /\ NativePresent(t.after) /\ t.after.native = t.before.native
      BY <1>1, <2>3 DEF Sound, Backed, Reversible
    <3> QED
      BY <1>3, <2>3, <3>1 DEF Backed, NativePresent, NoNative
  <2> QED
    BY <2>1, <2>2, <2>3
<1> QED
  BY <1>3, <1>4, <1>5, <1>6 DEF Sound

LEMMA ResumeInv ==
  ASSUME InstallInv, NEW w \in Writers, Resume(w)
  PROVE  InstallInv'
<1>1. request[w] \in Requests /\ request[w] # None /\ holder = w /\ step = "decide" /\ journal # None
  BY DEF InstallInv, InstallTypeOK, Grounded, Resume
<1>2. CASE Return(w)
  BY <1>1, <1>2, ReturnInv
<1>3. CASE ToReverse(w) /\ Reversible(journal) /\ Planned(w, Reversal(journal))
  BY <1>1, <1>3, ReversalType, ReversalSound, PlannedInv DEF ToReverse
<1>4. CASE /\ step' = "check" /\ own' = (request[w].kind \in {"recover", "rollback"})
           /\ UNCHANGED <<disks, holder, request, plan, todo, seen, snapshot, history>>
  <2> USE <1>1, <1>4, InstallAssumption DEF InstallInv, disks, history
  <2>1. InstallTypeOK'
    BY DEF InstallTypeOK, Steps
  <2>2. Grounded' /\ Progress'
    BY DEF InstallTypeOK, Progress, Grounded, Working
  <2>3. Decisions'
    BY DEF Decisions, Sound, Leads, Backed, NativePresent
  <2>4. SettledIsWhole' /\ EnabledIsWhole' /\ HandoffFenced'
    BY DEF SettledIsWhole, EnabledIsWhole, HandoffFenced, InstallTypeOK, FenceMatches, NativePresent, Owned
  <2> QED
    BY <2>1, <2>2, <2>3, <2>4 DEF InstallInv
<1> QED
  BY <1>2, <1>3, <1>4 DEF Resume
-----------------------------------------------------------------------------
LEMMA InstallStutter ==
  ASSUME InstallInv, UNCHANGED vars
  PROVE  InstallInv'
<1> USE DEF vars, disks, locals, history
<1>1. InstallTypeOK' /\ Grounded' /\ Progress'
  BY DEF InstallInv, InstallTypeOK, Grounded, Progress, FilesAre, NativePresent
<1>2. Decisions'
  BY DEF InstallInv, Decisions, Sound, Leads, Backed, NativePresent
<1>3. SettledIsWhole' /\ EnabledIsWhole' /\ HandoffFenced'
  BY DEF InstallInv, SettledIsWhole, EnabledIsWhole, HandoffFenced, FenceMatches, Owned, NativePresent
<1> QED
  BY <1>1, <1>2, <1>3 DEF InstallInv

LEMMA InstallStep ==
  ASSUME InstallInv, [InstallNext]_vars
  PROVE  InstallInv'
<1>1. ASSUME NEW w \in Writers, NEW m \in Menu, Stage(w, m) PROVE InstallInv'
  BY <1>1, StageInv
<1>2. ASSUME NEW w \in Writers, Lock(w) \/ GiveUp(w) \/ Stop(w) \/ Discard(w) PROVE InstallInv'
  BY <1>2, LockInv, GiveUpInv, StopInv, DiscardInv
<1>3. ASSUME NEW w \in Writers, Decide(w) \/ Resume(w) \/ WriteJournal(w) \/ Check(w) PROVE InstallInv'
  BY <1>3, DecideInv, ResumeInv, WriteJournalInv, CheckInv
<1>4. ASSUME NEW w \in Writers, Revoke(w) \/ Promote(w) \/ Rename(w) PROVE InstallInv'
  BY <1>4, RevokeInv, PromoteInv, RenameInv
<1>5. ASSUME NEW w \in Writers, NEW p \in Paths, Publish(w, p) PROVE InstallInv'
  BY <1>5, PublishInv
<1>6. ASSUME NEW w \in Writers, WriteLedger(w) \/ Clean(w) \/ FinalPolicy(w) \/ Unlink(w) PROVE InstallInv'
  BY <1>6, WriteLedgerInv, CleanInv, FinalPolicyInv, UnlinkInv
<1>7. ASSUME NEW p \in Paths, NEW c \in Contents, Edit(p, c) PROVE InstallInv'
  BY <1>7, EditInv
<1>8. ASSUME NEW d \in Readers, Observe(d) \/ Lease(d) \/ Delivered(d) PROVE InstallInv'
  BY <1>8, ReaderInv
<1>9. CASE UNCHANGED vars
  BY <1>9, InstallStutter
<1> QED
  BY <1>1, <1>2, <1>3, <1>4, <1>5, <1>6, <1>7, <1>8, <1>9 DEF InstallNext

LEMMA InstallInvariant == InstallSpec => []InstallInv
BY InitInv, InstallStep, PTL DEF InstallSpec

(* Every record Commit and its recovery write is well formed, whoever stops   *)
(* where, and one process at most is inside Commit or a handoff.              *)
THEOREM InstallTypeCorrect == InstallSpec => []InstallTypeOK
<1>1. InstallInv => InstallTypeOK
  BY DEF InstallInv
<1> QED
  BY <1>1, InstallInvariant, PTL

(* After recoverTransaction has removed the marker, or before anything was    *)
(* written, the ledger, the generation fence, the managed files and the       *)
(* bundle agree, after any number of interruptions.                           *)
THEOREM InstallSettled == InstallSpec => []SettledIsWhole
<1>1. InstallInv => SettledIsWhole
  BY DEF InstallInv
<1> QED
  BY <1>1, InstallInvariant, PTL

(* The fence that deliveries read says "enabled" only over one whole          *)
(* generation: revoked before the first file changes, restored after the      *)
(* ledger is written.                                                         *)
THEOREM InstallEnabled == InstallSpec => []EnabledIsWhole
<1>1. InstallInv => EnabledIsWhole
  BY DEF InstallInv
<1> QED
  BY <1>1, InstallInvariant, PTL

(* LeaseInstallation admits a handoff only into the installation its          *)
(* delivery observed, and none changes under it.                              *)
THEOREM InstallHandoff == InstallSpec => []HandoffFenced
<1>1. InstallInv => HandoffFenced
  BY DEF InstallInv
<1> QED
  BY <1>1, InstallInvariant, PTL
-----------------------------------------------------------------------------
(* That a decision can be carried out, over InstallInv.                       *)

ReplayInv == InstallInv /\ Replaying

LEMMA InitReplay == InstallInit => Replaying
BY DEF InstallInit, Replaying, Candidates, Working, Waiting

LEMMA StageReplay ==
  ASSUME ReplayInv, NEW w \in Writers, NEW m \in Menu, Stage(w, m)
  PROVE  Replaying'
<1> USE InstallAssumption DEF ReplayInv, Stage, history
<1>1. PICK n \in (IF m.bundle THEN Natives \ Named ELSE {None}) :
        /\ staged' = staged \cup ({n} \ {None})
        /\ request' = [request EXCEPT ![w] =
             [kind |-> m.kind, consumer |-> m.consumer, files |-> m.files,
             was |-> [p \in DOMAIN m.files |-> disk[p]],
             on |-> m.on, reservation |-> m.reservation, purge |-> m.purge,
             gen |-> IF m.fenced THEN ledger.gen ELSE AnyGeneration,
             policy |-> disk[Policy],
             native |-> n, active |-> ledger.native]]
  OBVIOUS
<1>2. /\ request' \in [Writers -> Requests \cup {None}]
      /\ request \in [Writers -> Requests \cup {None}]
      /\ request'[w].native = n /\ \A v \in Writers \ {w} : request'[v] = request[v]
  <2>1. InstallInv'
    BY StageInv
  <2> QED
    BY <1>1, <2>1 DEF InstallInv, InstallTypeOK
<1>3. ASSUME n # None
      PROVE  /\ journal # None => n # journal.native.bundle
             /\ \A v \in Writers : request[v] # None => n # request[v].native
  <2>1. n \notin Named
    BY <1>1, <1>3
  <2>2. ASSUME journal # None PROVE n # journal.native.bundle
    <3>1. {journal.before.native, journal.native.bundle} \subseteq Named
      BY <2>2 DEF Named
    <3> QED
      BY <2>1, <3>1
  <2>3. ASSUME NEW v \in Writers, request[v] # None PROVE n # request[v].native
    <3>1. {request[v].native, request[v].active} \subseteq Named
      BY <2>3 DEF Named
    <3> QED
      BY <2>1, <3>1
  <2> QED
    BY <2>2, <2>3
<1>4. Candidates'
  <2>1. ASSUME NEW v \in Writers, Waiting(v)', request'[v].native # None
        PROVE  /\ request'[v].native \in staged'
               /\ journal' # None => journal'.native # [kind |-> "promote", bundle |-> request'[v].native]
    <3>1. CASE v = w
      <4>1. n # None /\ request'[v].native = n /\ n \in staged'
        BY <1>1, <1>2, <2>1, <3>1
      <4>2. journal # None => journal.native # [kind |-> "promote", bundle |-> n]
        BY <1>3, <4>1
      <4> QED
        BY <4>1, <4>2
    <3>2. CASE v # w
      BY <1>1, <1>2, <2>1, <3>2 DEF Replaying, Candidates, Waiting
    <3> QED
      BY <3>1, <3>2
  <2>2. ASSUME NEW v \in Writers, NEW u \in Writers, v # u, request'[v] # None, request'[u] # None,
               request'[v].native # None
        PROVE  request'[v].native # request'[u].native
    BY <1>2, <1>3, <2>2 DEF Replaying, Candidates
  <2>3. holder \in Writers => request'[holder] = request[holder]
    BY <1>2
  <2>4. (plan # None \/ step \in Working \cup {"decide", "write"}) => holder \in Writers
    BY DEF InstallInv, InstallTypeOK, Working
  <2> QED
    BY <2>1, <2>2, <2>3, <2>4 DEF Replaying, Candidates
<1>5. Ready(journal)' \/ journal = None
  BY <1>1 DEF Replaying, Ready, AsBeforeOrAfter, NativePresent
<1>6. Ready(plan)' \/ plan = None
  BY <1>1 DEF Replaying, Ready, AsBeforeOrAfter, NativePresent
<1> QED
  BY <1>4, <1>5, <1>6 DEF Replaying

LEMMA ReleaseReplay ==
  ASSUME ReplayInv, NEW w \in Writers, NEW left \in {None, Leftover(request[w])},
         holder = w, request[w] # None, Release(w, left),
         UNCHANGED <<disk, ledger, fence, journal, live, snapshot, drift>>,
         \/ staged' = staged
         \/ /\ left = None /\ staged' = staged \ {request[w].native}
            /\ journal # None => journal.native # [kind |-> "promote", bundle |-> request[w].native]
  PROVE  Replaying'
<1> USE InstallAssumption DEF ReplayInv, Release
<1>1. /\ request \in [Writers -> Requests \cup {None}]
      /\ \A v \in Writers \ {w} : request'[v] = request[v]
      /\ request'[w] = left
  BY DEF InstallInv, InstallTypeOK
<1>2. left # None => left.kind = "discard" /\ left.native = request[w].native
  BY <1>1 DEF Leftover, Requests
<1>3. Candidates'
  <2>1. ASSUME NEW v \in Writers, Waiting(v)', request'[v].native # None
        PROVE  /\ request'[v].native \in staged'
               /\ journal' # None => journal'.native # [kind |-> "promote", bundle |-> request'[v].native]
    BY <1>1, <1>2, <2>1 DEF Replaying, Candidates, Waiting
  <2>2. ASSUME NEW v \in Writers, NEW u \in Writers, v # u, request'[v] # None, request'[u] # None,
               request'[v].native # None
        PROVE  request'[v].native # request'[u].native
    BY <1>1, <1>2, <2>2 DEF Replaying, Candidates
  <2> QED
    BY <2>1, <2>2 DEF Candidates, Working
<1>4. Ready(journal)' \/ journal = None
  <2>1. CASE staged' = staged
    BY <2>1 DEF Replaying, Ready, AsBeforeOrAfter, NativePresent
  <2>2. CASE staged' = staged \ {request[w].native} /\ journal # None
             /\ journal.native # [kind |-> "promote", bundle |-> request[w].native]
    <3>1. journal.native \in [kind : {"none", "promote", "purge", "hold"}, bundle : Bundles]
      BY <2>2 DEF InstallInv, InstallTypeOK, Transactions
    <3>2. journal.native.kind = "promote" => journal.native.bundle # request[w].native
      BY <2>2, <3>1
    <3> QED
      BY <2>2, <3>2 DEF Replaying, Ready, AsBeforeOrAfter, NativePresent
  <2> QED
    BY <2>1, <2>2
<1> QED
  BY <1>3, <1>4 DEF Replaying

LEMMA ReturnReplay ==
  ASSUME ReplayInv, NEW w \in Writers, holder = w, request[w] # None, Return(w)
  PROVE  Replaying'
BY ReleaseReplay DEF Return, disks, history

LEMMA StopReplay ==
  ASSUME ReplayInv, NEW w \in Writers, Stop(w)
  PROVE  Replaying'
<1>1. holder = w /\ request[w] # None
  BY DEF Stop, ReplayInv, InstallInv, Grounded
<1>2. PICK left \in {None, Leftover(request[w])} : Release(w, left)
  BY DEF Stop
<1>3. UNCHANGED <<disk, ledger, fence, journal, live, snapshot, drift>> /\ staged' = staged
  BY DEF Stop, disks
<1> QED
  BY <1>1, <1>2, <1>3, ReleaseReplay

LEMMA DiscardReplay ==
  ASSUME ReplayInv, NEW w \in Writers, Discard(w)
  PROVE  Replaying'
<1>1. holder = w /\ request[w] # None
  BY DEF Discard, ReplayInv, InstallInv, Grounded
<1>2. Release(w, None) /\ UNCHANGED <<disk, ledger, fence, journal, live, snapshot, drift>>
  BY DEF Discard, history
<1>3. CASE journal # None /\ journal.native = [kind |-> "promote", bundle |-> request[w].native]
  <2>1. staged' = staged
    BY <1>3 DEF Discard
  <2> QED
    BY <1>1, <1>2, <2>1, ReleaseReplay
<1>4. CASE ~(journal # None /\ journal.native = [kind |-> "promote", bundle |-> request[w].native])
  <2>1. staged' = staged \ {request[w].native}
    BY <1>4 DEF Discard
  <2> QED
    BY <1>1, <1>2, <1>4, <2>1, ReleaseReplay
<1> QED
  BY <1>3, <1>4

\* Nothing that matters to a decision changes: the holder moves on.
LEMMA QuietReplay ==
  ASSUME ReplayInv,
         UNCHANGED <<disk, ledger, journal, live, staged, request, drift>>,
         \/ UNCHANGED <<holder, own, plan>> /\ step' \in Working /\ step \in Working \cup {"decide"}
         \/ UNCHANGED <<holder, own, plan, step>>
         \/ plan = None /\ plan' = None /\ {holder, holder'} \cap Writers = {} /\ UNCHANGED own
            /\ step' \notin Working \cup {"decide", "write"}
  PROVE  Replaying'
<1> USE InstallAssumption DEF ReplayInv
<1>1. Candidates'
  BY DEF Replaying, Candidates, Waiting, Working
<1>2. (Ready(journal)' \/ journal = None) /\ (Ready(plan)' \/ plan' = None)
  BY DEF Replaying, Ready, AsBeforeOrAfter, NativePresent
<1> QED
  BY <1>1, <1>2 DEF Replaying, InstallInv, Decisions

\* A plan whose files are as captured, and whose bundle is the planner's own.
LEMMA PlannedReplay ==
  ASSUME ReplayInv, NEW w \in Writers, NEW t, holder = w, step = "decide", Planned(w, t),
         \A p \in DOMAIN t.files : t.files[p].was = disk[p],
         journal # None => \A p \in DOMAIN journal.files : AsBeforeOrAfter(journal, p),
         t.native.kind = "promote" =>
           /\ t.native.bundle = request[w].native
           /\ t.native.bundle \in staged /\ NativePresent(t.before)
  PROVE  Replaying'
<1> USE DEF ReplayInv, Planned, disks
<1>1. Candidates'
  BY DEF Replaying, Candidates, Waiting, Working
<1>2. Ready(t)'
  BY DEF Ready, AsBeforeOrAfter, NativePresent
<1>3. Ready(journal)' \/ journal = None
  BY DEF Replaying, Ready, AsBeforeOrAfter, NativePresent
<1> QED
  BY <1>1, <1>2, <1>3 DEF Replaying

LEMMA DecideReplay ==
  ASSUME ReplayInv, NEW w \in Writers, Decide(w)
  PROVE  Replaying'
<1>1. request[w] \in Requests /\ request[w] # None /\ holder = w /\ step = "decide" /\ journal = None
  BY DEF ReplayInv, InstallInv, InstallTypeOK, Grounded, Decide
<1>2. CASE Return(w)
  BY <1>1, <1>2, ReturnReplay
<1>3. CASE Planned(w, Transaction(request[w]))
  <2> DEFINE t == Transaction(request[w])
  <2>1. \A p \in DOMAIN t.files : t.files[p].was = disk[p]
    BY DEF Transaction, Changes
  <2>2. ASSUME t.native.kind = "promote"
        PROVE  t.native.bundle = request[w].native /\ t.native.bundle # None
    BY <2>2 DEF Transaction, NativeChange, NoNative
  <2>3. Waiting(w)
    BY <1>1 DEF ReplayInv, Replaying, Candidates, Waiting
  <2>4. request[w].native # None => request[w].native \in staged
    BY <2>3 DEF ReplayInv, Replaying, Candidates
  <2>5. NativePresent(t.before)
    BY <1>1 DEF ReplayInv, InstallInv, SettledIsWhole, Transaction
  <2> QED
    BY <1>1, <1>3, <2>1, <2>2, <2>4, <2>5, PlannedReplay
<1> QED
  BY <1>2, <1>3 DEF Decide

LEMMA ResumeReplay ==
  ASSUME ReplayInv, NEW w \in Writers, Resume(w)
  PROVE  Replaying'
<1>1. request[w] \in Requests /\ request[w] # None /\ holder = w /\ step = "decide" /\ journal # None
      /\ plan = None
  BY DEF ReplayInv, InstallInv, InstallTypeOK, Grounded, Resume
<1>2. CASE Return(w)
  BY <1>1, <1>2, ReturnReplay
<1>3. CASE Reversible(journal) /\ Planned(w, Reversal(journal))
  <2> DEFINE u == Reversal(journal)
  <2>1. u.files = [p \in DOMAIN journal.files \ Kept(journal) |-> Undo(journal, p)]
    BY DEF Reversal
  <2>2. \A p \in DOMAIN u.files : u.files[p].was = disk[p]
    BY <2>1 DEF Undo
  <2>3. u.native.kind # "promote"
    BY DEF Reversal, NoNative
  <2>4. \A p \in DOMAIN journal.files : AsBeforeOrAfter(journal, p)
    BY <1>3 DEF Reversible
  <2> QED
    BY <1>1, <1>3, <2>2, <2>3, <2>4, PlannedReplay
<1>4. CASE /\ step' = "check" /\ own' = (request[w].kind \in {"recover", "rollback"})
           /\ UNCHANGED <<disks, holder, request, plan, todo, seen, snapshot, history>>
  <2> USE <1>1, <1>4 DEF ReplayInv, disks, history
  <2>1. Candidates'
    BY DEF Replaying, Candidates, Waiting, Working
  <2>2. Ready(journal)'
    BY DEF Replaying, Ready, AsBeforeOrAfter, NativePresent
  <2> QED
    BY <2>1, <2>2 DEF Replaying
<1> QED
  BY <1>2, <1>3, <1>4 DEF Resume

LEMMA WriteJournalReplay ==
  ASSUME ReplayInv, NEW w \in Writers, WriteJournal(w)
  PROVE  Replaying'
<1> USE DEF ReplayInv, WriteJournal
<1>1. plan # None /\ plan \in Transactions /\ plan.before = ledger /\ holder = w /\ own /\ request[w] # None
  BY DEF InstallInv, InstallTypeOK, Decisions, Replaying, Candidates, Grounded
<1>2. ASSUME NEW v \in Writers, Waiting(v)', request'[v].native # None
      PROVE  /\ request'[v].native \in staged'
             /\ journal'.native # [kind |-> "promote", bundle |-> request'[v].native]
  <2>1. v # w /\ Waiting(v)
    BY <1>1, <1>2 DEF Waiting
  <2>2. request[v].native \in staged /\ request[v].native # request[w].native
    BY <1>1, <1>2, <2>1 DEF Replaying, Candidates, Waiting
  <2>3. plan.native.kind = "promote" => plan.native.bundle = request[w].native
    BY <1>1 DEF Replaying, Candidates
  <2> QED
    BY <2>2, <2>3
<1>3. Candidates'
  BY <1>1, <1>2 DEF Replaying, Candidates, Working
<1>4. Ready(journal)'
  BY <1>1 DEF Replaying, Ready, AsBeforeOrAfter, NativePresent
<1> QED
  BY <1>1, <1>3, <1>4 DEF Replaying

LEMMA PromoteReplay ==
  ASSUME ReplayInv, NEW w \in Writers, Promote(w)
  PROVE  Replaying'
<1> USE InstallAssumption DEF ReplayInv, Promote, history
<1>1. journal # None /\ plan = None /\ Ready(journal)
      /\ journal.native \in [kind : {"none", "promote", "purge", "hold"}, bundle : Bundles]
  BY DEF InstallInv, InstallTypeOK, Progress, Working, Replaying, Transactions
<1>2. ASSUME NEW v \in Writers, Waiting(v), request[v].native # None
      PROVE  /\ request[v].native \in staged'
             /\ journal'.native # [kind |-> "promote", bundle |-> request'[v].native]
  <2>1. /\ request[v].native \in staged
        /\ journal.native # [kind |-> "promote", bundle |-> request[v].native]
    BY <1>1, <1>2 DEF Replaying, Candidates
  <2>2. journal.native.kind = "promote" => journal.native.bundle # request[v].native
    BY <1>1, <2>1
  <2> QED
    BY <2>1, <2>2
<1>3. Candidates'
  BY <1>1, <1>2 DEF Replaying, Candidates, Waiting, Working
<1>4. Ready(journal)'
  BY <1>1 DEF Ready, AsBeforeOrAfter, NativePresent
<1> QED
  BY <1>1, <1>3, <1>4 DEF Replaying

LEMMA RenameReplay ==
  ASSUME ReplayInv, NEW w \in Writers, Rename(w)
  PROVE  Replaying'
<1> USE DEF ReplayInv, Rename, history
<1>1. journal # None /\ plan = None /\ seen.path \in DOMAIN journal.files /\ seen.path \in Paths
  BY DEF InstallInv, InstallTypeOK, Progress, Working, Transactions, Partial
<1>2. Candidates'
  BY DEF Replaying, Candidates, Waiting, Working
<1>3. Ready(journal)'
  BY <1>1 DEF Replaying, Ready, AsBeforeOrAfter, NativePresent, InstallInv, InstallTypeOK
<1> QED
  BY <1>1, <1>2, <1>3 DEF Replaying

LEMMA FinishReplay ==
  ASSUME ReplayInv, NEW w \in Writers, WriteLedger(w) \/ Clean(w) \/ Unlink(w)
  PROVE  Replaying'
<1> USE DEF ReplayInv
<1>1. plan = None /\ journal # None /\ holder = w /\ request[w] # None
  BY DEF InstallInv, InstallTypeOK, Progress, Working, WriteLedger, Clean, Unlink, Grounded
<1>2. CASE WriteLedger(w) \/ Clean(w)
  <2> USE <1>1, <1>2 DEF WriteLedger, Clean, history
  <2>1. Candidates'
    BY DEF Replaying, Candidates, Waiting, Working
  <2>2. Ready(journal)'
    BY DEF Replaying, Ready, AsBeforeOrAfter, NativePresent, InstallInv, Progress
  <2> QED
    BY <2>1, <2>2 DEF Replaying
<1>3. CASE Unlink(w) /\ own
  <2>1. Release(w, Leftover(request[w])) /\ journal' = None
        /\ UNCHANGED <<disk, ledger, fence, live, staged, snapshot, drift>>
    BY <1>3 DEF Unlink
  <2>2. /\ \A v \in Writers \ {w} : request'[v] = request[v]
        /\ request'[w] # None => request'[w].kind = "discard" /\ request'[w].native = request[w].native
    <3>1. request \in [Writers -> Requests \cup {None}]
          /\ request' = [request EXCEPT ![w] = Leftover(request[w])]
      BY <2>1 DEF Release, InstallInv, InstallTypeOK
    <3>2. request'[w] = Leftover(request[w]) /\ request[w] \in Requests
      BY <1>1, <3>1
    <3> QED
      BY <3>1, <3>2 DEF Leftover, Requests
  <2>3. ASSUME NEW v \in Writers, Waiting(v)', request'[v].native # None
        PROVE  request'[v].native \in staged'
    <3>1. v # w
      BY <2>2, <2>3 DEF Waiting
    <3>2. request'[v] = request[v] /\ Waiting(v)
      BY <1>1, <2>2, <2>3, <3>1 DEF Waiting
    <3> QED
      BY <2>1, <2>3, <3>2 DEF Replaying, Candidates
  <2>4. ASSUME NEW v \in Writers, NEW u \in Writers, v # u, request'[v] # None, request'[u] # None,
               request'[v].native # None
        PROVE  request'[v].native # request'[u].native
    BY <1>1, <2>2, <2>4 DEF Replaying, Candidates
  <2>5. Candidates'
    BY <2>1, <2>3, <2>4 DEF Candidates, Release, Working
  <2> QED
    BY <2>1, <2>5 DEF Replaying, Release
<1>4. CASE Unlink(w) /\ ~own
  <2>1. Candidates'
    BY <1>1, <1>4 DEF Unlink, Replaying, Candidates, Waiting, Working
  <2> QED
    BY <1>1, <1>4, <2>1 DEF Unlink, Replaying
<1> QED
  BY <1>2, <1>3, <1>4

LEMMA LockReplay ==
  ASSUME ReplayInv, NEW w \in Writers, Lock(w) \/ GiveUp(w)
  PROVE  Replaying'
<1> USE InstallAssumption DEF ReplayInv
<1>1. CASE Lock(w)
  <2> USE <1>1 DEF Lock, disks, history
  <2>1. plan = None
    BY DEF InstallInv, InstallTypeOK
  <2>2. Candidates'
    BY <2>1 DEF Replaying, Candidates, Waiting, Working
  <2>3. Ready(journal)' \/ journal = None
    BY DEF Replaying, Ready, AsBeforeOrAfter, NativePresent
  <2> QED
    BY <2>1, <2>2, <2>3 DEF Replaying
<1>2. CASE GiveUp(w)
  <2> USE <1>2 DEF GiveUp, disks, history
  <2>1. /\ \A v \in Writers \ {w} : request'[v] = request[v]
        /\ request'[w] # None => request'[w].kind = "discard" /\ request'[w].native = request[w].native
    BY DEF Leftover, InstallInv, InstallTypeOK, Requests
  <2>2. ASSUME NEW v \in Writers, Waiting(v)', request'[v].native # None
        PROVE  /\ request'[v].native \in staged'
               /\ journal' # None => journal'.native # [kind |-> "promote", bundle |-> request'[v].native]
    BY <2>1, <2>2 DEF Replaying, Candidates, Waiting
  <2>3. ASSUME NEW v \in Writers, NEW u \in Writers, v # u, request'[v] # None, request'[u] # None,
               request'[v].native # None
        PROVE  request'[v].native # request'[u].native
    BY <2>1, <2>3 DEF Replaying, Candidates
  <2>4. holder \in Writers => request'[holder] = request[holder]
    BY <2>1
  <2>5. (plan # None \/ step \in Working \cup {"decide", "write"}) => holder \in Writers
    BY DEF InstallInv, InstallTypeOK, Working
  <2>6. Candidates'
    BY <2>2, <2>3, <2>4, <2>5 DEF Replaying, Candidates
  <2>7. (Ready(journal)' \/ journal = None) /\ (Ready(plan)' \/ plan = None)
    BY DEF Replaying, Ready, AsBeforeOrAfter, NativePresent
  <2> QED
    BY <2>6, <2>7 DEF Replaying
<1> QED
  BY <1>1, <1>2

LEMMA EditReplay ==
  ASSUME ReplayInv, NEW p \in Paths, NEW c \in Contents, Edit(p, c)
  PROVE  Replaying'
<1> USE DEF ReplayInv, Edit, locals
<1>1. Candidates'
  BY DEF Replaying, Candidates, Waiting
<1>2. (Ready(journal)' \/ journal = None) /\ (Ready(plan)' \/ plan = None)
  BY DEF Replaying, Ready, AsBeforeOrAfter, NativePresent, InstallInv, InstallTypeOK
<1> QED
  BY <1>1, <1>2 DEF Replaying

LEMMA ReplayStep ==
  ASSUME ReplayInv, [InstallNext]_vars
  PROVE  Replaying'
<1>1. ASSUME NEW w \in Writers, NEW m \in Menu, Stage(w, m) PROVE Replaying'
  BY <1>1, StageReplay
<1>2. ASSUME NEW w \in Writers, Lock(w) \/ GiveUp(w) \/ Stop(w) \/ Discard(w) PROVE Replaying'
  BY <1>2, LockReplay, StopReplay, DiscardReplay
<1>3. ASSUME NEW w \in Writers, Decide(w) \/ Resume(w) \/ WriteJournal(w) PROVE Replaying'
  BY <1>3, DecideReplay, ResumeReplay, WriteJournalReplay
<1>4. ASSUME NEW w \in Writers, Check(w) PROVE Replaying'
  <2>1. CASE Return(w)
    BY <1>4, <2>1, ReturnReplay DEF Check, ReplayInv, InstallInv, Grounded
  <2>2. CASE ~Return(w)
    <3>1. /\ UNCHANGED <<disk, ledger, journal, live, staged, request, drift, holder, own, plan>>
          /\ step = "check" /\ step' = "revoke"
      BY <1>4, <2>2 DEF Check, disks, history
    <3> QED
      BY <3>1, QuietReplay DEF Working
  <2> QED
    BY <2>1, <2>2
<1>5. ASSUME NEW w \in Writers, Revoke(w) \/ FinalPolicy(w) PROVE Replaying'
  <2>1. /\ UNCHANGED <<disk, ledger, journal, live, staged, request, drift, holder, own, plan>>
        /\ step \in {"revoke", "policy"} /\ step' \in {"promote", "unlink"}
    BY <1>5 DEF Revoke, FinalPolicy, history
  <2> QED
    BY <2>1, QuietReplay DEF Working
<1>6. ASSUME NEW w \in Writers, Promote(w) \/ Rename(w) PROVE Replaying'
  BY <1>6, PromoteReplay, RenameReplay
<1>7. ASSUME NEW w \in Writers, NEW p \in Paths, Publish(w, p) PROVE Replaying'
  <2>1. CASE Return(w)
    BY <1>7, <2>1, ReturnReplay DEF Publish, ReplayInv, InstallInv, Grounded
  <2>2. CASE ~Return(w)
    <3>1. /\ UNCHANGED <<disk, ledger, journal, live, staged, request, drift, holder, own, plan>>
          /\ step = "publish" /\ step' \in {"publish", "rename"}
      BY <1>7, <2>2 DEF Publish, disks, history
    <3> QED
      BY <3>1, QuietReplay DEF Working
  <2> QED
    BY <2>1, <2>2
<1>8. ASSUME NEW w \in Writers, WriteLedger(w) \/ Clean(w) \/ Unlink(w) PROVE Replaying'
  BY <1>8, FinishReplay
<1>9. ASSUME NEW p \in Paths, NEW c \in Contents, Edit(p, c) PROVE Replaying'
  BY <1>9, EditReplay
<1>10. ASSUME NEW d \in Readers, Observe(d) PROVE Replaying'
  BY <1>10, QuietReplay DEF Observe, disks, locals, history
<1>11. ASSUME NEW d \in Readers, Lease(d) \/ Delivered(d) PROVE Replaying'
  <2>1. plan = None /\ {holder, holder'} \cap Writers = {} /\ step' \in {"handoff", "idle"}
    BY <1>11, InstallAssumption DEF Lease, Delivered, ReplayInv, InstallInv, InstallTypeOK
  <2>2. UNCHANGED <<disk, ledger, journal, live, staged, request, drift, own, plan>>
    BY <1>11 DEF Lease, Delivered, disks, history
  <2> QED
    BY <2>1, <2>2, QuietReplay DEF Working
<1>12. CASE UNCHANGED vars
  BY <1>12, QuietReplay DEF vars, disks, locals, history
<1> QED
  BY <1>1, <1>2, <1>3, <1>4, <1>5, <1>6, <1>7, <1>8, <1>9, <1>10, <1>11, <1>12 DEF InstallNext

LEMMA ReplayInvariant == InstallSpec => []ReplayInv
<1>1. InstallInit => ReplayInv
  BY InitInv, InitReplay DEF ReplayInv
<1>2. ReplayInv /\ [InstallNext]_vars => ReplayInv'
  BY InstallStep, ReplayStep DEF ReplayInv
<1> QED
  BY <1>1, <1>2, PTL DEF InstallSpec

(* However often Commit was interrupted, and by whom, recoverTransaction finds *)
(* a journal whose ledger, files and bundle it can carry out, but for a file  *)
(* somebody edited since the decision captured it.                            *)
THEOREM InstallReplayable == InstallSpec => []Replayable
<1>1. ReplayInv => Replayable
  <2> SUFFICES ASSUME ReplayInv, journal # None PROVE Replayable
    BY DEF Replayable
  <2>1. Sound(journal) /\ Ready(journal) /\ ledger \in {journal.before, journal.after}
    BY DEF ReplayInv, InstallInv, Decisions, Replaying
  <2>2. NativeReady(journal)
    BY <2>1 DEF NativeReady, Sound, Backed, Ready
  <2> QED
    BY <2>1, <2>2 DEF Replayable, Ready
<1> QED
  BY <1>1, ReplayInvariant, PTL
-----------------------------------------------------------------------------
(* The refinement of InstallPromise, over InstallInv.                         *)

LEMMA PromisedStep ==
  ASSUME InstallInv, Promised, [InstallNext]_vars
  PROVE  Promised'
<1> USE InstallAssumption
<1>1. CASE UNCHANGED <<ledger, journal, origin, plan>>
  BY <1>1 DEF Promised
<1>2. CASE UNCHANGED <<journal, origin>> /\ plan' = None
  BY <1>2 DEF Promised
<1>3. ASSUME NEW w \in Writers, WriteJournal(w) PROVE Promised'
  <2>1. plan # None /\ plan.before = ledger /\ ledger \in Ledgers
    BY <1>3 DEF WriteJournal, InstallInv, InstallTypeOK, Decisions
  <2>2. CASE plan.rollback
    BY <1>3, <2>1, <2>2 DEF WriteJournal, Promised
  <2>3. CASE ~plan.rollback
    BY <1>3, <2>1, <2>3 DEF WriteJournal, Promised
  <2> QED
    BY <2>2, <2>3
<1>4. ASSUME NEW w \in Writers, Unlink(w) PROVE Promised'
  <2>1. journal' = None /\ plan' = None
    BY <1>4 DEF Unlink, Release, InstallInv, InstallTypeOK
  <2> QED
    BY <2>1 DEF Promised
<1>5. ASSUME NEW w \in Writers, Decide(w), Planned(w, Transaction(request[w])) PROVE Promised'
  BY <1>5 DEF Decide, Planned, disks, Promised, Transaction, NextLedger
<1>6. ASSUME NEW w \in Writers, Resume(w), ToReverse(w), Planned(w, Reversal(journal)) PROVE Promised'
  <2>1. journal # None /\ ~journal.rollback /\ journal \in Transactions
    BY <1>6 DEF Resume, ToReverse, InstallInv, InstallTypeOK
  <2>2. /\ Reversal(journal).rollback
        /\ Reversal(journal).after.gen > journal.after.gen /\ ~Reversal(journal).after.on
        /\ Reversal(journal).after.consumers = journal.before.consumers
    <3>1. journal.before \in Ledgers /\ journal.after.gen \in Nat
      BY <2>1 DEF Transactions, Ledgers
    <3>2. /\ Reversal(journal).rollback = TRUE
          /\ Reversal(journal).after.gen = journal.after.gen + 1 /\ Reversal(journal).after.on = FALSE
          /\ Reversal(journal).after.consumers = journal.before.consumers
      BY <3>1 DEF Reversal, Ledgers
    <3> QED
      BY <3>1, <3>2
  <2> QED
    BY <1>6, <2>1, <2>2 DEF Planned, disks, Promised
<1>7. ASSUME NEW w \in Writers, Return(w) PROVE Promised'
  BY <1>2, <1>7 DEF Return, Release, disks, history
<1>8. ASSUME NEW w \in Writers, Stop(w) PROVE Promised'
  BY <1>2, <1>8 DEF Stop, Release, disks
<1>9. ASSUME NEW w \in Writers, Discard(w) PROVE Promised'
  BY <1>2, <1>9 DEF Discard, Release, history
<1>10. ASSUME NEW w \in Writers, Decide(w) PROVE Promised'
  BY <1>5, <1>7, <1>10 DEF Decide
<1>11. ASSUME NEW w \in Writers, Resume(w) PROVE Promised'
  BY <1>1, <1>6, <1>7, <1>11 DEF Resume, disks, history
<1>12. ASSUME NEW w \in Writers, \/ Lock(w) \/ GiveUp(w) \/ \E m \in Menu : Stage(w, m)
       PROVE Promised'
  BY <1>1, <1>12 DEF Lock, GiveUp, Stage, disks, history
<1>13. ASSUME NEW w \in Writers, Check(w) \/ \E p \in Paths : Publish(w, p) PROVE Promised'
  BY <1>1, <1>7, <1>13 DEF Check, Publish, disks, history
<1>14. ASSUME NEW w \in Writers, Revoke(w) \/ Promote(w) \/ Rename(w) \/ Clean(w) \/ FinalPolicy(w)
       PROVE Promised'
  BY <1>1, <1>14 DEF Revoke, Promote, Rename, Clean, FinalPolicy, history
<1>15. ASSUME NEW w \in Writers, WriteLedger(w) PROVE Promised'
  <2>1. plan = None
    BY <1>15 DEF WriteLedger, InstallInv, InstallTypeOK
  <2> QED
    BY <1>2, <1>15, <2>1 DEF WriteLedger, history
<1>16. ASSUME NEW p \in Paths, NEW c \in Contents, Edit(p, c) PROVE Promised'
  BY <1>1, <1>16 DEF Edit, locals
<1>17. ASSUME NEW d \in Readers, Observe(d) \/ Lease(d) \/ Delivered(d) PROVE Promised'
  BY <1>1, <1>17 DEF Observe, Lease, Delivered, disks, locals, history
<1>18. CASE UNCHANGED vars
  BY <1>1, <1>18 DEF vars, disks, locals, history
<1> QED
  BY <1>3, <1>4, <1>8, <1>9, <1>10, <1>11, <1>12, <1>13, <1>14, <1>15, <1>16, <1>17, <1>18
     DEF InstallNext

LEMMA PromiseStep ==
  ASSUME InstallInv, InstallInv', Promised, [InstallNext]_vars
  PROVE  [Promise!PromiseNext]_(Promise!promiseVars)
<1> USE InstallAssumption DEF Promise!PromiseNext, Promise!promiseVars, Settled
<1>0. /\ ledger \in Ledgers
      /\ journal # None => journal \in Transactions /\ journal.after \in Ledgers /\ journal.after # None
  BY DEF InstallInv, InstallTypeOK, Transactions
<1>1. CASE UNCHANGED <<ledger, journal, origin>>
  BY <1>1
<1>2. CASE UNCHANGED <<journal, origin>> /\ journal # None
  BY <1>2
<1>3. ASSUME NEW w \in Writers, WriteJournal(w) PROVE Promise!PromiseNext
  <2>1. /\ plan # None /\ plan.before = ledger /\ plan \in Transactions
        /\ plan.after \in Ledgers /\ plan.after # None
    BY <1>3 DEF WriteJournal, InstallInv, InstallTypeOK, Decisions, Transactions
  <2>2. CASE plan.rollback
    BY <1>0, <1>3, <2>1, <2>2 DEF WriteJournal, Promised, Promise!GoBack
  <2>3. CASE ~plan.rollback
    <3>1. origin'.before = ledger /\ journal = None /\ journal' = plan /\ UNCHANGED ledger
      BY <1>3, <2>1, <2>3 DEF WriteJournal, Promised
    <3> QED
      BY <2>1, <2>3, <3>1 DEF Promised, Promise!Undertake
  <2> QED
    BY <2>2, <2>3
<1>4. ASSUME NEW w \in Writers, Unlink(w) PROVE Promise!PromiseNext
  <2>1. journal # None /\ ledger = journal.after
    BY <1>4 DEF Unlink, InstallInv, Progress, Working
  <2> QED
    BY <1>0, <1>4, <2>1 DEF Unlink, Promise!Arrive
<1>5. ASSUME NEW w \in Writers, WriteLedger(w) PROVE UNCHANGED <<journal, origin>> /\ journal # None
  BY <1>5 DEF WriteLedger, history, InstallInv, Progress, Working
<1>6. ASSUME NEW w \in Writers,
             \/ Lock(w) \/ GiveUp(w) \/ Decide(w) \/ Resume(w) \/ Check(w) \/ Stop(w) \/ Discard(w)
             \/ (\E m \in Menu : Stage(w, m)) \/ (\E p \in Paths : Publish(w, p))
      PROVE  UNCHANGED <<ledger, journal, origin>>
  BY <1>6 DEF Lock, GiveUp, Decide, Resume, Check, Stop, Discard, Stage, Publish, Planned, Return, disks, history
<1>7. ASSUME NEW w \in Writers, Revoke(w) \/ Promote(w) \/ Rename(w) \/ Clean(w) \/ FinalPolicy(w)
      PROVE  UNCHANGED <<ledger, journal, origin>>
  BY <1>7 DEF Revoke, Promote, Rename, Clean, FinalPolicy, history
<1>8. ASSUME NEW p \in Paths, NEW c \in Contents, Edit(p, c) PROVE UNCHANGED <<ledger, journal, origin>>
  BY <1>8 DEF Edit, locals
<1>9. ASSUME NEW d \in Readers, Observe(d) \/ Lease(d) \/ Delivered(d)
      PROVE  UNCHANGED <<ledger, journal, origin>>
  BY <1>9 DEF Observe, Lease, Delivered, disks, locals, history
<1>10. CASE UNCHANGED vars
  BY <1>1, <1>10 DEF vars, disks, locals, history
<1> QED
  BY <1>1, <1>2, <1>3, <1>4, <1>5, <1>6, <1>7, <1>8, <1>9, <1>10 DEF InstallNext

(* The transaction implements its promise: a decision Commit has written is   *)
(* carried out, or reversed into a newer generation with the consumers of the *)
(* old one and nothing enabled, and never dropped.                            *)
THEOREM InstallKeepsPromise == InstallSpec => KeepsPromise
<1>1. InstallInit => Promise!PromiseInit /\ Promised
  <2> SUFFICES ASSUME InstallInit PROVE Promise!PromiseInit /\ Promised
    OBVIOUS
  <2>1. ledger \in Ledgers /\ journal = None /\ plan = None
    BY InitInv DEF InstallInit, InstallInv, InstallTypeOK
  <2> QED
    BY <2>1 DEF Promise!PromiseInit, Settled, Promised
<1>2. InstallInv /\ Promised /\ [InstallNext]_vars => Promised'
  BY PromisedStep
<1>3. InstallInv /\ InstallInv' /\ Promised /\ [InstallNext]_vars
        => [Promise!PromiseNext]_(Promise!promiseVars)
  BY PromiseStep
<1> QED
  BY <1>1, <1>2, <1>3, InstallInvariant, PTL DEF InstallSpec, KeepsPromise, Promise!PromiseSpec
-----------------------------------------------------------------------------
(* Who may remove a bundle, over ReplayInv.                                   *)

\* A purge is of an explicit request, whose consumer was the last.
Purges(t, r) ==
  t.native.kind = "purge" => r.purge /\ t.before.consumers \cup t.after.consumers \subseteq {r.consumer}

Purging ==
  /\ journal # None => Purges(journal, origin.request)
  /\ plan # None => IF plan.rollback THEN plan.native.kind # "purge" ELSE Purges(plan, request[holder])

LEMMA DecidedPurge ==
  ASSUME NEW r, Admitted(r)
  PROVE  Purges(Transaction(r), r) /\ ~Transaction(r).rollback
<1>1. Transaction(r).before = ledger /\ Transaction(r).after.consumers = NextConsumers(r)
      /\ Transaction(r).native = NativeChange(r) /\ ~Transaction(r).rollback
  BY DEF Transaction, NextLedger
<1>2. NativeChange(r).kind = "purge" => r.purge
  BY DEF NativeChange, NoNative
<1>3. r.purge => ledger.consumers \cup NextConsumers(r) \subseteq {r.consumer}
  BY DEF Admitted, PurgeAllowed, NextConsumers
<1> QED
  BY <1>1, <1>2, <1>3 DEF Purges

LEMMA ReversedPurge == \A t : Reversal(t).rollback /\ Reversal(t).native.kind # "purge"
BY DEF Reversal, NoNative

LEMMA PurgingStep ==
  ASSUME ReplayInv, Purging, [InstallNext]_vars
  PROVE  Purging'
<1> USE DEF ReplayInv
<1>0. /\ plan # None => step = "write" /\ holder \in Writers
      /\ request \in [Writers -> Requests \cup {None}]
  BY DEF InstallInv, InstallTypeOK
<1>1. ASSUME NEW w \in Writers, Decide(w) PROVE Purging'
  <2>1. CASE Return(w)
    BY <1>1, <2>1 DEF Return, Release, Purging, disks, history
  <2>2. CASE Planned(w, Transaction(request[w])) /\ Admitted(request[w])
    <3> DEFINE t == Transaction(request[w])
    <3>1. Purges(t, request[w]) /\ ~t.rollback
      BY <2>2, DecidedPurge
    <3>2. /\ plan' = t /\ holder' = w /\ request' = request /\ journal' = None
      BY <1>1, <2>2 DEF Planned, Decide, disks
    <3> QED
      BY <3>1, <3>2 DEF Purging, Purges
  <2> QED
    BY <1>1, <2>1, <2>2 DEF Decide
<1>2. ASSUME NEW w \in Writers, Resume(w) PROVE Purging'
  <2>1. UNCHANGED <<journal, origin>>
    BY <1>2 DEF Resume, Return, Planned, disks, history
  <2>2. plan' = None \/ plan' = Reversal(journal)
    BY <1>0, <1>2 DEF Resume, Return, Release, Planned
  <2> QED
    BY <2>1, <2>2, ReversedPurge DEF Purging, Purges
<1>3. ASSUME NEW w \in Writers, WriteJournal(w) PROVE Purging'
  <2>1. CASE plan.rollback
    BY <1>3, <2>1, <1>0 DEF WriteJournal, Purging, Purges, InstallInv, InstallTypeOK
  <2>2. CASE ~plan.rollback
    <3>1. plan # None /\ holder = w /\ plan' = None /\ journal' = plan
          /\ origin'.request = request[w]
      BY <1>3, <2>2 DEF WriteJournal, InstallInv, InstallTypeOK
    <3> QED
      BY <2>2, <3>1 DEF Purging, Purges
  <2> QED
    BY <2>1, <2>2
<1>4. ASSUME NEW w \in Writers, Unlink(w) PROVE Purging'
  BY <1>0, <1>4 DEF Unlink, Release, Purging
<1>5. ASSUME UNCHANGED <<journal, origin>>,
             plan' = None \/ (UNCHANGED <<plan, holder>> /\ (plan # None => request'[holder] = request[holder]))
      PROVE  Purging'
  BY <1>5 DEF Purging, Purges
<1>6. ASSUME NEW w \in Writers, (\E m \in Menu : Stage(w, m)) \/ GiveUp(w) PROVE Purging'
  <2>1. UNCHANGED <<journal, origin, plan, holder>> /\ holder # w
    BY <1>6 DEF Stage, GiveUp, disks, history
  <2>2. \A v \in Writers \ {w} : request'[v] = request[v]
    BY <1>0, <1>6 DEF Stage, GiveUp
  <2> QED
    BY <1>0, <1>5, <2>1, <2>2
<1>7. ASSUME NEW w \in Writers, Lock(w) \/ Stop(w) \/ Discard(w) \/ Check(w) PROVE Purging'
  <2>1. UNCHANGED <<journal, origin>>
    BY <1>7 DEF Lock, Stop, Discard, Check, Return, disks, history
  <2>2. plan' = None
    BY <1>0, <1>7 DEF Lock, Stop, Discard, Check, Return, Release, InstallInv, InstallTypeOK
  <2> QED
    BY <1>5, <2>1, <2>2
<1>8. ASSUME NEW w \in Writers, \/ Revoke(w) \/ Promote(w) \/ (\E p \in Paths : Publish(w, p)) \/ Rename(w)
                               \/ WriteLedger(w) \/ Clean(w) \/ FinalPolicy(w)
      PROVE  Purging'
  <2>1. UNCHANGED <<journal, origin>>
    BY <1>8 DEF Revoke, Promote, Publish, Rename, WriteLedger, Clean, FinalPolicy, Return, disks, history
  <2>2. plan' = None
    BY <1>0, <1>8 DEF Revoke, Promote, Publish, Rename, WriteLedger, Clean, FinalPolicy, Return, Release
  <2> QED
    BY <1>5, <2>1, <2>2
<1>9. ASSUME NEW d \in Readers, Observe(d) \/ Lease(d) \/ Delivered(d) PROVE Purging'
  <2>1. UNCHANGED <<journal, origin, request, plan>> /\ (plan # None => UNCHANGED holder)
    BY <1>0, <1>9, InstallAssumption DEF Observe, Lease, Delivered, disks, locals, history
  <2> QED
    BY <2>1 DEF Purging, Purges
<1>10. ASSUME NEW p \in Paths, NEW c \in Contents, Edit(p, c) PROVE Purging'
  BY <1>5, <1>10 DEF Edit, locals
<1>11. CASE UNCHANGED vars
  BY <1>5, <1>11 DEF vars, disks, locals, history
<1> QED
  BY <1>1, <1>2, <1>3, <1>4, <1>6, <1>7, <1>8, <1>9, <1>10, <1>11 DEF InstallNext

LEMMA BundlesKept ==
  ASSUME ReplayInv, Purging, [InstallNext]_vars
  PROVE  \/ live \subseteq live'
         \/ origin.request.purge /\ ledger'.consumers \subseteq {origin.request.consumer}
<1> USE DEF ReplayInv
<1>1. ASSUME NEW w \in Writers, Promote(w) \/ Clean(w), journal.native.kind = "purge"
      PROVE  origin.request.purge /\ ledger'.consumers \subseteq {origin.request.consumer}
  <2>1. journal # None /\ ledger \in {journal.before, journal.after} /\ ledger' = ledger
    BY <1>1 DEF Promote, Clean, InstallInv, Progress, Working, Replaying
  <2> QED
    BY <1>1, <2>1 DEF Purging, Purges
<1>2. ASSUME NEW w \in Writers, Promote(w), journal.native.kind # "purge" PROVE live \subseteq live'
  BY <1>2 DEF Promote
<1>3. ASSUME NEW w \in Writers, Clean(w) PROVE journal.native.kind = "purge"
  BY <1>3 DEF Clean, InstallInv, Progress
<1>4. ASSUME NEW w \in Writers,
             \/ (\E m \in Menu : Stage(w, m)) \/ Lock(w) \/ GiveUp(w) \/ Decide(w) \/ Resume(w)
             \/ WriteJournal(w) \/ Check(w) \/ Revoke(w) \/ (\E p \in Paths : Publish(w, p))
             \/ Rename(w) \/ WriteLedger(w) \/ FinalPolicy(w) \/ Unlink(w) \/ Discard(w) \/ Stop(w)
      PROVE  live' = live
  BY <1>4 DEF Stage, Lock, GiveUp, Decide, Resume, Return, Planned, WriteJournal, Check, Revoke, Publish,
     Rename, WriteLedger, FinalPolicy, Unlink, Discard, Stop, disks
<1>5. ASSUME NEW p \in Paths, NEW c \in Contents, Edit(p, c) PROVE live' = live
  BY <1>5 DEF Edit
<1>6. ASSUME NEW d \in Readers, Observe(d) \/ Lease(d) \/ Delivered(d) PROVE live' = live
  BY <1>6 DEF Observe, Lease, Delivered, disks
<1>7. CASE UNCHANGED vars
  BY <1>7 DEF vars, disks
<1> QED
  BY <1>1, <1>2, <1>3, <1>4, <1>5, <1>6, <1>7 DEF InstallNext

(* The bundle a delivered notification calls back into, and those of earlier  *)
(* generations, stay until the last consumer purges them (cleanupPurgedNative *)
(* and the refusal of any other purge in Commit), through interruptions,      *)
(* replays and reversals.                                                     *)
THEOREM InstallCallbacks == InstallSpec => CallbacksKept
<1>1. InstallInit => Purging
  BY DEF InstallInit, Purging
<1>2. ReplayInv /\ Purging /\ [InstallNext]_vars => Purging'
  BY PurgingStep
<1>3. ReplayInv /\ Purging /\ [InstallNext]_vars
        => [\/ live \subseteq live'
            \/ origin.request.purge /\ ledger'.consumers \subseteq {origin.request.consumer}]_vars
  BY BundlesKept
<1> QED
  BY <1>1, <1>2, <1>3, ReplayInvariant, PTL DEF InstallSpec, CallbacksKept
-----------------------------------------------------------------------------
(* What a decision was made from, over ReplayInv: the reservation it found,    *)
(* what somebody else had written to its files, and the bytes it captured.     *)

\* The reservation of the installation b stays, or request r clears it; and r saw
\* what somebody else wrote to a file that t changes.
Honours(t, b, r) ==
  /\ \/ b.pending = None
     \/ t.after.pending = b.pending
     \/ r.kind = "clear" /\ r.reservation = b.pending
  /\ \A p \in DOMAIN t.files \cap Assets : t.files[p].was \in Edits =>
       p \in DOMAIN r.was /\ r.was[p] = t.files[p].was

\* Reversal t takes the files of a decision back, but for writers it keeps.
Restores(t, files) ==
  /\ DOMAIN t.files \subseteq DOMAIN files
  /\ \A p \in DOMAIN files :
       IF p \in DOMAIN t.files THEN t.files[p].will = files[p].was
       ELSE p \in Keepers /\ files[p].was = None

Traced ==
  /\ journal # None =>
       /\ Honours(journal, origin.before, origin.request)
       /\ IF journal.rollback THEN Restores(journal, origin.files)
          ELSE origin.files = journal.files
  /\ plan # None =>
       IF plan.rollback
       THEN Honours(plan, origin.before, origin.request) /\ Restores(plan, origin.files)
       ELSE Honours(plan, plan.before, request[holder])
  /\ \A w \in Writers : request[w] # None => DOMAIN request[w].was = DOMAIN request[w].files
  /\ seen = [path |-> seen.path, content |-> seen.content]
  /\ step = "rename" => seen.content = journal.files[seen.path].was

\* What the holder has published so far is as it left it, but for later edits.
Published ==
  /\ step \in {"publish", "rename"} =>
       \A p \in DOMAIN journal.files \ (todo \cup drift) : disk[p] = journal.files[p].will
  /\ step \in {"clean", "policy", "unlink"} =>
       \A p \in DOMAIN journal.files \ drift : disk[p] = journal.files[p].will

\* A fresh decision: Commit has compared the reservation, the staged targets and
\* the managed files.
LEMMA DecisionHonours ==
  ASSUME InstallInv, NEW r \in Requests, Admitted(r), DOMAIN r.was = DOMAIN r.files
  PROVE  Honours(Transaction(r), ledger, r)
<1> USE InstallAssumption
<1> DEFINE t == Transaction(r)
<1>1. t.after = NextLedger(r) /\ t.files = Changes(r)
  BY DEF Transaction
<1>2. DOMAIN t.files = Targets(r) /\ \A p \in Targets(r) : t.files[p].was = disk[p]
  BY <1>1 DEF Changes
<1>3. t.after.pending = NextPending(r)
  BY <1>1 DEF NextLedger
<1>4. \/ ledger.pending = None
      \/ NextPending(r) = ledger.pending
      \/ r.kind = "clear" /\ r.reservation = ledger.pending
  BY DEF Admitted, ReservationAllows, Disabling, NextPending
<1>5. ASSUME NEW p \in Targets(r) \cap Assets, disk[p] \in Edits
      PROVE  p \in DOMAIN r.was /\ r.was[p] = disk[p]
  <2>1. CASE p \in DOMAIN r.files
    BY <2>1 DEF Admitted, StagedUnchanged
  <2>2. CASE p \notin DOMAIN r.files
    <3>1. p \in Owned
      BY <2>2 DEF Targets
    <3>2. disk[p] = ledger.files[p]
      BY <2>2, <3>1 DEF Admitted, Unaltered
    <3>3. ledger.files[p] \in Versions \cup {None} /\ ledger.files[p] # None
      BY <3>1 DEF Owned, InstallInv, InstallTypeOK, Ledgers
    <3> QED
      BY <1>5, <3>2, <3>3
  <2> QED
    BY <2>1, <2>2
<1> QED
  BY <1>2, <1>3, <1>4, <1>5 DEF Honours

\* A reversal: it keeps the reservation of the pending decision, and finds each
\* file as that decision captured it or as it wrote it.
LEMMA ReversalHonours ==
  ASSUME InstallInv, Promised, Traced, journal # None, ~journal.rollback, Reversible(journal)
  PROVE  /\ Honours(Reversal(journal), origin.before, origin.request)
         /\ Restores(Reversal(journal), origin.files)
<1> USE InstallAssumption
<1>1. PICK t \in Transactions : t = journal
  BY DEF InstallInv, InstallTypeOK
<1>2. PICK u : u = Reversal(t)
  OBVIOUS
<1>3. /\ t.before \in Ledgers /\ origin.before = t.before /\ origin.files = t.files
      /\ Honours(t, t.before, origin.request)
  BY <1>1 DEF Transactions, Promised, Traced
<1>4. u.after.pending = t.before.pending
  BY <1>2, <1>3 DEF Reversal, Ledgers
<1>5. /\ DOMAIN u.files = DOMAIN t.files \ Kept(t)
      /\ \A p \in DOMAIN u.files : u.files[p].was = disk[p] /\ u.files[p].will = t.files[p].was
  <2>1. u.files = [p \in DOMAIN t.files \ Kept(t) |-> Undo(t, p)]
    BY <1>2 DEF Reversal
  <2> QED
    BY <2>1 DEF Undo
<1>6. ASSUME NEW p \in DOMAIN u.files \cap Assets, u.files[p].was \in Edits
      PROVE  p \in DOMAIN origin.request.was /\ origin.request.was[p] = u.files[p].was
  <2>1. p \in DOMAIN t.files /\ disk[p] \in {t.files[p].was, t.files[p].will} /\ disk[p] \in Edits
    BY <1>1, <1>5, <1>6 DEF Reversible, AsBeforeOrAfter
  <2>2. t.files[p].will \in Versions \cup {None}
    BY <1>1, <2>1 DEF InstallInv, Decisions, Sound, Leads
  <2>3. disk[p] = t.files[p].was
    BY <2>1, <2>2
  <2> QED
    BY <1>3, <1>5, <2>1, <2>3 DEF Honours
<1>7. Honours(u, t.before, origin.request)
  BY <1>4, <1>6 DEF Honours
<1>8. Restores(u, t.files)
  <2>1. \A p \in DOMAIN t.files : p \notin DOMAIN u.files => p \in Keepers /\ t.files[p].was = None
    BY <1>5 DEF Kept
  <2> QED
    BY <1>5, <2>1 DEF Restores
<1> QED
  BY <1>1, <1>2, <1>3, <1>7, <1>8

\* What is left of a request still names the files it fingerprinted.
LEMMA LeftoverShape ==
  ASSUME NEW r \in Requests, DOMAIN r.was = DOMAIN r.files
  PROVE  Leftover(r) # None => DOMAIN Leftover(r).was = DOMAIN Leftover(r).files
<1>1. CASE r.native = None \/ r.kind = "discard"
  BY <1>1 DEF Leftover
<1>2. CASE ~(r.native = None \/ r.kind = "discard")
  <2>1. PICK e : e = [r EXCEPT !.kind = "discard"]
    OBVIOUS
  <2>2. e.was = r.was /\ e.files = r.files
    BY <2>1 DEF Requests
  <2>3. Leftover(r) = e
    BY <1>2, <2>1 DEF Leftover
  <2> QED
    BY <2>2, <2>3
<1> QED
  BY <1>1, <1>2

LEMMA TracedStep ==
  ASSUME ReplayInv, Promised, Traced, [InstallNext]_vars
  PROVE  Traced'
<1> USE InstallAssumption DEF ReplayInv
<1>0. /\ plan # None => step = "write" /\ holder \in Writers
      /\ request \in [Writers -> Requests \cup {None}]
      /\ \A w \in Writers : request[w] # None => DOMAIN request[w].was = DOMAIN request[w].files
      /\ seen = [path |-> seen.path, content |-> seen.content]
  BY DEF InstallInv, InstallTypeOK, Traced
<1>1. ASSUME UNCHANGED <<journal, origin>>,
             plan' = None \/ (UNCHANGED <<plan, holder>> /\ (plan # None => request'[holder] = request[holder])),
             \A w \in Writers : request'[w] # None => DOMAIN request'[w].was = DOMAIN request'[w].files,
             step' = "rename" => step = "rename", seen' = seen
      PROVE  Traced'
  BY <1>1 DEF Traced, Honours, Restores
<1>2. ASSUME NEW w \in Writers, NEW left \in {None, Leftover(request[w])},
             UNCHANGED <<journal, origin>>, request[w] # None \/ left = None, Release(w, left)
      PROVE  Traced'
  <2>1. left # None => DOMAIN left.was = DOMAIN left.files
    <3>1. request[w] # None =>
            request[w] \in Requests /\ DOMAIN request[w].was = DOMAIN request[w].files
      BY <1>0
    <3> QED
      BY <1>2, <3>1, LeftoverShape
  <2>2. /\ request' = [request EXCEPT ![w] = left] /\ plan' = None /\ step' = "idle" /\ seen' = NoPath
    BY <1>2 DEF Release
  <2>3. \A v \in Writers : request'[v] # None => DOMAIN request'[v].was = DOMAIN request'[v].files
    BY <1>0, <2>1, <2>2
  <2> QED
    BY <1>2, <2>2, <2>3 DEF Traced, NoPath, Honours, Restores
<1>3. ASSUME NEW w \in Writers, holder = w, Return(w) PROVE Traced'
  <2>1. request[w] # None
    BY <1>3 DEF InstallInv, Grounded
  <2> QED
    BY <1>2, <1>3, <2>1 DEF Return, disks, history
<1>4. ASSUME NEW w \in Writers, Decide(w) PROVE Traced'
  <2>1. CASE Return(w)
    BY <1>3, <1>4, <2>1 DEF Decide
  <2>2. CASE Planned(w, Transaction(request[w])) /\ Admitted(request[w])
    <3>1. request[w] \in Requests /\ DOMAIN request[w].was = DOMAIN request[w].files
      BY <1>0, <1>4 DEF Decide, InstallInv, Grounded
    <3>2. PICK t : t = Transaction(request[w])
      OBVIOUS
    <3>3. Honours(t, t.before, request[w]) /\ ~t.rollback
      BY <2>2, <3>1, <3>2, DecisionHonours DEF Transaction
    <3>4. /\ plan' = t /\ holder' = w /\ request' = request /\ journal' = None
          /\ seen' = seen /\ step' = "write"
      BY <1>4, <2>2, <3>2 DEF Planned, Decide, disks
    <3> QED
      BY <1>0, <3>3, <3>4 DEF Traced, Honours
  <2> QED
    BY <1>4, <2>1, <2>2 DEF Decide
<1>5. ASSUME NEW w \in Writers, Resume(w) PROVE Traced'
  <2>1. CASE Return(w)
    BY <1>3, <1>5, <2>1 DEF Resume
  <2>2. CASE ToReverse(w) /\ Reversible(journal) /\ Planned(w, Reversal(journal))
    <3>1. PICK t : t = Reversal(journal)
      OBVIOUS
    <3>2. /\ Honours(t, origin.before, origin.request) /\ Restores(t, origin.files)
          /\ t.rollback
      BY <1>5, <2>2, <3>1, ReversalHonours, ReversedPurge DEF Resume, ToReverse
    <3>3. /\ plan' = t /\ UNCHANGED <<journal, origin, request, seen>> /\ step' = "write"
      BY <2>2, <3>1 DEF Planned, disks
    <3> QED
      BY <1>0, <3>2, <3>3 DEF Traced, Honours, Restores
  <2>3. CASE step' = "check" /\ UNCHANGED <<disks, holder, request, plan, todo, seen, snapshot, history>>
    BY <1>0, <1>1, <2>3 DEF disks, history
  <2> QED
    BY <1>5, <2>1, <2>2, <2>3 DEF Resume
<1>6. ASSUME NEW w \in Writers, WriteJournal(w) PROVE Traced'
  <2>1. /\ plan # None /\ journal' = plan /\ plan' = None /\ holder = w /\ step' = "check"
        /\ UNCHANGED <<request, seen>>
    BY <1>6 DEF WriteJournal, InstallInv, InstallTypeOK
  <2>2. CASE plan.rollback
    <3>1. origin' = origin
      BY <1>6, <2>2 DEF WriteJournal
    <3> QED
      BY <1>0, <2>1, <2>2, <3>1 DEF Traced, Honours, Restores
  <2>3. CASE ~plan.rollback
    <3>1. /\ origin'.before = plan.before /\ origin'.files = plan.files
          /\ origin'.request = request[w]
      BY <1>6, <2>3 DEF WriteJournal
    <3> QED
      BY <1>0, <2>1, <2>3, <3>1 DEF Traced, Honours
  <2> QED
    BY <2>2, <2>3
<1>7. ASSUME NEW w \in Writers, Unlink(w) PROVE Traced'
  <2>1. journal' = None /\ plan' = None /\ step' # "rename"
    BY <1>7 DEF Unlink, Release, InstallInv, InstallTypeOK
  <2>2. \/ Release(w, Leftover(request[w]))
        \/ UNCHANGED <<request, seen>>
    BY <1>7 DEF Unlink
  <2>3. request[w] \in Requests
    BY <1>0, <1>7 DEF Unlink, InstallInv, Grounded
  <2>4. Leftover(request[w]) # None =>
          DOMAIN Leftover(request[w]).was = DOMAIN Leftover(request[w]).files
    <3>1. request[w] # None
      BY <1>7 DEF Unlink, InstallInv, Grounded
    <3> QED
      BY <1>0, <2>3, <3>1, LeftoverShape
  <2>5. \A v \in Writers : request'[v] # None => DOMAIN request'[v].was = DOMAIN request'[v].files
    BY <1>0, <2>2, <2>4 DEF Release
  <2>6. seen' = [path |-> seen'.path, content |-> seen'.content]
    BY <1>0, <2>2 DEF Release, NoPath
  <2> QED
    BY <2>1, <2>5, <2>6 DEF Traced
<1>8. ASSUME NEW w \in Writers, NEW p \in Paths, Publish(w, p) PROVE Traced'
  <2>1. CASE Return(w)
    BY <1>3, <1>8, <2>1 DEF Publish
  <2>2. CASE UNCHANGED <<disks, holder, step, request, plan, own, seen, snapshot, history>>
    BY <1>0, <1>1, <2>2 DEF disks, history
  <2>3. CASE /\ seen' = [path |-> p, content |-> disk[p]] /\ disk[p] = journal.files[p].was
             /\ UNCHANGED <<disks, holder, request, plan, own, todo, snapshot, history>>
    <3>1. seen'.path = p /\ seen'.content = journal.files[p].was
          /\ seen' = [path |-> seen'.path, content |-> seen'.content]
      BY <2>3
    <3>2. UNCHANGED <<journal, origin, plan, holder, request>>
      BY <2>3 DEF disks, history
    <3> QED
      BY <1>0, <3>1, <3>2 DEF Traced, Honours, Restores
  <2> QED
    BY <1>8, <2>1, <2>2, <2>3 DEF Publish
<1>9. ASSUME NEW w \in Writers, NEW m \in Menu, Stage(w, m) PROVE Traced'
  <2>1. UNCHANGED <<journal, origin, plan, holder, step, seen>> /\ holder # w
    BY <1>9 DEF Stage, history
  <2>2. PICK r : /\ request' = [request EXCEPT ![w] = r]
                 /\ DOMAIN r.was = DOMAIN r.files
    <3>1. PICK n \in (IF m.bundle THEN Natives \ Named ELSE {None}) :
            request' = [request EXCEPT ![w] =
              [kind |-> m.kind, consumer |-> m.consumer, files |-> m.files,
               was |-> [p \in DOMAIN m.files |-> disk[p]],
               on |-> m.on, reservation |-> m.reservation, purge |-> m.purge,
               gen |-> IF m.fenced THEN ledger.gen ELSE AnyGeneration,
               policy |-> disk[Policy],
               native |-> n, active |-> ledger.native]]
      BY <1>9 DEF Stage
    <3>2. PICK r : r =
              [kind |-> m.kind, consumer |-> m.consumer, files |-> m.files,
               was |-> [p \in DOMAIN m.files |-> disk[p]],
               on |-> m.on, reservation |-> m.reservation, purge |-> m.purge,
               gen |-> IF m.fenced THEN ledger.gen ELSE AnyGeneration,
               policy |-> disk[Policy],
               native |-> n, active |-> ledger.native]
      OBVIOUS
    <3>3. r.was = [p \in DOMAIN m.files |-> disk[p]] /\ r.files = m.files
      BY <3>2
    <3> QED
      BY <3>1, <3>2, <3>3
  <2>3. \A v \in Writers : request'[v] # None => DOMAIN request'[v].was = DOMAIN request'[v].files
    BY <1>0, <2>2
  <2>4. plan # None => request'[holder] = request[holder]
    BY <1>0, <2>1, <2>2
  <2> QED
    BY <1>1, <2>1, <2>3, <2>4
<1>10. ASSUME NEW w \in Writers, GiveUp(w) PROVE Traced'
  <2>1. UNCHANGED <<journal, origin, plan, holder, step, seen>> /\ holder # w /\ request[w] # None
        /\ request' = [request EXCEPT ![w] = Leftover(request[w])]
    BY <1>0, <1>10 DEF GiveUp, disks, history
  <2>2. request[w] \in Requests
    BY <1>0, <2>1
  <2>3. Leftover(request[w]) # None =>
          DOMAIN Leftover(request[w]).was = DOMAIN Leftover(request[w]).files
    BY <1>0, <2>1, <2>2, LeftoverShape
  <2>4. \A v \in Writers : request'[v] # None => DOMAIN request'[v].was = DOMAIN request'[v].files
    BY <1>0, <2>1, <2>3
  <2>5. plan # None => request'[holder] = request[holder]
    BY <1>0, <2>1
  <2> QED
    BY <1>1, <2>1, <2>4, <2>5
<1>11. ASSUME NEW w \in Writers, Stop(w) PROVE Traced'
  <2>1. request[w] # None
    BY <1>11 DEF Stop, InstallInv, Grounded
  <2>2. PICK left \in {None, Leftover(request[w])} : Release(w, left)
    BY <1>11 DEF Stop
  <2> QED
    BY <1>2, <1>11, <2>1, <2>2 DEF Stop, disks
<1>12. ASSUME NEW w \in Writers, Discard(w) PROVE Traced'
  BY <1>2, <1>12 DEF Discard, history
<1>13. ASSUME NEW w \in Writers, Check(w) PROVE Traced'
  <2>1. CASE Return(w)
    BY <1>3, <1>13, <2>1 DEF Check
  <2> QED
    BY <1>0, <1>1, <1>13, <2>1 DEF Check, disks, history
<1>14. ASSUME NEW w \in Writers, Lock(w) \/ Revoke(w) \/ Promote(w) \/ WriteLedger(w) \/ Clean(w)
                                \/ FinalPolicy(w)
       PROVE Traced'
  BY <1>0, <1>1, <1>14
     DEF Lock, Revoke, Promote, WriteLedger, Clean, FinalPolicy, disks, history, InstallInv, InstallTypeOK
<1>15. ASSUME NEW w \in Writers, Rename(w) PROVE Traced'
  <2>1. /\ UNCHANGED <<journal, origin, plan, holder, request>> /\ step' = "publish" /\ seen' = NoPath
    BY <1>15 DEF Rename, history
  <2> QED
    BY <1>0, <2>1 DEF Traced, NoPath, Honours, Restores
<1>16. ASSUME NEW d \in Readers, Observe(d) \/ Lease(d) \/ Delivered(d) PROVE Traced'
  <2>1. UNCHANGED <<journal, origin, request, plan, seen>> /\ (plan # None => UNCHANGED holder)
    BY <1>0, <1>16 DEF Observe, Lease, Delivered, disks, locals, history
  <2>2. step' = "rename" => step = "rename"
    BY <1>16 DEF Observe, Lease, Delivered, locals
  <2> QED
    BY <1>0, <1>1, <2>1, <2>2
<1>17. ASSUME NEW p \in Paths, NEW c \in Contents, Edit(p, c) PROVE Traced'
  BY <1>0, <1>1, <1>17 DEF Edit, locals
<1>18. CASE UNCHANGED vars
  BY <1>0, <1>1, <1>18 DEF vars, disks, locals, history
<1> QED
  BY <1>4, <1>5, <1>6, <1>7, <1>8, <1>9, <1>10, <1>11, <1>12, <1>13, <1>14, <1>15, <1>16, <1>17, <1>18
     DEF InstallNext

LEMMA PublishedStep ==
  ASSUME InstallInv, Published, [InstallNext]_vars
  PROVE  Published'
<1> USE InstallAssumption
<1>1. ASSUME step' \notin {"publish", "rename", "clean", "policy", "unlink"} PROVE Published'
  BY <1>1 DEF Published
<1>2. ASSUME UNCHANGED <<journal, disk, step>>, todo \subseteq todo', drift \subseteq drift'
      PROVE  Published'
  BY <1>2 DEF Published
<1>3. ASSUME NEW w \in Writers, Promote(w) PROVE Published'
  BY <1>3 DEF Promote, Published
<1>4. ASSUME NEW w \in Writers, NEW p \in Paths, Publish(w, p) PROVE Published'
  <2>1. CASE disk[p] = journal.files[p].will
    <3>1. /\ step = "publish" /\ step' = step /\ todo' = todo \ {p} /\ UNCHANGED <<journal, disk, drift>>
      BY <1>4, <2>1 DEF Publish, disks, history
    <3> QED
      BY <2>1, <3>1 DEF Published
  <2>2. CASE disk[p] # journal.files[p].will /\ disk[p] = journal.files[p].was
    <3>1. /\ step = "publish" /\ step' = "rename" /\ UNCHANGED <<journal, disk, drift, todo>>
      BY <1>4, <2>2 DEF Publish, disks, history
    <3> QED
      BY <3>1 DEF Published
  <2>3. CASE Return(w)
    BY <1>1, <2>3 DEF Return, Release
  <2> QED
    BY <1>4, <2>1, <2>2, <2>3 DEF Publish
<1>5. ASSUME NEW w \in Writers, Rename(w) PROVE Published'
  <2>1. /\ seen.path \in todo /\ todo \subseteq DOMAIN journal.files /\ todo \subseteq Paths
        /\ disk \in [Paths -> Contents]
    BY <1>5 DEF Rename, InstallInv, InstallTypeOK, Progress
  <2>2. /\ step = "rename" /\ step' = "publish" /\ todo' = todo \ {seen.path}
        /\ disk' = [disk EXCEPT ![seen.path] = journal.files[seen.path].will]
        /\ UNCHANGED <<journal, drift>>
    BY <1>5 DEF Rename, history
  <2>3. disk'[seen.path] = journal.files[seen.path].will
        /\ \A p \in Paths : p # seen.path => disk'[p] = disk[p]
    BY <2>1, <2>2
  <2>4. DOMAIN journal.files \subseteq Paths
    BY <1>5 DEF Rename, InstallInv, InstallTypeOK, Progress, Working, Transactions, Partial
  <2>5. ASSUME NEW p \in DOMAIN journal.files \ (todo' \cup drift) PROVE disk'[p] = journal.files[p].will
    <3>1. CASE p = seen.path
      BY <2>3, <3>1
    <3>2. CASE p # seen.path
      <4>1. disk[p] = journal.files[p].will
        BY <2>2, <3>2 DEF Published
      <4> QED
        BY <2>3, <2>4, <3>2, <4>1
    <3> QED
      BY <3>1, <3>2
  <2> QED
    BY <2>2, <2>5 DEF Published
<1>6. ASSUME NEW w \in Writers, WriteLedger(w) PROVE Published'
  BY <1>6 DEF WriteLedger, history, Published
<1>7. ASSUME NEW w \in Writers, Clean(w) \/ FinalPolicy(w) PROVE Published'
  BY <1>7 DEF Clean, FinalPolicy, history, Published
<1>8. ASSUME NEW w \in Writers,
             \/ Lock(w) \/ Decide(w) \/ Resume(w) \/ WriteJournal(w) \/ Check(w) \/ Revoke(w)
             \/ Unlink(w) \/ Discard(w) \/ Stop(w)
      PROVE  Published'
  <2>1. step' \notin {"publish", "rename", "clean", "policy", "unlink"}
    BY <1>8 DEF Lock, Decide, Resume, Planned, WriteJournal, Check, Revoke, Unlink, Discard, Stop,
                Return, Release
  <2> QED
    BY <1>1, <2>1
<1>9. ASSUME NEW w \in Writers, (\E m \in Menu : Stage(w, m)) \/ GiveUp(w) PROVE Published'
  BY <1>2, <1>9 DEF Stage, GiveUp, disks, history
<1>10. ASSUME NEW d \in Readers, Observe(d) \/ Lease(d) \/ Delivered(d) PROVE Published'
  BY <1>1, <1>2, <1>10 DEF Observe, Lease, Delivered, disks, locals, history
<1>11. ASSUME NEW p \in Paths, NEW c \in Contents, Edit(p, c) PROVE Published'
  <2>1. /\ disk' = [disk EXCEPT ![p] = c] /\ drift' = drift \cup {p}
        /\ UNCHANGED <<journal, step, todo>> /\ disk \in [Paths -> Contents]
    BY <1>11 DEF Edit, locals, InstallInv, InstallTypeOK
  <2>2. \A q : q \notin drift' => disk'[q] = disk[q] /\ q \notin drift
    BY <2>1
  <2> QED
    BY <2>1, <2>2 DEF Published
<1>12. CASE UNCHANGED vars
  BY <1>2, <1>12 DEF vars, disks, locals, history
<1> QED
  BY <1>3, <1>4, <1>5, <1>6, <1>7, <1>8, <1>9, <1>10, <1>11, <1>12 DEF InstallNext

\* edits only counts up, so a step that leaves it alone is no edit.
Faithful == Traced /\ Published /\ Promised /\ edits \in Nat

LEMMA FaithfulInit == InstallInit => Faithful
<1> SUFFICES ASSUME InstallInit PROVE Faithful
  OBVIOUS
<1>1. journal = None /\ plan = None /\ step = "idle" /\ seen = NoPath /\ edits = 0
      /\ \A w \in Writers : request[w] = None
  BY DEF InstallInit
<1> QED
  BY <1>1 DEF Faithful, Traced, Published, Promised, NoPath

LEMMA EditsCounted == edits \in Nat /\ [InstallNext]_vars => edits' \in Nat
<1> SUFFICES ASSUME edits \in Nat, [InstallNext]_vars PROVE edits' \in Nat
  OBVIOUS
<1>1. ASSUME NEW w \in Writers,
             \/ (\E m \in Menu : Stage(w, m)) \/ Lock(w) \/ GiveUp(w) \/ Decide(w) \/ Resume(w)
             \/ WriteJournal(w) \/ Check(w) \/ Revoke(w) \/ Promote(w)
             \/ (\E p \in Paths : Publish(w, p)) \/ Rename(w) \/ WriteLedger(w) \/ Clean(w)
             \/ FinalPolicy(w) \/ Unlink(w) \/ Discard(w) \/ Stop(w)
      PROVE  edits' = edits
  BY <1>1 DEF Stage, Lock, GiveUp, Decide, Resume, Return, Planned, WriteJournal, Check, Revoke, Promote,
     Publish, Rename, WriteLedger, Clean, FinalPolicy, Unlink, Discard, Stop, history
<1>2. ASSUME NEW p \in Paths, NEW c \in Contents, Edit(p, c) PROVE edits' \in Nat
  BY <1>2 DEF Edit
<1>3. ASSUME NEW d \in Readers, Observe(d) \/ Lease(d) \/ Delivered(d) PROVE edits' = edits
  BY <1>3 DEF Observe, Lease, Delivered, history
<1>4. CASE UNCHANGED vars
  BY <1>4 DEF vars, history
<1> QED
  BY <1>1, <1>2, <1>3, <1>4 DEF InstallNext

LEMMA FaithfulStep == ReplayInv /\ Faithful /\ [InstallNext]_vars => Faithful'
BY TracedStep, PublishedStep, PromisedStep, EditsCounted DEF Faithful, ReplayInv

LEMMA FaithfulInvariant == InstallSpec => [](ReplayInv /\ Faithful)
BY FaithfulInit, FaithfulStep, ReplayInvariant, PTL DEF InstallSpec

\* Only a rename replaces a file that is not being edited, and only by the
\* content its decision was to replace, or one changed since the fingerprint.
LEMMA EditOverwritten ==
  ASSUME ReplayInv, Faithful, [InstallNext]_vars, NEW p \in Assets,
         disk[p] \in Edits, disk'[p] # disk[p], edits' = edits
  PROVE  \/ p \in DOMAIN origin.request.was /\ origin.request.was[p] = disk[p]
         \/ seen = [path |-> p, content |-> seen.content] /\ seen.content # disk[p]
<1> USE InstallAssumption DEF ReplayInv
<1>1. ASSUME NEW w \in Writers, Rename(w)
      PROVE  \/ p \in DOMAIN origin.request.was /\ origin.request.was[p] = disk[p]
             \/ seen = [path |-> p, content |-> seen.content] /\ seen.content # disk[p]
  <2>1. /\ step = "rename" /\ journal # None /\ disk \in [Paths -> Contents]
        /\ disk' = [disk EXCEPT ![seen.path] = journal.files[seen.path].will]
        /\ seen.path \in DOMAIN journal.files
    BY <1>1 DEF Rename, InstallInv, InstallTypeOK, Progress, Working
  <2>2. seen.path = p
    BY <2>1 DEF Paths
  <2>3. /\ seen = [path |-> seen.path, content |-> seen.content]
        /\ seen.content = journal.files[p].was
        /\ Honours(journal, origin.before, origin.request)
    BY <2>1, <2>2 DEF Faithful, Traced
  <2>4. CASE seen.content = disk[p]
    BY <2>1, <2>2, <2>3, <2>4 DEF Honours
  <2>5. CASE seen.content # disk[p]
    BY <2>2, <2>3, <2>5
  <2> QED
    BY <2>4, <2>5
<1>2. ASSUME NEW w \in Writers,
             \/ (\E m \in Menu : Stage(w, m)) \/ Lock(w) \/ GiveUp(w) \/ Decide(w) \/ Resume(w)
             \/ WriteJournal(w) \/ Check(w) \/ Revoke(w) \/ Promote(w)
             \/ (\E q \in Paths : Publish(w, q)) \/ WriteLedger(w) \/ Clean(w) \/ FinalPolicy(w)
             \/ Unlink(w) \/ Discard(w) \/ Stop(w)
      PROVE  disk' = disk
  BY <1>2 DEF Stage, Lock, GiveUp, Decide, Resume, Return, Planned, WriteJournal, Check, Revoke, Promote,
     Publish, WriteLedger, Clean, FinalPolicy, Unlink, Discard, Stop, disks
<1>3. ASSUME NEW q \in Paths, NEW c \in Contents, Edit(q, c) PROVE edits' # edits
  BY <1>3 DEF Edit, Faithful
<1>4. ASSUME NEW d \in Readers, Observe(d) \/ Lease(d) \/ Delivered(d) PROVE disk' = disk
  BY <1>4 DEF Observe, Lease, Delivered, disks
<1>5. CASE UNCHANGED vars
  BY <1>5 DEF vars, disks
<1> QED
  BY <1>1, <1>2, <1>3, <1>4, <1>5 DEF InstallNext

(* What somebody else wrote to a managed file is never lost unseen: safePublish *)
(* renames over it only for a request that captured it, through replays by      *)
(* other processes and reversals, or in the window after its last comparison.   *)
THEOREM InstallEditsKept == InstallSpec => EditsKept
<1>1. ReplayInv /\ Faithful /\ [InstallNext]_vars
        => [\A p \in Assets :
              disk[p] \in Edits /\ disk'[p] # disk[p] /\ edits' = edits =>
                \/ p \in DOMAIN origin.request.was /\ origin.request.was[p] = disk[p]
                \/ seen = [path |-> p, content |-> seen.content] /\ seen.content # disk[p]]_vars
  BY EditOverwritten
<1> QED
  BY <1>1, FaithfulInvariant, PTL DEF InstallSpec, EditsKept

\* The journal goes only at the end, when every file it changed is published.
LEMMA UndoneFiles ==
  ASSUME ReplayInv, Faithful, [InstallNext]_vars,
         journal # None, journal.rollback, journal' = None,
         NEW p \in DOMAIN origin.files \ drift
  PROVE  \/ disk[p] = origin.files[p].was
         \/ p \in Keepers /\ origin.files[p].was = None
<1> USE DEF ReplayInv
<1>1. PICK w \in Writers : Unlink(w)
  <2>1. ASSUME NEW w \in Writers,
               \/ (\E m \in Menu : Stage(w, m)) \/ Lock(w) \/ GiveUp(w) \/ Decide(w) \/ Resume(w)
               \/ Check(w) \/ Revoke(w) \/ Promote(w) \/ (\E q \in Paths : Publish(w, q)) \/ Rename(w)
               \/ WriteLedger(w) \/ Clean(w) \/ FinalPolicy(w) \/ Discard(w) \/ Stop(w)
        PROVE  journal' = journal
    BY <2>1 DEF Stage, Lock, GiveUp, Decide, Resume, Return, Planned, Check, Revoke, Promote, Publish,
       Rename, WriteLedger, Clean, FinalPolicy, Discard, Stop, disks
  <2>2. ASSUME NEW w \in Writers, WriteJournal(w) PROVE journal' # None
    BY <2>2 DEF WriteJournal, InstallInv, InstallTypeOK
  <2>3. ASSUME NEW q \in Paths, NEW c \in Contents, Edit(q, c) PROVE journal' = journal
    BY <2>3 DEF Edit
  <2>4. ASSUME NEW d \in Readers, Observe(d) \/ Lease(d) \/ Delivered(d) PROVE journal' = journal
    BY <2>4 DEF Observe, Lease, Delivered, disks
  <2>5. CASE UNCHANGED vars
    BY <2>5 DEF vars, disks
  <2> QED
    BY <2>1, <2>2, <2>3, <2>4, <2>5 DEF InstallNext
<1>2. /\ step = "unlink"
      /\ Restores(journal, origin.files)
      /\ \A q \in DOMAIN journal.files \ drift : disk[q] = journal.files[q].will
  <2>1. step = "unlink"
    BY <1>1 DEF Unlink
  <2>2. Restores(journal, origin.files)
    BY DEF Faithful, Traced
  <2>3. \A q \in DOMAIN journal.files \ drift : disk[q] = journal.files[q].will
    BY <2>1 DEF Faithful, Published
  <2> QED
    BY <2>1, <2>2, <2>3
<1>3. CASE p \in DOMAIN journal.files
  BY <1>2, <1>3 DEF Restores
<1>4. CASE p \notin DOMAIN journal.files
  BY <1>2, <1>4 DEF Restores
<1> QED
  BY <1>3, <1>4

(* A reversal keeps its promise, by whichever process and after however many   *)
(* interruptions it ends: each file is as recoverTransaction captured it.       *)
THEOREM InstallUndone == InstallSpec => UndoneIsAsBefore
<1>1. ReplayInv /\ Faithful /\ [InstallNext]_vars
        => [journal # None /\ journal.rollback /\ journal' = None =>
              \A p \in DOMAIN origin.files \ drift :
                \/ disk[p] = origin.files[p].was
                \/ p \in Keepers /\ origin.files[p].was = None]_vars
  BY UndoneFiles
<1> QED
  BY <1>1, FaithfulInvariant, PTL DEF InstallSpec, UndoneIsAsBefore

LEMMA ReservationKept ==
  ASSUME ReplayInv, Faithful, [InstallNext]_vars,
         Settled.pending # None, Settled'.pending # Settled.pending
  PROVE  origin.request.kind = "clear" /\ origin.request.reservation = Settled.pending
<1> USE DEF ReplayInv
<1>1. ASSUME UNCHANGED <<journal, ledger, origin>> PROVE FALSE
  BY <1>1 DEF Settled
<1>2. ASSUME NEW w \in Writers, Unlink(w)
      PROVE  origin.request.kind = "clear" /\ origin.request.reservation = Settled.pending
  <2>1. /\ step = "unlink" /\ journal # None /\ journal' = None
        /\ ledger' = ledger /\ ledger = journal.after
    BY <1>2 DEF Unlink, InstallInv, Progress, Working
  <2>2. Settled = origin.before /\ Settled' = journal.after
    BY <2>1 DEF Settled
  <2>3. Honours(journal, origin.before, origin.request)
    BY <2>1 DEF Faithful, Traced
  <2> QED
    BY <2>2, <2>3 DEF Honours
<1>3. ASSUME NEW w \in Writers, WriteJournal(w) PROVE FALSE
  <2>1. /\ step = "write" /\ plan # None /\ journal' = plan
    BY <1>3 DEF WriteJournal, InstallInv, InstallTypeOK
  <2>2. CASE plan.rollback
    <3>1. journal # None /\ origin' = origin
      BY <1>3, <2>1, <2>2 DEF WriteJournal, Faithful, Promised
    <3> QED
      BY <2>1, <3>1 DEF Settled
  <2>3. CASE ~plan.rollback
    <3>1. journal = None /\ origin'.before = plan.before
      BY <1>3, <2>1, <2>3 DEF WriteJournal, Faithful, Promised
    <3>2. plan.before = ledger
      BY <2>1, <2>3 DEF InstallInv, Decisions
    <3> QED
      BY <2>1, <3>1, <3>2 DEF Settled
  <2> QED
    BY <2>2, <2>3
<1>4. ASSUME NEW w \in Writers, WriteLedger(w) PROVE FALSE
  <2>1. journal # None /\ UNCHANGED <<journal, origin>>
    BY <1>4 DEF WriteLedger, history, InstallInv, Progress, Working
  <2> QED
    BY <2>1 DEF Settled
<1>5. ASSUME NEW w \in Writers,
             \/ (\E m \in Menu : Stage(w, m)) \/ Lock(w) \/ GiveUp(w) \/ Decide(w) \/ Resume(w)
             \/ Check(w) \/ Revoke(w) \/ Promote(w) \/ (\E q \in Paths : Publish(w, q)) \/ Rename(w)
             \/ Clean(w) \/ FinalPolicy(w) \/ Discard(w) \/ Stop(w)
      PROVE  UNCHANGED <<journal, ledger, origin>>
  BY <1>5 DEF Stage, Lock, GiveUp, Decide, Resume, Return, Planned, Check, Revoke, Promote, Publish,
     Rename, Clean, FinalPolicy, Discard, Stop, disks, history
<1>6. ASSUME NEW q \in Paths, NEW c \in Contents, Edit(q, c) PROVE UNCHANGED <<journal, ledger, origin>>
  BY <1>6 DEF Edit
<1>7. ASSUME NEW d \in Readers, Observe(d) \/ Lease(d) \/ Delivered(d)
      PROVE  UNCHANGED <<journal, ledger, origin>>
  BY <1>7 DEF Observe, Lease, Delivered, disks, history
<1>8. CASE UNCHANGED vars
  BY <1>1, <1>8 DEF vars, disks, history
<1> QED
  BY <1>1, <1>2, <1>3, <1>4, <1>5, <1>6, <1>7, <1>8 DEF InstallNext

(* A reservation of the component survives every request that does not hold it, *)
(* interruptions and reversals included: ReservationAllows is asked again when   *)
(* the decision is made, and no later step of another request drops it.          *)
THEOREM InstallReservation == InstallSpec => ReservationSticks
<1>1. ReplayInv /\ Faithful /\ [InstallNext]_vars
        => [Settled.pending # None /\ Settled'.pending # Settled.pending =>
              origin.request.kind = "clear" /\ origin.request.reservation = Settled.pending]_vars
  BY ReservationKept
<1> QED
  BY <1>1, FaithfulInvariant, PTL DEF InstallSpec, ReservationSticks
=============================================================================
