------------------------------ MODULE ConfigStore ------------------------------
(***************************************************************************)
(* The configuration store (internal/config/store.go): processes that      *)
(* initialize or edit the one document the resolver selects, hooks that    *)
(* read it, and people who edit it with other programs.                    *)
(*                                                                         *)
(* Two advisory locks order the store's own processes: the selection guard *)
(* in the home directory and the lock of the target.  A process with an    *)
(* explicit path may do without the guard when its home is read-only.  A   *)
(* commit compares the document twice, saves it in a backup, and publishes *)
(* a temporary file by one rename.  A temporary file or a backup beside a  *)
(* missing document is evidence of an interrupted or lost write, and       *)
(* nothing is created over it.                                             *)
(*                                                                         *)
(* A step is one file operation or a group of reads whose last one decides.*)
(* A document is opaque; Broken are those that ParseDocument or Effective  *)
(* refuses.  The paths lie in directories of their own.                    *)
(***************************************************************************)
EXTENDS Naturals, FiniteSets

CONSTANTS
  Writers,         \* processes that run config init or config edit
  Readers,         \* hooks that load the configuration
  Legacy, Neutral, \* the automatic candidates L and N
  Others,          \* further paths an override may name
  Docs, Broken,    \* documents, and those of them that are not valid
  Foreign,         \* documents other programs leave (bound)
  Seed,            \* SeedDocument, or the source of an import
  Automatic,       \* the environment without an override
  Results,         \* documents an edit may result in
  Calls,           \* environments of the writers' calls
  Views,           \* environments of the hooks: Automatic or a path
  None,
  MaxCalls,        \* bound on the writers' calls
  MaxEdits,        \* bound on changes from outside
  MaxStops         \* bound on deaths and power losses

Paths == {Legacy, Neutral} \cup Others
Entries == Docs \cup {None}
Selections == [path : Paths, is : {"exists", "missing", "recovery"}]

ASSUME ConfigAssumption ==
  /\ Legacy # Neutral
  /\ Automatic \notin Paths /\ None \notin Paths \cup Docs \cup Selections
  /\ None \notin Writers
  /\ Broken \cup Foreign \subseteq Docs /\ Results \cup {Seed} \subseteq Docs \ Broken
  /\ Calls \subseteq [path : Paths \cup {Automatic}, guarded : BOOLEAN]
  /\ \A c \in Calls : c.guarded \/ c.path # Automatic
  /\ Views \subseteq Paths \cup {Automatic}
  /\ {MaxCalls, MaxEdits, MaxStops} \subseteq Nat

VARIABLES
  file,      \* the document at each path, or None
  temp,      \* of each writer: the path whose temporary file it has made, or None
  litter,    \* paths with a temporary file whose writer has died
  backup,    \* documents saved beside each path
  likely,    \* what each path may hold after a power loss
  synced,    \* the backups that survive one
  guard,     \* holder of the selection guard, or None
  lock,      \* holder of each target lock, or None
  writer,    \* the call of each writer; raced is history: paths changed outside its
             \* locks since it compared
  reader,    \* the read of each hook
  calls, edits, stops,
  replaced,  \* history: documents the store has compared and replaced
  settled,   \* history: the document of the last commit reported as done, until
             \* something else is written there
  occupied   \* history: paths never without a document or evidence during a read

disks   == <<file, temp, litter, backup, likely, synced>>
bounds  == <<calls, edits, stops>>
locks   == <<guard, lock>>
history == <<replaced, settled>>
vars    == <<disks, locks, writer, reader, bounds, history, occupied>>

Idle == [pc |-> "idle", kind |-> "init", call |-> None, expect |-> None, want |-> None,
         sel |-> None, old |-> None, raced |-> {}]
Quiet == [pc |-> "idle", env |-> None, try |-> 0, at |-> None, first |-> None, before |-> FALSE]

ConfigInit ==
  /\ file \in [Paths -> Foreign \cup {None}]
  /\ temp = [w \in Writers |-> None]
  /\ litter = {}
  /\ backup = [p \in Paths |-> {}]
  /\ likely = [p \in Paths |-> {file[p]}]
  /\ synced = [p \in Paths |-> {}]
  /\ guard = None
  /\ lock = [p \in Paths |-> None]
  /\ writer = [w \in Writers |-> Idle]
  /\ reader = [r \in Readers |-> Quiet]
  /\ calls = 0 /\ edits = 0 /\ stops = 0
  /\ replaced = [p \in Paths |-> {}]
  /\ settled = [p \in Paths |-> None]
  /\ occupied = [r \in Readers |-> {}]

-----------------------------------------------------------------------------
(* Selection.                                                                *)

\* Mutant of Evidence: a backup without its document is not noticed.
EvidenceOfTemps(p) == p \in litter \/ \E w \in Writers : temp[w] = p

\* A temporary file or a backup lies beside the path.
Evidence(p) == p \in litter \/ backup[p] # {} \/ \E w \in Writers : temp[w] = p

\* candidate: an entry, evidence that one was lost, or nothing.
Candidate(p) ==
  IF file[p] # None THEN "exists" ELSE IF Evidence(p) THEN "recovery" ELSE "missing"

\* Resolve: the override alone, or L if there is anything of it, or else N.
Resolve(env) ==
  LET p == IF env # Automatic THEN env
           ELSE IF Candidate(Legacy) = "missing" THEN Neutral ELSE Legacy
  IN [path |-> p, is |-> Candidate(p)]

-----------------------------------------------------------------------------
(* A call of EnsureInitialized or ApplyEdits.                                *)

Goto(w, pc) == writer' = [writer EXCEPT ![w].pc = pc]

\* The deferred close releases the target and then the guard; the descriptors
\* of a dead process are closed for it.
Unlock(w) ==
  /\ guard' = IF guard = w THEN None ELSE guard
  /\ lock' = [p \in Paths |-> IF lock[p] = w THEN None ELSE lock[p]]

\* The call returns, with a result or an error.
Return(w) ==
  /\ writer' = [writer EXCEPT ![w] = Idle]
  /\ Unlock(w)

Selected(w) == Resolve(writer[w].call.path)

\* Any caller; an edit carries the revision its caller has read, of some
\* document at some path, and its result is a valid document.
Call(w) ==
  /\ writer[w].pc = "idle"
  /\ calls < MaxCalls
  /\ calls' = calls + 1
  /\ \E c \in Calls :
       \/ writer' = [writer EXCEPT ![w] =
            [Idle EXCEPT !.pc = "look", !.call = c, !.want = Seed]]
       \/ \E p \in Paths, new \in Results :
            /\ file[p] # None
            /\ writer' = [writer EXCEPT ![w] =
                 [Idle EXCEPT !.pc = "first", !.kind = "edit", !.call = c,
                              !.expect = [path |-> p, doc |-> file[p]], !.want = new]]
  /\ UNCHANGED <<disks, locks, reader, edits, stops, history>>

\* EnsureInitialized first looks without locks for a document that is there.
Look(w) ==
  /\ writer[w].pc = "look"
  /\ LET s == Selected(w)
     IN  IF s.is = "exists"
         THEN writer' = [writer EXCEPT ![w].pc = "snap", ![w].sel = s]
         ELSE Goto(w, "first")
  /\ UNCHANGED <<disks, locks, reader, bounds, history>>

\* readInitSnapshot: the file may be replaced while it is read, and then the call
\* goes on under the locks.
Snap(w) ==
  /\ writer[w].pc = "snap"
  /\ LET d == file[writer[w].sel.path]
     IN  \/ d \in {None} \cup Broken /\ Return(w)
         \/ d \notin {None} \cup Broken /\ Goto(w, "confirm") /\ UNCHANGED locks
         \/ d # None /\ Goto(w, "first") /\ UNCHANGED locks
  /\ UNCHANGED <<disks, reader, bounds, history>>

\* The selection is looked at again and reported, or ConfigChanged is.
Confirm(w) ==
  /\ writer[w].pc = "confirm"
  /\ Return(w)
  /\ UNCHANGED <<disks, reader, bounds, history>>

\* beginMutation, before any lock.
First(w) ==
  /\ writer[w].pc = "first"
  /\ writer' = [writer EXCEPT ![w].pc = IF writer[w].call.guarded THEN "guard" ELSE "second",
                              ![w].sel = Selected(w)]
  /\ UNCHANGED <<disks, locks, reader, bounds, history>>

Guard(w) ==
  /\ writer[w].pc = "guard"
  /\ guard = None
  /\ guard' = w
  /\ Goto(w, "second")
  /\ UNCHANGED <<disks, lock, reader, bounds, history>>

\* A document that was selected must be selected still.
Second(w) ==
  /\ writer[w].pc = "second"
  /\ LET s == Selected(w)
     IN  IF writer[w].sel.is = "exists" /\ s # writer[w].sel
         THEN Return(w)
         ELSE /\ writer' = [writer EXCEPT ![w].pc = "target", ![w].sel = s]
              /\ UNCHANGED locks
  /\ UNCHANGED <<disks, reader, bounds, history>>

\* The target's lock; the directory is synced when it is taken.
Lock(w) ==
  /\ writer[w].pc = "target"
  /\ LET p == writer[w].sel.path
     IN  /\ lock[p] = None
         /\ \/ /\ lock' = [lock EXCEPT ![p] = w]
               /\ Goto(w, "third")
               /\ likely' = [likely EXCEPT ![p] = {file[p]}]
               /\ synced' = [synced EXCEPT ![p] = backup[p]]
               /\ UNCHANGED guard
            \/ Return(w) /\ UNCHANGED <<likely, synced>>
  /\ UNCHANGED <<file, temp, litter, backup, reader, bounds, history>>

\* The selection that counts.  A new document may still be refused: the import
\* is invalid, or CheckHistorical finds settings that should be imported.
Third(w) ==
  /\ writer[w].pc = "third"
  /\ LET s == Selected(w)
         same == s.path = writer[w].sel.path
     IN  \/ /\ same /\ s.is = "exists"
            /\ writer' = [writer EXCEPT ![w].pc = "read", ![w].sel = s]
            /\ UNCHANGED locks
         \/ /\ same /\ s.is = "missing" /\ writer[w].kind = "init"
            /\ writer' = [writer EXCEPT ![w].pc = "check", ![w].sel = s]
            /\ UNCHANGED locks
         \/ /\ ~same \/ s.is # "exists"
            /\ Return(w)
  /\ UNCHANGED <<disks, reader, bounds, history>>

\* currentDocument.  An edit compares the revision its caller expects.
Read(w) ==
  /\ writer[w].pc = "read"
  /\ LET p == writer[w].sel.path
         d == file[p]
         expected == writer[w].expect = [path |-> p, doc |-> d]
         fit == d \notin {None} \cup Broken
     IN  \/ /\ fit /\ writer[w].kind = "edit" /\ expected /\ writer[w].want # d
            /\ writer' = [writer EXCEPT ![w].pc = "check", ![w].old = d]
            /\ UNCHANGED locks
         \/ /\ fit /\ (writer[w].kind = "init" \/ (expected /\ writer[w].want = d))
            /\ Return(w)
         \/ /\ ~fit \/ (writer[w].kind = "edit" /\ ~expected)
            /\ Return(w)
  /\ UNCHANGED <<disks, reader, bounds, history>>

-----------------------------------------------------------------------------
(* commitDocument.                                                           *)

\* check: the selection and, where there is one, the document are as they were.
AsCompared(w) ==
  /\ Selected(w) = writer[w].sel
  /\ writer[w].sel.is = "exists" => file[writer[w].sel.path] = writer[w].old

Replacing(w) == writer[w].sel.is = "exists"

\* Mutant of Fail: the temporary file is left.
FailLeavingTemp(w) ==
  /\ Return(w)
  /\ UNCHANGED <<disks, reader, bounds, history>>

\* A failure leaves no temporary file.
Fail(w) ==
  /\ temp' = [temp EXCEPT ![w] = None]
  /\ Return(w)
  /\ UNCHANGED <<file, litter, backup, likely, synced, reader, bounds, history>>

\* What the writer compared holds from here, but for what others change.
Proceed(w, pc) == writer' = [writer EXCEPT ![w].pc = pc, ![w].raced = {}]

Committing == {"backup", "sync", "temp", "again", "publish", "settle"}

\* p changes outside the locks of the writers in ws.
Raced(ws, p) ==
  [w \in Writers |->
     IF w \in ws /\ writer[w].pc \in Committing
     THEN [writer[w] EXCEPT !.raced = @ \cup {p}] ELSE writer[w]]

Check(w) ==
  /\ writer[w].pc = "check"
  /\ \/ /\ AsCompared(w)
        /\ Proceed(w, IF Replacing(w) THEN "backup" ELSE "temp")
        /\ UNCHANGED <<disks, locks, reader, bounds, history>>
     \/ ~AsCompared(w) /\ Fail(w)

Save(w) ==
  /\ writer[w].pc = "backup"
  /\ \/ /\ backup' = [backup EXCEPT ![writer[w].sel.path] = @ \cup {writer[w].old}]
        /\ Goto(w, "sync")
        /\ UNCHANGED <<file, temp, litter, likely, synced, locks, reader, bounds, history>>
     \/ Fail(w)

\* Mutant of SyncBackup: the backup is left to the sync after the publication.
SyncBackupLater(w) ==
  /\ writer[w].pc = "sync"
  /\ Goto(w, "temp")
  /\ UNCHANGED <<disks, locks, reader, bounds, history>>

\* parent.sync before the publication.
SyncBackup(w) ==
  /\ writer[w].pc = "sync"
  /\ \/ /\ LET p == writer[w].sel.path
           IN  /\ synced' = [synced EXCEPT ![p] = backup[p]]
               /\ likely' = [likely EXCEPT ![p] = {file[p]}]
        /\ Goto(w, "temp")
        /\ UNCHANGED <<file, temp, litter, backup, locks, reader, bounds, history>>
     \/ Fail(w)

WriteTemp(w) ==
  /\ writer[w].pc = "temp"
  /\ \/ /\ temp' = [temp EXCEPT ![w] = writer[w].sel.path]
        /\ Goto(w, IF Replacing(w) THEN "again" ELSE "publish")
        /\ UNCHANGED <<file, litter, backup, likely, synced, locks, reader, bounds, history>>
     \/ Fail(w)

\* Mutant of Again: the document is not compared again.
AgainUnchecked(w) ==
  /\ writer[w].pc = "again"
  /\ Proceed(w, "publish")
  /\ UNCHANGED <<disks, locks, reader, bounds, history>>

\* Only a replacement is checked again: the temporary file of a creation is
\* itself evidence, and a creation does not overwrite.
Again(w) ==
  /\ writer[w].pc = "again"
  /\ \/ /\ AsCompared(w)
        /\ Proceed(w, "publish")
        /\ UNCHANGED <<disks, locks, reader, bounds, history>>
     \/ ~AsCompared(w) /\ Fail(w)

\* Who does not see the publication coming: a process that does without the guard
\* may change which path others should have selected.
Unaware(w, p) ==
  IF writer[w].call.guarded THEN {} ELSE {v \in Writers : v # w /\ lock[p] # v}

\* Renameat over a document; a rename that refuses to overwrite where there was none.
MayPublish(w) == Replacing(w) \/ file[writer[w].sel.path] = None

Publish(w) ==
  /\ writer[w].pc = "publish"
  /\ \/ /\ MayPublish(w)
        /\ LET p == writer[w].sel.path
           IN  /\ file' = [file EXCEPT ![p] = writer[w].want]
               /\ likely' = [likely EXCEPT ![p] = @ \cup {writer[w].want}]
               /\ replaced' = [replaced EXCEPT ![p] = @ \cup (IF p \in writer[w].raced THEN {} ELSE {file[p]} \ {None})]
               /\ settled' = [settled EXCEPT ![p] = None]
               /\ writer' = [Raced(Unaware(w, p), p) EXCEPT ![w].pc = "settle", ![w].raced = {}]
        /\ temp' = [temp EXCEPT ![w] = None]
        /\ UNCHANGED <<litter, backup, synced, locks, reader, bounds>>
     \/ Fail(w)

\* Mutant of Settle: the result is reported as done without the sync.
SettleAnyway(w) ==
  /\ writer[w].pc = "settle"
  /\ LET p == writer[w].sel.path
     IN settled' = [settled EXCEPT ![p] = IF p \in writer[w].raced THEN @ ELSE writer[w].want]
  /\ Return(w)
  /\ UNCHANGED <<disks, reader, bounds, replaced>>

\* parent.sync after the publication; without it the result is ConfigCommitUncertain.
Settle(w) ==
  /\ writer[w].pc = "settle"
  /\ LET p == writer[w].sel.path
     IN  \/ /\ likely' = [likely EXCEPT ![p] = {file[p]}]
            /\ synced' = [synced EXCEPT ![p] = backup[p]]
            /\ settled' = [settled EXCEPT ![p] = IF p \in writer[w].raced THEN @ ELSE writer[w].want]
            /\ Return(w)
         \/ Return(w) /\ UNCHANGED <<likely, synced, settled>>
  /\ UNCHANGED <<file, temp, litter, backup, reader, bounds, replaced>>

\* The five seconds of MutationTimeout pass: every resolution, wait and check
\* looks at the context.
Expire(w) ==
  /\ writer[w].pc \in {"first", "guard", "second", "target", "third", "check", "again", "publish"}
  /\ writer[w].pc = "publish" => ~Replacing(w)
  /\ Fail(w)

-----------------------------------------------------------------------------
(* A hook loads the configuration: ReadDocumentSelection, three attempts,    *)
(* each of a resolution, a read and a second resolution.  A resolution looks *)
(* for the entry and then lists the directory.                               *)

Reading == {"probe", "list", "read"}

StartRead(r) ==
  /\ reader[r].pc \notin Reading
  /\ \E env \in Views :
       reader' = [reader EXCEPT ![r] =
         [Quiet EXCEPT !.pc = "probe", !.env = env, !.try = 1,
                       !.at = IF env = Automatic THEN Legacy ELSE env]]
  /\ UNCHANGED <<disks, locks, writer, bounds, history>>

Step(r, pc) == reader' = [reader EXCEPT ![r].pc = pc]

\* The read ends with a document or an error, or with defaults in memory.
Finish(r) == reader' = [reader EXCEPT ![r] = Quiet]
Defaults(r) == reader' = [reader EXCEPT ![r] = [Quiet EXCEPT !.pc = "defaults"]]

\* A resolution starts over, with the first candidate.
Resume(r, try, first) ==
  reader' = [reader EXCEPT ![r].pc = "probe", ![r].try = try, ![r].first = first,
                           ![r].at = IF @ = Neutral /\ reader[r].env = Automatic THEN Legacy ELSE @]

\* The next attempt.
Retry(r) ==
  IF reader[r].try = 3 THEN Finish(r) ELSE Resume(r, reader[r].try + 1, None)

\* Mutant of Resolved: a missing document is believed at once.
ResolvedOnce(r, is) ==
  \/ is = "recovery" /\ Finish(r)
  \/ is = "missing" /\ Defaults(r)
  \/ is = "exists" /\ reader' = [reader EXCEPT ![r].pc = "read",
                                    ![r].first = [path |-> reader[r].at, is |-> is]]

\* What the attempt does with a selection, its first or its second.  CheckHistorical
\* may find that the defaults would hide settings of an earlier version.
Resolved(r, is) ==
  LET s == [path |-> reader[r].at, is |-> is]
      first == reader[r].first
  IN  \/ is = "recovery" /\ Finish(r)
      \/ /\ first = None /\ is = "exists"
         /\ reader' = [reader EXCEPT ![r].pc = "read", ![r].first = s,
                                          ![r].before = TRUE]
      \/ /\ first = None /\ is = "missing"
         /\ \/ Finish(r)
            \/ reader[r].env = Automatic /\ ~reader[r].before /\ Resume(r, reader[r].try, s)
      \/ /\ first # None /\ is # "recovery"
         /\ IF s = first THEN IF is = "exists" THEN Finish(r) ELSE Defaults(r)
            ELSE IF first.is = "exists" /\ is = "missing" THEN Finish(r)
            ELSE Retry(r)

Probe(r) ==
  /\ reader[r].pc = "probe"
  /\ IF file[reader[r].at] # None THEN Resolved(r, "exists") ELSE Step(r, "list")
  /\ UNCHANGED <<disks, locks, writer, bounds, history>>

List(r) ==
  /\ reader[r].pc = "list"
  /\ IF Evidence(reader[r].at) THEN Resolved(r, "recovery")
     ELSE IF reader[r].at = Legacy /\ reader[r].env = Automatic
     THEN reader' = [reader EXCEPT ![r].pc = "probe", ![r].at = Neutral]
     ELSE Resolved(r, "missing")
  /\ UNCHANGED <<disks, locks, writer, bounds, history>>

\* ReadSnapshot; a file replaced between the look at it and its opening makes the
\* attempt start over.
Load(r) ==
  /\ reader[r].pc = "read"
  /\ LET d == file[reader[r].first.path]
     IN  \/ d \in {None} \cup Broken /\ Finish(r)
         \/ d \notin {None} \cup Broken /\ Resume(r, reader[r].try, reader[r].first)
         \/ d # None /\ Retry(r)
  /\ UNCHANGED <<disks, locks, writer, bounds, history>>

-----------------------------------------------------------------------------
(* The world.                                                                *)

\* Somebody writes, replaces or removes a document with another program.
Edit(p) ==
  /\ edits < MaxEdits
  /\ \E d \in (Foreign \cup {None}) \ {file[p]} :
       /\ file' = [file EXCEPT ![p] = d]
       /\ likely' = [likely EXCEPT ![p] = @ \cup {d}]
  /\ edits' = edits + 1
  /\ writer' = Raced(Writers, p)
  /\ settled' = [settled EXCEPT ![p] = None]
  /\ UNCHANGED <<temp, litter, backup, synced, locks, reader, calls, stops, replaced>>

Die(w) ==
  /\ stops < MaxStops
  /\ writer[w].pc # "idle"
  /\ stops' = stops + 1
  /\ litter' = litter \cup ({temp[w]} \ {None})
  /\ temp' = [temp EXCEPT ![w] = None]
  /\ Return(w)
  /\ UNCHANGED <<file, backup, likely, synced, reader, calls, edits, history>>

\* Directory entries that were not synced come back in either form.
PowerLoss ==
  /\ stops < MaxStops
  /\ stops' = stops + 1
  /\ \E f \in [Paths -> Entries] : (\A p \in Paths : f[p] \in likely[p]) /\ file' = f
  /\ \E b \in [Paths -> SUBSET Docs] :
       (\A p \in Paths : synced[p] \subseteq b[p] /\ b[p] \subseteq backup[p]) /\ backup' = b
  /\ litter' \in SUBSET (litter \cup {p \in Paths : \E w \in Writers : temp[w] = p})
  /\ temp' = [w \in Writers |-> None]
  /\ likely' = [p \in Paths |-> {file'[p]}]
  /\ synced' = backup'
  /\ guard' = None
  /\ lock' = [p \in Paths |-> None]
  /\ writer' = [w \in Writers |-> Idle]
  /\ reader' = [r \in Readers |-> Quiet]
  /\ UNCHANGED <<calls, edits, history>>

Begin(w)  == Call(w) \/ Look(w) \/ Snap(w) \/ Confirm(w) \/ First(w) \/ Guard(w) \/ Second(w)
             \/ Lock(w) \/ Third(w) \/ Read(w)
Commit(w) == Check(w) \/ Save(w) \/ SyncBackup(w) \/ WriteTemp(w) \/ Again(w) \/ Publish(w)
             \/ Settle(w) \/ Expire(w)
Hook(r)   == StartRead(r) \/ Probe(r) \/ List(r) \/ Load(r)

\* Which paths were never without a document or evidence of one during a read.
Watch ==
  occupied' = [r \in Readers |->
    IF reader'[r].pc \notin Reading THEN {}
    ELSE {p \in IF reader[r].pc \in Reading THEN occupied[r] ELSE Paths :
            Candidate(p)' # "missing"}]

ConfigNext ==
  /\ \/ \E w \in Writers : Begin(w) \/ Commit(w) \/ Die(w)
     \/ \E r \in Readers : Hook(r)
     \/ \E p \in Paths : Edit(p)
     \/ PowerLoss
  /\ Watch

ConfigSpec == ConfigInit /\ [][ConfigNext]_vars

-----------------------------------------------------------------------------
(* Properties.                                                               *)

Calling == {"look", "snap", "confirm", "first", "guard", "second", "target", "third", "read",
            "check", "backup", "sync", "temp", "again", "publish", "settle"}

CallStates ==
  [pc : Calling \cup {"idle"}, kind : {"init", "edit"}, call : Calls \cup {None},
   expect : [path : Paths, doc : Docs] \cup {None}, want : Entries,
   sel : Selections \cup {None}, old : Entries, raced : SUBSET Paths]

ReadStates ==
  [pc : Reading \cup {"idle", "defaults"}, env : Paths \cup {Automatic, None}, try : 0..3,
   at : Paths \cup {None}, first : Selections \cup {None}, before : BOOLEAN]

\* Every variable holds what the code may store there.
ConfigTypeOK ==
  /\ file \in [Paths -> Entries]
  /\ temp \in [Writers -> Paths \cup {None}]
  /\ litter \subseteq Paths
  /\ backup \in [Paths -> SUBSET Docs]
  /\ likely \in [Paths -> SUBSET Entries]
  /\ synced \in [Paths -> SUBSET Docs]
  /\ guard \in Writers \cup {None}
  /\ lock \in [Paths -> Writers \cup {None}]
  /\ writer \in [Writers -> CallStates]
  /\ reader \in [Readers -> ReadStates]
  /\ calls \in 0..MaxCalls /\ edits \in 0..MaxEdits /\ stops \in 0..MaxStops
  /\ replaced \in [Paths -> SUBSET Docs]
  /\ settled \in [Paths -> Entries]
  /\ occupied \in [Readers -> SUBSET Paths]

\* w publishes at p in this step.
Publishes(w, p) ==
  /\ writer[w].pc = "publish" /\ writer'[w].pc = "settle"
  /\ p = writer[w].sel.path

\* A publication replaces the document it was computed from, which for an edit is
\* the revision its caller had read, or nothing at all; only a change made outside
\* the store since the last comparison can be lost (ApplyEdits, commitDocument:
\* ExpectRevision, the two checks, the no-overwrite rename).
Swap ==
  [][\A w \in Writers, p \in Paths : Publishes(w, p) =>
       /\ writer[w].kind = "init" => file[p] = None
       /\ writer[w].kind = "edit" =>
            /\ writer[w].expect = [path |-> p, doc |-> writer[w].old]
            /\ file[p] = writer[w].old \/ p \in writer[w].raced]_vars

\* Nothing is created beside the remains of an interrupted or lost write
\* (ConfigRecoveryRequired), nor at N while L is there (Resolve under the guard).
CreatesFresh ==
  [][\A w \in Writers, p \in Paths : Publishes(w, p) /\ writer[w].kind = "init" =>
       /\ p \notin litter /\ backup[p] = {}
       /\ writer[w].call.path = Automatic =>
            p = Neutral /\ (file[Legacy] = None \/ Legacy \in writer[w].raced)]_vars

\* Every document the store has replaced knowingly is in a backup, also after a power loss
\* (writeArtifact and sync before the publication).
OldKept == \A p \in Paths : replaced[p] \subseteq backup[p]

\* A commit that was reported as done stays, whatever dies, until somebody writes
\* there again; one whose sync failed is reported as uncertain.
DoneStays == \A p \in Paths : settled[p] # None => file[p] = settled[p]

\* A temporary file belongs to a call that is about to publish it under the lock,
\* or its writer has died: a call that failed has removed its own.
NoFalseAlarm ==
  /\ \A w \in Writers : temp[w] # None =>
       writer[w].pc \in {"again", "publish"} /\ lock[temp[w]] = w
  /\ litter # {} => stops > 0

\* A hook falls back to defaults only if each candidate was, at some moment of the
\* read, really missing: a document being published between the look for the entry
\* and the listing of its directory is not taken for none (the second resolution
\* of ReadDocumentSelection).
DefaultsMeanMissing ==
  [][\A r \in Readers : reader[r].pc \in Reading /\ reader'[r].pc = "defaults" =>
       {Legacy, Neutral} \cap occupied[r] = {}]_vars
==============================================================================
