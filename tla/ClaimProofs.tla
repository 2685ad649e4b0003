----------------------------- MODULE ClaimProofs -----------------------------
(***************************************************************************)
(* Theorems about InstallClaim, for any number of hooks, directories and   *)
(* rounds, with deaths of wrappers and installers at every step.  The host *)
(* is assumed to end a hook within the back-off (HostLimit).               *)
(***************************************************************************)
EXTENDS InstallClaim, TLAPS

-----------------------------------------------------------------------------
(* The shape of the records, the processes and their tasks.                  *)

Alive(h) == child[h].pc \notin {"none", "gone"}

\* Looking through a directory for a cleanup, and cleaning it.
Within == {"note", "owner", "installer", "age", "unfail", "unwitness", "disown"}

\* A record in a directory was written by its process.
Authentic(i) ==
  /\ dir[i].owner # None =>
       /\ dir[i].owner.nonce \in 1 .. hook[dir[i].owner.who].round
       /\ hook[dir[i].owner.who].pc # "start"
  /\ dir[i].installer # None =>
       /\ dir[i].installer.nonce = 0
       /\ child[dir[i].installer.who].pc \notin {"none", "witness"}

Posture(h) ==
  /\ hook[h].pc \in Within \cup {"read", "publish", "confirm", "mark"} <=> hook[h].cwd # None
  /\ child[h].pc \in {"witness", "recheck", "withdraw"} <=> child[h].cwd # None
  /\ hook[h].pc \in {"empty", "prune", "create", "goin", "publish", "confirm", "retry", "install"} =>
       hook[h].task = "claim"
  /\ hook[h].pc \in {"verdict", "fail", "mark"} => hook[h].task = "finish"
  /\ hook[h].pc \in Within \cup {"enter", "rmdir"} => hook[h].task # "finish"
  /\ Alive(h) => hook[h].pc \in {"install", "gone"}
  /\ hook[h].task \in {"finish", "retire"} => child[h].pc = "gone"
  /\ hook[h].found # None =>
       /\ hook[h].pc \in {"owner", "installer", "age", "unfail", "unwitness"}
       /\ hook[h].found.nonce = 0 /\ child[hook[h].found.who].pc \notin {"none", "witness"}

Shape ==
  /\ ClaimTypeOK
  /\ \A i \in Inodes : Authentic(i)
  /\ \A h \in Hooks : Posture(h)

LEMMA NoRecord == None \notin Hooks /\ None \notin Inodes /\ None \notin Records
BY ClaimAssumption DEF Records

LEMMA ShapeInit == ClaimInit => Shape
<1> SUFFICES ASSUME ClaimInit PROVE Shape
  OBVIOUS
<1>1. ClaimTypeOK
  <2>1. Empty \in DirStates /\ Unborn \in ChildStates
    BY DEF Empty, DirStates, Unborn, ChildStates
  <2>2. [pc |-> "start", task |-> "claim", round |-> 1, cwd |-> None,
         observed |-> None, found |-> None] \in HookStates
    BY ClaimAssumption DEF HookStates, Kinds
  <2> QED
    BY <2>1, <2>2 DEF ClaimInit, ClaimTypeOK
<1>2. \A i \in Inodes : Authentic(i)
  BY DEF ClaimInit, Authentic, Empty
<1>3. \A h \in Hooks : Posture(h)
  BY DEF ClaimInit, Posture, Unborn, Alive, Within
<1> QED
  BY <1>1, <1>2, <1>3 DEF Shape

\* A step is of one process and its child.
Alone(h) ==
  /\ hook' \in [Hooks -> HookStates] /\ child' \in [Hooks -> ChildStates]
  /\ \A g \in Hooks : g # h => hook'[g] = hook[g] /\ child'[g] = child[g]
  /\ hook'[h].round >= hook[h].round
  /\ hook'[h].pc # "start"
  /\ child[h].pc \notin {"none", "witness"} => child'[h].pc \notin {"none", "witness"}

\* It writes no record but its own.
Writes(h) ==
  /\ active' \in Inodes \cup {None} /\ installed' \in BOOLEAN /\ cooling' \in BOOLEAN
  /\ dir' \in [Inodes -> DirStates]
  /\ \A i \in Inodes : i # active' => dir'[i] = Empty
  /\ \A i \in Inodes : dir'[i].owner \in {None, dir[i].owner, Claim(h)}
  /\ \A i \in Inodes : dir'[i].installer \in {None, dir[i].installer}
       \/ (dir'[i].installer = Witness(h) /\ child'[h].pc \notin {"none", "witness"})

LEMMA ShapeKept ==
  ASSUME Shape, NEW h \in Hooks, Alone(h), Writes(h), Posture(h)'
  PROVE  Shape'
<1>0. /\ hook \in [Hooks -> HookStates] /\ child \in [Hooks -> ChildStates]
      /\ dir \in [Inodes -> DirStates]
  BY DEF Shape, ClaimTypeOK
<1>1. ClaimTypeOK'
  BY DEF Alone, Writes, ClaimTypeOK, Empty
<1>2. ASSUME NEW g \in Hooks
      PROVE  /\ hook'[g].round >= hook[g].round
             /\ hook[g].pc # "start" => hook'[g].pc # "start"
             /\ child[g].pc \notin {"none", "witness"} => child'[g].pc \notin {"none", "witness"}
  BY <1>0 DEF Alone, HookStates
<1>3. ASSUME NEW i \in Inodes
      PROVE  Authentic(i)'
  <2>1. ASSUME dir'[i].owner # None
        PROVE  /\ dir'[i].owner.nonce \in 1 .. hook'[dir'[i].owner.who].round
               /\ hook'[dir'[i].owner.who].pc # "start"
    <3>1. CASE dir'[i].owner = dir[i].owner
      <4>1. dir[i].owner \in Records
        BY <1>0, <2>1, <3>1 DEF DirStates
      <4>2. dir[i].owner.who \in Hooks /\ dir[i].owner.nonce \in Nat
        BY <4>1 DEF Records
      <4> QED
        BY <1>0, <1>2, <2>1, <3>1, <4>2 DEF Shape, Authentic, Alone, HookStates
    <3>2. CASE dir'[i].owner = Claim(h)
      <4>1. dir'[i].owner.who = h /\ dir'[i].owner.nonce = hook[h].round
        BY <3>2 DEF Claim
      <4> QED
        BY <1>0, <4>1 DEF Alone, HookStates
    <3> QED
      BY <2>1, <3>1, <3>2 DEF Writes
  <2>2. ASSUME dir'[i].installer # None
        PROVE  /\ dir'[i].installer.nonce = 0
               /\ child'[dir'[i].installer.who].pc \notin {"none", "witness"}
    <3>1. CASE dir'[i].installer = dir[i].installer
      <4>1. dir[i].installer \in Records
        BY <1>0, <2>2, <3>1 DEF DirStates
      <4>2. dir[i].installer.who \in Hooks
        BY <4>1 DEF Records
      <4> QED
        BY <1>2, <2>2, <3>1, <4>2 DEF Shape, Authentic
    <3>2. CASE dir'[i].installer = Witness(h) /\ child'[h].pc \notin {"none", "witness"}
      BY <3>2 DEF Witness
    <3> QED
      BY <2>2, <3>1, <3>2 DEF Writes
  <2> QED
    BY <2>1, <2>2 DEF Authentic
<1>4. ASSUME NEW g \in Hooks
      PROVE  Posture(g)'
  <2>1. CASE g # h
    <3>1. hook'[g] = hook[g] /\ child'[g] = child[g] /\ Posture(g)
      BY <2>1 DEF Alone, Shape
    <3>2. hook[g].found # None => hook[g].found.who \in Hooks
      BY <1>0 DEF HookStates, Records
    <3> QED
      BY <1>2, <3>1, <3>2 DEF Posture, Alive
  <2> QED
    BY <2>1
<1> QED
  BY <1>1, <1>3, <1>4 DEF Shape

\* What a hook that has entered a directory may do to it, and the records it meets.
LEMMA Typed ==
  ASSUME Shape, NEW h \in Hooks
  PROVE  /\ hook[h] \in HookStates /\ child[h] \in ChildStates /\ Posture(h)
         /\ hook[h].round \in 1 .. Rounds /\ Rounds \in Nat
         /\ hook[h].cwd # None => hook[h].cwd \in Inodes /\ dir[hook[h].cwd] \in DirStates
         /\ child[h].cwd # None => child[h].cwd \in Inodes /\ dir[child[h].cwd] \in DirStates
         /\ active # None => active \in Inodes /\ dir[active] \in DirStates
         /\ RecordIn(active) \in Records \cup {None}
         /\ hook[h].cwd # None => RecordIn(hook[h].cwd) \in Records \cup {None}
         /\ Claim(h) \in Records /\ Witness(h) \in Records
<1>1. /\ hook[h] \in HookStates /\ child[h] \in ChildStates /\ Posture(h)
      /\ dir \in [Inodes -> DirStates] /\ active \in Inodes \cup {None}
  BY DEF Shape, ClaimTypeOK
<1>2. hook[h].round \in 1 .. Rounds /\ Rounds \in Nat
  BY <1>1, ClaimAssumption DEF HookStates
<1>3. /\ hook[h].cwd # None => hook[h].cwd \in Inodes /\ dir[hook[h].cwd] \in DirStates
      /\ child[h].cwd # None => child[h].cwd \in Inodes /\ dir[child[h].cwd] \in DirStates
      /\ active # None => active \in Inodes /\ dir[active] \in DirStates
  BY <1>1 DEF HookStates, ChildStates
<1>4. ASSUME NEW i, i # None => i \in Inodes /\ dir[i] \in DirStates
      PROVE  RecordIn(i) \in Records \cup {None}
  BY <1>4 DEF RecordIn, DirStates
<1>5. Claim(h) \in Records /\ Witness(h) \in Records
  BY <1>2 DEF Claim, Witness, Records
<1> QED
  BY <1>1, <1>2, <1>3, <1>4, <1>5

\* A step that leaves the files alone.
LEMMA ShapeWalked ==
  ASSUME Shape, NEW h \in Hooks, NEW s \in HookStates, hook' = [hook EXCEPT ![h] = s],
         UNCHANGED Files, s.round >= hook[h].round, s.pc # "start", Posture(h)'
  PROVE  Shape'
<1>1. Alone(h)
  BY DEF Alone, Files, Shape, ClaimTypeOK
<1>2. Writes(h)
  BY DEF Writes, Files, Shape, ClaimTypeOK
<1> QED
  BY <1>1, <1>2, ShapeKept

\* Steps of a hook over unchanged files.
Walks(h) ==
  \/ Start(h) \/ Look(h) \/ Read(h) \/ Absent(h) \/ Enter(h) \/ Note(h) \/ CheckOwner(h)
  \/ CheckInstaller(h) \/ CheckAge(h) \/ GoIn(h) \/ Confirm(h) \/ Retry(h) \/ Finish(h)
  \/ Verdict(h) \/ Fail(h) \/ After(h)

LEMMA WalkShape ==
  ASSUME Shape, NEW h \in Hooks, Walks(h)
  PROVE  Shape'
<1> USE DEF Goto, At, Spare, Within, Unheld, Retired
<1>0. /\ hook[h] \in HookStates /\ child[h] \in ChildStates /\ Posture(h)
      /\ hook[h].round \in 1 .. Rounds /\ Rounds \in Nat
      /\ hook[h].cwd # None => hook[h].cwd \in Inodes /\ dir[hook[h].cwd] \in DirStates
      /\ active # None => active \in Inodes
      /\ RecordIn(active) \in Records \cup {None}
      /\ hook[h].cwd # None => RecordIn(hook[h].cwd) \in Records \cup {None}
      /\ hook \in [Hooks -> HookStates]
  BY Typed DEF Shape, ClaimTypeOK
<1>1. UNCHANGED Files
  BY DEF Walks, Start, Look, Read, Absent, Enter, Note, CheckOwner, CheckInstaller, CheckAge, GoIn,
         Confirm, Retry, Finish, Verdict, Fail, After
<1>2. PICK s : s = hook'[h]
  OBVIOUS
<1>3. hook' = [hook EXCEPT ![h] = s] /\ s \in HookStates /\ s.round >= hook[h].round /\ s.pc # "start"
  <2>1. CASE Start(h) \/ Look(h) \/ Read(h) \/ Absent(h) \/ Enter(h)
    BY <1>0, <1>2, <2>1 DEF Start, Look, Read, Absent, Enter, HookStates, Kinds
  <2>2. CASE Note(h)
    BY <1>0, <1>2, <2>2 DEF Note, HookStates, Kinds, Posture, DirStates
  <2>3. CASE CheckOwner(h) \/ CheckInstaller(h) \/ CheckAge(h)
    BY <1>0, <1>2, <2>3 DEF CheckOwner, CheckInstaller, CheckAge, HookStates, Kinds
  <2>4. CASE GoIn(h) \/ Confirm(h) \/ Retry(h) \/ Finish(h) \/ Verdict(h) \/ Fail(h) \/ After(h)
    BY <1>0, <1>2, <2>4 DEF GoIn, Confirm, Retry, Finish, Verdict, Fail, After, HookStates, Kinds
  <2> QED
    BY <2>1, <2>2, <2>3, <2>4 DEF Walks
<1>4. Posture(h)'
  <2>1. CASE Start(h) \/ Look(h) \/ Read(h) \/ Absent(h) \/ Enter(h)
    BY <1>0, <1>1, <2>1, NoRecord DEF Start, Look, Read, Absent, Enter, HookStates, Posture, Alive, Files
  <2>2. CASE Note(h)
    <3>1. hook[h].cwd \in Inodes /\ Authentic(hook[h].cwd)
      BY <1>0, <2>2 DEF Note, Posture, Shape
    <3> QED
      BY <1>0, <1>1, <2>2, <3>1, NoRecord DEF Note, HookStates, Posture, Authentic, Alive, Files
  <2>3. CASE CheckOwner(h) \/ CheckInstaller(h) \/ CheckAge(h)
    BY <1>0, <1>1, <2>3, NoRecord DEF CheckOwner, CheckInstaller, CheckAge, HookStates, Posture, Alive, Files
  <2>4. CASE GoIn(h) \/ Confirm(h) \/ Retry(h) \/ Finish(h) \/ Verdict(h) \/ Fail(h) \/ After(h)
    BY <1>0, <1>1, <2>4, NoRecord DEF GoIn, Confirm, Retry, Finish, Verdict, Fail, After, HookStates, Posture, Alive, Files
  <2> QED
    BY <2>1, <2>2, <2>3, <2>4 DEF Walks
<1> QED
  BY <1>1, <1>3, <1>4, ShapeWalked

LEMMA RemovalShape ==
  ASSUME Shape, NEW h \in Hooks, Prune(h) \/ Rmdir(h)
  PROVE  Shape'
<1> USE DEF Goto, At, Within, Unheld, Retired
<1>0. /\ hook[h] \in HookStates /\ Posture(h) /\ hook \in [Hooks -> HookStates]
      /\ child \in [Hooks -> ChildStates] /\ dir \in [Inodes -> DirStates]
      /\ active \in Inodes \cup {None}
      /\ \A i \in Inodes : i # active => dir[i] = Empty
      /\ hook[h].round \in Nat
  BY Typed DEF Shape, ClaimTypeOK
<1>1. child' = child /\ RmdirActive /\ UNCHANGED <<installed, cooling>>
  BY DEF Prune, Rmdir
<1>2. PICK pc \in Kinds \ {"start"} : hook' = [hook EXCEPT ![h].pc = pc]
  BY DEF Prune, Rmdir, Kinds
<1>3. Alone(h)
  BY <1>0, <1>1, <1>2 DEF Alone, HookStates
<1>4. Empty \in DirStates
  BY DEF Empty, DirStates
<1>5. Writes(h)
  <2>1. CASE active # None /\ IsEmpty(active)
    <3>1. active' = None /\ dir' = [dir EXCEPT ![active] = Empty] /\ active \in Inodes
      BY <1>0, <1>1, <2>1 DEF RmdirActive
    <3>2. \A i \in Inodes : dir'[i] = Empty \/ dir'[i] = dir[i]
      BY <1>0, <3>1
    <3>3. \A i \in Inodes : dir'[i] = Empty
      BY <1>0, <3>1
    <3>4. dir' \in [Inodes -> DirStates]
      BY <1>0, <1>4, <3>1
    <3> QED
      BY <1>1, <3>1, <3>3, <3>4 DEF Writes, Empty, Shape, ClaimTypeOK
  <2>2. CASE ~(active # None /\ IsEmpty(active))
    BY <1>0, <1>1, <2>2 DEF RmdirActive, Writes, Shape, ClaimTypeOK
  <2> QED
    BY <2>1, <2>2
<1>6. Posture(h)'
  BY <1>0, <1>1, NoRecord DEF Prune, Rmdir, HookStates, Posture, Alive
<1> QED
  BY <1>3, <1>5, <1>6, ShapeKept

\* A step that changes at most one entry of the directory it has entered.
LEMMA EntryShape ==
  ASSUME Shape, NEW h \in Hooks, NEW i \in Inodes, NEW d \in DirStates,
         Alone(h), Posture(h)', UNCHANGED <<active, installed>>, cooling' \in BOOLEAN,
         dir' = dir \/ (dir' = [dir EXCEPT ![i] = d] /\ i = active),
         d.owner \in {None, dir[i].owner, Claim(h)},
         d.installer \in {None, dir[i].installer}
           \/ (d.installer = Witness(h) /\ child'[h].pc \notin {"none", "witness"})
  PROVE  Shape'
<1>1. Writes(h)
  BY DEF Writes, Shape, ClaimTypeOK
<1> QED
  BY <1>1, ShapeKept

LEMMA CleaningShape ==
  ASSUME Shape, NEW h \in Hooks, Unfail(h) \/ Unwitness(h) \/ Disown(h)
  PROVE  Shape'
<1> USE DEF Goto, At, Within
<1>0. /\ hook[h] \in HookStates /\ Posture(h) /\ hook \in [Hooks -> HookStates]
      /\ child \in [Hooks -> ChildStates] /\ dir \in [Inodes -> DirStates]
      /\ \A j \in Inodes : j # active => dir[j] = Empty
      /\ hook[h].round \in Nat
  BY Typed DEF Shape, ClaimTypeOK
<1>1. PICK i \in Inodes : i = hook[h].cwd
  BY <1>0, Typed DEF Unfail, Unwitness, Disown, Posture
<1>2. child' = child /\ UNCHANGED <<active, installed, cooling>>
  BY DEF Unfail, Unwitness, Disown
<1>3. Alone(h)
  BY <1>0, <1>2 DEF Unfail, Unwitness, Disown, Alone, HookStates, Kinds
<1>4. Posture(h)'
  BY <1>0, <1>2, NoRecord DEF Unfail, Unwitness, Disown, HookStates, Posture, Alive
<1>5. PICK d \in DirStates :
        /\ d.owner \in {None, dir[i].owner} /\ d.installer \in {None, dir[i].installer}
        /\ dir' = dir \/ (dir' = [dir EXCEPT ![i] = d] /\ dir[i] # Empty)
  <2>1. dir[i] \in DirStates
    BY <1>0
  <2>2. CASE Unfail(h)
    <3>1. PICK e : e = [[dir[i] EXCEPT !.failed = FALSE] EXCEPT !.old = FALSE]
      OBVIOUS
    <3>2. e \in DirStates /\ e.owner \in {None, dir[i].owner} /\ e.installer \in {None, dir[i].installer}
      BY <2>1, <3>1 DEF DirStates
    <3>3. dir' = dir \/ (dir' = [dir EXCEPT ![i] = e] /\ dir[i] # Empty)
      BY <1>1, <2>2, <3>1 DEF Unfail, Entry, Empty
    <3> QED
      BY <3>2, <3>3
  <2>3. CASE Unwitness(h)
    <3>1. PICK e : e = [[dir[i] EXCEPT !.installer = None] EXCEPT !.old = FALSE]
      OBVIOUS
    <3>2. e \in DirStates /\ e.owner \in {None, dir[i].owner} /\ e.installer \in {None, dir[i].installer}
      BY <2>1, <3>1 DEF DirStates
    <3>3. dir' = dir \/ (dir' = [dir EXCEPT ![i] = e] /\ dir[i] # Empty)
      BY <1>1, <2>3, <3>1 DEF Unwitness, Entry, Empty
    <3> QED
      BY <3>2, <3>3
  <2>4. CASE Disown(h)
    <3>1. PICK e : e = [[dir[i] EXCEPT !.owner = None] EXCEPT !.old = FALSE]
      OBVIOUS
    <3>2. e \in DirStates /\ e.owner \in {None, dir[i].owner} /\ e.installer \in {None, dir[i].installer}
      BY <2>1, <3>1 DEF DirStates
    <3>3. dir' = dir \/ (dir' = [dir EXCEPT ![i] = e] /\ dir[i] # Empty)
      BY <1>1, <2>4, <3>1 DEF Disown, Entry, Empty
    <3> QED
      BY <3>2, <3>3
  <2> QED
    BY <2>2, <2>3, <2>4
<1>6. dir' = dir \/ (dir' = [dir EXCEPT ![i] = d] /\ i = active)
  BY <1>0, <1>5
<1>7. cooling' \in BOOLEAN
  BY <1>2 DEF Shape, ClaimTypeOK
<1> QED
  BY <1>2, <1>3, <1>4, <1>5, <1>6, <1>7, EntryShape

LEMMA PublishingShape ==
  ASSUME Shape, NEW h \in Hooks, Create(h) \/ Publish(h) \/ Mark(h)
  PROVE  Shape'
<1> USE DEF Goto, At, Within
<1>0. /\ hook[h] \in HookStates /\ Posture(h) /\ hook \in [Hooks -> HookStates]
      /\ child \in [Hooks -> ChildStates] /\ dir \in [Inodes -> DirStates]
      /\ active \in Inodes \cup {None} /\ installed \in BOOLEAN /\ cooling \in BOOLEAN
      /\ \A j \in Inodes : j # active => dir[j] = Empty
      /\ hook[h].round \in Nat /\ Claim(h) \in Records
  BY Typed DEF Shape, ClaimTypeOK
<1>1. CASE Create(h)
  <2>1. child' = child /\ dir' = dir /\ installed' = installed /\ cooling' = cooling
        /\ active' \in Inodes \cup {None} /\ (active' = active \/ active = None)
    BY <1>0, <1>1 DEF Create
  <2>2. Alone(h)
    BY <1>0, <1>1, <2>1 DEF Create, Alone, HookStates, Kinds
  <2>3. Writes(h)
    BY <1>0, <2>1, NoRecord DEF Writes
  <2>4. Posture(h)'
    BY <1>0, <1>1, <2>1, NoRecord DEF Create, HookStates, Posture, Alive
  <2> QED
    BY <2>2, <2>3, <2>4, ShapeKept
<1>2. CASE Publish(h) \/ Mark(h)
  <2>1. PICK i \in Inodes : i = hook[h].cwd
    BY <1>0, <1>2, Typed DEF Publish, Mark, Posture
  <2>2. child' = child /\ UNCHANGED <<active, installed>> /\ cooling' \in BOOLEAN
    BY <1>0, <1>2 DEF Publish, Mark
  <2>3. Alone(h)
    BY <1>0, <1>2, <2>2 DEF Publish, Mark, Alone, HookStates, Kinds
  <2>4. Posture(h)'
    BY <1>0, <1>2, <2>2, NoRecord DEF Publish, Mark, HookStates, Posture, Alive
  <2>5. PICK d \in DirStates :
          /\ d.owner \in {dir[i].owner, Claim(h)} /\ d.installer = dir[i].installer
          /\ dir' = dir \/ (dir' = [dir EXCEPT ![i] = d] /\ i = active)
    <3>1. dir[i] \in DirStates
      BY <1>0
    <3>2. CASE Publish(h)
      BY <1>0, <2>1, <3>1, <3>2 DEF Publish, Entry, DirStates
    <3>3. CASE Mark(h)
      BY <1>0, <2>1, <3>1, <3>3 DEF Mark, Entry, DirStates
    <3> QED
      BY <1>2, <3>2, <3>3
  <2> QED
    BY <2>2, <2>3, <2>4, <2>5, EntryShape
<1> QED
  BY <1>1, <1>2

LEMMA ChildShape ==
  ASSUME Shape, NEW h \in Hooks,
         Spawn(h) \/ Testify(h) \/ Recheck(h) \/ Withdraw(h) \/ Installed(h) \/ KillChild(h)
  PROVE  Shape'
<1> USE DEF At, Within
<1>0. /\ hook[h] \in HookStates /\ Posture(h) /\ hook \in [Hooks -> HookStates]
      /\ child[h] \in ChildStates /\ child \in [Hooks -> ChildStates]
      /\ dir \in [Inodes -> DirStates]
      /\ active \in Inodes \cup {None} /\ installed \in BOOLEAN /\ cooling \in BOOLEAN
      /\ \A j \in Inodes : j # active => dir[j] = Empty
      /\ hook[h].round \in Nat /\ Witness(h) \in Records /\ Claim(h) # None
  BY Typed, NoRecord DEF Shape, ClaimTypeOK
<1>1. hook' = hook /\ active' = active /\ installed' \in BOOLEAN /\ cooling' = cooling
  BY <1>0 DEF Spawn, Testify, Recheck, Withdraw, Installed, KillChild
<1>2. hook[h].pc \in {"install", "gone"}
  BY <1>0 DEF Spawn, Testify, Recheck, Withdraw, Installed, KillChild, Posture, Alive
<1>3. Alone(h)
  <2>1. RecordIn(active) = Claim(h) => active # None
    BY <1>0 DEF RecordIn
  <2>2. PICK c \in ChildStates :
          /\ child' = [child EXCEPT ![h] = c]
          /\ child[h].pc # "none" => c.pc \notin {"none", "witness"}
    <3>1. Gone \in ChildStates /\ Gone.pc = "gone"
      BY DEF Gone, ChildStates
    <3>2. CASE Spawn(h)
      <4>1. [pc |-> "witness", cwd |-> active] \in ChildStates
        BY <1>0 DEF ChildStates
      <4> QED
        BY <3>1, <3>2, <4>1 DEF Spawn
    <3>3. CASE Testify(h)
      <4>1. [child[h] EXCEPT !.pc = "recheck"] \in ChildStates
        BY <1>0 DEF ChildStates
      <4> QED
        BY <1>0, <3>1, <3>3, <4>1 DEF Testify, ChildStates
    <3>4. CASE Recheck(h)
      <4>1. /\ [child[h] EXCEPT !.pc = "withdraw"] \in ChildStates
            /\ [pc |-> "running", cwd |-> None] \in ChildStates
        BY <1>0 DEF ChildStates
      <4> QED
        BY <1>0, <3>4, <4>1 DEF Recheck, ChildStates
    <3>5. CASE Withdraw(h) \/ Installed(h) \/ KillChild(h)
      BY <3>1, <3>5 DEF Withdraw, Installed, KillChild
    <3> QED
      BY <3>2, <3>3, <3>4, <3>5
  <2> QED
    BY <1>0, <1>1, <1>2, <2>2 DEF Alone
<1>4. Posture(h)'
  <2>1. RecordIn(active) = Claim(h) => active # None
    BY <1>0 DEF RecordIn
  <2>2. hook[h].cwd = None /\ hook[h].found = None
    BY <1>0, <1>2 DEF Posture
  <2>3. child'[h].pc \in {"witness", "recheck", "withdraw"} <=> child'[h].cwd # None
    <3>1. CASE Spawn(h)
      BY <1>0, <2>1, <3>1, NoRecord DEF Spawn, Gone
    <3>2. CASE Testify(h)
      BY <1>0, <3>2, NoRecord DEF Testify, Gone, Posture, ChildStates
    <3>3. CASE Recheck(h)
      BY <1>0, <3>3, NoRecord DEF Recheck, Posture, ChildStates
    <3>4. CASE Withdraw(h) \/ Installed(h) \/ KillChild(h)
      <4>1. child' = [child EXCEPT ![h] = Gone]
        BY <3>4 DEF Withdraw, Installed, KillChild
      <4>2. child'[h] = Gone
        BY <1>0, <4>1
      <4> QED
        BY <4>2 DEF Gone
    <3> QED
      BY <3>1, <3>2, <3>3, <3>4
  <2>4. hook[h].task \in {"finish", "retire"} => child[h].pc = "gone" /\ child'[h].pc = "gone"
    BY <1>0 DEF Posture, Spawn, Testify, Recheck, Withdraw, Installed, KillChild
  <2> QED
    BY <1>0, <1>1, <1>2, <2>2, <2>3, <2>4 DEF Posture, Alive
<1>5. Writes(h)
  <2>1. CASE dir' = dir
    BY <1>0, <1>1, <2>1 DEF Writes
  <2>2. CASE dir' # dir
    <3>1. PICK i \in Inodes : i = child[h].cwd
      BY <1>0, <2>2, Typed DEF Spawn, Testify, Recheck, Withdraw, Installed, KillChild, Posture
    <3>2. dir[i] \in DirStates
      BY <1>0
    <3>3. CASE Testify(h)
      <4>1. /\ dir' = [dir EXCEPT ![i] = [[dir[i] EXCEPT !.installer = Witness(h)] EXCEPT !.old = FALSE]]
            /\ i = active /\ child' = [child EXCEPT ![h].pc = "recheck"] /\ installed' = installed
        BY <2>2, <3>1, <3>3 DEF Testify, Entry
      <4>2. [[dir[i] EXCEPT !.installer = Witness(h)] EXCEPT !.old = FALSE] \in DirStates
        BY <1>0, <3>2 DEF DirStates
      <4>3. dir' \in [Inodes -> DirStates] /\ \A j \in Inodes : j # active => dir'[j] = Empty
        BY <1>0, <4>1, <4>2
      <4>4. child'[h].pc = "recheck"
        BY <1>0, <4>1 DEF ChildStates
      <4>5. \A j \in Inodes :
              /\ dir'[j].owner = dir[j].owner
              /\ dir'[j].installer = dir[j].installer \/ dir'[j].installer = Witness(h)
        BY <1>0, <3>2, <4>1 DEF DirStates
      <4> QED
        BY <1>0, <1>1, <4>3, <4>4, <4>5 DEF Writes
    <3>4. CASE Withdraw(h)
      <4>1. dir[i] # Empty
        BY <2>2, <3>1, <3>4 DEF Withdraw, Empty
      <4> QED
        <5>1. dir' = [dir EXCEPT ![i] = [[dir[i] EXCEPT !.installer = None] EXCEPT !.old = FALSE]]
          BY <2>2, <3>1, <3>4 DEF Withdraw, Entry
        <5>2. [[dir[i] EXCEPT !.installer = None] EXCEPT !.old = FALSE] \in DirStates
          BY <3>2 DEF DirStates
        <5>3. i = active
          BY <1>0, <4>1
        <5>4. dir' \in [Inodes -> DirStates] /\ \A j \in Inodes : j # active => dir'[j] = Empty
          BY <1>0, <5>1, <5>2, <5>3
        <5>5. \A j \in Inodes :
                /\ dir'[j].owner = dir[j].owner
                /\ dir'[j].installer = dir[j].installer \/ dir'[j].installer = None
          BY <1>0, <3>2, <5>1 DEF DirStates
        <5> QED
          BY <1>0, <1>1, <5>4, <5>5 DEF Writes
    <3> QED
      BY <2>2, <3>3, <3>4 DEF Spawn, Recheck, Installed, KillChild
  <2> QED
    BY <2>1, <2>2
<1> QED
  BY <1>3, <1>4, <1>5, ShapeKept

LEMMA ExitShape ==
  ASSUME Shape, NEW h \in Hooks, Exit(h)
  PROVE  Shape'
<1>0. /\ hook[h] \in HookStates /\ Posture(h) /\ hook \in [Hooks -> HookStates]
      /\ child \in [Hooks -> ChildStates] /\ hook[h].round \in Nat
      /\ child[h] \in ChildStates
  BY Typed DEF Shape, ClaimTypeOK
<1>1. UNCHANGED <<active, dir, installed, cooling>>
  BY DEF Exit
<1>2. Alone(h)
  <2>1. PICK s \in HookStates :
          hook' = [hook EXCEPT ![h] = s] /\ s.round = hook[h].round /\ s.pc = "gone"
    <3>1. PICK s : s = [hook[h] EXCEPT !.pc = "gone", !.cwd = None, !.observed = None, !.found = None]
      OBVIOUS
    <3>2. s \in HookStates /\ s.round = hook[h].round /\ s.pc = "gone"
      BY <1>0, <3>1 DEF HookStates, Kinds
    <3>3. hook' = [hook EXCEPT ![h] = s]
      BY <1>0, <3>1 DEF Exit
    <3> QED
      BY <3>2, <3>3
  <2>2. Gone \in ChildStates /\ Gone.pc = "gone"
    BY DEF Gone, ChildStates
  <2> QED
    <3>1. child' = child \/ (child' = [child EXCEPT ![h] = Gone])
      BY DEF Exit
    <3>2. /\ hook' \in [Hooks -> HookStates] /\ child' \in [Hooks -> ChildStates]
          /\ hook'[h] = s /\ \A g \in Hooks : g # h => hook'[g] = hook[g] /\ child'[g] = child[g]
          /\ child[h].pc \notin {"none", "witness"} => child'[h].pc \notin {"none", "witness"}
      BY <1>0, <2>1, <2>2, <3>1
    <3> QED
      BY <1>0, <2>1, <3>2 DEF Alone
<1>3. Posture(h)'
  BY <1>0, NoRecord DEF Exit, Posture, Alive, HookStates, Gone, Within
<1>4. Writes(h)
  BY <1>1 DEF Writes, Shape, ClaimTypeOK
<1> QED
  BY <1>2, <1>3, <1>4, ShapeKept

LEMMA AgeShape ==
  ASSUME Shape, Age
  PROVE  Shape'
<1>1. ClaimTypeOK'
  BY DEF Age, Shape, ClaimTypeOK, DirStates
<1>2. ASSUME NEW i \in Inodes
      PROVE  Authentic(i)'
  <2>1. dir'[i].owner = dir[i].owner /\ dir'[i].installer = dir[i].installer /\ Authentic(i)
    BY DEF Age, Shape, ClaimTypeOK, DirStates
  <2> QED
    BY <2>1 DEF Age, Authentic
<1>3. ASSUME NEW h \in Hooks
      PROVE  Posture(h)'
  BY DEF Age, Shape, Posture, Alive
<1> QED
  BY <1>1, <1>2, <1>3 DEF Shape

\* Every step is one of these.
LEMMA Steps ==
  ASSUME ClaimNext
  PROVE  \/ Age
         \/ \E h \in Hooks :
              \/ Walks(h) \/ Prune(h) \/ Rmdir(h) \/ Unfail(h) \/ Unwitness(h) \/ Disown(h)
              \/ Create(h) \/ Publish(h) \/ Mark(h) \/ Exit(h)
              \/ Spawn(h) \/ Testify(h) \/ Recheck(h) \/ Withdraw(h) \/ Installed(h) \/ KillChild(h)
BY DEF ClaimNext, HookStep, ChildStep, Walks

LEMMA ShapeNext == Shape /\ [ClaimNext]_vars => Shape'
<1> SUFFICES ASSUME Shape, [ClaimNext]_vars PROVE Shape'
  OBVIOUS
<1>1. CASE ClaimNext
  BY <1>1, Steps, WalkShape, RemovalShape, CleaningShape, PublishingShape, ChildShape, ExitShape,
     AgeShape
<1>2. CASE UNCHANGED vars
  BY <1>2 DEF vars, Shape, ClaimTypeOK, Authentic, Posture, Alive
<1> QED
  BY <1>1, <1>2

\* Every variable of the claim keeps its shape, and a directory loses its name only
\* when it is empty and is written to only while it has it (mkdir, ln, rmdir).
THEOREM ClaimTypeCorrect == ClaimSpec => []ClaimTypeOK
<1>1. ClaimSpec => []Shape
  BY ShapeInit, ShapeNext, PTL DEF ClaimSpec
<1>2. Shape => ClaimTypeOK
  BY DEF Shape
<1> QED
  BY <1>1, <1>2, PTL

-----------------------------------------------------------------------------
(* Until the binary is in place.                                             *)

Here(h) == hook[h].pc \notin {"start", "gone"}

Owns(h) == active # None /\ dir[active].owner = Claim(h)

\* An installer that runs, or is about to decide in the active directory.
Inside(k) == Alive(k) /\ (child[k].pc = "running" \/ child[k].cwd = active)

\* A cleanup of a claim that was found dead and old goes to its end.
Reaps(g) == hook[g].task = "claim" /\ hook[g].pc \in {"unfail", "unwitness", "disown"}

Young == ~dir[active].old /\ \A g \in Hooks : Reaps(g) => hook[g].cwd # active

Claiming(h) ==
  /\ hook[h].pc \notin {"start", "run", "gone"} => hook[h].task # "clear"
  /\ hook[h].pc \in {"owner", "installer", "age"} => hook[h].task = "claim"

\* The directory of a living owner does not come of age, and is its own.
Trusted(h) == Here(h) /\ Owns(h) => Young /\ \A k \in Hooks : Inside(k) => k = h

\* Nor does a directory that somebody may be about to claim; nothing is left in it
\* but what belongs to its owner.
Entering(g) ==
  hook[g].pc \in {"goin", "publish"} /\ active # None =>
    Young /\ \A k \in Hooks : Inside(k) => Owns(k)

\* The witness stands as long as its child.
Standing(k) ==
  /\ child[k].pc \in {"recheck", "withdraw"} => dir[child[k].cwd].installer = Witness(k)
  /\ child[k].pc = "running" => active # None /\ dir[active].installer = Witness(k)

\* A failure is that of an owner whose child is gone.
Failed ==
  active # None /\ dir[active].failed =>
    /\ dir[active].owner # None /\ child[dir[active].owner.who].pc = "gone"
    /\ \A k \in Hooks : ~Inside(k)

Cleaning(h) ==
  /\ hook[h].pc \in {"unwitness", "disown"} => ~dir[hook[h].cwd].failed
  /\ hook[h].pc = "mark" \/ (hook[h].task = "retire" /\ hook[h].pc \in Within) =>
       dir[hook[h].cwd].owner = Claim(h)

Unfailed(h) == Owns(h) /\ hook[h].pc \notin {"after", "run", "gone"} => ~dir[active].failed

\* A witness noted for deletion is that of a child in this directory, and of a dead
\* one when it comes to that.
Finding(g) ==
  hook[g].found # None /\ Alive(hook[g].found.who) =>
    /\ hook[g].cwd = active
    /\ ~(hook[g].task = "claim" /\ hook[g].pc \in {"age", "unfail", "unwitness"})

\* The back-off: nobody cleans the failure up before its directory is old.
Cooled == cooling => active # None /\ dir[active].failed /\ Young

Rest ==
  /\ \A h \in Hooks : /\ Claiming(h) /\ Trusted(h) /\ Entering(h) /\ Standing(h)
                      /\ Cleaning(h) /\ Unfailed(h) /\ Finding(h)
  /\ Failed /\ Cooled

LEMMA RestInit == ClaimInit => Rest
<1> SUFFICES ASSUME ClaimInit PROVE Rest
  OBVIOUS
<1>1. \A h \in Hooks : /\ Claiming(h) /\ Trusted(h) /\ Entering(h) /\ Standing(h)
                       /\ Cleaning(h) /\ Unfailed(h) /\ Finding(h)
  BY DEF ClaimInit, Claiming, Trusted, Here, Entering, Standing, Cleaning, Unfailed, Owns, Finding,
         Unborn, Within
<1> QED
  BY <1>1 DEF ClaimInit, Rest, Failed, Cooled

\* What is written in a directory makes it the active one, and a child that has left
\* its witness is at work there.
LEMMA Present ==
  ASSUME Shape, Rest
  PROVE  /\ \A i \in Inodes : dir[i].owner # None \/ dir[i].installer # None \/ dir[i].failed
                                => i = active
         /\ \A k \in Hooks : child[k].pc \in {"recheck", "withdraw", "running"} =>
              /\ Inside(k) /\ active \in Inodes
              /\ dir[active].installer = Witness(k)
              /\ child[k].pc # "running" => child[k].cwd = active
         /\ \A k \in Hooks : Alive(k) /\ child[k].pc # "witness" =>
              child[k].pc \in {"recheck", "withdraw", "running"}
         /\ \A k \in Hooks : Witness(k) # None /\ Claim(k) # None
<1>1. \A i \in Inodes : dir[i].owner # None \/ dir[i].installer # None \/ dir[i].failed => i = active
  BY DEF Shape, ClaimTypeOK, Empty
<1>2. \A k \in Hooks : Witness(k) # None /\ Claim(k) # None
  BY Typed, NoRecord
<1>3. ASSUME NEW k \in Hooks, child[k].pc \in {"recheck", "withdraw", "running"}
      PROVE  /\ Inside(k) /\ active \in Inodes
             /\ dir[active].installer = Witness(k)
             /\ child[k].pc # "running" => child[k].cwd = active
  <2>1. Posture(k) /\ Standing(k) /\ (active # None => active \in Inodes)
    BY Typed DEF Rest
  <2>2. CASE child[k].pc = "running"
    BY <2>1, <2>2 DEF Standing, Inside, Alive
  <2>3. CASE child[k].pc # "running"
    <3>1. child[k].cwd \in Inodes /\ dir[child[k].cwd].installer = Witness(k)
      BY <1>3, <2>1, <2>3, Typed DEF Posture, Standing
    <3> QED
      BY <1>1, <1>2, <1>3, <3>1 DEF Inside, Alive
  <2> QED
    BY <2>2, <2>3
<1>4. \A k \in Hooks : Alive(k) /\ child[k].pc # "witness" =>
        child[k].pc \in {"recheck", "withdraw", "running"}
  BY Typed DEF Alive, ChildStates
<1> QED
  BY <1>1, <1>2, <1>3, <1>4

LEMMA Claims ==
  ASSUME NEW g \in Hooks, NEW h \in Hooks
  PROVE  Claim(g) = Claim(h) => g = h
BY DEF Claim

LEMMA Witnesses ==
  ASSUME NEW g \in Hooks, NEW h \in Hooks
  PROVE  Witness(g) = Witness(h) => g = h
BY DEF Witness

\* A step that leaves the files alone keeps all of this, if the hook is where it may
\* be, begins a cleanup only of an old directory, and comes by no claim.
LEMMA Walked ==
  ASSUME Shape, Rest, NEW h \in Hooks, NEW s, hook' = [hook EXCEPT ![h] = s], UNCHANGED Files,
         Claiming(h)', Cleaning(h)', Finding(h)',
         Reaps(h)' => (Reaps(h) /\ s.cwd = hook[h].cwd) \/ dir[s.cwd].old,
         s.round = hook[h].round \/ ~Alive(h),
         Owns(h)' => /\ Owns(h) /\ Here(h) /\ s.round = hook[h].round
                     /\ s.pc \notin {"after", "run", "gone"} => hook[h].pc \notin {"after", "run", "gone"},
         s.pc \in {"goin", "publish"} /\ active # None => hook[h].pc \in {"goin", "publish"}
  PROVE  Rest'
<1>0. /\ hook'[h] = s /\ \A g \in Hooks : g # h => hook'[g] = hook[g]
      /\ UNCHANGED <<active, dir, installed, child, cooling>>
  BY DEF Shape, ClaimTypeOK, Files
<1>1. Young => Young'
  BY <1>0 DEF Young, Reaps
<1>2. /\ \A k \in Hooks : Inside(k)' <=> Inside(k)
      /\ \A k \in Hooks : Alive(k)' <=> Alive(k)
  BY <1>0 DEF Inside, Alive
<1>3. \A k \in Hooks : k # h => (Owns(k)' <=> Owns(k))
  BY <1>0 DEF Owns, Claim
<1>4. Alive(h) => (Owns(h)' <=> Owns(h))
  BY <1>0 DEF Owns, Claim
<1>5. ASSUME NEW g \in Hooks
      PROVE  Claiming(g)' /\ Cleaning(g)' /\ Finding(g)' /\ Standing(g)'
  <2>1. Standing(g)'
    BY <1>0 DEF Rest, Standing, Witness
  <2>2. CASE g # h
    <3>1. hook'[g] = hook[g] /\ Claiming(g) /\ Cleaning(g) /\ Finding(g)
      BY <1>0, <2>2 DEF Rest
    <3> QED
      BY <1>0, <1>2, <2>1, <3>1 DEF Claiming, Cleaning, Finding, Claim, Alive
  <2> QED
    BY <2>1, <2>2
<1>6. ASSUME NEW g \in Hooks
      PROVE  Trusted(g)' /\ Unfailed(g)'
  <2>1. Owns(g)' /\ Here(g)' => Owns(g) /\ Here(g)
    BY <1>0, <1>3 DEF Here
  <2>2. Owns(g)' /\ hook'[g].pc \notin {"after", "run", "gone"} =>
          Owns(g) /\ hook[g].pc \notin {"after", "run", "gone"}
    BY <1>0, <1>3
  <2>3. Trusted(g) /\ Unfailed(g)
    BY DEF Rest
  <2> QED
    BY <1>0, <1>1, <1>2, <2>1, <2>2, <2>3 DEF Trusted, Unfailed
<1>7. ASSUME NEW g \in Hooks
      PROVE  Entering(g)'
  <2>1. hook'[g].pc \in {"goin", "publish"} /\ active # None => hook[g].pc \in {"goin", "publish"}
    BY <1>0
  <2>2. \A k \in Hooks : Inside(k) /\ Owns(k) => Owns(k)'
    BY <1>3, <1>4 DEF Inside
  <2>3. Entering(g)
    BY DEF Rest
  <2> QED
    BY <1>0, <1>1, <1>2, <2>1, <2>2, <2>3 DEF Entering
<1>8. Failed' /\ Cooled'
  <2>1. Failed /\ Cooled
    BY DEF Rest
  <2> QED
    BY <1>0, <1>1, <1>2, <2>1 DEF Failed, Cooled
<1> QED
  BY <1>5, <1>6, <1>7, <1>8 DEF Rest

\* A record that is a hook's claim is not a witness.
LEMMA Claimed ==
  ASSUME Shape, NEW h \in Hooks, RecordIn(active) = Claim(h)
  PROVE  Owns(h)
<1>1. active # None /\ active \in Inodes /\ Authentic(active) /\ Claim(h) # None
  BY Typed, NoRecord DEF RecordIn, Shape
<1>2. Claim(h).nonce # 0
  BY Typed DEF Claim
<1> QED
  BY <1>1, <1>2 DEF RecordIn, Authentic, Owns

\* A hook owns nothing before it starts, nor under a round it has not begun.
LEMMA Early ==
  ASSUME Shape, NEW h \in Hooks, Owns(h)
  PROVE  hook[h].pc # "start" /\ active \in Inodes
<1>1. active \in Inodes /\ Authentic(active) /\ Claim(h) # None
  BY Typed, NoRecord DEF Owns, Shape
<1> QED
  BY <1>1 DEF Owns, Authentic, Claim

LEMMA WalkRest ==
  ASSUME Shape, Rest, ~installed, NEW h \in Hooks, Walks(h)
  PROVE  Rest'
<1> USE DEF Goto, At, Spare, Unheld, Retired
<1>0. /\ hook[h] \in HookStates /\ Posture(h) /\ hook[h].round \in 1 .. Rounds /\ Rounds \in Nat
      /\ hook[h].cwd # None => hook[h].cwd \in Inodes /\ dir[hook[h].cwd] \in DirStates
      /\ Claiming(h) /\ Cleaning(h) /\ Finding(h) /\ hook \in [Hooks -> HookStates]
  BY Typed DEF Shape, ClaimTypeOK, Rest
<1>1. UNCHANGED Files
  BY DEF Walks, Start, Look, Read, Absent, Enter, Note, CheckOwner, CheckInstaller, CheckAge, GoIn,
         Confirm, Retry, Finish, Verdict, Fail, After
<1>2. PICK s : s = hook'[h]
  OBVIOUS
<1>3. hook' = [hook EXCEPT ![h] = s]
  BY <1>0, <1>2 DEF Walks, Start, Look, Read, Absent, Enter, Note, CheckOwner, CheckInstaller,
         CheckAge, GoIn, Confirm, Retry, Finish, Verdict, Fail, After
<1>4. Claiming(h)'
  BY <1>0, <1>1 DEF Walks, Start, Look, Read, Absent, Enter, Note, CheckOwner, CheckInstaller,
         CheckAge, GoIn, Confirm, Retry, Finish, Verdict, Fail, After, HookStates, Posture,
         Claiming, Files, Within
<1>5. Cleaning(h)'
  <2>1. CASE Start(h) \/ Look(h) \/ Read(h) \/ Absent(h) \/ CheckOwner(h) \/ CheckInstaller(h)
               \/ CheckAge(h) \/ GoIn(h) \/ Confirm(h) \/ Retry(h) \/ Finish(h) \/ Verdict(h) \/ After(h)
    BY <1>0, <1>1, <2>1 DEF Start, Look, Read, Absent, CheckOwner, CheckInstaller, CheckAge, GoIn,
         Confirm, Retry, Finish, Verdict, After, HookStates, Posture, Claiming, Cleaning, Files, Within
  <2>2. CASE Enter(h)
    <3>1. RecordIn(active) = Claim(h) => dir[active].owner = Claim(h)
      BY Claimed DEF Owns
    <3> QED
      BY <1>0, <1>1, <2>2, <3>1 DEF Enter, HookStates, Cleaning, Files, Within, Claim
  <2>3. CASE Note(h)
    BY <1>0, <1>1, <2>3 DEF Note, HookStates, Cleaning, Files, Within, Claim
  <2>4. CASE Fail(h)
    BY <1>0, <1>1, <2>4 DEF Fail, HookStates, Cleaning, Files, Within, Claim, Posture
  <2> QED
    BY <2>1, <2>2, <2>3, <2>4 DEF Walks
<1>6. Finding(h)'
  <2>1. CASE Start(h) \/ Look(h) \/ Read(h) \/ Absent(h) \/ Enter(h)
               \/ GoIn(h) \/ Confirm(h) \/ Retry(h) \/ Finish(h) \/ Verdict(h) \/ Fail(h) \/ After(h)
    BY <1>0, <1>1, <2>1 DEF Start, Look, Read, Absent, Enter, GoIn, Fail,
         Confirm, Retry, Finish, Verdict, After, HookStates, Posture, Finding, Within
  <2>2. CASE Note(h)
    <3>1. dir[hook[h].cwd].installer # None => hook[h].cwd = active
      BY <1>0, <2>2, Present DEF Note, Posture, Within
    <3> QED
      BY <1>0, <1>1, <2>2, <3>1 DEF Note, HookStates, Finding, Files, Alive
  <2>3. CASE CheckOwner(h)
    <3>1. CASE dir[hook[h].cwd].failed
      <4>1. ~(hook[h].found # None /\ Alive(hook[h].found.who))
        <5>1. active # None /\ dir[active].failed
          BY <1>0, <2>3, <3>1, Present, NoRecord DEF CheckOwner, Posture, Within
        <5>2. hook[h].found # None => hook[h].found.who \in Hooks
          BY <1>0 DEF HookStates, Records
        <5> QED
          BY <1>0, <5>1, <5>2, Present DEF Rest, Failed, Posture
      <4> QED
        BY <1>0, <1>1, <2>3, <4>1 DEF CheckOwner, HookStates, Finding, Files, Alive
    <3>2. CASE ~dir[hook[h].cwd].failed
      <4>1. CASE OwnerLive(h)
        BY <1>0, <1>1, <2>3, <4>1 DEF CheckOwner, HookStates, Finding
      <4>2. CASE ~OwnerLive(h)
        <5>1. hook' = [hook EXCEPT ![h].pc = "installer"]
          BY <2>3, <3>2, <4>2 DEF CheckOwner
        <5> QED
          BY <1>0, <1>1, <5>1 DEF HookStates, Finding, Files, Alive
      <4> QED
        BY <4>1, <4>2
    <3> QED
      BY <3>1, <3>2
  <2>4. CASE CheckInstaller(h)
    <3>1. CASE Live(dir[hook[h].cwd].installer)
      BY <1>0, <1>1, <2>4, <3>1 DEF CheckInstaller, HookStates, Finding
    <3>2. CASE ~Live(dir[hook[h].cwd].installer)
      <4>1. ~(hook[h].found # None /\ Alive(hook[h].found.who))
        <5> SUFFICES ASSUME hook[h].found # None, Alive(hook[h].found.who) PROVE FALSE
          OBVIOUS
        <5>1. PICK k \in Hooks : k = hook[h].found.who
          BY <1>0 DEF HookStates, Records
        <5>2. hook[h].cwd = active
          BY <1>0 DEF Finding
        <5>3. dir[active].installer = Witness(k) /\ Witness(k) # None
          BY <1>0, <5>1, Present DEF Posture
        <5> QED
          BY <3>2, <5>1, <5>2, <5>3 DEF Live, Witness, Alive
      <4> QED
        BY <1>0, <1>1, <2>4, <3>2, <4>1 DEF CheckInstaller, HookStates, Finding, Files, Alive
    <3> QED
      BY <3>1, <3>2
  <2>5. CASE CheckAge(h)
    BY <1>0, <1>1, <2>5 DEF CheckAge, HookStates, Finding, Files, Alive
  <2> QED
    BY <2>1, <2>2, <2>3, <2>4, <2>5 DEF Walks
<1>7. Reaps(h)' => (Reaps(h) /\ s.cwd = hook[h].cwd) \/ dir[s.cwd].old
  BY <1>0, <1>2 DEF Walks, Start, Look, Read, Absent, Enter, Note, CheckOwner, CheckInstaller,
         CheckAge, GoIn, Confirm, Retry, Finish, Verdict, Fail, After, HookStates, Posture,
         Claiming, Reaps, Within
<1>8. s.round = hook[h].round \/ ~Alive(h)
  BY <1>0, <1>2 DEF Walks, Start, Look, Read, Absent, Enter, Note, CheckOwner, CheckInstaller,
         CheckAge, GoIn, Confirm, Retry, Finish, Verdict, Fail, After, HookStates, Posture
<1>9. Owns(h)' => /\ Owns(h) /\ Here(h) /\ s.round = hook[h].round
                  /\ s.pc \notin {"after", "run", "gone"} => hook[h].pc \notin {"after", "run", "gone"}
  <2> SUFFICES ASSUME Owns(h)'
               PROVE  /\ Owns(h) /\ Here(h) /\ s.round = hook[h].round
                      /\ s.pc \notin {"after", "run", "gone"} => hook[h].pc \notin {"after", "run", "gone"}
    OBVIOUS
  <2>1. active # None /\ active \in Inodes /\ dir[active].owner = [who |-> h, nonce |-> s.round]
    BY <1>1, <1>2, Typed DEF Owns, Claim, Files
  <2>2. dir[active].owner # None
    <3>1. s.round \in Nat
      BY <1>2, WalkShape, ClaimAssumption DEF Shape, ClaimTypeOK, HookStates
    <3> QED
      BY <2>1, <3>1, ClaimAssumption
  <2>3. s.round = hook[h].round
    <3>1. s.round \in 1 .. hook[h].round
      BY <2>1, <2>2 DEF Shape, Authentic
    <3> QED
      BY <1>0, <1>2, <3>1 DEF Walks, Start, Look, Read, Absent, Enter, Note, CheckOwner,
         CheckInstaller, CheckAge, GoIn, Confirm, Retry, Finish, Verdict, Fail, After, HookStates
  <2>4. Owns(h)
    BY <2>1, <2>3 DEF Owns, Claim
  <2> QED
    BY <1>0, <1>2, <2>3, <2>4, Early DEF Here, Walks, Start, Look, Read, Absent, Enter, Note, CheckOwner,
         CheckInstaller, CheckAge, GoIn, Confirm, Retry, Finish, Verdict, Fail, After, HookStates
<1>10. s.pc \in {"goin", "publish"} /\ active # None => hook[h].pc \in {"goin", "publish"}
  BY <1>0, <1>2 DEF Walks, Start, Look, Read, Absent, Enter, Note, CheckOwner, CheckInstaller,
         CheckAge, GoIn, Confirm, Retry, Finish, Verdict, Fail, After, HookStates
<1> QED
  BY <1>1, <1>3, <1>4, <1>5, <1>6, <1>7, <1>8, <1>9, <1>10, Walked

\* A hook that finds nothing to do where it is goes on without a trace.
LEMMA Paced ==
  ASSUME Shape, Rest, NEW h \in Hooks, NEW s \in HookStates, hook' = [hook EXCEPT ![h] = s],
         UNCHANGED Files, Here(h), hook[h].pc \notin {"after", "run"}, hook[h].task # "clear",
         s.round = hook[h].round, s.task = hook[h].task, s.found = None,
         s.pc \in {"create", "retry", "rmdir", "run", "after"}
  PROVE  Rest'
<1>0. hook'[h] = s /\ UNCHANGED <<active, dir>> /\ hook[h].pc # "gone"
  BY DEF Shape, ClaimTypeOK, Files, Here
<1>1. Claiming(h)' /\ Cleaning(h)' /\ Finding(h)'
  BY <1>0 DEF Claiming, Cleaning, Finding, Within
<1>2. ~Reaps(h)'
  BY <1>0 DEF Reaps
<1>3. Owns(h)' => Owns(h)
  BY <1>0 DEF Owns, Claim
<1> QED
  BY <1>0, <1>1, <1>2, <1>3, Walked

\* Nothing is lost with an empty directory, and no child has its witness in another.
LEMMA RemovalRest ==
  ASSUME Shape, Rest, ~installed, NEW h \in Hooks, Prune(h) \/ Rmdir(h)
  PROVE  Rest'
<1> USE DEF Goto, At, Unheld, Retired
<1>0. /\ hook[h] \in HookStates /\ Posture(h) /\ Claiming(h)
      /\ hook \in [Hooks -> HookStates] /\ dir \in [Inodes -> DirStates]
      /\ active \in Inodes \cup {None}
  BY Typed DEF Shape, ClaimTypeOK, Rest
<1>1. RmdirActive /\ UNCHANGED <<installed, child, cooling>>
  BY DEF Prune, Rmdir
<1>2. /\ hook[h].pc \in {"prune", "rmdir"} /\ hook[h].task # "clear" /\ hook[h].found = None
  BY <1>0 DEF Prune, Rmdir, Posture, Claiming
<1>3. PICK pc \in {"create", "retry", "run", "after"} : hook' = [hook EXCEPT ![h].pc = pc]
  BY DEF Prune, Rmdir
<1>4. PICK s : s = [hook[h] EXCEPT !.pc = pc]
  OBVIOUS
<1>5. /\ s \in HookStates /\ hook' = [hook EXCEPT ![h] = s]
      /\ s.pc = pc /\ s.round = hook[h].round /\ s.task = hook[h].task /\ s.found = None
  BY <1>0, <1>2, <1>3, <1>4 DEF HookStates, Kinds
<1>6. CASE ~(active # None /\ IsEmpty(active))
  <2>1. UNCHANGED Files
    BY <1>1, <1>6 DEF RmdirActive, Files
  <2> QED
    BY <1>2, <1>5, <2>1, Paced DEF Here
<1>7. CASE active # None /\ IsEmpty(active)
  <2>1. /\ active \in Inodes /\ active' = None /\ child' = child /\ cooling' = cooling
        /\ dir' = [dir EXCEPT ![active] = Empty]
    BY <1>0, <1>1, <1>7 DEF RmdirActive
  <2>2. \A i \in Inodes : dir'[i] = Empty \/ (i # active /\ dir'[i] = dir[i])
    BY <1>0, <2>1
  <2>3. \A i \in Inodes : ~dir'[i].failed /\ dir'[i].owner = None
    BY <2>2, Present DEF Empty
  <2>4. \A k \in Hooks : ~(Alive(k) /\ child[k].pc # "witness")
                         /\ child[k].pc \notin {"recheck", "withdraw", "running"}
    BY <1>7, Present DEF IsEmpty
  <2>5. ~cooling
    BY <1>7 DEF Rest, Cooled, IsEmpty
  <2>6. ASSUME NEW g \in Hooks
        PROVE  Claiming(g)' /\ Trusted(g)' /\ Entering(g)' /\ Standing(g)' /\ Cleaning(g)'
               /\ Unfailed(g)' /\ Finding(g)'
    <3>1. Trusted(g)' /\ Entering(g)' /\ Unfailed(g)'
      BY <2>1 DEF Trusted, Entering, Unfailed, Owns
    <3>2. Standing(g)'
      BY <2>1, <2>4 DEF Standing
    <3>3. CASE g = h
      <4>1. hook'[g] = s
        BY <1>0, <1>5, <3>3
      <4> QED
        BY <1>2, <1>5, <3>1, <3>2, <4>1 DEF Claiming, Cleaning, Finding, Within
    <3>4. CASE g # h
      <4>1. hook'[g] = hook[g] /\ Claiming(g) /\ Cleaning(g) /\ Posture(g) /\ hook[g] \in HookStates
        BY <1>5, <3>4, Typed DEF Rest
      <4>2. hook[g].cwd # None => hook[g].cwd \in Inodes
        BY Typed
      <4>3. Cleaning(g)'
        <5>1. hook[g].pc \in {"mark"} \cup Within => hook[g].cwd \in Inodes
          BY <4>1, <4>2 DEF Posture
        <5>2. ~(hook[g].pc = "mark" \/ (hook[g].task = "retire" /\ hook[g].pc \in Within))
          BY <1>7, <4>1, <5>1, Present DEF Cleaning, IsEmpty
        <5> QED
          BY <2>3, <4>1, <5>1, <5>2 DEF Cleaning, Within
      <4>4. Finding(g)'
        <5>1. hook[g].found # None => hook[g].found.who \in Hooks
          BY <4>1 DEF HookStates, Records
        <5> QED
          BY <2>1, <2>4, <4>1, <5>1 DEF Finding, Posture, Alive
      <4> QED
        BY <3>1, <3>2, <4>1, <4>3, <4>4 DEF Claiming
    <3> QED
      BY <3>3, <3>4
  <2>7. Failed' /\ Cooled'
    BY <2>1, <2>5 DEF Failed, Cooled
  <2> QED
    BY <2>6, <2>7 DEF Rest
<1> QED
  BY <1>6, <1>7

LEMMA Named == Shape => \A k \in Hooks : Claim(k) # None
BY Typed, NoRecord

\* A directory that is made is nobody's: no child is in it, and nobody cleans it.
LEMMA CreateRest ==
  ASSUME Shape, Rest, ~installed, NEW h \in Hooks, Create(h)
  PROVE  Rest'
<1> USE DEF Goto, At
<1>0. /\ hook[h] \in HookStates /\ Posture(h) /\ hook[h].task = "claim" /\ hook[h].found = None
      /\ hook \in [Hooks -> HookStates] /\ hook[h].pc = "create"
  BY Typed DEF Shape, ClaimTypeOK, Create, Posture
<1>1. CASE active # None
  <2>1. PICK s : s = [hook[h] EXCEPT !.pc = "retry"]
    OBVIOUS
  <2>2. /\ s \in HookStates /\ hook' = [hook EXCEPT ![h] = s] /\ UNCHANGED Files
        /\ s.pc = "retry" /\ s.round = hook[h].round /\ s.task = hook[h].task /\ s.found = None
    BY <1>0, <1>1, <2>1 DEF Create, HookStates, Kinds, Files
  <2> QED
    BY <1>0, <2>2, Paced DEF Here
<1>2. CASE active = None
  <2>1. PICK i \in Inodes : Free(i) /\ active' = i
    BY <1>2 DEF Create
  <2>2. UNCHANGED <<dir, child, cooling>> /\ hook' = [hook EXCEPT ![h].pc = "goin"]
    BY <1>2 DEF Create
  <2>3. \A j \in Inodes : dir[j] = Empty
    BY <1>2, NoRecord DEF Shape, ClaimTypeOK
  <2>4. \A k \in Hooks : ~(Alive(k) /\ child[k].pc # "witness")
                         /\ child[k].pc \notin {"recheck", "withdraw", "running"}
    BY <1>2, Present, NoRecord
  <2>5. hook'[h].pc = "goin" /\ \A g \in Hooks : g # h => hook'[g] = hook[g]
    BY <1>0, <2>2 DEF HookStates
  <2>6. Young'
    <3>1. ~dir[i].old
      BY <2>3 DEF Empty
    <3>2. \A g \in Hooks : Reaps(g)' => hook'[g].cwd # i
      BY <2>1, <2>5 DEF Reaps, Free
    <3> QED
      BY <2>1, <2>2, <3>1, <3>2 DEF Young
  <2>7. \A k \in Hooks : ~Inside(k)'
    BY <2>1, <2>2, <2>4 DEF Inside, Free, Alive
  <2>8. ASSUME NEW g \in Hooks
        PROVE  Claiming(g)' /\ Trusted(g)' /\ Entering(g)' /\ Standing(g)' /\ Cleaning(g)'
               /\ Unfailed(g)' /\ Finding(g)'
    <3>1. Claim(g)' # None
      <4>1. Shape'
        BY PublishingShape
      <4>2. (\A k \in Hooks : Claim(k) # None)'
        BY <4>1, Named, PTL
      <4> QED
        BY <4>2
    <3>2. ~Owns(g)'
      BY <2>1, <2>2, <2>3, <3>1 DEF Owns, Empty
    <3>3. Trusted(g)' /\ Unfailed(g)' /\ Entering(g)'
      BY <2>6, <2>7, <3>2 DEF Trusted, Unfailed, Entering
    <3>4. Standing(g)'
      BY <2>2, <2>4 DEF Standing
    <3>5. CASE g = h
      <4>1. hook'[h].task = "claim" /\ hook'[h].found = None
        BY <1>0, <2>2 DEF HookStates
      <4> QED
        BY <2>5, <3>3, <3>4, <3>5, <4>1 DEF Claiming, Cleaning, Finding
    <3>6. CASE g # h
      <4>1. hook'[g] = hook[g] /\ Claiming(g) /\ Cleaning(g) /\ Posture(g) /\ hook[g] \in HookStates
        BY <2>5, <3>6, Typed DEF Rest
      <4>2. Cleaning(g)'
        BY <2>2, <4>1 DEF Cleaning, Claim
      <4>3. Finding(g)'
        <5>1. hook[g].found # None => hook[g].found.who \in Hooks
          BY <4>1 DEF HookStates, Records
        <5> QED
          BY <2>2, <2>4, <4>1, <5>1 DEF Finding, Posture, Alive
      <4> QED
        BY <3>3, <3>4, <4>1, <4>2, <4>3 DEF Claiming
    <3> QED
      BY <3>5, <3>6
  <2>9. Failed' /\ Cooled'
    BY <1>2, <2>1, <2>2, <2>3 DEF Failed, Cooled, Rest, Empty
  <2> QED
    BY <2>8, <2>9 DEF Rest
<1> QED
  BY <1>1, <1>2

\* The directories' entries after a change of the active one.
LEMMA Changed ==
  ASSUME Shape, active # None, NEW e \in DirStates, dir' = [dir EXCEPT ![active] = e]
  PROVE  /\ active \in Inodes /\ dir'[active] = e
         /\ \A i \in Inodes : i # active => dir'[i] = dir[i] /\ dir'[i] = Empty
BY DEF Shape, ClaimTypeOK

\* A claim is published in a directory where no child is left and no failure.
LEMMA PublishRest ==
  ASSUME Shape, Rest, ~installed, NEW h \in Hooks, Publish(h)
  PROVE  Rest'
<1> USE DEF Goto, At
<1>0. /\ hook[h] \in HookStates /\ Posture(h) /\ hook[h].task = "claim" /\ hook[h].found = None
      /\ hook \in [Hooks -> HookStates] /\ hook[h].pc = "publish" /\ hook[h].cwd \in Inodes
      /\ dir[hook[h].cwd] \in DirStates
  BY Typed DEF Shape, ClaimTypeOK, Publish, Posture, Within
<1>1. CASE ~(active = hook[h].cwd /\ dir[hook[h].cwd].owner = None)
  <2>1. PICK s : s = [hook[h] EXCEPT !.pc = "retry", !.cwd = None]
    OBVIOUS
  <2>2. /\ s \in HookStates /\ hook' = [hook EXCEPT ![h] = s] /\ UNCHANGED Files
        /\ s.pc = "retry" /\ s.round = hook[h].round /\ s.task = hook[h].task /\ s.found = None
    BY <1>0, <1>1, <2>1, ZenonT(30) DEF Publish, HookStates, Kinds, Files
  <2> QED
    BY <1>0, <2>2, Paced DEF Here
<1>2. CASE active = hook[h].cwd /\ dir[hook[h].cwd].owner = None
  <2>1. /\ UNCHANGED <<active, child, cooling>> /\ hook' = [hook EXCEPT ![h].pc = "confirm"]
        /\ active # None /\ active \in Inodes /\ dir[active].owner = None
    BY <1>0, <1>2, NoRecord DEF Publish
  <2>2. PICK e : e = [[dir[active] EXCEPT !.owner = Claim(h)] EXCEPT !.old = FALSE]
    OBVIOUS
  <2>3. /\ e \in DirStates /\ dir' = [dir EXCEPT ![active] = e]
        /\ e.owner = Claim(h) /\ e.installer = dir[active].installer
        /\ e.failed = dir[active].failed /\ ~e.old
    BY <1>0, <1>2, <2>2, Typed DEF Publish, Entry, DirStates
  <2>4. /\ dir'[active] = e
        /\ \A i \in Inodes : i # active => dir'[i] = dir[i]
    BY <2>1, <2>3, Changed
  <2>5. \A k \in Hooks : ~Inside(k) /\ Claim(k) # None
    BY <1>0, <2>1, Named DEF Rest, Entering, Owns
  <2>6. \A k \in Hooks : ~(Alive(k) /\ child[k].pc # "witness")
                         /\ child[k].pc \notin {"recheck", "withdraw", "running"}
    BY <2>5, Present
  <2>7. hook'[h].pc = "confirm" /\ \A g \in Hooks : g # h => hook'[g] = hook[g]
    BY <1>0, <2>1 DEF HookStates
  <2>8. Claim(h)' = Claim(h) /\ \A g \in Hooks : g # h => Claim(g)' = Claim(g)
    BY <1>0, <2>1 DEF HookStates, Claim
  <2>9. Young /\ ~dir[active].failed
    BY <1>0, <2>1 DEF Rest, Entering, Failed
  <2>10. Young'
    <3>1. \A g \in Hooks : Reaps(g)' => Reaps(g) /\ hook'[g].cwd = hook[g].cwd
      BY <2>7 DEF Reaps
    <3> QED
      BY <2>1, <2>3, <2>4, <2>9, <3>1 DEF Young
  <2>11. \A k \in Hooks : ~Inside(k)'
    BY <2>1, <2>5 DEF Inside, Alive
  <2>12. ASSUME NEW g \in Hooks
         PROVE  Claiming(g)' /\ Trusted(g)' /\ Entering(g)' /\ Standing(g)' /\ Cleaning(g)'
                /\ Unfailed(g)' /\ Finding(g)'
    <3>1. Trusted(g)' /\ Entering(g)'
      BY <2>10, <2>11 DEF Trusted, Entering
    <3>2. Standing(g)'
      BY <2>1, <2>6 DEF Standing
    <3>3. Unfailed(g)'
      BY <2>1, <2>3, <2>4, <2>9 DEF Unfailed
    <3>4. CASE g = h
      <4>1. hook'[h].task = "claim" /\ hook'[h].found = None
        BY <1>0, <2>1 DEF HookStates
      <4> QED
        BY <2>7, <3>1, <3>2, <3>3, <3>4, <4>1 DEF Claiming, Cleaning, Finding
    <3>5. CASE g # h
      <4>1. hook'[g] = hook[g] /\ Claiming(g) /\ Cleaning(g) /\ Posture(g) /\ hook[g] \in HookStates
        BY <2>7, <3>5, Typed DEF Rest
      <4>2. Cleaning(g)'
        <5>1. hook[g].pc \in {"mark"} \cup Within => hook[g].cwd \in Inodes
          BY <4>1, Typed DEF Posture
        <5>2. hook[g].pc = "mark" \/ (hook[g].task = "retire" /\ hook[g].pc \in Within) =>
                hook[g].cwd # active
          BY <2>1, <2>5, <4>1 DEF Cleaning
        <5> QED
          BY <2>3, <2>4, <2>8, <2>9, <3>5, <4>1, <5>1, <5>2 DEF Cleaning, Within
      <4>3. Finding(g)'
        <5>1. hook[g].found # None => hook[g].found.who \in Hooks
          BY <4>1 DEF HookStates, Records
        <5> QED
          BY <2>1, <2>6, <4>1, <5>1 DEF Finding, Posture, Alive
      <4> QED
        BY <3>1, <3>2, <3>3, <4>1, <4>2, <4>3 DEF Claiming
    <3> QED
      BY <3>4, <3>5
  <2>13. Failed' /\ Cooled'
    BY <2>1, <2>3, <2>4, <2>9 DEF Failed, Cooled, Rest
  <2> QED
    BY <2>12, <2>13 DEF Rest
<1> QED
  BY <1>1, <1>2

\* A hook marks only its own claim as failed, after its child has ended.
LEMMA MarkRest ==
  ASSUME Shape, Rest, ~installed, NEW h \in Hooks, Mark(h)
  PROVE  Rest'
<1> USE DEF Goto, At
<1>0. /\ hook[h] \in HookStates /\ Posture(h) /\ hook[h].task = "finish" /\ hook[h].found = None
      /\ hook \in [Hooks -> HookStates] /\ hook[h].pc = "mark" /\ hook[h].cwd \in Inodes
      /\ dir[hook[h].cwd] \in DirStates /\ child[h].pc = "gone" /\ Claim(h) # None
  BY Typed, Named DEF Shape, ClaimTypeOK, Mark, Posture, Within
<1>1. hook[h].cwd = active /\ Owns(h)
  <2>1. dir[hook[h].cwd].owner = Claim(h)
    BY <1>0 DEF Rest, Cleaning
  <2> QED
    BY <1>0, <2>1, Present, NoRecord DEF Owns
<1>2. /\ UNCHANGED <<active, child>> /\ hook' = [hook EXCEPT ![h].pc = "after", ![h].cwd = None]
      /\ active # None /\ active \in Inodes
  BY <1>0, <1>1, NoRecord DEF Mark
<1>3. PICK e : e = [[dir[active] EXCEPT !.failed = TRUE] EXCEPT !.old = FALSE]
  OBVIOUS
<1>4. /\ e \in DirStates /\ dir' = [dir EXCEPT ![active] = e] /\ e.owner = dir[active].owner
      /\ e.installer = dir[active].installer /\ e.failed /\ ~e.old
  BY <1>0, <1>1, <1>3 DEF Mark, Entry, DirStates
<1>5. /\ dir'[active] = e
      /\ \A i \in Inodes : i # active => dir'[i] = dir[i]
  BY <1>2, <1>4, Changed
<1>6. Young /\ \A k \in Hooks : ~Inside(k)
  <2>1. Young /\ \A k \in Hooks : Inside(k) => k = h
    BY <1>0, <1>1 DEF Rest, Trusted, Here
  <2> QED
    BY <1>0, <2>1 DEF Inside, Alive
<1>7. \A k \in Hooks : ~(Alive(k) /\ child[k].pc # "witness")
                       /\ child[k].pc \notin {"recheck", "withdraw", "running"}
  BY <1>6, Present
<1>8. hook'[h].pc = "after" /\ \A g \in Hooks : g # h => hook'[g] = hook[g]
  BY <1>0, <1>2 DEF HookStates
<1>9. Claim(h)' = Claim(h) /\ \A g \in Hooks : g # h => Claim(g)' = Claim(g)
  BY <1>0, <1>2 DEF HookStates, Claim
<1>10. Young'
  <2>1. \A g \in Hooks : Reaps(g)' => Reaps(g) /\ hook'[g].cwd = hook[g].cwd
    BY <1>8 DEF Reaps
  <2> QED
    BY <1>2, <1>4, <1>5, <1>6, <2>1 DEF Young
<1>11. \A k \in Hooks : ~Inside(k)'
  BY <1>2, <1>6 DEF Inside, Alive
<1>12. ASSUME NEW g \in Hooks
       PROVE  Claiming(g)' /\ Trusted(g)' /\ Entering(g)' /\ Standing(g)' /\ Cleaning(g)'
              /\ Unfailed(g)' /\ Finding(g)'
  <2>1. Trusted(g)' /\ Entering(g)'
    BY <1>10, <1>11 DEF Trusted, Entering
  <2>2. Standing(g)'
    BY <1>2, <1>7 DEF Standing
  <2>3. Unfailed(g)'
    <3>1. Owns(g)' => g = h
      BY <1>1, <1>2, <1>4, <1>5, <1>9, Claims DEF Owns
    <3> QED
      BY <1>8, <3>1 DEF Unfailed
  <2>4. CASE g = h
    <3>1. hook'[h].task = "finish" /\ hook'[h].found = None
      BY <1>0, <1>2 DEF HookStates
    <3> QED
      BY <1>8, <2>1, <2>2, <2>3, <2>4, <3>1 DEF Claiming, Cleaning, Finding, Within
  <2>5. CASE g # h
    <3>1. hook'[g] = hook[g] /\ Claiming(g) /\ Cleaning(g) /\ Posture(g) /\ hook[g] \in HookStates
      BY <1>8, <2>5, Typed DEF Rest
    <3>2. hook[g].pc \in {"mark"} \cup Within => hook[g].cwd \in Inodes
      BY <3>1, Typed DEF Posture
    <3>3. hook[g].pc \in {"unwitness", "disown"} => hook[g].cwd # active
      <4>1. hook[g].pc \in {"unwitness", "disown"} => hook[g].task \in {"claim", "retire"}
        BY <3>1 DEF Posture, Claiming, HookStates, Within
      <4>2. hook[g].pc \in {"unwitness", "disown"} /\ hook[g].task = "claim" => hook[g].cwd # active
        BY <1>6 DEF Young, Reaps
      <4>3. hook[g].pc \in {"unwitness", "disown"} /\ hook[g].task = "retire" => hook[g].cwd # active
        BY <1>1, <2>5, <3>1, Claims DEF Cleaning, Within, Owns
      <4> QED
        BY <4>1, <4>2, <4>3
    <3>4. Cleaning(g)'
      <4>1. hook[g].pc \in {"unwitness", "disown"} => ~dir'[hook[g].cwd].failed
        BY <1>5, <3>1, <3>2, <3>3 DEF Cleaning, Within
      <4>2. hook[g].pc = "mark" \/ (hook[g].task = "retire" /\ hook[g].pc \in Within) =>
              dir'[hook[g].cwd].owner = dir[hook[g].cwd].owner
        BY <1>4, <1>5, <3>2
      <4> QED
        BY <1>9, <2>5, <3>1, <4>1, <4>2 DEF Cleaning
    <3>5. Finding(g)'
      <4>1. hook[g].found # None => hook[g].found.who \in Hooks
        BY <3>1 DEF HookStates, Records
      <4> QED
        BY <1>2, <1>7, <3>1, <4>1 DEF Finding, Posture, Alive
    <3> QED
      BY <2>1, <2>2, <2>3, <3>1, <3>4, <3>5 DEF Claiming
  <2> QED
    BY <2>4, <2>5
<1>13. Failed'
  <2>1. e.owner = Claim(h) /\ Claim(h).who = h
    BY <1>1, <1>4 DEF Owns, Claim
  <2> QED
    BY <1>0, <1>2, <1>5, <1>11, <2>1 DEF Failed
<1>14. Cooled'
  BY <1>2, <1>4, <1>5, <1>10 DEF Cooled
<1> QED
  BY <1>12, <1>13, <1>14 DEF Rest

\* A hook that cleans: an owner that retires its claim, whose child is gone, or the
\* reaper of a claim that was dead and old.
LEMMA Cleaner ==
  ASSUME Shape, Rest, NEW h \in Hooks, hook[h].pc \in {"unfail", "unwitness", "disown"}
  PROVE  /\ hook[h] \in HookStates /\ hook[h].cwd \in Inodes /\ dir[hook[h].cwd] \in DirStates
         /\ hook[h].task = "claim" => Reaps(h)
         /\ hook[h].task = "claim" \/ hook[h].task = "retire"
         /\ hook[h].task = "retire" =>
              /\ hook[h].cwd = active /\ Owns(h) /\ Here(h) /\ child[h].pc = "gone" /\ Young
              /\ \A k \in Hooks : ~Inside(k)
<1>1. /\ hook[h] \in HookStates /\ Posture(h) /\ Claiming(h) /\ Cleaning(h)
      /\ hook[h].cwd \in Inodes /\ dir[hook[h].cwd] \in DirStates /\ Claim(h) # None
  BY Typed, Named DEF Rest, Posture, Within
<1>2. hook[h].task = "claim" \/ hook[h].task = "retire"
  BY <1>1 DEF HookStates, Posture, Claiming, Within
<1>3. ASSUME hook[h].task = "retire"
      PROVE  /\ hook[h].cwd = active /\ Owns(h) /\ Here(h) /\ child[h].pc = "gone" /\ Young
             /\ \A k \in Hooks : ~Inside(k)
  <2>1. dir[hook[h].cwd].owner = Claim(h)
    BY <1>1, <1>3 DEF Cleaning, Within
  <2>2. hook[h].cwd = active /\ Owns(h) /\ Here(h)
    BY <1>1, <2>1, Present, NoRecord DEF Owns, Here
  <2>3. Young /\ \A k \in Hooks : Inside(k) => k = h
    BY <2>2 DEF Rest, Trusted
  <2>4. child[h].pc = "gone"
    BY <1>1, <1>3 DEF Posture
  <2> QED
    BY <2>2, <2>3, <2>4 DEF Inside, Alive
<1> QED
  BY <1>1, <1>2, <1>3 DEF Reaps

\* The failure of an attempt is not cleaned up before its directory is old.
LEMMA UnfailRest ==
  ASSUME Shape, Rest, ~installed, NEW h \in Hooks, Unfail(h)
  PROVE  Rest'
<1> USE DEF Goto, At
<1>0. /\ hook[h] \in HookStates /\ Posture(h) /\ Claiming(h) /\ Cleaning(h) /\ Finding(h)
      /\ hook \in [Hooks -> HookStates] /\ hook[h].pc = "unfail" /\ hook[h].cwd \in Inodes
      /\ dir[hook[h].cwd] \in DirStates
  BY Typed, Cleaner DEF Shape, ClaimTypeOK, Unfail, Rest
<1>1. PICK s : s = [hook[h] EXCEPT !.pc = "unwitness"]
  OBVIOUS
<1>2. /\ s \in HookStates /\ hook' = [hook EXCEPT ![h] = s] /\ s.pc = "unwitness"
      /\ s.task = hook[h].task /\ s.round = hook[h].round /\ s.cwd = hook[h].cwd
      /\ s.found = hook[h].found /\ UNCHANGED <<active, installed, child, cooling>>
      /\ hook'[h] = s /\ \A g \in Hooks : g # h => hook'[g] = hook[g]
  BY <1>0, <1>1 DEF Unfail, HookStates, Kinds
<1>3. Claiming(h)'
  BY <1>0, <1>2 DEF Claiming
<1>4. Finding(h)'
  BY <1>0, <1>2 DEF Finding, Alive
<1>5. \A g \in Hooks : Claim(g)' = Claim(g)
  BY <1>0, <1>2 DEF Claim
<1>6. Reaps(h)' => Reaps(h)
  BY <1>0, <1>2 DEF Reaps
<1>7. CASE ~dir[hook[h].cwd].failed
  <2>1. UNCHANGED Files
    BY <1>2, <1>7 DEF Unfail, Files
  <2>2. Cleaning(h)'
    BY <1>0, <1>2, <1>5, <1>7, <2>1 DEF Cleaning, Files, Within
  <2>3. Owns(h)' => Owns(h) /\ Here(h) /\ hook[h].pc \notin {"after", "run", "gone"}
    BY <1>0, <1>5, <2>1 DEF Owns, Here, Files
  <2> QED
    BY <1>2, <1>3, <1>4, <1>6, <2>1, <2>2, <2>3, Walked
<1>8. CASE dir[hook[h].cwd].failed
  <2>1. hook[h].cwd = active /\ active # None /\ active \in Inodes
    BY <1>0, <1>8, Present, NoRecord
  <2>2. PICK e : e = [[dir[active] EXCEPT !.failed = FALSE] EXCEPT !.old = FALSE]
    OBVIOUS
  <2>3. /\ e \in DirStates /\ dir' = [dir EXCEPT ![active] = e] /\ e.owner = dir[active].owner
        /\ e.installer = dir[active].installer /\ ~e.failed /\ ~e.old
    BY <1>0, <1>8, <2>1, <2>2 DEF Unfail, Entry, DirStates
  <2>4. dir'[active] = e /\ \A i \in Inodes : i # active => dir'[i] = dir[i]
    BY <2>1, <2>3, Changed
  <2>5. \A k \in Hooks : ~Inside(k)
    BY <1>8, <2>1 DEF Rest, Failed
  <2>6. \A k \in Hooks : ~(Alive(k) /\ child[k].pc # "witness")
                         /\ child[k].pc \notin {"recheck", "withdraw", "running"}
    BY <2>5, Present
  <2>7. ~cooling
    <3>1. hook[h].task = "claim"
      BY <1>0, <1>8, <2>1, Cleaner DEF Rest, Unfailed
    <3>2. ~Young
      BY <1>0, <2>1, <3>1, Cleaner DEF Young
    <3> QED
      BY <3>2 DEF Rest, Cooled
  <2>8. Young => Young'
    <3>1. \A g \in Hooks : Reaps(g)' => Reaps(g) /\ hook'[g].cwd = hook[g].cwd
      BY <1>2, <1>6
        DEF Reaps
    <3> QED
      BY <1>2, <2>3, <2>4, <3>1 DEF Young
  <2>9. \A k \in Hooks : ~Inside(k)' /\ (Owns(k)' <=> Owns(k))
    BY <1>2, <1>5, <2>1, <2>3, <2>4, <2>5 DEF Inside, Alive, Owns
  <2>10. ASSUME NEW g \in Hooks
         PROVE  Claiming(g)' /\ Trusted(g)' /\ Entering(g)' /\ Standing(g)' /\ Cleaning(g)'
                /\ Unfailed(g)' /\ Finding(g)'
    <3>1. Trusted(g) /\ Entering(g) /\ Claiming(g) /\ Cleaning(g) /\ Finding(g) /\ Posture(g)
      BY Typed DEF Rest
    <3>2. Trusted(g)'
      BY <1>0, <1>2, <2>8, <2>9, <3>1 DEF Trusted, Here
    <3>3. Entering(g)'
      BY <1>0, <1>2, <2>8, <2>9, <3>1 DEF Entering
    <3>4. Standing(g)' /\ Unfailed(g)'
      BY <1>2, <2>3, <2>4, <2>6 DEF Standing, Unfailed
    <3>5. Claiming(g)' /\ Finding(g)'
      BY <1>2, <1>3, <1>4, <3>1 DEF Claiming, Finding, Alive
    <3>6. Cleaning(g)'
      <4>1. CASE g = h
        BY <1>0, <1>2, <1>5, <2>1, <2>3, <2>4, <3>1, <4>1 DEF Cleaning, Within
      <4>2. CASE g # h
        <5>1. hook'[g] = hook[g]
          BY <1>2, <4>2
        <5>2. hook[g].pc \in {"mark"} \cup Within => hook[g].cwd \in Inodes
          BY <3>1, Typed DEF Posture
        <5> QED
          BY <1>5, <2>3, <2>4, <3>1, <5>1, <5>2 DEF Cleaning, Within
      <4> QED
        BY <4>1, <4>2
    <3> QED
      BY <3>2, <3>3, <3>4, <3>5, <3>6
  <2>11. Failed' /\ Cooled'
    BY <1>2, <2>3, <2>4, <2>7 DEF Failed, Cooled
  <2> QED
    BY <2>10, <2>11 DEF Rest
<1> QED
  BY <1>7, <1>8

\* No witness is deleted but that of a dead child.
LEMMA UnwitnessRest ==
  ASSUME Shape, Rest, ~installed, NEW h \in Hooks, Unwitness(h)
  PROVE  Rest'
<1> USE DEF Goto, At
<1>0. /\ hook[h] \in HookStates /\ Posture(h) /\ Claiming(h) /\ Cleaning(h) /\ Finding(h)
      /\ hook \in [Hooks -> HookStates] /\ hook[h].pc = "unwitness" /\ hook[h].cwd \in Inodes
      /\ dir[hook[h].cwd] \in DirStates
  BY Typed, Cleaner DEF Shape, ClaimTypeOK, Unwitness, Rest
<1>1. PICK s : s = [hook[h] EXCEPT !.pc = "disown", !.found = None]
  OBVIOUS
<1>2. /\ s \in HookStates /\ hook' = [hook EXCEPT ![h] = s] /\ s.pc = "disown"
      /\ s.task = hook[h].task /\ s.round = hook[h].round /\ s.cwd = hook[h].cwd
      /\ s.found = None /\ UNCHANGED <<active, installed, child, cooling>>
      /\ hook'[h] = s /\ \A g \in Hooks : g # h => hook'[g] = hook[g]
  BY <1>0, <1>1 DEF Unwitness, HookStates, Kinds
<1>3. Claiming(h)' /\ Finding(h)'
  BY <1>0, <1>2 DEF Claiming, Finding
<1>5. \A g \in Hooks : Claim(g)' = Claim(g)
  BY <1>0, <1>2 DEF Claim
<1>6. Reaps(h)' => Reaps(h)
  BY <1>0, <1>2 DEF Reaps
<1>7. CASE ~(hook[h].found # None /\ dir[hook[h].cwd].installer = hook[h].found)
  <2>1. UNCHANGED Files
    BY <1>2, <1>7 DEF Unwitness, Files
  <2>2. Cleaning(h)'
    BY <1>0, <1>2, <1>5, <1>7, <2>1 DEF Cleaning, Files, Within
  <2>3. Owns(h)' => Owns(h) /\ Here(h) /\ hook[h].pc \notin {"after", "run", "gone"}
    BY <1>0, <1>5, <2>1 DEF Owns, Here, Files
  <2> QED
    BY <1>2, <1>3, <1>6, <2>1, <2>2, <2>3, Walked
<1>8. CASE hook[h].found # None /\ dir[hook[h].cwd].installer = hook[h].found
  <2>1. hook[h].cwd = active /\ active # None /\ active \in Inodes /\ ~dir[active].failed
    BY <1>0, <1>8, Present, NoRecord DEF Cleaning
  <2>2. PICK e : e = [[dir[active] EXCEPT !.installer = None] EXCEPT !.old = FALSE]
    OBVIOUS
  <2>3. /\ e \in DirStates /\ dir' = [dir EXCEPT ![active] = e] /\ e.owner = dir[active].owner
        /\ ~e.failed /\ ~e.old
    BY <1>0, <1>8, <2>1, <2>2 DEF Unwitness, Entry, DirStates
  <2>4. dir'[active] = e /\ \A i \in Inodes : i # active => dir'[i] = dir[i]
    BY <2>1, <2>3, Changed
  <2>6. \A k \in Hooks : ~(Alive(k) /\ child[k].pc # "witness")
                         /\ child[k].pc \notin {"recheck", "withdraw", "running"}
    <3>1. CASE hook[h].task = "retire"
      BY <1>0, <3>1, Cleaner, Present
    <3>2. CASE hook[h].task = "claim"
      <4>1. ~Alive(hook[h].found.who)
        BY <1>0, <1>8, <3>2 DEF Finding
      <4>2. \A k \in Hooks : Witness(k) = hook[h].found => k = hook[h].found.who
        BY DEF Witness
      <4> QED
        BY <1>8, <2>1, <4>1, <4>2, Present DEF Inside
    <3> QED
      BY <1>0, <3>1, <3>2, Cleaner
  <2>7. ~cooling
    BY <2>1 DEF Rest, Cooled
  <2>8. Young => Young'
    <3>1. \A g \in Hooks : Reaps(g)' => Reaps(g) /\ hook'[g].cwd = hook[g].cwd
      BY <1>2, <1>6 DEF Reaps
    <3> QED
      BY <1>2, <2>3, <2>4, <3>1 DEF Young
  <2>9. \A k \in Hooks : (Inside(k)' <=> Inside(k)) /\ (Owns(k)' <=> Owns(k))
    BY <1>2, <1>5, <2>1, <2>3, <2>4 DEF Inside, Alive, Owns
  <2>10. ASSUME NEW g \in Hooks
         PROVE  Claiming(g)' /\ Trusted(g)' /\ Entering(g)' /\ Standing(g)' /\ Cleaning(g)'
                /\ Unfailed(g)' /\ Finding(g)'
    <3>1. Trusted(g) /\ Entering(g) /\ Claiming(g) /\ Cleaning(g) /\ Finding(g) /\ Posture(g)
      BY Typed DEF Rest
    <3>2. Trusted(g)'
      BY <1>0, <1>2, <2>8, <2>9, <3>1 DEF Trusted, Here
    <3>3. Entering(g)'
      BY <1>0, <1>2, <2>8, <2>9, <3>1 DEF Entering
    <3>4. Standing(g)' /\ Unfailed(g)'
      BY <1>2, <2>3, <2>4, <2>6 DEF Standing, Unfailed
    <3>5. Claiming(g)' /\ Finding(g)'
      BY <1>2, <1>3, <3>1 DEF Claiming, Finding, Alive
    <3>6. Cleaning(g)'
      <4>1. CASE g = h
        BY <1>0, <1>2, <1>5, <2>1, <2>3, <2>4, <3>1, <4>1 DEF Cleaning, Within
      <4>2. CASE g # h
        <5>1. hook'[g] = hook[g]
          BY <1>2, <4>2
        <5>2. hook[g].pc \in {"mark"} \cup Within => hook[g].cwd \in Inodes
          BY <3>1, Typed DEF Posture
        <5> QED
          BY <1>5, <2>3, <2>4, <3>1, <5>1, <5>2 DEF Cleaning, Within
      <4> QED
        BY <4>1, <4>2
    <3> QED
      BY <3>2, <3>3, <3>4, <3>5, <3>6
  <2>11. Failed' /\ Cooled'
    BY <1>2, <2>3, <2>4, <2>7 DEF Failed, Cooled
  <2> QED
    BY <2>10, <2>11 DEF Rest
<1> QED
  BY <1>7, <1>8

\* No claim is deleted but the hook's own, or a dead one that nobody may be in.
LEMMA DisownRest ==
  ASSUME Shape, Rest, ~installed, NEW h \in Hooks, Disown(h)
  PROVE  Rest'
<1> USE DEF Goto, At
<1>0. /\ hook[h] \in HookStates /\ Posture(h) /\ Claiming(h) /\ Cleaning(h) /\ Finding(h)
      /\ hook \in [Hooks -> HookStates] /\ hook[h].pc = "disown" /\ hook[h].cwd \in Inodes
      /\ dir[hook[h].cwd] \in DirStates /\ hook[h].found = None /\ hook[h].task # "clear"
  BY Typed, Cleaner DEF Shape, ClaimTypeOK, Disown, Rest, Posture, Claiming
<1>1. PICK s : s = [hook[h] EXCEPT !.pc = "rmdir", !.cwd = None]
  OBVIOUS
<1>2. /\ s \in HookStates /\ hook' = [hook EXCEPT ![h] = s] /\ s.pc = "rmdir"
      /\ s.task = hook[h].task /\ s.round = hook[h].round
      /\ s.found = None /\ UNCHANGED <<active, installed, child, cooling>>
      /\ hook'[h] = s /\ \A g \in Hooks : g # h => hook'[g] = hook[g]
  BY <1>0, <1>1, ZenonT(30) DEF Disown, HookStates, Kinds
<1>3. \A g \in Hooks : Claim(g)' = Claim(g) /\ Claim(g) # None
  BY <1>0, <1>2, Named DEF Claim
<1>4. CASE dir[hook[h].cwd].owner = None
  <2>1. UNCHANGED Files
    BY <1>2, <1>4 DEF Disown, Files
  <2> QED
    BY <1>0, <1>2, <2>1, Paced DEF Here
<1>5. CASE dir[hook[h].cwd].owner # None
  <2>1. hook[h].cwd = active /\ active # None /\ active \in Inodes /\ ~dir[active].failed
    BY <1>0, <1>5, Present, NoRecord DEF Cleaning
  <2>2. PICK e : e = [[dir[active] EXCEPT !.owner = None] EXCEPT !.old = FALSE]
    OBVIOUS
  <2>3. /\ e \in DirStates /\ dir' = [dir EXCEPT ![active] = e] /\ e.owner = None
        /\ e.installer = dir[active].installer /\ ~e.failed /\ ~e.old
    BY <1>0, <1>5, <2>1, <2>2 DEF Disown, Entry, DirStates
  <2>4. dir'[active] = e /\ \A i \in Inodes : i # active => dir'[i] = dir[i]
    BY <2>1, <2>3, Changed
  <2>5. ~cooling
    BY <2>1 DEF Rest, Cooled
  <2>6. Young => /\ Young'
                 /\ \A k \in Hooks : ~Inside(k)
                 /\ hook[h].task = "retire"
    <3>1. \A g \in Hooks : Reaps(g)' => Reaps(g) /\ hook'[g].cwd = hook[g].cwd
      BY <1>2 DEF Reaps
    <3>2. Young => hook[h].task = "retire" /\ \A k \in Hooks : ~Inside(k)
      BY <1>0, <2>1, Cleaner DEF Young
    <3> QED
      BY <1>2, <2>3, <2>4, <3>1, <3>2 DEF Young
  <2>7. \A k \in Hooks : (Inside(k)' <=> Inside(k)) /\ ~Owns(k)'
    BY <1>2, <1>3, <2>1, <2>3, <2>4 DEF Inside, Alive, Owns
  <2>8. ASSUME NEW g \in Hooks
        PROVE  Claiming(g)' /\ Trusted(g)' /\ Entering(g)' /\ Standing(g)' /\ Cleaning(g)'
               /\ Unfailed(g)' /\ Finding(g)'
    <3>1. /\ Trusted(g) /\ Entering(g) /\ Claiming(g) /\ Cleaning(g) /\ Finding(g) /\ Posture(g)
          /\ Standing(g) /\ child[g] \in ChildStates
      BY Typed DEF Rest
    <3>2. Trusted(g)' /\ Unfailed(g)'
      BY <2>7 DEF Trusted, Unfailed
    <3>3. Entering(g)'
      BY <1>0, <1>2, <2>6, <2>7, <3>1 DEF Entering
    <3>4. Standing(g)'
      <4>1. child[g].cwd \in Inodes => dir'[child[g].cwd].installer = dir[child[g].cwd].installer
        BY <2>3, <2>4
      <4>2. child[g].pc \in {"recheck", "withdraw"} => child[g].cwd \in Inodes
        BY <3>1, Typed DEF Posture
      <4> QED
        BY <1>2, <2>1, <2>3, <2>4, <3>1, <4>1, <4>2 DEF Standing, Witness
    <3>5. Claiming(g)' /\ Finding(g)'
      <4>1. CASE g = h
        BY <1>0, <1>2, <4>1 DEF Claiming, Finding
      <4>2. CASE g # h
        BY <1>2, <3>1, <4>2 DEF Claiming, Finding, Alive
      <4> QED
        BY <4>1, <4>2
    <3>6. Cleaning(g)'
      <4>1. CASE g = h
        BY <1>2, <4>1 DEF Cleaning, Within
      <4>2. CASE g # h
        <5>1. hook'[g] = hook[g]
          BY <1>2, <4>2
        <5>2. hook[g].pc \in {"mark"} \cup Within => hook[g].cwd \in Inodes
          BY <3>1, Typed DEF Posture
        <5>3. hook[g].pc = "mark" \/ (hook[g].task = "retire" /\ hook[g].pc \in Within) =>
                hook[g].cwd # active
          <6> SUFFICES ASSUME hook[g].pc = "mark" \/ (hook[g].task = "retire" /\ hook[g].pc \in Within),
                              hook[g].cwd = active
                       PROVE  FALSE
            OBVIOUS
          <6>1. Owns(g) /\ Here(g)
            BY <2>1, <3>1 DEF Owns, Cleaning, Here, Within
          <6>2. Young
            BY <3>1, <6>1 DEF Trusted
          <6>3. Owns(h)
            BY <1>0, <2>6, <6>2, Cleaner
          <6> QED
            BY <4>2, <6>1, <6>3, Claims DEF Owns
        <5> QED
          BY <1>3, <2>3, <2>4, <3>1, <5>1, <5>2, <5>3 DEF Cleaning, Within
      <4> QED
        BY <4>1, <4>2
    <3> QED
      BY <3>2, <3>3, <3>4, <3>5, <3>6
  <2>9. Failed' /\ Cooled'
    BY <1>2, <2>3, <2>4, <2>5 DEF Failed, Cooled
  <2> QED
    BY <2>8, <2>9 DEF Rest
<1> QED
  BY <1>4, <1>5

\* A hook that dies holds nothing any more; its child goes on.
LEMMA ExitRest ==
  ASSUME Shape, Rest, NEW h \in Hooks, Exit(h)
  PROVE  Rest'
<1>0. /\ hook[h] \in HookStates /\ hook \in [Hooks -> HookStates] /\ child \in [Hooks -> ChildStates]
      /\ UNCHANGED <<active, dir, installed, cooling>>
  BY Typed DEF Shape, ClaimTypeOK, Exit
<1>1. /\ hook'[h].pc = "gone" /\ hook'[h].found = None /\ hook'[h].round = hook[h].round
      /\ \A g \in Hooks : g # h => hook'[g] = hook[g]
  BY <1>0 DEF Exit, HookStates
<1>2. \A k \in Hooks : child'[k] = child[k] \/ (child[k].pc = "none" /\ child'[k] = Gone)
  BY <1>0 DEF Exit
<1>3. \A k \in Hooks : Claim(k)' = Claim(k)
  BY <1>1 DEF Claim
<1>4. \A k \in Hooks : /\ Inside(k)' <=> Inside(k)
                       /\ Alive(k)' <=> Alive(k)
                       /\ Owns(k)' <=> Owns(k)
                       /\ child[k].pc = "gone" => child'[k].pc = "gone"
  BY <1>0, <1>2, <1>3 DEF Inside, Alive, Gone, Owns
<1>5. Young => Young'
  BY <1>0, <1>1 DEF Young, Reaps
<1>6. ASSUME NEW g \in Hooks
      PROVE  Claiming(g)' /\ Trusted(g)' /\ Entering(g)' /\ Standing(g)' /\ Cleaning(g)'
             /\ Unfailed(g)' /\ Finding(g)'
  <2>1. /\ Trusted(g) /\ Entering(g) /\ Claiming(g) /\ Cleaning(g) /\ Finding(g) /\ Standing(g)
        /\ Unfailed(g) /\ hook[g] \in HookStates
    BY Typed DEF Rest
  <2>2. Standing(g)'
    BY <1>0, <1>2, <2>1 DEF Standing, Gone, Witness
  <2>3. CASE g = h
    BY <1>1, <2>2, <2>3 DEF Claiming, Trusted, Entering, Cleaning, Unfailed, Finding, Here, Within
  <2>4. CASE g # h
    <3>1. hook'[g] = hook[g]
      BY <1>1, <2>4
    <3>2. hook[g].found # None => hook[g].found.who \in Hooks
      BY <2>1 DEF HookStates, Records
    <3>3. Finding(g)'
      BY <1>0, <1>4, <2>1, <3>1, <3>2 DEF Finding, Alive
    <3>4. Claiming(g)' /\ Cleaning(g)' /\ Unfailed(g)'
      BY <1>0, <1>3, <1>4, <2>1, <3>1 DEF Claiming, Cleaning, Unfailed
    <3> QED
      BY <1>0, <1>4, <1>5, <2>1, <2>2, <3>1, <3>3, <3>4 DEF Trusted, Entering, Here
  <2> QED
    BY <2>3, <2>4
<1>7. Failed' /\ Cooled'
  <2>1. Failed /\ Cooled
    BY DEF Rest
  <2>2. active # None /\ dir[active].owner # None => dir[active].owner.who \in Hooks
    BY Typed DEF DirStates, Records
  <2> QED
    BY <1>0, <1>4, <1>5, <2>1, <2>2 DEF Failed, Cooled
<1> QED
  BY <1>6, <1>7 DEF Rest

\* A child that ends leaves what it is to be judged by.
LEMMA ChildGone ==
  ASSUME Shape, Rest, NEW h \in Hooks, child' = [child EXCEPT ![h] = Gone],
         UNCHANGED <<active, dir, hook, cooling>>
  PROVE  Rest'
<1>1. \A k \in Hooks : child'[k] = child[k] \/ child'[k] = Gone
  BY DEF Shape, ClaimTypeOK
<1>2. \A k \in Hooks : /\ Inside(k)' => Inside(k)
                       /\ Alive(k)' => Alive(k)
                       /\ child[k].pc = "gone" => child'[k].pc = "gone"
  BY <1>1 DEF Inside, Alive, Gone
<1>3. \A k \in Hooks : (Owns(k)' <=> Owns(k)) /\ Claim(k)' = Claim(k)
  BY DEF Owns, Claim
<1>4. Young => Young'
  BY DEF Young, Reaps
<1>5. ASSUME NEW g \in Hooks
      PROVE  Claiming(g)' /\ Trusted(g)' /\ Entering(g)' /\ Standing(g)' /\ Cleaning(g)'
             /\ Unfailed(g)' /\ Finding(g)'
  <2>1. /\ Trusted(g) /\ Entering(g) /\ Claiming(g) /\ Cleaning(g) /\ Finding(g) /\ Standing(g)
        /\ Unfailed(g) /\ hook[g] \in HookStates
    BY Typed DEF Rest
  <2>2. Standing(g)'
    BY <1>1, <2>1 DEF Standing, Gone, Witness
  <2>3. hook[g].found # None => hook[g].found.who \in Hooks
    BY <2>1 DEF HookStates, Records
  <2>4. Finding(g)'
    BY <1>2, <2>1, <2>3 DEF Finding, Alive
  <2>5. Claiming(g)' /\ Cleaning(g)' /\ Unfailed(g)'
    BY <1>3, <2>1 DEF Claiming, Cleaning, Unfailed
  <2>6. Trusted(g)' /\ Entering(g)'
    BY <1>2, <1>3, <1>4, <2>1 DEF Trusted, Entering, Here
  <2> QED
    BY <2>2, <2>4, <2>5, <2>6
<1>6. Failed' /\ Cooled'
  <2>1. Failed /\ Cooled
    BY DEF Rest
  <2>2. active # None /\ dir[active].owner # None => dir[active].owner.who \in Hooks
    BY Typed DEF DirStates, Records
  <2> QED
    BY <1>2, <1>4, <2>1, <2>2 DEF Failed, Cooled
<1> QED
  BY <1>5, <1>6 DEF Rest

\* A child starts in the directory its wrapper owns, and beside no other.
LEMMA SpawnRest ==
  ASSUME Shape, Rest, NEW h \in Hooks, Spawn(h)
  PROVE  Rest'
<1> USE DEF At
<1>0. /\ child \in [Hooks -> ChildStates] /\ UNCHANGED <<active, dir, installed, hook, cooling>>
      /\ child[h].pc = "none" /\ hook[h].pc = "install"
  BY DEF Shape, ClaimTypeOK, Spawn
<1>1. CASE RecordIn(active) # Claim(h)
  BY <1>0, <1>1, ChildGone DEF Spawn
<1>2. CASE RecordIn(active) = Claim(h)
  <2>1. Owns(h) /\ Here(h) /\ active # None
    BY <1>0, <1>2, Claimed DEF Here, Owns
  <2>2. Young /\ (\A k \in Hooks : Inside(k) => k = h) /\ ~dir[active].failed
    BY <1>0, <2>1 DEF Rest, Trusted, Unfailed
  <2>3. child'[h].pc = "witness" /\ \A k \in Hooks : k # h => child'[k] = child[k]
    BY <1>0, <1>2 DEF Spawn
  <2>4. \A k \in Hooks : (Owns(k)' <=> Owns(k)) /\ Claim(k)' = Claim(k)
    BY <1>0 DEF Owns, Claim
  <2>5. \A k \in Hooks : Inside(k)' => k = h
    BY <1>0, <2>2, <2>3 DEF Inside, Alive
  <2>6. Young'
    BY <1>0, <2>2 DEF Young, Reaps
  <2>7. ASSUME NEW g \in Hooks
        PROVE  Claiming(g)' /\ Trusted(g)' /\ Entering(g)' /\ Standing(g)' /\ Cleaning(g)'
               /\ Unfailed(g)' /\ Finding(g)'
    <3>1. /\ Trusted(g) /\ Entering(g) /\ Claiming(g) /\ Cleaning(g) /\ Finding(g) /\ Standing(g)
          /\ Unfailed(g) /\ hook[g] \in HookStates /\ Posture(g)
      BY Typed DEF Rest
    <3>2. Standing(g)'
      BY <1>0, <2>3, <3>1 DEF Standing, Witness
    <3>3. hook[g].found # None => hook[g].found.who \in Hooks /\ hook[g].found.who # h
      BY <1>0, <3>1 DEF HookStates, Records, Posture
    <3>4. Finding(g)'
      BY <1>0, <2>3, <3>1, <3>3 DEF Finding, Alive
    <3>5. Claiming(g)' /\ Cleaning(g)' /\ Unfailed(g)'
      BY <1>0, <2>4, <3>1 DEF Claiming, Cleaning, Unfailed
    <3>6. Trusted(g)'
      <4>1. Owns(g) => g = h
        BY <2>1, Claims DEF Owns
      <4> QED
        BY <2>4, <2>5, <2>6, <4>1 DEF Trusted
    <3>7. Entering(g)'
      BY <2>1, <2>4, <2>5, <2>6 DEF Entering
    <3> QED
      BY <3>2, <3>4, <3>5, <3>6, <3>7
  <2>8. Failed' /\ Cooled'
    BY <1>0, <2>2 DEF Failed, Cooled, Rest
  <2> QED
    BY <2>7, <2>8 DEF Rest
<1> QED
  BY <1>1, <1>2

\* A witness is left where no other stands.
LEMMA TestifyRest ==
  ASSUME Shape, Rest, NEW h \in Hooks, Testify(h)
  PROVE  Rest'
<1>0. /\ child \in [Hooks -> ChildStates] /\ UNCHANGED <<active, installed, hook, cooling>>
      /\ child[h] \in ChildStates /\ child[h].pc = "witness" /\ child[h].cwd \in Inodes
      /\ dir[child[h].cwd] \in DirStates
  BY Typed DEF Shape, ClaimTypeOK, Testify, Posture
<1>1. CASE ~(active = child[h].cwd /\ dir[child[h].cwd].installer = None)
  BY <1>0, <1>1, ChildGone DEF Testify
<1>2. CASE active = child[h].cwd /\ dir[child[h].cwd].installer = None
  <2>1. /\ active # None /\ active \in Inodes /\ Inside(h)
        /\ child' = [child EXCEPT ![h].pc = "recheck"]
    BY <1>0, <1>2, NoRecord DEF Testify, Inside, Alive
  <2>2. PICK e : e = [[dir[active] EXCEPT !.installer = Witness(h)] EXCEPT !.old = FALSE]
    OBVIOUS
  <2>3. /\ e \in DirStates /\ dir' = [dir EXCEPT ![active] = e] /\ e.owner = dir[active].owner
        /\ e.installer = Witness(h) /\ e.failed = dir[active].failed /\ ~e.old
    BY <1>0, <1>2, <2>2, Typed DEF Testify, Entry, DirStates
  <2>4. dir'[active] = e /\ \A i \in Inodes : i # active => dir'[i] = dir[i]
    BY <2>1, <2>3, Changed
  <2>5. /\ child'[h].pc = "recheck" /\ child'[h].cwd = active
        /\ \A k \in Hooks : k # h => child'[k] = child[k]
    BY <1>0, <1>2, <2>1 DEF ChildStates
  <2>6. \A k \in Hooks : child[k].pc \notin {"recheck", "withdraw", "running"}
    BY <1>2, Present
  <2>7. ~dir[active].failed
    BY <2>1 DEF Rest, Failed
  <2>8. \A k \in Hooks : /\ Inside(k)' <=> Inside(k)
                         /\ Alive(k)' <=> Alive(k)
                         /\ Owns(k)' <=> Owns(k)
                         /\ Claim(k)' = Claim(k)
    BY <1>0, <2>1, <2>3, <2>4, <2>5 DEF Inside, Alive, Owns, Claim
  <2>9. Young => Young'
    BY <1>0, <2>3, <2>4 DEF Young, Reaps
  <2>10. ASSUME NEW g \in Hooks
         PROVE  Claiming(g)' /\ Trusted(g)' /\ Entering(g)' /\ Standing(g)' /\ Cleaning(g)'
                /\ Unfailed(g)' /\ Finding(g)'
    <3>1. /\ Trusted(g) /\ Entering(g) /\ Claiming(g) /\ Cleaning(g) /\ Finding(g)
          /\ Unfailed(g) /\ hook[g] \in HookStates /\ Posture(g)
      BY Typed DEF Rest
    <3>2. Standing(g)'
      BY <1>0, <2>3, <2>4, <2>5, <2>6 DEF Standing, Witness
    <3>3. hook[g].found # None => hook[g].found.who \in Hooks
      BY <3>1 DEF HookStates, Records
    <3>4. Finding(g)' /\ Claiming(g)'
      BY <1>0, <2>8, <3>1, <3>3 DEF Finding, Alive, Claiming
    <3>5. Cleaning(g)' /\ Unfailed(g)'
      <4>1. hook[g].pc \in {"mark"} \cup Within => hook[g].cwd \in Inodes
        BY <3>1, Typed DEF Posture
      <4> QED
        BY <1>0, <2>3, <2>4, <2>8, <3>1, <4>1 DEF Cleaning, Unfailed, Within
    <3>6. Trusted(g)' /\ Entering(g)'
      BY <1>0, <2>8, <2>9, <3>1 DEF Trusted, Entering, Here
    <3> QED
      BY <3>2, <3>4, <3>5, <3>6
  <2>11. Failed' /\ Cooled'
    BY <1>0, <2>3, <2>4, <2>7 DEF Failed, Cooled, Rest
  <2> QED
    BY <2>10, <2>11 DEF Rest
<1> QED
  BY <1>1, <1>2

\* A child decides under its witness.
LEMMA RecheckRest ==
  ASSUME Shape, Rest, NEW h \in Hooks, Recheck(h)
  PROVE  Rest'
<1>0. /\ child \in [Hooks -> ChildStates] /\ UNCHANGED <<active, dir, installed, hook, cooling>>
      /\ child[h] \in ChildStates /\ child[h].pc = "recheck"
  BY Typed DEF Shape, ClaimTypeOK, Recheck
<1>1. /\ Inside(h) /\ active \in Inodes /\ active # None /\ child[h].cwd = active
      /\ dir[active].installer = Witness(h)
  BY <1>0, Present, NoRecord
<1>2. /\ \A k \in Hooks : k # h => child'[k] = child[k]
      /\ child'[h].pc = "running" \/ (child'[h].pc = "withdraw" /\ child'[h].cwd = active)
  BY <1>0, <1>1 DEF Recheck, ChildStates
<1>3. \A k \in Hooks : /\ Inside(k)' <=> Inside(k)
                       /\ Alive(k)' <=> Alive(k)
                       /\ Owns(k)' <=> Owns(k)
                       /\ Claim(k)' = Claim(k)
                       /\ child[k].pc = "gone" => child'[k].pc = "gone"
  BY <1>0, <1>1, <1>2 DEF Inside, Alive, Owns, Claim
<1>4. Young => Young'
  BY <1>0 DEF Young, Reaps
<1>5. ASSUME NEW g \in Hooks
      PROVE  Claiming(g)' /\ Trusted(g)' /\ Entering(g)' /\ Standing(g)' /\ Cleaning(g)'
             /\ Unfailed(g)' /\ Finding(g)'
  <2>1. /\ Trusted(g) /\ Entering(g) /\ Claiming(g) /\ Cleaning(g) /\ Finding(g) /\ Standing(g)
        /\ Unfailed(g) /\ hook[g] \in HookStates
    BY Typed DEF Rest
  <2>2. Standing(g)'
    BY <1>0, <1>1, <1>2, <2>1 DEF Standing, Witness
  <2>3. hook[g].found # None => hook[g].found.who \in Hooks
    BY <2>1 DEF HookStates, Records
  <2>4. Finding(g)'
    BY <1>0, <1>3, <2>1, <2>3 DEF Finding, Alive
  <2>5. Claiming(g)' /\ Cleaning(g)' /\ Unfailed(g)'
    BY <1>0, <1>3, <2>1 DEF Claiming, Cleaning, Unfailed
  <2>6. Trusted(g)' /\ Entering(g)'
    BY <1>0, <1>3, <1>4, <2>1 DEF Trusted, Entering, Here
  <2> QED
    BY <2>2, <2>4, <2>5, <2>6
<1>6. Failed' /\ Cooled'
  BY <1>0, <1>1, <1>4 DEF Failed, Cooled, Rest
<1> QED
  BY <1>5, <1>6 DEF Rest

\* A child withdraws its own witness.
LEMMA WithdrawRest ==
  ASSUME Shape, Rest, NEW h \in Hooks, Withdraw(h)
  PROVE  Rest'
<1>0. /\ child \in [Hooks -> ChildStates] /\ UNCHANGED <<active, installed, hook, cooling>>
      /\ child[h].pc = "withdraw" /\ child' = [child EXCEPT ![h] = Gone]
  BY DEF Shape, ClaimTypeOK, Withdraw
<1>1. /\ Inside(h) /\ active \in Inodes /\ active # None /\ child[h].cwd = active
      /\ dir[active].installer = Witness(h) /\ Witness(h) # None /\ dir[active] \in DirStates
  BY <1>0, Present, Typed, NoRecord
<1>2. PICK e : e = [[dir[active] EXCEPT !.installer = None] EXCEPT !.old = FALSE]
  OBVIOUS
<1>3. /\ e \in DirStates /\ dir' = [dir EXCEPT ![active] = e] /\ e.owner = dir[active].owner
      /\ e.failed = dir[active].failed /\ ~e.old
  BY <1>1, <1>2 DEF Withdraw, Entry, DirStates
<1>4. dir'[active] = e /\ \A i \in Inodes : i # active => dir'[i] = dir[i]
  BY <1>1, <1>3, Changed
<1>5. /\ child'[h].pc = "gone"
      /\ \A k \in Hooks : k # h => child'[k] = child[k]
  BY <1>0 DEF Gone
<1>6. \A k \in Hooks : k # h => child[k].pc \notin {"recheck", "withdraw", "running"}
  BY <1>1, Present, Witnesses
<1>7. ~dir[active].failed
  BY <1>1 DEF Rest, Failed
<1>8. \A k \in Hooks : /\ Inside(k)' => Inside(k)
                       /\ Alive(k)' => Alive(k)
                       /\ Owns(k)' <=> Owns(k)
                       /\ Claim(k)' = Claim(k)
  BY <1>0, <1>1, <1>3, <1>4, <1>5 DEF Inside, Alive, Owns, Claim
<1>9. Young => Young'
  BY <1>0, <1>3, <1>4 DEF Young, Reaps
<1>10. ASSUME NEW g \in Hooks
       PROVE  Claiming(g)' /\ Trusted(g)' /\ Entering(g)' /\ Standing(g)' /\ Cleaning(g)'
              /\ Unfailed(g)' /\ Finding(g)'
  <2>1. /\ Trusted(g) /\ Entering(g) /\ Claiming(g) /\ Cleaning(g) /\ Finding(g)
        /\ Unfailed(g) /\ hook[g] \in HookStates /\ Posture(g)
    BY Typed DEF Rest
  <2>2. Standing(g)'
    BY <1>5, <1>6 DEF Standing
  <2>3. hook[g].found # None => hook[g].found.who \in Hooks
    BY <2>1 DEF HookStates, Records
  <2>4. Finding(g)' /\ Claiming(g)'
    BY <1>0, <1>8, <2>1, <2>3 DEF Finding, Alive, Claiming
  <2>5. Cleaning(g)' /\ Unfailed(g)'
    <3>1. hook[g].pc \in {"mark"} \cup Within => hook[g].cwd \in Inodes
      BY <2>1, Typed DEF Posture
    <3> QED
      BY <1>0, <1>3, <1>4, <1>8, <2>1, <3>1 DEF Cleaning, Unfailed, Within
  <2>6. Trusted(g)' /\ Entering(g)'
    BY <1>0, <1>8, <1>9, <2>1 DEF Trusted, Entering, Here
  <2> QED
    BY <2>2, <2>4, <2>5, <2>6
<1>11. Failed' /\ Cooled'
  BY <1>0, <1>3, <1>4, <1>7 DEF Failed, Cooled, Rest
<1> QED
  BY <1>10, <1>11 DEF Rest

\* Directories come of age between hooks.
LEMMA AgeRest ==
  ASSUME Shape, Rest, HostLimit, Age
  PROVE  Rest'
<1>0. /\ dir \in [Inodes -> DirStates] /\ UNCHANGED <<active, installed, hook, child>>
      /\ active \in Inodes /\ ~cooling' /\ \A g \in Hooks : hook[g].pc \in {"start", "gone"}
  BY DEF Age, Shape, ClaimTypeOK
<1>1. \A i \in Inodes : /\ dir'[i].owner = dir[i].owner /\ dir'[i].installer = dir[i].installer
                        /\ dir'[i].failed = dir[i].failed
  BY <1>0 DEF Age, DirStates
<1>2. \A k \in Hooks : /\ Inside(k)' <=> Inside(k)
                       /\ Alive(k)' <=> Alive(k)
                       /\ Owns(k)' <=> Owns(k)
  BY <1>0, <1>1 DEF Inside, Alive, Owns, Claim
<1>3. ASSUME NEW g \in Hooks
      PROVE  Claiming(g)' /\ Trusted(g)' /\ Entering(g)' /\ Standing(g)' /\ Cleaning(g)'
             /\ Unfailed(g)' /\ Finding(g)'
  <2>1. Standing(g) /\ Unfailed(g) /\ Posture(g) /\ hook'[g] = hook[g]
    BY <1>0, Typed DEF Rest
  <2>2. Standing(g)'
    <3>1. child[g].pc \in {"recheck", "withdraw"} => child[g].cwd \in Inodes
      BY <2>1, Typed DEF Posture
    <3> QED
      BY <1>0, <1>1, <2>1, <3>1 DEF Standing, Witness
  <2>3. Unfailed(g)'
    BY <1>0, <1>1, <1>2, <2>1 DEF Unfailed
  <2>4. hook'[g].pc \in {"start", "gone"} /\ hook'[g].found = None
    BY <1>0, <2>1 DEF Posture
  <2> QED
    BY <2>2, <2>3, <2>4 DEF Claiming, Trusted, Entering, Cleaning, Finding, Here, Within
<1>4. Failed' /\ Cooled'
  BY <1>0, <1>1, <1>2 DEF Failed, Cooled, Rest
<1> QED
  BY <1>3, <1>4 DEF Rest

-----------------------------------------------------------------------------
(* Once the binary is in place: the claim is history, and no failure is left. *)

Over ==
  /\ \A i \in Inodes : ~dir[i].failed
  /\ \A h \in Hooks : hook[h].pc # "mark" /\ (hook[h].pc = "fail" => ~Owns(h))

Inv == Shape /\ (~installed => Rest) /\ (installed => Over)

\* An installer that succeeds runs in its wrapper's claim, which nobody reports as failed.
LEMMA Flip ==
  ASSUME Shape, Rest, NEW h \in Hooks, Installed(h)
  PROVE  Over'
<1>0. UNCHANGED <<active, dir, hook>> /\ Inside(h)
  BY DEF Installed, Inside, Alive
<1>1. \A i \in Inodes : ~dir[i].failed
  BY <1>0, Present, NoRecord DEF Rest, Failed
<1>2. ASSUME NEW g \in Hooks
      PROVE  hook[g].pc # "mark" /\ (hook[g].pc = "fail" => ~Owns(g))
  <2>1. Posture(g) /\ Trusted(g) /\ Cleaning(g) /\ Claim(g) # None
    BY Typed, Named DEF Rest
  <2>2. ~(hook[g].pc \in {"mark", "fail"} /\ Owns(g))
    BY <1>0, <2>1 DEF Posture, Trusted, Here, Inside, Alive
  <2>3. hook[g].pc = "mark" => Owns(g)
    <3>1. hook[g].pc = "mark" => hook[g].cwd \in Inodes
      BY <2>1, Typed DEF Posture
    <3> QED
      BY <2>1, <3>1, Present, NoRecord DEF Cleaning, Owns
  <2> QED
    BY <2>2, <2>3
<1> QED
  BY <1>0, <1>1, <1>2 DEF Over, Owns, Claim

LEMMA EntryMade ==
  ASSUME dir \in [Inodes -> DirStates], NEW i \in Inodes, NEW d \in DirStates, Entry(i, d)
  PROVE  \A j \in Inodes : /\ j # i => dir'[j] = dir[j]
                           /\ j = i => dir'[j].failed = d.failed /\ dir'[j].owner = d.owner
BY DEF Entry, DirStates

LEMMA OverNext ==
  ASSUME Shape, installed, Over, ClaimNext
  PROVE  Over' /\ installed'
<1> USE DEF Goto, At
<1>0. /\ dir \in [Inodes -> DirStates] /\ hook \in [Hooks -> HookStates]
      /\ active \in Inodes \cup {None} /\ \A i \in Inodes : i # active => dir[i] = Empty
  BY DEF Shape, ClaimTypeOK
<1>1. CASE Age
  <2>1. \A i \in Inodes : dir'[i].owner = dir[i].owner /\ dir'[i].failed = dir[i].failed
    BY <1>0, <1>1 DEF Age, DirStates
  <2>2. UNCHANGED <<active, hook, installed>>
    BY <1>1 DEF Age
  <2> QED
    BY <1>0, <2>1, <2>2 DEF Over, Owns, Claim
<1>2. ASSUME NEW h \in Hooks, Walks(h)
      PROVE  Over' /\ installed'
  <2>0. hook[h] \in HookStates /\ hook[h].pc # "mark" /\ (hook[h].pc = "fail" => ~Owns(h))
    BY <1>0 DEF Over
  <2>1. UNCHANGED Files
    BY <1>2 DEF Walks, Start, Look, Read, Absent, Enter, Note, CheckOwner, CheckInstaller, CheckAge,
         GoIn, Confirm, Retry, Finish, Verdict, Fail, After
  <2>2. \A g \in Hooks : g # h => hook'[g] = hook[g]
    BY <1>0, <1>2 DEF Walks, Start, Look, Read, Absent, Enter, Note, CheckOwner, CheckInstaller,
         CheckAge, GoIn, Confirm, Retry, Finish, Verdict, Fail, After, Spare
  <2>3. hook'[h].pc \notin {"mark", "fail"}
    BY <1>0, <1>2, <2>0 DEF Walks, Start, Look, Read, Absent, Enter, Note, CheckOwner, CheckInstaller,
         CheckAge, GoIn, Confirm, Retry, Finish, Verdict, Fail, After, Spare, Unheld, Retired,
         HookStates, Owns
  <2> QED
    BY <2>1, <2>2, <2>3 DEF Over, Owns, Claim, Files
<1>3. ASSUME NEW h \in Hooks, Prune(h) \/ Rmdir(h)
      PROVE  Over' /\ installed'
  <2>1. PICK pc \in Kinds \ {"mark", "fail"} : hook' = [hook EXCEPT ![h].pc = pc]
    BY <1>3 DEF Prune, Rmdir, Kinds, Retired
  <2>2. installed' = installed /\ RmdirActive
    BY <1>3 DEF Prune, Rmdir
  <2>3. \A g \in Hooks : hook'[g].pc \in {"mark", "fail"} => hook'[g] = hook[g]
    BY <1>0, <2>1 DEF HookStates
  <2>4. CASE active # None /\ IsEmpty(active)
    <3>1. active' = None /\ dir' = [dir EXCEPT ![active] = Empty]
      BY <2>2, <2>4 DEF RmdirActive
    <3>2. \A i \in Inodes : ~dir'[i].failed
      BY <1>0, <3>1 DEF Empty
    <3> QED
      BY <2>2, <2>3, <3>1, <3>2 DEF Over, Owns
  <2>5. CASE ~(active # None /\ IsEmpty(active))
    BY <2>2, <2>3, <2>5 DEF Over, Owns, Claim, RmdirActive
  <2> QED
    BY <2>4, <2>5
<1>4. ASSUME NEW h \in Hooks, Create(h)
      PROVE  Over' /\ installed'
  <2>1. /\ UNCHANGED <<dir, installed>>
        /\ \A g \in Hooks : hook'[g].pc \in {"mark", "fail"} => hook'[g] = hook[g]
    BY <1>0, <1>4 DEF Create, HookStates
  <2>2. active' = active \/ \A i \in Inodes : dir[i].owner = None
    BY <1>0, <1>4, NoRecord DEF Create, Empty
  <2>3. active' \in Inodes \cup {None} /\ \A g \in Hooks : Claim(g) # None
    BY <1>0, <1>4, Named DEF Create
  <2> QED
    BY <2>1, <2>2, <2>3 DEF Over, Owns, Claim
<1>5. ASSUME NEW h \in Hooks, Publish(h)
      PROVE  Over' /\ installed'
  <2>0. hook[h].cwd \in Inodes /\ hook[h] \in HookStates
    BY <1>5, Typed DEF Publish, Posture
  <2>1. /\ UNCHANGED <<active, installed>>
        /\ \A g \in Hooks : hook'[g].pc \in {"mark", "fail"} => hook'[g] = hook[g] /\ g # h
    BY <1>0, <1>5 DEF Publish, HookStates
  <2>2. \A i \in Inodes : /\ dir'[i].failed = dir[i].failed
                          /\ dir'[i].owner = dir[i].owner \/ dir'[i].owner = Claim(h)
    <3>1. PICK d : d = [dir[hook[h].cwd] EXCEPT !.owner = Claim(h)]
      OBVIOUS
    <3>2. d \in DirStates /\ d.failed = dir[hook[h].cwd].failed /\ d.owner = Claim(h)
      BY <1>0, <2>0, <3>1, Typed DEF DirStates
    <3>3. dir' = dir \/ Entry(hook[h].cwd, d)
      BY <1>5, <3>1 DEF Publish
    <3> QED
      BY <1>0, <2>0, <3>2, <3>3, EntryMade
  <2>3. \A g \in Hooks : g # h => Claim(g) # Claim(h)
    BY Claims
  <2> QED
    BY <1>0, <2>1, <2>2, <2>3 DEF Over, Owns, Claim
<1>6. ASSUME NEW h \in Hooks, Unfail(h) \/ Unwitness(h) \/ Disown(h)
      PROVE  Over' /\ installed'
  <2>0. hook[h].cwd \in Inodes
    BY <1>6, Typed DEF Unfail, Unwitness, Disown, Posture, Within
  <2>1. /\ UNCHANGED <<active, installed>>
        /\ \A g \in Hooks : hook'[g].pc \in {"mark", "fail"} => hook'[g] = hook[g]
    BY <1>0, <1>6, ZenonT(30) DEF Unfail, Unwitness, Disown, HookStates
  <2>2. \A i \in Inodes : /\ dir'[i].failed => dir[i].failed
                          /\ dir'[i].owner = dir[i].owner \/ dir'[i].owner = None
    <3>1. CASE Unfail(h)
      <4>1. PICK d : d = [dir[hook[h].cwd] EXCEPT !.failed = FALSE]
        OBVIOUS
      <4>2. d \in DirStates /\ ~d.failed /\ d.owner = dir[hook[h].cwd].owner
        BY <1>0, <2>0, <4>1, ZenonT(30) DEF DirStates
      <4>3. dir' = dir \/ Entry(hook[h].cwd, d)
        BY <3>1, <4>1 DEF Unfail
      <4> QED
        BY <1>0, <2>0, <4>2, <4>3, EntryMade
    <3>2. CASE Unwitness(h)
      <4>1. PICK d : d = [dir[hook[h].cwd] EXCEPT !.installer = None]
        OBVIOUS
      <4>2. d \in DirStates /\ d.failed = dir[hook[h].cwd].failed /\ d.owner = dir[hook[h].cwd].owner
        BY <1>0, <2>0, <4>1 DEF DirStates
      <4>3. dir' = dir \/ Entry(hook[h].cwd, d)
        BY <3>2, <4>1 DEF Unwitness
      <4> QED
        BY <1>0, <2>0, <4>2, <4>3, EntryMade
    <3>3. CASE Disown(h)
      BY <1>0, <2>0, <3>3 DEF Disown, Entry, DirStates
    <3> QED
      BY <1>6, <3>1, <3>2, <3>3
  <2> QED
    BY <1>0, <2>1, <2>2, Named DEF Over, Owns, Claim
<1>7. ASSUME NEW h \in Hooks, Mark(h)
      PROVE  Over' /\ installed'
  BY <1>7 DEF Mark, Over
<1>8. ASSUME NEW h \in Hooks, Exit(h)
      PROVE  Over' /\ installed'
  <2>1. /\ UNCHANGED <<active, dir, installed>>
        /\ \A g \in Hooks : hook'[g].pc \in {"mark", "fail"} => hook'[g] = hook[g]
    BY <1>0, <1>8 DEF Exit, HookStates
  <2> QED
    BY <2>1 DEF Over, Owns, Claim
<1>9. ASSUME NEW h \in Hooks,
             Spawn(h) \/ Testify(h) \/ Recheck(h) \/ Withdraw(h) \/ Installed(h) \/ KillChild(h)
      PROVE  Over' /\ installed'
  <2>1. UNCHANGED <<active, hook>> /\ installed'
    BY <1>9 DEF Spawn, Testify, Recheck, Withdraw, Installed, KillChild
  <2>2. \A i \in Inodes : /\ dir'[i].failed => dir[i].failed
                          /\ dir'[i].owner = dir[i].owner
    <3>1. CASE Testify(h)
      <4>0. child[h].cwd \in Inodes
        BY <3>1, Typed DEF Testify, Posture
      <4>1. PICK d : d = [dir[child[h].cwd] EXCEPT !.installer = Witness(h)]
        OBVIOUS
      <4>2. d \in DirStates /\ d.failed = dir[child[h].cwd].failed /\ d.owner = dir[child[h].cwd].owner
        BY <1>0, <4>0, <4>1, Typed DEF DirStates
      <4>3. dir' = dir \/ Entry(child[h].cwd, d)
        BY <3>1, <4>1 DEF Testify
      <4> QED
        BY <1>0, <4>0, <4>2, <4>3, EntryMade
    <3>2. CASE Withdraw(h)
      <4>0. child[h].cwd \in Inodes
        BY <3>2, Typed DEF Withdraw, Posture
      <4>1. PICK d : d = [dir[child[h].cwd] EXCEPT !.installer = None]
        OBVIOUS
      <4>2. d \in DirStates /\ d.failed = dir[child[h].cwd].failed /\ d.owner = dir[child[h].cwd].owner
        BY <1>0, <4>0, <4>1 DEF DirStates
      <4>3. dir' = dir \/ Entry(child[h].cwd, d)
        BY <3>2, <4>1 DEF Withdraw
      <4> QED
        BY <1>0, <4>0, <4>2, <4>3, EntryMade
    <3>3. CASE Spawn(h) \/ Recheck(h) \/ Installed(h) \/ KillChild(h)
      BY <3>3 DEF Spawn, Recheck, Installed, KillChild
    <3> QED
      BY <1>9, <3>1, <3>2, <3>3
  <2> QED
    BY <1>0, <2>1, <2>2 DEF Over, Owns, Claim
<1> QED
  BY <1>1, <1>2, <1>3, <1>4, <1>5, <1>6, <1>7, <1>8, <1>9, Steps

LEMMA RestNext ==
  ASSUME Shape, Rest, ~installed, HostLimit, ClaimNext
  PROVE  Rest' /\ (installed' => Over')
<1>1. CASE Age
  BY <1>1, AgeRest DEF Age
<1>2. ASSUME NEW h \in Hooks, Walks(h)
      PROVE  Rest' /\ ~installed'
  <2>1. UNCHANGED Files
    BY <1>2 DEF Walks, Start, Look, Read, Absent, Enter, Note, CheckOwner, CheckInstaller, CheckAge,
         GoIn, Confirm, Retry, Finish, Verdict, Fail, After
  <2> QED
    BY <1>2, <2>1, WalkRest DEF Files
<1>3. ASSUME NEW h \in Hooks,
             \/ Prune(h) \/ Rmdir(h) \/ Unfail(h) \/ Unwitness(h) \/ Disown(h)
             \/ Create(h) \/ Publish(h) \/ Mark(h) \/ Exit(h)
             \/ Spawn(h) \/ Testify(h) \/ Recheck(h) \/ Withdraw(h) \/ KillChild(h)
      PROVE  Rest' /\ ~installed'
  <2>1. installed' = installed
    BY <1>3 DEF Prune, Rmdir, Unfail, Unwitness, Disown, Create, Publish, Mark, Exit, Spawn,
         Testify, Recheck, Withdraw, KillChild
  <2>2. KillChild(h) => Rest'
    BY ChildGone DEF KillChild
  <2> QED
    BY <1>3, <2>1, <2>2, RemovalRest, UnfailRest, UnwitnessRest, DisownRest, CreateRest, PublishRest,
       MarkRest, ExitRest, SpawnRest, TestifyRest, RecheckRest, WithdrawRest
<1>4. ASSUME NEW h \in Hooks, Installed(h)
      PROVE  Rest' /\ (installed' => Over')
  BY <1>4, ChildGone, Flip DEF Installed
<1> QED
  BY <1>1, <1>2, <1>3, <1>4, Steps

LEMMA InvInit == ClaimInit => Inv
BY ShapeInit, RestInit DEF ClaimInit, Inv

LEMMA InvNext ==
  ASSUME HostLimit
  PROVE  Inv /\ [ClaimNext]_vars => Inv'
<1> SUFFICES ASSUME Inv, [ClaimNext]_vars PROVE Inv'
  OBVIOUS
<1>1. Shape'
  BY ShapeNext DEF Inv
<1>2. CASE ClaimNext
  BY <1>1, <1>2, RestNext, OverNext DEF Inv
<1>3. CASE UNCHANGED vars
  <2>1. Rest => Rest'
    BY <1>3 DEF vars, Rest, Claiming, Trusted, Entering, Standing, Cleaning, Unfailed, Finding,
         Failed, Cooled, Here, Owns, Inside, Alive, Young, Reaps, Claim, Witness
  <2>2. Over => Over'
    BY <1>3 DEF vars, Over, Owns, Claim
  <2> QED
    BY <1>1, <1>3, <2>1, <2>2 DEF Inv, vars
<1> QED
  BY <1>2, <1>3

LEMMA InvHolds ==
  ASSUME HostLimit
  PROVE  ClaimSpec => []Inv
BY InvInit, InvNext, PTL DEF ClaimSpec

\* However wrappers and installers die and however the survivors clean up after them,
\* a running installer has its witness in the active directory until the binary is
\* in place (backoff_owner_live, cleanup_backoff_records).
THEOREM WitnessKept ==
  ASSUME HostLimit
  PROVE  ClaimSpec => []WitnessStands
<1>1. Inv => WitnessStands
  BY DEF Inv, Rest, Standing, WitnessStands
<1> QED
  BY <1>1, InvHolds, PTL

\* Two installers do not run at the same time before the binary is in place
\* (install_attempt, under the claim of claim_install).
THEOREM InstallsAlone ==
  ASSUME HostLimit
  PROVE  ClaimSpec => []OneInstaller
<1>1. Inv => OneInstaller
  <2> SUFFICES ASSUME Inv, NEW g \in Hooks, NEW h \in Hooks, ~installed,
                      child[g].pc = "running", child[h].pc = "running"
               PROVE  g = h
    BY DEF OneInstaller
  <2>1. dir[active].installer = Witness(g) /\ dir[active].installer = Witness(h)
    BY DEF Inv, Rest, Standing
  <2> QED
    BY <2>1, Witnesses
<1> QED
  BY <1>1, InvHolds, PTL

\* What interrupted claims, cleanups and reports leave behind can be claimed again:
\* a failure is never left without the record it belongs to (mark_install_failed).
THEOREM ClaimedAgain ==
  ASSUME HostLimit
  PROVE  ClaimSpec => []NeverStuck
<1>1. Inv => NeverStuck
  <2> SUFFICES ASSUME Inv, active # None PROVE IsEmpty(active) \/ RecordIn(active) # None
    BY DEF NeverStuck
  <2>1. active \in Inodes
    BY DEF Inv, Shape, ClaimTypeOK
  <2>2. dir[active].failed => dir[active].owner # None
    BY <2>1 DEF Inv, Over, Rest, Failed
  <2> QED
    BY <2>2 DEF IsEmpty, RecordIn
<1> QED
  BY <1>1, InvHolds, PTL

\* No installer starts between a reported failure and the end of its back-off
\* (path_recent, the recheck of install_attempt).
THEOREM BacksOff ==
  ASSUME HostLimit
  PROVE  ClaimSpec => BackoffKept
<1>1. Inv /\ [ClaimNext]_vars =>
        [\A h \in Hooks : child[h].pc # "running" /\ child'[h].pc = "running" => ~cooling \/ installed]_vars
  <2> SUFFICES ASSUME Inv, ClaimNext, NEW g \in Hooks, child[g].pc # "running",
                      child'[g].pc = "running", cooling, ~installed
               PROVE  FALSE
    OBVIOUS
  <2>1. Rest /\ Shape /\ child \in [Hooks -> ChildStates]
    BY DEF Inv, Shape, ClaimTypeOK
  <2>2. Recheck(g)
    <3>1. ASSUME NEW h \in Hooks, child' = [child EXCEPT ![h] = Gone]
          PROVE  FALSE
      BY <2>1, <3>1 DEF Gone
    <3>2. ASSUME NEW h \in Hooks, Spawn(h)
          PROVE  FALSE
      BY <2>1, <3>2 DEF Spawn, Gone
    <3>3. ASSUME NEW h \in Hooks, Testify(h)
          PROVE  FALSE
      BY <2>1, <3>1, <3>3 DEF Testify, ChildStates
    <3>4. child' # child
      OBVIOUS
    <3>5. ASSUME NEW h \in Hooks, Recheck(h)
          PROVE  Recheck(g)
      <4>1. child'[g] = child[g] \/ g = h
        BY <2>1, <3>5 DEF Recheck
      <4> QED
        BY <3>5, <4>1
    <3>6. \A h \in Hooks : ~(Exit(h) \/ Withdraw(h) \/ Installed(h) \/ KillChild(h))
      BY <3>1, <3>4 DEF Exit, Withdraw, Installed, KillChild
    <3>7. ~Age /\ \A h \in Hooks : ~(\/ Prune(h) \/ Rmdir(h) \/ Unfail(h) \/ Unwitness(h) \/ Disown(h)
                                     \/ Create(h) \/ Publish(h) \/ Mark(h))
      BY <3>4 DEF Age, Prune, Rmdir, Unfail, Unwitness, Disown, Create, Publish, Mark
    <3>8. \A h \in Hooks : ~Walks(h)
      BY <3>4 DEF Walks, Start, Look, Read, Absent, Enter, Note, CheckOwner, CheckInstaller,
         CheckAge, GoIn, Confirm, Retry, Finish, Verdict, Fail, After, Files
    <3> QED
      BY <3>2, <3>3, <3>5, <3>6, <3>7, <3>8, Steps
  <2>3. Inside(g)
    BY <2>1, <2>2, Present DEF Recheck
  <2> QED
    BY <2>1, <2>3 DEF Rest, Cooled, Failed
<1> QED
  BY <1>1, InvHolds, PTL DEF ClaimSpec, BackoffKept
=============================================================================
