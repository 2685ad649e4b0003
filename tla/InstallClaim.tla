----------------------------- MODULE InstallClaim -----------------------------
(***************************************************************************)
(* The claim of bin/hook-wrapper.sh: hook processes that all find the      *)
(* binary of a version missing agree on one that runs the installer.  The  *)
(* claim is a directory "active" with at most three entries: owner, the    *)
(* record of the wrapper that holds it, installer, the record of the child *)
(* that runs the installer and may outlive its wrapper, and failed.        *)
(*                                                                         *)
(* A process works in the inode it has entered, also after its name has    *)
(* gone or belongs to another inode; nothing can be created in a directory *)
(* that has no name, and only an empty directory loses its name.  A step   *)
(* is one file operation, or a look at one process.  Processes die at any  *)
(* step and leave their files.                                             *)
(*                                                                         *)
(* A process stands for its pid and birth: a recycled pid is another       *)
(* process.  "old" says that the directory was last changed more than 300  *)
(* seconds ago (path_recent . 300).                                        *)
(***************************************************************************)
EXTENDS Naturals, FiniteSets

CONSTANTS
  Hooks,      \* wrapper processes
  Inodes,     \* directories "active" may name
  Rounds,     \* attempts of one claim_install
  HostLimit,  \* the host ends every hook well within the 300 seconds
  None

ASSUME ClaimAssumption ==
  /\ None \notin Hooks \cup Inodes \cup [who : Hooks, nonce : Nat]
  /\ Rounds \in Nat \ {0}
  /\ HostLimit \in BOOLEAN

VARIABLES
  active,    \* the directory of that name, or None
  dir,       \* the entries of each directory
  installed, \* target_binary_ok
  hook,      \* the state of each wrapper
  child,     \* the state of each wrapper's installer child
  cooling    \* history: an attempt failed and the back-off has not passed

vars == <<active, dir, installed, hook, child, cooling>>

Empty == [owner |-> None, installer |-> None, failed |-> FALSE, old |-> FALSE]
Unborn == [pc |-> "none", cwd |-> None]
Gone == [pc |-> "gone", cwd |-> None]

\* The record of a process: the claim of a wrapper's round, or a child's witness.
Claim(h) == [who |-> h, nonce |-> hook[h].round]
Witness(h) == [who |-> h, nonce |-> 0]

ClaimInit ==
  /\ active = None
  /\ dir = [i \in Inodes |-> Empty]
  /\ installed = FALSE
  /\ hook = [h \in Hooks |-> [pc |-> "start", task |-> "claim", round |-> 1, cwd |-> None,
                              observed |-> None, found |-> None]]
  /\ child = [h \in Hooks |-> Unborn]
  /\ cooling = FALSE

\* backoff_record: the owner's, or else the installer's.
RecordIn(i) ==
  CASE i = None -> None
    [] i # None /\ dir[i].owner # None -> dir[i].owner
    [] OTHER -> dir[i].installer

\* backoff_record_live, of an entry: its process is there, with its birth.
Live(r) ==
  /\ r # None
  /\ IF r.nonce = 0 THEN child[r.who].pc \notin {"none", "gone"} ELSE hook[r.who].pc # "gone"

IsEmpty(i) == dir[i].owner = None /\ dir[i].installer = None /\ ~dir[i].failed

\* rmdir "$BACKOFF/active": whatever has the name by now, if it is empty.
RmdirActive ==
  IF active # None /\ IsEmpty(active)
  THEN /\ active' = None
       /\ dir' = [dir EXCEPT ![active] = Empty]
  ELSE UNCHANGED <<active, dir>>

\* An entry of a directory changes, and with it the directory's time.
Entry(i, d) == dir' = [dir EXCEPT ![i] = [d EXCEPT !.old = FALSE]]

At(h, pc) == hook[h].pc = pc
Goto(h, pc) == hook' = [hook EXCEPT ![h].pc = pc]
Files == <<active, dir, installed, child, cooling>>

\* A record that could not be read, or is another's: the next thing to do.
Unheld(task) == CASE task = "claim" -> "empty" [] task = "clear" -> "run" [] OTHER -> "after"

\* What follows a retirement, done or left undone.
Retired(task) == CASE task = "claim" -> "create" [] task = "clear" -> "run" [] OTHER -> "after"

-----------------------------------------------------------------------------
\* A hook finds the binary in place, or claims its installation.
Start(h) ==
  /\ At(h, "start")
  /\ hook' = [hook EXCEPT ![h].pc = "look", ![h].task = IF installed THEN "clear" ELSE "claim"]
  /\ UNCHANGED Files

\* backoff_owner: enter the directory ...
Look(h) ==
  /\ At(h, "look")
  /\ hook' = [hook EXCEPT ![h].cwd = active,
                          ![h].pc = IF active = None THEN Unheld(hook[h].task) ELSE "read"]
  /\ UNCHANGED Files

\* ... and read its record.
Read(h) ==
  /\ At(h, "read")
  /\ LET r == RecordIn(hook[h].cwd)
         mine == hook[h].task \in {"finish", "retire"}
     IN hook' = [hook EXCEPT ![h].cwd = None,
                             ![h].observed = IF mine THEN None ELSE r,
                             ![h].pc = CASE r = None \/ (mine /\ r # Claim(h)) -> Unheld(hook[h].task)
                                         [] hook[h].task = "finish" /\ r = Claim(h) -> "verdict"
                                         [] OTHER -> "enter"]
  /\ UNCHANGED Files

\* Without a record: an empty initialization is removed, anything else waited for.
Absent(h) ==
  /\ At(h, "empty")
  /\ Goto(h, IF active = None THEN "create" ELSE "prune")
  /\ UNCHANGED Files

Prune(h) ==
  /\ At(h, "prune")
  /\ Goto(h, IF active # None /\ IsEmpty(active) THEN "create" ELSE "retry")
  /\ RmdirActive
  /\ UNCHANGED <<installed, child, cooling>>

\* The subshell enters again and goes on in the observed inode only.
Enter(h) ==
  /\ At(h, "enter")
  /\ LET mine == hook[h].task = "retire"
         same == RecordIn(active) = IF mine THEN Claim(h) ELSE hook[h].observed
     IN hook' = [hook EXCEPT ![h].cwd = IF same THEN active ELSE None,
                             ![h].observed = None,
                             ![h].pc = IF same THEN "note" ELSE Retired(hook[h].task)]
  /\ UNCHANGED Files

\* The witness to be deleted is read before any process is looked at.
Note(h) ==
  /\ At(h, "note")
  /\ hook' = [hook EXCEPT ![h].found = dir[hook[h].cwd].installer,
                          ![h].pc = IF hook[h].task = "retire" THEN "unfail" ELSE "owner"]
  /\ UNCHANGED Files

\* Leaving the directory to whoever holds it.
Spare(h) ==
  hook' = [hook EXCEPT ![h].cwd = None, ![h].found = None,
                       ![h].pc = IF hook[h].task = "claim" THEN "after" ELSE "run"]

OwnerLive(h) == ~dir[hook[h].cwd].failed /\ Live(dir[hook[h].cwd].owner)

\* backoff_owner_live: a failed attempt is over, a wrapper or its child is not.
CheckOwner(h) ==
  /\ At(h, "owner")
  /\ \/ /\ OwnerLive(h)
        /\ Spare(h)
     \/ /\ ~OwnerLive(h)
        /\ Goto(h, IF ~dir[hook[h].cwd].failed THEN "installer"
                   ELSE IF hook[h].task = "claim" THEN "age" ELSE "unfail")
  /\ UNCHANGED Files

\* Mutant of CheckInstaller: only the wrapper's life counts.
CheckInstallerNever(h) ==
  /\ At(h, "installer")
  /\ Goto(h, IF hook[h].task = "claim" THEN "age" ELSE "unfail")
  /\ UNCHANGED Files

CheckInstaller(h) ==
  /\ At(h, "installer")
  /\ IF Live(dir[hook[h].cwd].installer) THEN Spare(h)
     ELSE Goto(h, IF hook[h].task = "claim" THEN "age" ELSE "unfail")
  /\ UNCHANGED Files

\* Mutant of CheckAge: a dead claim is taken over at once.
CheckAgeNever(h) == At(h, "age") /\ Goto(h, "unfail") /\ UNCHANGED Files

CheckAge(h) ==
  /\ At(h, "age")
  /\ IF dir[hook[h].cwd].old THEN Goto(h, "unfail") ELSE Spare(h)
  /\ UNCHANGED Files

\* Mutant of Unfail: a cleanup leaves the marker of the failure.
UnfailNever(h) == At(h, "unfail") /\ Goto(h, "unwitness") /\ UNCHANGED Files

\* cleanup_backoff_records, in the inode entered.
Unfail(h) ==
  /\ At(h, "unfail")
  /\ Goto(h, "unwitness")
  /\ LET d == dir[hook[h].cwd]
     IN IF d.failed THEN Entry(hook[h].cwd, [d EXCEPT !.failed = FALSE]) ELSE UNCHANGED dir
  /\ UNCHANGED <<active, installed, child, cooling>>

\* Mutant of Unwitness: whatever witness is there by now is deleted.
UnwitnessAny(h) ==
  /\ At(h, "unwitness")
  /\ hook' = [hook EXCEPT ![h].pc = "disown", ![h].found = None]
  /\ LET d == dir[hook[h].cwd]
     IN IF d.installer # None THEN Entry(hook[h].cwd, [d EXCEPT !.installer = None])
        ELSE UNCHANGED dir
  /\ UNCHANGED <<active, installed, child, cooling>>

Unwitness(h) ==
  /\ At(h, "unwitness")
  /\ hook' = [hook EXCEPT ![h].pc = "disown", ![h].found = None]
  /\ LET d == dir[hook[h].cwd]
     IN IF hook[h].found # None /\ d.installer = hook[h].found
        THEN Entry(hook[h].cwd, [d EXCEPT !.installer = None]) ELSE UNCHANGED dir
  /\ UNCHANGED <<active, installed, child, cooling>>

Disown(h) ==
  /\ At(h, "disown")
  /\ hook' = [hook EXCEPT ![h].pc = "rmdir", ![h].cwd = None]
  /\ LET d == dir[hook[h].cwd]
     IN IF d.owner # None THEN Entry(hook[h].cwd, [d EXCEPT !.owner = None]) ELSE UNCHANGED dir
  /\ UNCHANGED <<active, installed, child, cooling>>

Rmdir(h) ==
  /\ At(h, "rmdir")
  /\ Goto(h, Retired(hook[h].task))
  /\ RmdirActive
  /\ UNCHANGED <<installed, child, cooling>>

-----------------------------------------------------------------------------
\* A directory nobody has entered and that has no name may be allocated.
Free(i) ==
  /\ active # i
  /\ \A h \in Hooks : hook[h].cwd # i /\ child[h].cwd # i

\* mkdir decides who publishes ...
Create(h) ==
  /\ At(h, "create")
  /\ IF active # None THEN Goto(h, "retry") /\ UNCHANGED active
     ELSE /\ \E i \in Inodes : Free(i) /\ active' = i
          /\ Goto(h, "goin")
  /\ UNCHANGED <<dir, installed, child, cooling>>

\* ... but the name may belong to somebody else's directory by now, ...
GoIn(h) ==
  /\ At(h, "goin")
  /\ hook' = [hook EXCEPT ![h].cwd = active, ![h].pc = IF active = None THEN "retry" ELSE "publish"]
  /\ UNCHANGED Files

\* ... and a link into a directory without a name, or over an owner, fails.
Publish(h) ==
  /\ At(h, "publish")
  /\ LET i == hook[h].cwd
     IN IF active = i /\ dir[i].owner = None
        THEN /\ Entry(i, [dir[i] EXCEPT !.owner = Claim(h)])
             /\ Goto(h, "confirm")
        ELSE /\ hook' = [hook EXCEPT ![h].pc = "retry", ![h].cwd = None]
             /\ UNCHANGED dir
  /\ UNCHANGED <<active, installed, child, cooling>>

Confirm(h) ==
  /\ At(h, "confirm")
  /\ hook' = [hook EXCEPT ![h].cwd = None,
                          ![h].pc = IF dir[hook[h].cwd].owner = Claim(h) THEN "install" ELSE "retry"]
  /\ UNCHANGED Files

Retry(h) ==
  /\ At(h, "retry")
  /\ hook' = IF hook[h].round < Rounds
             THEN [hook EXCEPT ![h].round = @ + 1, ![h].pc = "look"]
             ELSE [hook EXCEPT ![h].pc = "after"]
  /\ UNCHANGED Files

-----------------------------------------------------------------------------
(* install_attempt: the child that becomes the installer.                    *)

Spawn(h) ==
  /\ At(h, "install") /\ child[h].pc = "none"
  /\ child' = [child EXCEPT ![h] = IF RecordIn(active) = Claim(h)
                                   THEN [pc |-> "witness", cwd |-> active] ELSE Gone]
  /\ UNCHANGED <<active, dir, installed, hook, cooling>>

Testify(h) ==
  /\ child[h].pc = "witness"
  /\ LET i == child[h].cwd
     IN IF active = i /\ dir[i].installer = None
        THEN /\ Entry(i, [dir[i] EXCEPT !.installer = Witness(h)])
             /\ child' = [child EXCEPT ![h].pc = "recheck"]
        ELSE child' = [child EXCEPT ![h] = Gone] /\ UNCHANGED dir
  /\ UNCHANGED <<active, installed, hook, cooling>>

\* If cleanup won before the witness was there, nothing has been installed.
Recheck(h) ==
  /\ child[h].pc = "recheck"
  /\ child' = [child EXCEPT ![h] = IF dir[child[h].cwd].owner = Claim(h)
                                   THEN [pc |-> "running", cwd |-> None]
                                   ELSE [@ EXCEPT !.pc = "withdraw"]]
  /\ UNCHANGED <<active, dir, installed, hook, cooling>>

Withdraw(h) ==
  /\ child[h].pc = "withdraw"
  /\ child' = [child EXCEPT ![h] = Gone]
  /\ LET d == dir[child[h].cwd]
     IN IF d.installer # None THEN Entry(child[h].cwd, [d EXCEPT !.installer = None])
        ELSE UNCHANGED dir
  /\ UNCHANGED <<active, installed, hook, cooling>>

\* The installer ends, with the binary in place or without.
Installed(h) ==
  /\ child[h].pc = "running"
  /\ child' = [child EXCEPT ![h] = Gone]
  /\ installed' \in {installed, TRUE}
  /\ UNCHANGED <<active, dir, hook, cooling>>

\* install_attempt returns: finish_install_claim.
Finish(h) ==
  /\ At(h, "install") /\ child[h].pc = "gone"
  /\ hook' = [hook EXCEPT ![h].pc = "look", ![h].task = "finish"]
  /\ UNCHANGED Files

\* The binary is in place, or another installer is at work on it, or it is a failure.
Verdict(h) ==
  /\ At(h, "verdict")
  /\ \/ hook' = [hook EXCEPT ![h].pc = "look", ![h].task = "retire"]
     \/ ~installed /\ Goto(h, "fail")
  /\ UNCHANGED Files

\* The subshell enters once more, if the claim is still its own.
Fail(h) ==
  /\ At(h, "fail")
  /\ LET mine == active # None /\ dir[active].owner = Claim(h)
     IN hook' = [hook EXCEPT ![h].cwd = IF mine THEN active ELSE None,
                             ![h].pc = IF mine THEN "mark" ELSE "after"]
  /\ UNCHANGED Files

Mark(h) ==
  /\ At(h, "mark")
  /\ hook' = [hook EXCEPT ![h].pc = "after", ![h].cwd = None]
  /\ LET i == hook[h].cwd
     IN IF active = i THEN Entry(i, [dir[i] EXCEPT !.failed = TRUE]) /\ cooling' = TRUE
        ELSE UNCHANGED <<dir, cooling>>
  /\ UNCHANGED <<active, installed, child>>

\* The hook goes on; with the binary in place it clears what is left of a failure.
After(h) ==
  /\ At(h, "after")
  /\ hook' = [hook EXCEPT ![h].pc = IF installed THEN "look" ELSE "run", ![h].task = "clear"]
  /\ UNCHANGED Files

\* A wrapper ends, or is killed; its child lives on.
Exit(h) ==
  /\ hook[h].pc # "gone"
  /\ hook' = [hook EXCEPT ![h].pc = "gone", ![h].cwd = None, ![h].observed = None, ![h].found = None]
  /\ child' = IF child[h].pc = "none" THEN [child EXCEPT ![h] = Gone] ELSE child
  /\ UNCHANGED <<active, dir, installed, cooling>>

KillChild(h) ==
  /\ child[h].pc \notin {"none", "gone"}
  /\ child' = [child EXCEPT ![h] = Gone]
  /\ UNCHANGED <<active, dir, installed, hook, cooling>>

\* Three hundred seconds without a change.  A hook lives for thirty at most, so
\* that under HostLimit a directory comes of age between hooks.
Age ==
  /\ active # None /\ ~dir[active].old
  /\ HostLimit => \A h \in Hooks : hook[h].pc \in {"start", "gone"}
  /\ dir' = [dir EXCEPT ![active].old = TRUE]
  /\ cooling' = FALSE
  /\ UNCHANGED <<active, installed, hook, child>>

HookStep(h) ==
  \/ Start(h) \/ Look(h) \/ Read(h) \/ Absent(h) \/ Prune(h) \/ Enter(h) \/ Note(h)
  \/ CheckOwner(h) \/ CheckInstaller(h) \/ CheckAge(h) \/ Unfail(h) \/ Unwitness(h)
  \/ Disown(h) \/ Rmdir(h) \/ Create(h) \/ GoIn(h) \/ Publish(h) \/ Confirm(h) \/ Retry(h)
  \/ Finish(h) \/ Verdict(h) \/ Fail(h) \/ Mark(h) \/ After(h)

ChildStep(h) == Spawn(h) \/ Testify(h) \/ Recheck(h) \/ Withdraw(h) \/ Installed(h)

ClaimNext ==
  \/ \E h \in Hooks : HookStep(h) \/ ChildStep(h) \/ Exit(h) \/ KillChild(h)
  \/ Age

ClaimSpec == ClaimInit /\ [][ClaimNext]_vars

-----------------------------------------------------------------------------
Kinds == {"start", "look", "read", "empty", "prune", "enter", "note", "owner", "installer", "age",
          "unfail", "unwitness", "disown", "rmdir", "create", "goin", "publish", "confirm",
          "retry", "install", "verdict", "fail", "mark", "after", "run", "gone"}
Records == [who : Hooks, nonce : 0 .. Rounds]
DirStates == [owner : Records \cup {None}, installer : Records \cup {None},
              failed : BOOLEAN, old : BOOLEAN]
HookStates == [pc : Kinds, task : {"claim", "finish", "retire", "clear"}, round : 1 .. Rounds,
               cwd : Inodes \cup {None}, observed : Records \cup {None},
               found : Records \cup {None}]
ChildStates == [pc : {"none", "witness", "recheck", "withdraw", "running", "gone"},
                cwd : Inodes \cup {None}]

(* Every variable keeps its shape, and a directory without a name has no entries. *)
ClaimTypeOK ==
  /\ active \in Inodes \cup {None} /\ installed \in BOOLEAN /\ cooling \in BOOLEAN
  /\ dir \in [Inodes -> DirStates]
  /\ hook \in [Hooks -> HookStates] /\ child \in [Hooks -> ChildStates]
  /\ \A i \in Inodes : i # active => dir[i] = Empty

(* Until the binary is in place no two installers run at the same time, whatever *)
(* wrappers and children die, at any step, and however the survivors reap.       *)
OneInstaller ==
  \A g, h \in Hooks : ~installed /\ child[g].pc = "running" /\ child[h].pc = "running" => g = h

(* Until then, too, a running installer has its witness in the active directory: *)
(* nobody retires it for dead and nobody can publish a claim beside it.          *)
WitnessStands ==
  \A h \in Hooks :
    ~installed /\ child[h].pc = "running" => active # None /\ dir[active].installer = Witness(h)

Quiet == \A h \in Hooks : hook[h].pc = "gone" /\ child[h].pc = "gone"

(* However a claim, a cleanup or a failure report was interrupted, what is left  *)
(* when everybody is gone can be claimed again: an empty directory, or one with a *)
(* record to be retired.                                                         *)
NeverStuck == Quiet /\ active # None => IsEmpty(active) \/ RecordIn(active) # None

(* After a failed attempt no installer starts before the back-off has passed,    *)
(* unless the binary came by other means.                                        *)
BackoffKept ==
  [][\A h \in Hooks : child[h].pc # "running" /\ child'[h].pc = "running" => ~cooling \/ installed]_vars
=============================================================================
