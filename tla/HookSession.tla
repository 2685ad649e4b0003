----------------------------- MODULE HookSession -----------------------------
(***************************************************************************)
(* The hooks of one Claude session.  Every event starts a process that     *)
(* runs HandleHook: early duplicate check, classification, event lock,     *)
(* question cooldown, content check under the content lock, delivery,      *)
(* update of the session's state, cleanup.  The processes share nothing    *)
(* but files: one lock file per key, the content lock, the state file.     *)
(* One operation on one file is one step; there is no other atomicity.     *)
(*                                                                         *)
(* An event is [kind, status, turn, body, flushed]: the rendered message   *)
(* is its body with the actions known so far, which a later transcript     *)
(* flush changes.  Times are whole seconds, as the file ages of the code.  *)
(***************************************************************************)
EXTENDS Integers, FiniteSets

CONSTANTS
  Hooks,       \* hook processes that may run at the same time
  Events,      \* the events of the session: a set of records as above
  NoTurn,      \* the turn of an event without a readable transcript
  Delayed,     \* notifyDelaySeconds > 0 with desktop delivery only
  EventTTL, ContentTTL, PendingTTL, CleanupAge, Window,  \* 2, 5, 60, 60, 180
  CooldownAny, CooldownTask,   \* of questions; 0 disables
  MaxTime,     \* bound: seconds modelled
  MaxHooks     \* bound: hooks started

Kinds    == {"Stop", "Notification", "PreToolUse"}
Statuses == {"task_complete", "question", "plan_ready"}

ASSUME HookAssumption ==
  /\ \A e \in Events :
       e.kind \in Kinds /\ e.status \in Statuses /\ e.flushed \in BOOLEAN
  /\ Events # {} /\ Delayed \in BOOLEAN
  /\ {EventTTL, ContentTTL, PendingTTL, CleanupAge, Window,
      CooldownAny, CooldownTask, MaxTime, MaxHooks} \subseteq Nat
  /\ (Delayed => EventTTL < PendingTTL /\ PendingTTL <= CleanupAge) /\ MaxTime > 0

VARIABLES
  now,
  locks,      \* modification time of each lock file, or Absent
  session,    \* the state file: NoState, Torn or a record
  stamp,      \* its modification time
  pc, ev,     \* of each process: where it is, its event
  verdict,    \* of each process: what it has decided about its event
  snap,       \* of each process: the state it is about to write
  linked,     \* of each process: the file it has opened is still the state file
  doomed,     \* of each process: files its cleanup has found old
  killed,     \* history: reservations left behind by a killed process
  shown,      \* history: when each content was last delivered and being noted
  started     \* how many hooks have been started

vars == <<now, locks, session, stamp, pc, ev, verdict, snap, linked, doomed,
          killed, shown, started>>
files == <<locks, session, stamp>>
history == <<killed, shown, started>>

Absent  == -1
NoDoom  == [locks |-> {}, session |-> FALSE]
NoState == [tag |-> "none"]
Torn    == [tag |-> "torn"]
Blank   == [tag |-> "ok", time |-> 0, task |-> 0, message |-> <<>>, content |-> <<>>,
            kind |-> "none", stop |-> <<>>, stopTime |-> 0]

\* A Stop with a readable turn has a lock of its own turn; others are per kind.
Verified(e) == e.kind = "Stop" /\ e.turn # NoTurn
LockKey(e)  == IF Verified(e) THEN <<"Stop", e.turn>> ELSE <<e.kind, NoTurn>>
Pending(e)  == Verified(e) /\ Delayed

\* Mutant of LockTTL: the delayed attempt is not given its longer lock.
LockTTLShort(e) == EventTTL

LockTTL(e) == IF Pending(e) THEN PendingTTL ELSE EventTTL

Content   == <<"content">>
EventKeys == {LockKey(e) : e \in Events}
LockFiles == EventKeys \cup {Content}

Body(e)     == <<e.turn, e.body>>
Message(e)  == <<e.body, e.flushed>>
StopHash(e) == IF Verified(e) THEN Body(e) ELSE <<>>
Question(e) == e.status = "question"
Complete(e) == e.status = "task_complete"

Age(f) == IF locks[f] = Absent THEN -1 ELSE now - locks[f]

AnyEvent == CHOOSE e \in Events : TRUE

HookInit ==
  /\ now = 1
  /\ locks = [f \in LockFiles |-> Absent]
  /\ session = NoState /\ stamp = 1
  /\ pc = [h \in Hooks |-> "ready"]
  /\ ev = [h \in Hooks |-> AnyEvent]
  /\ verdict = [h \in Hooks |-> "none"]
  /\ snap = [h \in Hooks |-> NoState]
  /\ linked = [h \in Hooks |-> FALSE]
  /\ doomed = [h \in Hooks |-> NoDoom]
  /\ killed = {}
  /\ shown = [c \in {Body(e) : e \in Events} |-> 0]
  /\ started = 0

Goto(h, from, to) == pc[h] = from /\ pc' = [pc EXCEPT ![h] = to]

\* Deferred work at the end: release of a pending attempt that was not delivered,
\* then the cleanup every classified Stop does.
Finish(h)  == IF ev[h].kind = "Stop" THEN "sweep" ELSE "done"
Abandon(h) == IF Pending(ev[h]) THEN "unreserve" ELSE Finish(h)

\* os.OpenFile(O_CREATE|O_EXCL) of a lock file.
Create(h, f, from, got, lost) ==
  \/ locks[f] = Absent /\ locks' = [locks EXCEPT ![f] = now] /\ Goto(h, from, got)
  \/ locks[f] # Absent /\ UNCHANGED locks /\ Goto(h, from, lost)

Remove(h, f, from, to) ==
  /\ Goto(h, from, to)
  /\ locks' = [locks EXCEPT ![f] = Absent]

local == <<ev, verdict, snap, linked, doomed>>

-----------------------------------------------------------------------------
(* Admission.                                                               *)

\* A Stop skips the early check: its key is known only after classification.
Start(h, e) ==
  /\ Goto(h, "ready", IF e.kind = "Stop" THEN "classify" ELSE "early")
  /\ ev' = [ev EXCEPT ![h] = e]
  /\ started < MaxHooks /\ started' = started + 1
  /\ UNCHANGED <<now, files, verdict, snap, linked, doomed, killed, shown>>

EarlyExists(h) ==
  /\ Goto(h, "early", IF locks[LockKey(ev[h])] = Absent THEN "classify" ELSE "early_age")
  /\ UNCHANGED <<now, files, local, history>>

\* A lock file that has vanished meanwhile counts as fresh.
EarlyAge(h) ==
  /\ Goto(h, "early_age", IF Age(LockKey(ev[h])) < EventTTL THEN "done" ELSE "classify")
  /\ UNCHANGED <<now, files, local, history>>

\* Classification may find nothing to say, for a Stop after a cleanup.
Classify(h) ==
  /\ \/ Goto(h, "classify", IF ev[h].kind = "PreToolUse" THEN "tool_load" ELSE "filter")
     \/ \E end \in {Finish(h), "done"} : Goto(h, "classify", end)
  /\ UNCHANGED <<now, files, local, history>>

\* The suppress-filters are asked after an interactive tool has been noted.
Filter(h) ==
  /\ Goto(h, "filter", "acquire") \/ Goto(h, "filter", Finish(h))
  /\ UNCHANGED <<now, files, local, history>>

-----------------------------------------------------------------------------
(* AcquireLockWithTTL on the event lock.                                    *)

Acquire(h) ==
  /\ Create(h, LockKey(ev[h]), "acquire", "cooldown_any", "age")
  /\ UNCHANGED <<now, session, stamp, local, history>>

\* A lock that has vanished meanwhile is created again; only the ordinary attempt
\* removes first what may have the name by then.
CheckAge(h) ==
  LET age == Age(LockKey(ev[h]))
      pending == LockTTL(ev[h]) > EventTTL
  IN  /\ Goto(h, "age", IF age < 0 /\ pending THEN "recreate"
                        ELSE IF age \in 0 .. LockTTL(ev[h]) - 1 THEN Finish(h)
                        ELSE "replace")
      /\ UNCHANGED <<now, files, local, history>>

\* Whatever file has the name by now is removed.
Replace(h) ==
  /\ Remove(h, LockKey(ev[h]), "replace", "recreate")
  /\ UNCHANGED <<now, session, stamp, local, history>>

Recreate(h) ==
  /\ Create(h, LockKey(ev[h]), "recreate", "cooldown_any", Finish(h))
  /\ UNCHANGED <<now, session, stamp, local, history>>

-----------------------------------------------------------------------------
(* Reading the state.  A torn file is a load error, which suppresses nothing. *)

Known == session.tag = "ok"
Elapsed(t) == now - t

AnyCooldown  == Known /\ CooldownAny > 0 /\ session.time # 0 /\ Elapsed(session.time) < CooldownAny

TaskCooldown == Known /\ CooldownTask > 0 /\ session.task # 0 /\ Elapsed(session.task) < CooldownTask

\* A suppressed question leaves its event lock behind, unless it reserves its turn.
CooldownOfAny(h) ==
  /\ Goto(h, "cooldown_any",
          IF ~Question(ev[h]) THEN "content" ELSE IF AnyCooldown THEN Abandon(h) ELSE "cooldown_task")
  /\ UNCHANGED <<now, files, local, history>>

CooldownOfTask(h) ==
  /\ Goto(h, "cooldown_task", IF TaskCooldown THEN Abandon(h) ELSE "content")
  /\ UNCHANGED <<now, files, local, history>>

-----------------------------------------------------------------------------
(* The content lock and the content check.                                  *)

AcquireContent(h) ==
  /\ Create(h, Content, "content", "check_stop", "content_age")
  /\ UNCHANGED <<now, session, stamp, local, history>>

ContentAge(h) ==
  /\ Goto(h, "content_age",
          IF Age(Content) \in 0 .. ContentTTL - 1 THEN Abandon(h) ELSE "content_replace")
  /\ UNCHANGED <<now, files, local, history>>

ReplaceContent(h) ==
  /\ Remove(h, Content, "content_replace", "content_recreate")
  /\ UNCHANGED <<now, session, stamp, local, history>>

RecreateContent(h) ==
  /\ Create(h, Content, "content_recreate", "check_stop", Abandon(h))
  /\ UNCHANGED <<now, session, stamp, local, history>>

Recent(t) == Elapsed(t) >= 0 /\ Elapsed(t) <= Window

\* Mutant of DuplicateStop: the age of what was noted is not asked.
DuplicateStopAnytime(e) ==
  /\ Known /\ StopHash(e) # <<>> /\ session.stopTime # 0
  /\ session.stop = StopHash(e)

DuplicateStop(e) ==
  /\ Known /\ StopHash(e) # <<>> /\ session.stopTime # 0
  /\ Recent(session.stopTime) /\ session.stop = StopHash(e)

Paired(kind, last) ==
  \/ kind = "Stop" /\ last \in {"Stop", "Notification"}
  \/ kind = "Notification" /\ last = "Stop"

DuplicateTurnBody(e) ==
  /\ Known /\ session.time # 0 /\ Recent(session.time)
  /\ Paired(e.kind, session.kind) /\ session.content = Body(e)

DuplicateMessage(e) ==
  /\ Known /\ session.time # 0 /\ session.message # <<>>
  /\ Elapsed(session.time) <= Window /\ session.message = Message(e)

TurnChecked(e) == e.turn # NoTurn /\ e.kind \in {"Stop", "Notification"}

Judge(h, from, duplicate, next) ==
  /\ Goto(h, from, IF duplicate THEN "release" ELSE next)
  /\ verdict' = [verdict EXCEPT ![h] = IF duplicate THEN "duplicate" ELSE "new"]
  /\ UNCHANGED <<now, files, ev, snap, linked, doomed, history>>

CheckStop(h) ==
  Judge(h, "check_stop", DuplicateStop(ev[h]),
        IF TurnChecked(ev[h]) THEN "check_turn" ELSE "check_message")

\* After a load error here the message is not compared either.
CheckTurn(h) ==
  Judge(h, "check_turn", DuplicateTurnBody(ev[h]),
        IF session = Torn THEN "release"
        ELSE IF ev[h].kind = "Stop" THEN "check_previous" ELSE "check_message")

\* A Stop is compared by its message only after another kind of hook of its turn.
CheckPrevious(h) ==
  Judge(h, "check_previous", FALSE,
        IF Known /\ session.time # 0 /\ session.content[1] = ev[h].turn
             /\ session.kind \notin {"Stop", "Notification"}
        THEN "check_message" ELSE "release")

CheckMessage(h) ==
  Judge(h, "check_message", DuplicateMessage(ev[h]), "release")

\* The lock is released by name, before the delivery and the update.
ReleaseContent(h) ==
  /\ Remove(h, Content, "release", IF verdict[h] = "new" THEN "deliver" ELSE Abandon(h))
  /\ UNCHANGED <<now, session, stamp, local, history>>

-----------------------------------------------------------------------------
(* Delivery, and the update of the state behind it.                         *)

\* A delay passes, focus or Do Not Disturb or an error may suppress.
Deliver(h) ==
  \/ /\ Goto(h, "deliver", "note_load")
     /\ shown' = [shown EXCEPT ![Body(ev[h])] = now]
     /\ UNCHANGED <<now, files, local, killed, started>>
  \/ /\ Goto(h, "deliver", Abandon(h))
     /\ UNCHANGED <<now, files, local, history>>

Noted(s, e) ==
  [s EXCEPT !.time = now, !.task = IF Complete(e) THEN now ELSE @,
            !.kind = e.kind, !.message = Message(e), !.content = Body(e),
            !.stop = IF StopHash(e) # <<>> THEN StopHash(e) ELSE @,
            !.stopTime = IF StopHash(e) # <<>> THEN now ELSE @]

Loaded == IF session = NoState THEN Blank ELSE session

\* Load of a read-modify-write; nothing is written after a load error.
LoadFor(h, from, open, skip, changed) ==
  /\ Goto(h, from, IF session = Torn THEN skip ELSE open)
  /\ snap' = [snap EXCEPT ![h] = IF session = Torn THEN NoState ELSE changed]
  /\ UNCHANGED <<now, files, ev, verdict, linked, doomed, killed, started>>

LoadTool(h) == LoadFor(h, "tool_load", "tool_open", "filter", Loaded) /\ UNCHANGED shown

\* The note is dated now: what has been delivered was being shown until then.
LoadNote(h) ==
  /\ LoadFor(h, "note_load", "note_open", Finish(h), Noted(Loaded, ev[h]))
  /\ shown' = [shown EXCEPT ![Body(ev[h])] = IF @ = 0 THEN 0 ELSE now]

\* os.WriteFile truncates first and writes then.
Open(h, from, to) ==
  /\ Goto(h, from, to)
  /\ session' = Torn /\ stamp' = now
  /\ linked' = [linked EXCEPT ![h] = TRUE]
  /\ UNCHANGED <<now, locks, ev, verdict, snap, doomed, history>>

\* Written over another hook's text the result may be the tail of a longer one;
\* into a file that was unlinked meanwhile it is lost.
Write(h, from, to) ==
  /\ Goto(h, from, to)
  /\ session' \in IF linked[h] THEN {snap[h], IF session = Torn THEN snap[h] ELSE Torn}
                               ELSE {session}
  /\ stamp' = IF linked[h] THEN now ELSE stamp
  /\ snap' = [snap EXCEPT ![h] = NoState]
  /\ linked' = [linked EXCEPT ![h] = FALSE]
  /\ UNCHANGED <<now, locks, ev, verdict, doomed, history>>

OpenTool(h)  == Open(h, "tool_open", "tool_write")
WriteTool(h) == Write(h, "tool_write", "filter")
OpenNote(h)  == Open(h, "note_open", "note_write")
WriteNote(h) == Write(h, "note_write", Finish(h))

-----------------------------------------------------------------------------
(* The deferred end, and what happens to the processes.                     *)

\* Mutant of Unreserve: nothing is released.
UnreserveNothing(h) ==
  /\ Goto(h, "unreserve", Finish(h))
  /\ UNCHANGED <<now, files, local, history>>

Unreserve(h) ==
  /\ Remove(h, LockKey(ev[h]), "unreserve", Finish(h))
  /\ UNCHANGED <<now, session, stamp, local, history>>

\* Cleanup looks at the ages of all files first and removes the old ones by name.
Sweep(h) ==
  /\ Goto(h, "sweep", "swept")
  /\ doomed' = [doomed EXCEPT ![h] =
        [locks |-> {f \in LockFiles : Age(f) > CleanupAge},
         session |-> session # NoState /\ now - stamp > CleanupAge]]
  /\ UNCHANGED <<now, files, ev, verdict, snap, linked, history>>

Swept(h) ==
  /\ Goto(h, "swept", "done")
  /\ locks' = [f \in LockFiles |-> IF f \in doomed[h].locks THEN Absent ELSE locks[f]]
  /\ session' = IF doomed[h].session THEN NoState ELSE session
  /\ linked' = IF doomed[h].session THEN [p \in Hooks |-> FALSE] ELSE linked
  /\ doomed' = [doomed EXCEPT ![h] = NoDoom]
  /\ UNCHANGED <<now, stamp, ev, verdict, snap, history>>

Forget(h) ==
  /\ ev' = [ev EXCEPT ![h] = AnyEvent]
  /\ verdict' = [verdict EXCEPT ![h] = "none"]
  /\ snap' = [snap EXCEPT ![h] = NoState]
  /\ linked' = [linked EXCEPT ![h] = FALSE]
  /\ doomed' = [doomed EXCEPT ![h] = NoDoom]

Exit(h) ==
  /\ Goto(h, "done", "ready") /\ Forget(h)
  /\ UNCHANGED <<now, files, history>>

\* The host's time limit, a crash: the files stay as they are.
Kill(h) ==
  /\ pc[h] \notin {"ready", "done"} /\ Goto(h, pc[h], "ready") /\ Forget(h)
  /\ killed' = IF Pending(ev[h]) THEN killed \cup {LockKey(ev[h])} ELSE killed
  /\ UNCHANGED <<now, files, shown, started>>

Tick ==
  /\ now < MaxTime /\ now' = now + 1
  /\ UNCHANGED <<files, pc, local, history>>

HookStep(h) ==
  \/ (\E e \in Events : Start(h, e)) \/ EarlyExists(h) \/ EarlyAge(h)
  \/ Classify(h) \/ Filter(h)
  \/ LoadTool(h) \/ OpenTool(h) \/ WriteTool(h)
  \/ Acquire(h) \/ CheckAge(h) \/ Replace(h) \/ Recreate(h)
  \/ CooldownOfAny(h) \/ CooldownOfTask(h)
  \/ AcquireContent(h) \/ ContentAge(h) \/ ReplaceContent(h) \/ RecreateContent(h)
  \/ CheckStop(h) \/ CheckTurn(h) \/ CheckPrevious(h) \/ CheckMessage(h)
  \/ ReleaseContent(h) \/ Deliver(h)
  \/ LoadNote(h) \/ OpenNote(h) \/ WriteNote(h)
  \/ Unreserve(h) \/ Sweep(h) \/ Swept(h) \/ Exit(h) \/ Kill(h)

HookNext == (\E h \in Hooks : HookStep(h)) \/ Tick

HookSpec == HookInit /\ [][HookNext]_vars

-----------------------------------------------------------------------------
(* Properties.                                                              *)

Locations ==
  {"ready", "early", "early_age", "classify", "filter", "tool_load", "tool_open", "tool_write",
   "acquire", "age", "replace", "recreate", "cooldown_any", "cooldown_task",
   "content", "content_age", "content_replace", "content_recreate",
   "check_stop", "check_turn", "check_previous", "check_message", "release",
   "deliver", "note_load", "note_open", "note_write", "unreserve", "sweep", "swept",
   "done"}

Bodies == {Body(e) : e \in Events}
Hashes   == {<<>>} \cup Bodies
Messages == {<<>>} \cup {Message(e) : e \in Events}
SessionStates ==
  [tag : {"ok"}, time : 0 .. MaxTime, task : 0 .. MaxTime, message : Messages,
   content : Hashes, kind : {"none"} \cup Kinds, stop : Hashes, stopTime : 0 .. MaxTime]

Writing   == {"tool_open", "tool_write", "note_open", "note_write"}
Delivered == {"deliver", "note_load", "note_open", "note_write"}

(* Every variable keeps its shape; no file is of the future; a process that is to *)
(* write has loaded, and one in its delivery has judged its event new.            *)
HookTypeOK ==
  /\ now \in 1 .. MaxTime /\ stamp \in 1 .. now
  /\ locks \in [LockFiles -> {Absent} \cup (1 .. now)]
  /\ session \in {NoState, Torn} \cup SessionStates
  /\ pc \in [Hooks -> Locations] /\ ev \in [Hooks -> Events]
  /\ verdict \in [Hooks -> {"none", "new", "duplicate"}]
  /\ snap \in [Hooks -> {NoState} \cup SessionStates] /\ linked \in [Hooks -> BOOLEAN]
  /\ doomed \in [Hooks -> [locks : SUBSET LockFiles, session : BOOLEAN]]
  /\ killed \subseteq EventKeys /\ shown \in [Bodies -> 0 .. now] /\ started \in 0 .. MaxHooks
  /\ \A h \in Hooks : /\ pc[h] \in Writing => snap[h] # NoState
                      /\ pc[h] \in Delivered => verdict[h] = "new"

InAttempt == {"cooldown_any", "cooldown_task", "content", "content_age", "content_replace",
              "content_recreate", "check_stop", "check_turn", "check_previous",
              "check_message", "release", "deliver", "note_load", "note_open", "note_write"}

\* While a delayed Stop waits out its delay no second attempt of its turn is under
\* way, though ordinary event locks of that age are stale.
PendingReserves ==
  \A h1, h2 \in Hooks :
    pc[h1] \in InAttempt /\ pc[h2] \in InAttempt
      /\ Pending(ev[h1]) /\ LockKey(ev[h1]) = LockKey(ev[h2]) => h1 = h2

\* "Definitive no-effect outcomes release this attempt": once nobody is at work, a
\* delayed turn that was not delivered is not blocked, unless a process was killed.
UndeliveredReleases ==
  \A e \in Events :
    /\ Pending(e) /\ LockKey(e) \notin killed
    /\ \A e2 \in Events : LockKey(e2) = LockKey(e) => shown[Body(e2)] = 0
    /\ \A h \in Hooks : pc[h] = "ready"
    => locks[LockKey(e)] = Absent

ShownWithin(e, limit) == shown[Body(e)] > 0 /\ now - shown[Body(e)] <= limit

\* The content check has just called the event of h a duplicate.
FoundDuplicate(h) == verdict[h] # "duplicate" /\ verdict'[h] = "duplicate"

\* A question has just been dropped at a cooldown.
DroppedAt(h, cooldown) ==
  pc[h] = cooldown /\ pc'[h] \notin {cooldown, "cooldown_task", "content", "ready"}

JustlySilent(h) ==
  /\ FoundDuplicate(h) =>
       \E e \in Events :
         /\ ShownWithin(e, Window)
         /\ \/ Body(e) = Body(ev[h])
            \/ pc[h] = "check_message" /\ Message(e) = Message(ev[h])
  /\ DroppedAt(h, "cooldown_any") => \E e \in Events : ShownWithin(e, CooldownAny)
  /\ DroppedAt(h, "cooldown_task") =>
       \E e \in Events : Complete(e) /\ ShownWithin(e, CooldownTask)

\* A hook stays silent only for something the user has really been shown: a duplicate
\* was delivered, as the same turn's body or the same message, in the last Window
\* seconds, a question follows another notification, or a completion, within its
\* cooldown.  It holds with hooks that overlap and overwrite each other's update of
\* the state, that are killed inside it or leave it torn, and whatever cleanup removes.
SilentOnlyAfterShown == [][\A h \in Hooks : JustlySilent(h)]_vars
=============================================================================
