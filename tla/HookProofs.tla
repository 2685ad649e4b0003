------------------------------ MODULE HookProofs ------------------------------
(***************************************************************************)
(* Theorems about HookSession, for any events, processes and times, with   *)
(* processes that die at any step.                                         *)
(***************************************************************************)
EXTENDS HookSession, TLAPS

-----------------------------------------------------------------------------
(* Types.                                                                    *)

LEMMA Facts ==
  /\ Absent = -1 /\ Absent \notin Nat
  /\ NoState \notin SessionStates /\ Torn \notin SessionStates /\ NoState # Torn
  /\ AnyEvent \in Events
  /\ \A e \in Events : /\ LockKey(e) \in LockFiles /\ LockKey(e) \in EventKeys
                       /\ Body(e) \in Bodies
                       /\ StopHash(e) \in Hashes /\ Body(e) \in Hashes
                       /\ Message(e) \in Messages
                       /\ e.kind \in Kinds
  /\ Content \in LockFiles /\ <<>> \in Hashes /\ <<>> \in Messages
  /\ {EventTTL, ContentTTL, PendingTTL, CleanupAge, Window, CooldownAny, CooldownTask, MaxTime,
      MaxHooks} \subseteq Nat
  /\ MaxTime > 0
  /\ \A e \in Events : Pending(e) => EventTTL < PendingTTL /\ PendingTTL <= CleanupAge
<1>1. AnyEvent \in Events
  BY HookAssumption DEF AnyEvent
<1>2. NoState \notin SessionStates /\ Torn \notin SessionStates /\ NoState # Torn
  BY DEF NoState, Torn, SessionStates
<1>3. Content \in LockFiles /\ <<>> \in Hashes /\ <<>> \in Messages
  BY DEF LockFiles, Hashes, Messages
<1>4. \A e \in Events : /\ LockKey(e) \in LockFiles /\ LockKey(e) \in EventKeys
                        /\ Body(e) \in Bodies
                        /\ StopHash(e) \in Hashes /\ Body(e) \in Hashes
                        /\ Message(e) \in Messages
                        /\ e.kind \in Kinds
  BY HookAssumption DEF LockFiles, EventKeys, Bodies, StopHash, Hashes, Messages
<1>5. Absent = -1 /\ Absent \notin Nat
  BY DEF Absent
<1>6. \A e \in Events : Pending(e) => EventTTL < PendingTTL /\ PendingTTL <= CleanupAge
  BY HookAssumption DEF Pending
<1> QED
  BY <1>1, <1>2, <1>3, <1>4, <1>5, <1>6, HookAssumption

LEMMA TypeInit == HookInit => HookTypeOK
<1> SUFFICES ASSUME HookInit PROVE HookTypeOK
  OBVIOUS
<1>1. NoDoom \in [locks : SUBSET LockFiles, session : BOOLEAN]
  BY DEF NoDoom
<1>2. 0 \in 0 .. MaxHooks
  BY Facts
<1>3. 1 \in 1 .. MaxTime /\ 0 \in 0 .. MaxTime
  BY Facts
<1> QED
  BY <1>1, <1>2, <1>3, Facts DEF HookInit, HookTypeOK, Locations, Bodies, Writing, Delivered

\* A process that goes on with the same event, verdict and state.
LEMMA Moved ==
  ASSUME HookTypeOK, NEW h \in Hooks, NEW to \in Locations, pc' = [pc EXCEPT ![h] = to],
         UNCHANGED <<now, session, stamp, ev, verdict, snap, linked, doomed, killed, started>>,
         locks' \in [LockFiles -> {Absent} \cup (1 .. now)],
         shown' \in [Bodies -> 0 .. now],
         to \in Writing => snap[h] # NoState,
         to \in Delivered => verdict[h] = "new"
  PROVE  HookTypeOK'
BY DEF HookTypeOK

\* Steps that only look.
Looks(h) ==
  \/ EarlyExists(h) \/ EarlyAge(h) \/ Classify(h) \/ Filter(h) \/ CheckAge(h)
  \/ CooldownOfAny(h) \/ CooldownOfTask(h) \/ ContentAge(h)

\* Steps that create or remove a lock file.
Locking(h) ==
  \/ Acquire(h) \/ Replace(h) \/ Recreate(h) \/ AcquireContent(h) \/ ReplaceContent(h)
  \/ RecreateContent(h) \/ ReleaseContent(h) \/ Unreserve(h)

Judging(h) == CheckStop(h) \/ CheckTurn(h) \/ CheckPrevious(h) \/ CheckMessage(h)

LEMMA HookSteps ==
  ASSUME HookNext
  PROVE  \/ Tick
         \/ \E h \in Hooks :
              \/ Looks(h) \/ Locking(h) \/ Judging(h) \/ Deliver(h)
              \/ \E e \in Events : Start(h, e)
              \/ LoadTool(h) \/ LoadNote(h) \/ OpenTool(h) \/ OpenNote(h) \/ WriteTool(h) \/ WriteNote(h)
              \/ Sweep(h) \/ Swept(h) \/ Exit(h) \/ Kill(h)
BY DEF HookNext, HookStep, Looks, Locking, Judging

LEMMA LooksType ==
  ASSUME HookTypeOK, NEW h \in Hooks, Looks(h)
  PROVE  HookTypeOK'
<1>1. PICK to \in Locations : pc' = [pc EXCEPT ![h] = to] /\ to \notin Writing \cup Delivered
  BY DEF Looks, EarlyExists, EarlyAge, Classify, Filter, CheckAge, CooldownOfAny, CooldownOfTask,
         ContentAge, Goto, Finish, Abandon, Locations, Writing, Delivered
<1>2. UNCHANGED <<now, files, local, history>>
  BY DEF Looks, EarlyExists, EarlyAge, Classify, Filter, CheckAge, CooldownOfAny, CooldownOfTask,
         ContentAge
<1> QED
  BY <1>1, <1>2, Moved DEF files, local, history, HookTypeOK

LEMMA LockingType ==
  ASSUME HookTypeOK, NEW h \in Hooks, Locking(h)
  PROVE  HookTypeOK'
<1>0. /\ locks \in [LockFiles -> {Absent} \cup (1 .. now)] /\ ev[h] \in Events /\ now \in 1 .. now
      /\ shown \in [Bodies -> 0 .. now]
  BY DEF HookTypeOK
<1>1. PICK to \in Locations : /\ pc' = [pc EXCEPT ![h] = to] /\ to \notin Writing
                              /\ to \in Delivered => verdict[h] = "new"
  BY DEF Locking, Acquire, Replace, Recreate, AcquireContent, ReplaceContent, RecreateContent,
         ReleaseContent, Unreserve, Create, Remove, Goto, Finish, Abandon, Locations, Writing, Delivered
<1>2. PICK f \in LockFiles : locks' \in {locks, [locks EXCEPT ![f] = now], [locks EXCEPT ![f] = Absent]}
  BY <1>0, Facts DEF Locking, Acquire, Replace, Recreate, AcquireContent, ReplaceContent,
         RecreateContent, ReleaseContent, Unreserve, Create, Remove
<1>3. locks' \in [LockFiles -> {Absent} \cup (1 .. now)]
  BY <1>0, <1>2
<1>4. UNCHANGED <<now, session, stamp, local, history>>
  BY DEF Locking, Acquire, Replace, Recreate, AcquireContent, ReplaceContent, RecreateContent,
         ReleaseContent, Unreserve
<1> QED
  BY <1>0, <1>1, <1>3, <1>4, Moved DEF local, history

LEMMA JudgingType ==
  ASSUME HookTypeOK, NEW h \in Hooks, Judging(h)
  PROVE  HookTypeOK'
<1>1. PICK to \in Locations : pc' = [pc EXCEPT ![h] = to] /\ to \notin Writing \cup Delivered
  BY DEF Judging, CheckStop, CheckTurn, CheckPrevious, CheckMessage, Judge, Goto, Locations,
         Writing, Delivered
<1>2. PICK v \in {"duplicate", "new"} : verdict' = [verdict EXCEPT ![h] = v]
  BY DEF Judging, CheckStop, CheckTurn, CheckPrevious, CheckMessage, Judge
<1>3. UNCHANGED <<now, files, ev, snap, linked, doomed, history>>
  BY DEF Judging, CheckStop, CheckTurn, CheckPrevious, CheckMessage, Judge
<1> QED
  BY <1>1, <1>2, <1>3 DEF HookTypeOK, files, history

LEMMA DeliverType ==
  ASSUME HookTypeOK, NEW h \in Hooks, Deliver(h)
  PROVE  HookTypeOK'
<1>0. ev[h] \in Events /\ now \in 1 .. MaxTime /\ now \in 0 .. now /\ Body(ev[h]) \in Bodies
  BY Facts DEF HookTypeOK
<1>1. PICK to \in Locations : /\ pc' = [pc EXCEPT ![h] = to] /\ to \notin Writing
                              /\ to \in Delivered => pc[h] = "deliver"
  BY DEF Deliver, Goto, Finish, Abandon, Locations, Writing, Delivered
<1>2. shown' \in [Bodies -> 0 .. now]
  BY <1>0 DEF Deliver, HookTypeOK, history
<1>3. to \in Delivered => verdict[h] = "new"
  BY <1>1 DEF HookTypeOK, Delivered
<1>4. UNCHANGED <<now, files, local, killed, started>>
  BY DEF Deliver, history
<1> QED
  BY <1>1, <1>2, <1>3, <1>4, Moved DEF HookTypeOK, files, local

LEMMA StartType ==
  ASSUME HookTypeOK, NEW h \in Hooks, NEW e \in Events, Start(h, e)
  PROVE  HookTypeOK'
<1>1. started' \in 0 .. MaxHooks
  BY Facts DEF Start, HookTypeOK
<1> QED
  BY <1>1 DEF Start, Goto, HookTypeOK, files, Locations, Writing, Delivered

\* The state as it is after an update.
LEMMA NotedType ==
  ASSUME NEW s \in SessionStates, NEW e \in Events, now \in 1 .. MaxTime
  PROVE  Noted(s, e) \in SessionStates
<1>1. now \in 0 .. MaxTime /\ e.kind \in Kinds /\ Body(e) \in Bodies
      /\ StopHash(e) \in Hashes /\ Body(e) \in Hashes /\ Message(e) \in Messages
  BY Facts
<1>2. PICK task : task = IF Complete(e) THEN now ELSE s.task
  OBVIOUS
<1>3. PICK stop : stop = IF StopHash(e) # <<>> THEN StopHash(e) ELSE s.stop
  OBVIOUS
<1>4. PICK time : time = IF StopHash(e) # <<>> THEN now ELSE s.stopTime
  OBVIOUS
<1>5. task \in 0 .. MaxTime /\ stop \in Hashes /\ time \in 0 .. MaxTime
  BY <1>1, <1>2, <1>3, <1>4 DEF SessionStates
<1>6. PICK m, c, k : m = Message(e) /\ c = Body(e) /\ k = e.kind
  OBVIOUS
<1>7. Noted(s, e) = [s EXCEPT !.time = now, !.task = task, !.kind = k, !.message = m, !.content = c,
                              !.stop = stop, !.stopTime = time]
  BY <1>2, <1>3, <1>4, <1>6 DEF Noted
<1> QED
  BY <1>1, <1>5, <1>6, <1>7 DEF SessionStates

LEMMA BlankType == Blank \in SessionStates
BY Facts DEF Blank, SessionStates

LEMMA LoadedType ==
  ASSUME HookTypeOK, session # Torn
  PROVE  Loaded \in SessionStates /\ \A e \in Events : Noted(Loaded, e) \in SessionStates
<1>1. Blank \in SessionStates
  BY BlankType
<1>2. Loaded \in SessionStates
  BY <1>1 DEF Loaded, HookTypeOK
<1>3. PICK s \in SessionStates : s = Loaded
  BY <1>2
<1> QED
  BY <1>3, NotedType DEF HookTypeOK

LEMMA LoadType ==
  ASSUME HookTypeOK, NEW h \in Hooks, LoadTool(h) \/ LoadNote(h)
  PROVE  HookTypeOK'
<1>0. ev[h] \in Events /\ snap \in [Hooks -> {NoState} \cup SessionStates]
  BY DEF HookTypeOK
<1>1. UNCHANGED <<now, files, ev, verdict, linked, doomed, killed, started>>
  BY DEF LoadTool, LoadNote, LoadFor
<1>3. shown' \in [Bodies -> 0 .. now]
  BY DEF LoadTool, LoadNote, HookTypeOK
<1>2. PICK s \in {NoState} \cup SessionStates, to \in Locations :
        /\ snap' = [snap EXCEPT ![h] = s] /\ pc' = [pc EXCEPT ![h] = to]
        /\ to \in Writing => s # NoState
        /\ to \in Delivered => pc[h] \in Delivered
  <2>1. CASE session = Torn
    BY <2>1 DEF LoadTool, LoadNote, LoadFor, Goto, Finish, Locations, Writing, Delivered
  <2>2. CASE session # Torn
    BY <1>0, <2>2, LoadedType, Facts DEF LoadTool, LoadNote, LoadFor, Goto, Finish, Locations,
         Writing, Delivered
  <2> QED
    BY <2>1, <2>2
<1> QED
  BY <1>0, <1>1, <1>2, <1>3 DEF HookTypeOK, files

LEMMA WriteType ==
  ASSUME HookTypeOK, NEW h \in Hooks,
         OpenTool(h) \/ OpenNote(h) \/ WriteTool(h) \/ WriteNote(h)
  PROVE  HookTypeOK'
<1>0. /\ snap[h] \in {NoState} \cup SessionStates /\ ev[h] \in Events
      /\ pc[h] \in Writing => snap[h] # NoState
      /\ pc[h] \in Delivered => verdict[h] = "new"
      /\ session \in {NoState, Torn} \cup SessionStates
  BY DEF HookTypeOK
<1>1. UNCHANGED <<now, locks, ev, verdict, doomed, killed, shown, started>>
  BY DEF OpenTool, OpenNote, WriteTool, WriteNote, Open, Write, history
<1>4. \/ UNCHANGED snap
      \/ snap' = [snap EXCEPT ![h] = NoState] /\ pc' = [pc EXCEPT ![h] = "filter"]
      \/ snap' = [snap EXCEPT ![h] = NoState] /\ pc' = [pc EXCEPT ![h] = Finish(h)]
  BY DEF OpenTool, OpenNote, WriteTool, WriteNote, Open, Write, Goto
<1>5. "filter" \notin Writing /\ Finish(h) \notin Writing
  BY DEF Finish, Writing
<1>2. PICK to \in Locations, b \in BOOLEAN :
        /\ pc' = [pc EXCEPT ![h] = to] /\ linked' = [linked EXCEPT ![h] = b]
        /\ to \in Writing => pc[h] \in Writing
        /\ to \in Delivered => pc[h] \in Delivered
  BY DEF OpenTool, OpenNote, WriteTool, WriteNote, Open, Write, Goto, Finish, Locations, Writing,
         Delivered
<1>3. session' \in {NoState, Torn} \cup SessionStates /\ stamp' \in {stamp, now}
  BY <1>0 DEF OpenTool, OpenNote, WriteTool, WriteNote, Open, Write
<1> QED
  BY <1>0, <1>1, <1>2, <1>3, <1>4, <1>5 DEF HookTypeOK

LEMMA SweepType ==
  ASSUME HookTypeOK, NEW h \in Hooks, Sweep(h) \/ Swept(h)
  PROVE  HookTypeOK'
<1>1. CASE Sweep(h)
  <2>1. [locks |-> {f \in LockFiles : Age(f) > CleanupAge},
         session |-> session # NoState /\ now - stamp > CleanupAge]
          \in [locks : SUBSET LockFiles, session : BOOLEAN]
    OBVIOUS
  <2> QED
    BY <1>1, <2>1 DEF Sweep, Goto, HookTypeOK, files, history, Locations, Writing, Delivered
<1>2. CASE Swept(h)
  <2>1. /\ locks' \in [LockFiles -> {Absent} \cup (1 .. now)]
        /\ NoDoom \in [locks : SUBSET LockFiles, session : BOOLEAN]
    BY <1>2 DEF Swept, HookTypeOK, NoDoom
  <2> QED
    BY <1>2, <2>1 DEF Swept, Goto, HookTypeOK, history, Locations, Writing, Delivered
<1> QED
  BY <1>1, <1>2

LEMMA ForgetType ==
  ASSUME HookTypeOK, NEW h \in Hooks, Exit(h) \/ Kill(h)
  PROVE  HookTypeOK'
<1>1. NoDoom \in [locks : SUBSET LockFiles, session : BOOLEAN]
  BY DEF NoDoom
<1>2. UNCHANGED <<now, files, shown, started>> /\ pc' = [pc EXCEPT ![h] = "ready"]
  BY DEF Exit, Kill, Goto, history
<1>3. killed' \subseteq EventKeys
  BY Facts DEF Exit, Kill, HookTypeOK, history
<1>4. Forget(h)
  BY DEF Exit, Kill
<1> QED
  BY <1>1, <1>2, <1>3, <1>4, Facts DEF HookTypeOK, Forget, files, Locations, Writing, Delivered

LEMMA TickType ==
  ASSUME HookTypeOK, Tick
  PROVE  HookTypeOK'
<1>1. now' \in 1 .. MaxTime /\ 1 .. now \subseteq 1 .. now' /\ 0 .. now \subseteq 0 .. now'
  BY Facts DEF Tick, HookTypeOK
<1> QED
  BY <1>1 DEF Tick, HookTypeOK, files, local, history

LEMMA TypeNext == HookTypeOK /\ [HookNext]_vars => HookTypeOK'
<1> SUFFICES ASSUME HookTypeOK, [HookNext]_vars PROVE HookTypeOK'
  OBVIOUS
<1>1. CASE HookNext
  BY <1>1, HookSteps, LooksType, LockingType, JudgingType, DeliverType, StartType, LoadType, WriteType,
     SweepType, ForgetType, TickType
<1>2. CASE UNCHANGED vars
  BY <1>2 DEF vars, HookTypeOK
<1> QED
  BY <1>1, <1>2

\* The files of a session and what its hooks hold of them keep their shape: no lock is of
\* the future (dedup.go, state.go), and a hook delivers nothing it has not judged new.
THEOREM HookTypeCorrect == HookSpec => []HookTypeOK
BY TypeInit, TypeNext, PTL DEF HookSpec

-----------------------------------------------------------------------------
(* Reservations.                                                             *)

Occupied == InAttempt \cup {"unreserve"}
Holds(h) == pc[h] \in Occupied

\* No reservation of a delayed turn is old enough to be taken over or cleaned up.
Fresh == \A e \in Events : Pending(e) => Age(LockKey(e)) < PendingTTL

\* A delayed attempt has its lock, alone; nobody else is about to remove it.
Reserved ==
  /\ \A h \in Hooks : /\ pc[h] = "replace" => ~Pending(ev[h])
                      /\ pc[h] = "unreserve" => Pending(ev[h])
                      /\ Holds(h) /\ Pending(ev[h]) => locks[LockKey(ev[h])] # Absent
                      /\ \A e \in Events : Pending(e) => LockKey(e) \notin doomed[h].locks
  /\ \A h, p \in Hooks :
       Holds(h) /\ Holds(p) /\ Pending(ev[h]) /\ LockKey(ev[h]) = LockKey(ev[p]) => h = p

\* The key of a delayed turn is no other event's and not the content lock.
LEMMA KeyPending ==
  ASSUME NEW d \in Events, Pending(d)
  PROVE  /\ \A e \in Events : LockKey(e) = LockKey(d) => Pending(e)
         /\ LockKey(d) # Content
BY DEF Pending, Verified, LockKey, Content

LEMMA Reserve ==
  ASSUME HookTypeOK, Reserved, NEW h \in Hooks, NEW to, pc' = [pc EXCEPT ![h] = to],
         \A p \in Hooks \ {h} : ev'[p] = ev[p],
         to \in Occupied \cup {"replace"} => ev'[h] = ev[h],
         to \in Occupied => Holds(h) \/ locks[LockKey(ev[h])] = Absent,
         to = "replace" => ~Pending(ev[h]), to = "unreserve" => Pending(ev[h]),
         \A p \in Hooks, e \in Events : Pending(e) => LockKey(e) \notin doomed'[p].locks,
         \A p \in Hooks : (IF p = h THEN to \in Occupied ELSE Holds(p)) /\ Pending(ev[p])
                           => locks'[LockKey(ev[p])] # Absent
  PROVE  Reserved'
<1>1. \A p \in Hooks : p # h => pc'[p] = pc[p] /\ ev'[p] = ev[p]
  BY DEF HookTypeOK
<1>2. pc'[h] = to /\ ev[h] \in Events
  BY DEF HookTypeOK
<1>3. "replace" \notin Occupied /\ "unreserve" \in Occupied
  BY DEF Occupied, InAttempt
<1>4. ASSUME NEW p \in Hooks
      PROVE  /\ pc'[p] = "replace" => ~Pending(ev'[p])
             /\ pc'[p] = "unreserve" => Pending(ev'[p])
             /\ pc'[p] \in Occupied /\ Pending(ev'[p]) => locks'[LockKey(ev'[p])] # Absent
  BY <1>1, <1>2, <1>3 DEF Reserved, Holds
<1>5. ASSUME NEW p \in Hooks, p # h, to \in Occupied, pc'[p] \in Occupied,
             Pending(ev[p]) \/ Pending(ev[h]), LockKey(ev[h]) = LockKey(ev[p])
      PROVE  FALSE
  <2>1. Pending(ev[p]) /\ Pending(ev[h])
    BY <1>5, KeyPending DEF HookTypeOK
  <2>2. Holds(p) /\ locks[LockKey(ev[p])] # Absent
    BY <1>1, <1>5, <2>1 DEF Reserved, Holds
  <2> QED
    BY <1>5, <2>1, <2>2 DEF Reserved
<1>6. ASSUME NEW p \in Hooks, NEW q \in Hooks, pc'[p] \in Occupied, pc'[q] \in Occupied,
             Pending(ev'[p]), LockKey(ev'[p]) = LockKey(ev'[q])
      PROVE  p = q
  <2>1. CASE p = h /\ q # h
    BY <1>1, <1>2, <1>5, <1>6, <2>1
  <2>2. CASE q = h /\ p # h
    BY <1>1, <1>2, <1>5, <1>6, <2>2
  <2>3. CASE p # h /\ q # h
    BY <1>1, <1>6, <2>3 DEF Reserved, Holds
  <2> QED
    BY <2>1, <2>2, <2>3
<1> QED
  BY <1>4, <1>6 DEF Reserved, Holds

LEMMA LooksReserved ==
  ASSUME HookTypeOK, Fresh, Reserved, NEW h \in Hooks, Looks(h)
  PROVE  Reserved'
<1>0. ev[h] \in Events /\ pc[h] \in Locations
  BY DEF HookTypeOK
<1>1. CheckAge(h) /\ Pending(ev[h]) => pc' # [pc EXCEPT ![h] = "replace"]
  <2> SUFFICES ASSUME CheckAge(h), Pending(ev[h])
               PROVE  pc' # [pc EXCEPT ![h] = "replace"]
    OBVIOUS
  <2>1. PICK age : age = Age(LockKey(ev[h]))
    OBVIOUS
  <2>2. age \in Int /\ age < PendingTTL
    BY <1>0, <2>1, Facts DEF Age, HookTypeOK, Fresh
  <2>3. LockTTL(ev[h]) = PendingTTL
    BY DEF LockTTL
  <2>4. PICK to : /\ pc' = [pc EXCEPT ![h] = to]
                  /\ to = IF age < 0 /\ LockTTL(ev[h]) > EventTTL THEN "recreate"
                          ELSE IF age \in 0 .. LockTTL(ev[h]) - 1 THEN Finish(h) ELSE "replace"
    BY <2>1 DEF CheckAge, Goto
  <2>5. to # "replace"
    BY <1>0, <2>2, <2>3, <2>4, Facts DEF Finish
  <2> QED
    BY <2>4, <2>5 DEF HookTypeOK
<1>2. PICK to : /\ pc' = [pc EXCEPT ![h] = to]
                /\ to \in Occupied => Holds(h)
                /\ to = "replace" => CheckAge(h)
                /\ to = "unreserve" => Pending(ev[h])
  <2>1. CASE CheckAge(h)
    <3>1. PICK to \in {"recreate", Finish(h), "replace"} : pc' = [pc EXCEPT ![h] = to]
      BY <2>1 DEF CheckAge, Goto
    <3>2. to \in {"recreate", "replace", "sweep", "done"}
      BY <3>1 DEF Finish
    <3>3. to \notin Occupied /\ to # "unreserve"
      BY <3>2 DEF Occupied, InAttempt
    <3> QED
      BY <2>1, <3>1, <3>3
  <2>2. CASE CooldownOfAny(h) \/ CooldownOfTask(h) \/ ContentAge(h)
    <3>1. PICK to \in {"content", "cooldown_task", "content_replace", Abandon(h)} :
            pc' = [pc EXCEPT ![h] = to]
      BY <2>2 DEF CooldownOfAny, CooldownOfTask, ContentAge, Goto
    <3>2. Holds(h) /\ to # "replace"
      BY <2>2, <3>1 DEF CooldownOfAny, CooldownOfTask, ContentAge, Goto, Finish, Abandon, Holds, Occupied,
           InAttempt
    <3>3. to = "unreserve" => Pending(ev[h])
      BY <3>1 DEF Finish, Abandon
    <3> QED
      BY <3>1, <3>2, <3>3
  <2>3. CASE EarlyExists(h) \/ EarlyAge(h) \/ Classify(h) \/ Filter(h)
    BY <2>3 DEF EarlyExists, EarlyAge, Classify, Filter, Goto, Finish, Occupied, InAttempt
  <2> QED
    BY <2>1, <2>2, <2>3 DEF Looks
<1>3. UNCHANGED <<locks, ev, doomed>>
  BY DEF Looks, EarlyExists, EarlyAge, Classify, Filter, CheckAge, CooldownOfAny, CooldownOfTask,
         ContentAge, files, local
<1> QED
  BY <1>1, <1>2, <1>3, Reserve DEF Reserved

LEMMA LockingReserved ==
  ASSUME HookTypeOK, Reserved, NEW h \in Hooks, Locking(h)
  PROVE  Reserved'
<1>0. /\ locks \in [LockFiles -> {Absent} \cup (1 .. now)] /\ now \in 1 .. MaxTime
      /\ \A p \in Hooks : ev[p] \in Events
      /\ now # Absent
  BY Facts DEF HookTypeOK
<1>1. PICK to : /\ pc' = [pc EXCEPT ![h] = to]
                /\ to # "replace"
                /\ to = "unreserve" => Pending(ev[h])
                /\ to \in Occupied => Holds(h) \/ locks[LockKey(ev[h])] = Absent
                /\ to \in Occupied => pc[h] # "unreserve"
  BY DEF Locking, Acquire, Replace, Recreate, AcquireContent, ReplaceContent, RecreateContent,
         ReleaseContent, Unreserve, Create, Remove, Goto, Finish, Abandon, Occupied, InAttempt, Holds
<1>2. UNCHANGED <<ev, doomed>>
  BY DEF Locking, Acquire, Replace, Recreate, AcquireContent, ReplaceContent, RecreateContent,
         ReleaseContent, Unreserve, local
<1>3. ASSUME NEW p \in Hooks, Pending(ev[p]), IF p = h THEN to \in Occupied ELSE Holds(p)
      PROVE  locks'[LockKey(ev[p])] # Absent
  <2>1. /\ LockKey(ev[p]) # Content /\ LockKey(ev[p]) \in LockFiles
        /\ LockKey(ev[h]) = LockKey(ev[p]) => Pending(ev[h])
    BY <1>0, <1>3, KeyPending, Facts
  <2>2. Holds(p) => locks[LockKey(ev[p])] # Absent
    BY <1>3 DEF Reserved
  <2>3. CASE Acquire(h) \/ Recreate(h)
    <3>1. CASE locks[LockKey(ev[h])] = Absent /\ locks' = [locks EXCEPT ![LockKey(ev[h])] = now]
      BY <1>0, <1>3, <2>1, <2>2, <3>1
    <3>2. CASE UNCHANGED locks /\ locks[LockKey(ev[h])] # Absent
      BY <1>3, <2>2, <3>2
    <3> QED
      BY <2>3, <3>1, <3>2 DEF Acquire, Recreate, Create
  <2>4. CASE Replace(h)
    <3>1. ~Pending(ev[h]) /\ to = "recreate"
      BY <1>0, <1>1, <2>4 DEF Replace, Remove, Goto, Reserved, HookTypeOK
    <3>2. Holds(p)
      BY <1>3, <3>1 DEF Occupied, InAttempt
    <3> QED
      BY <1>0, <2>1, <2>2, <2>4, <3>1, <3>2 DEF Replace, Remove
  <2>5. CASE Unreserve(h)
    <3>1. Holds(h) /\ p # h
      BY <1>1, <1>3, <2>5 DEF Unreserve, Remove, Goto, Holds, Occupied
    <3>2. LockKey(ev[p]) # LockKey(ev[h]) /\ locks[LockKey(ev[p])] # Absent
      BY <1>3, <3>1 DEF Reserved
    <3> QED
      BY <1>0, <2>1, <2>5, <3>2 DEF Unreserve, Remove
  <2>6. CASE AcquireContent(h) \/ ReplaceContent(h) \/ RecreateContent(h) \/ ReleaseContent(h)
    <3>1. Holds(p)
      BY <1>3, <2>6 DEF AcquireContent, ReplaceContent, RecreateContent, ReleaseContent, Create, Remove,
           Goto, Holds, Occupied, InAttempt
    <3>2. locks'[LockKey(ev[p])] = locks[LockKey(ev[p])]
      BY <1>0, <2>1, <2>6 DEF AcquireContent, ReplaceContent, RecreateContent, ReleaseContent, Create,
           Remove
    <3> QED
      BY <2>2, <3>1, <3>2
  <2> QED
    BY <2>3, <2>4, <2>5, <2>6 DEF Locking
<1> QED
  BY <1>1, <1>2, <1>3, Reserve DEF Reserved

LEMMA OtherReserved ==
  ASSUME HookTypeOK, Fresh, Reserved, NEW h \in Hooks,
         \/ Judging(h) \/ Deliver(h) \/ \E e \in Events : Start(h, e)
         \/ LoadTool(h) \/ LoadNote(h) \/ OpenTool(h) \/ OpenNote(h) \/ WriteTool(h) \/ WriteNote(h)
         \/ Exit(h) \/ Kill(h)
  PROVE  Reserved'
<1>1. PICK to : /\ pc' = [pc EXCEPT ![h] = to]
                /\ to \in Occupied => Holds(h) /\ UNCHANGED ev
                /\ to # "replace"
                /\ to = "unreserve" => Pending(ev[h])
  BY DEF Judging, CheckStop, CheckTurn, CheckPrevious, CheckMessage, Judge, Deliver, Start,
         LoadTool, LoadNote, LoadFor, OpenTool, OpenNote, Open, WriteTool, WriteNote, Write, Exit, Kill,
         Goto, Finish, Abandon, Occupied, InAttempt, Holds, local
<1>2. /\ UNCHANGED locks /\ \A p \in Hooks \ {h} : ev'[p] = ev[p]
      /\ \A p \in Hooks : doomed'[p].locks \subseteq doomed[p].locks
  BY DEF Judging, CheckStop, CheckTurn, CheckPrevious, CheckMessage, Judge, Deliver, Start,
         LoadTool, LoadNote, LoadFor, OpenTool, OpenNote, Open, WriteTool, WriteNote, Write, Exit, Kill,
         Forget, NoDoom, files, local, HookTypeOK
<1>3. \A p \in Hooks, e \in Events : Pending(e) => LockKey(e) \notin doomed'[p].locks
  BY <1>2 DEF Reserved
<1>4. \A p \in Hooks : (IF p = h THEN to \in Occupied ELSE Holds(p)) /\ Pending(ev[p])
                       => locks'[LockKey(ev[p])] # Absent
  BY <1>1, <1>2 DEF Reserved
<1> QED
  BY <1>1, <1>2, <1>3, <1>4, Reserve, ZenonT(30)

LEMMA SweepReserved ==
  ASSUME HookTypeOK, Fresh, Reserved, NEW h \in Hooks, Sweep(h) \/ Swept(h)
  PROVE  Reserved'
<1>1. PICK to : pc' = [pc EXCEPT ![h] = to] /\ to \notin Occupied \cup {"replace", "unreserve"}
  BY ZenonT(30) DEF Sweep, Swept, Goto, Occupied, InAttempt
<1>2. UNCHANGED ev
  BY DEF Sweep, Swept
<1>3. ASSUME NEW e \in Events, Pending(e)
      PROVE  /\ \A p \in Hooks : LockKey(e) \notin doomed'[p].locks
             /\ locks'[LockKey(e)] = locks[LockKey(e)]
  <2>1. ~(Age(LockKey(e)) > CleanupAge)
    <3>1. PICK age \in Int : age = Age(LockKey(e))
      BY Facts DEF Age, HookTypeOK
    <3> QED
      BY <1>3, <3>1, Facts DEF Fresh
  <2>2. CASE Sweep(h)
    BY <1>3, <2>1, <2>2 DEF Sweep, Reserved, files, HookTypeOK
  <2>3. CASE Swept(h)
    BY <1>3, <2>3, Facts DEF Swept, Reserved, NoDoom, HookTypeOK
  <2> QED
    BY <2>2, <2>3
<1>4. \A p \in Hooks : ev[p] \in Events
  BY DEF HookTypeOK
<1> QED
  BY <1>1, <1>2, <1>3, <1>4, Reserve, ZenonT(30) DEF Reserved

LEMMA ReservedInit == HookInit => Reserved
BY DEF HookInit, Reserved, Holds, Occupied, InAttempt, NoDoom

LEMMA ReservedNext == HookTypeOK /\ Fresh /\ Reserved /\ [HookNext]_vars => Reserved'
<1> SUFFICES ASSUME HookTypeOK, Fresh, Reserved, [HookNext]_vars PROVE Reserved'
  OBVIOUS
<1>1. CASE HookNext /\ ~Tick
  BY <1>1, HookSteps, LooksReserved, LockingReserved, OtherReserved, SweepReserved
<1>2. CASE Tick \/ UNCHANGED vars
  BY <1>2 DEF vars, Tick, files, local, Reserved, Holds
<1> QED
  BY <1>1, <1>2

\* A delayed Stop reserves its turn for as long as its lock is not older than pendingLockTTL
\* (AcquireLockWithTTL, dedup.go): no second attempt of the turn gets past the event lock.
THEOREM TurnReserved == HookSpec /\ []Fresh => []PendingReserves
<1>1. Reserved => PendingReserves
  BY DEF Reserved, PendingReserves, Holds, Occupied
<1> QED
  BY <1>1, TypeInit, TypeNext, ReservedInit, ReservedNext, PTL DEF HookSpec

-----------------------------------------------------------------------------
(* Releases.                                                                 *)

Noting    == {"note_load", "note_open", "note_write"}
Spoken(k) == \E e \in Events : LockKey(e) = k /\ shown[Body(e)] # 0

\* The lock of a delayed turn has an owner, a dead owner, or a delivery behind it.
Answered ==
  /\ \A h \in Hooks : pc[h] \in Noting => shown[Body(ev[h])] # 0
  /\ \A e \in Events :
       Pending(e) /\ locks[LockKey(e)] # Absent /\ LockKey(e) \notin killed
         => Spoken(LockKey(e)) \/ \E h \in Hooks : Holds(h) /\ LockKey(ev[h]) = LockKey(e)

LEMMA Answer ==
  ASSUME HookTypeOK, Answered, NEW h \in Hooks, NEW to, pc' = [pc EXCEPT ![h] = to],
         \A p \in Hooks \ {h} : ev'[p] = ev[p],
         to \in Occupied => ev'[h] = ev[h],
         killed \subseteq killed',
         \A e \in Events : locks'[LockKey(e)] # Absent
           => locks[LockKey(e)] # Absent \/ (LockKey(e) = LockKey(ev[h]) /\ to \in Occupied),
         \A b \in Bodies : shown[b] # 0 => shown'[b] # 0,
         to \in Noting => shown'[Body(ev[h])] # 0,
         Holds(h) /\ to \notin Occupied /\ Pending(ev[h])
           => \/ locks'[LockKey(ev[h])] = Absent \/ LockKey(ev[h]) \in killed'
              \/ shown[Body(ev[h])] # 0
  PROVE  Answered'
<1>0. /\ ev[h] \in Events /\ \A p \in Hooks : ev[p] \in Events
      /\ \A e \in Events : Body(e) \in Bodies
  BY Facts DEF HookTypeOK
<1>1. \A p \in Hooks : p # h => pc'[p] = pc[p] /\ ev'[p] = ev[p]
  BY DEF HookTypeOK
<1>2. pc'[h] = to
  BY DEF HookTypeOK
<1>3. ASSUME NEW p \in Hooks, pc'[p] \in Noting
      PROVE  shown'[Body(ev'[p])] # 0
  <2>1. CASE p = h
    BY <1>2, <1>3, <2>1 DEF Noting, Occupied, InAttempt
  <2>2. CASE p # h
    <3>1. shown[Body(ev[p])] # 0
      BY <1>1, <1>3, <2>2 DEF Answered
    <3> QED
      BY <1>0, <1>1, <2>2, <3>1
  <2> QED
    BY <2>1, <2>2
<1>4. ASSUME NEW e \in Events, Spoken(LockKey(e))
      PROVE  Spoken(LockKey(e))'
  BY <1>0, <1>4 DEF Spoken
<1>5. ASSUME NEW e \in Events, Pending(e), locks'[LockKey(e)] # Absent, LockKey(e) \notin killed',
             ~(LockKey(e) = LockKey(ev[h]) /\ to \in Occupied)
      PROVE  Spoken(LockKey(e))' \/ \E p \in Hooks : pc'[p] \in Occupied /\ LockKey(ev'[p]) = LockKey(e)
  <2>1. locks[LockKey(e)] # Absent /\ LockKey(e) \notin killed
    BY <1>5
  <2>2. CASE Spoken(LockKey(e))
    BY <1>4, <2>2
  <2>3. CASE ~Spoken(LockKey(e))
    <3>1. PICK p \in Hooks : Holds(p) /\ LockKey(ev[p]) = LockKey(e)
      BY <1>5, <2>1, <2>3 DEF Answered
    <3>2. p # h
      <4> SUFFICES ASSUME p = h PROVE FALSE
        OBVIOUS
      <4>1. Pending(ev[h])
        BY <1>0, <1>5, <3>1, KeyPending
      <4>2. shown[Body(ev[h])] # 0
        BY <1>5, <3>1, <4>1
      <4> QED
        BY <1>0, <2>3, <3>1, <4>2 DEF Spoken
    <3> QED
      BY <1>1, <3>1, <3>2 DEF Holds
  <2> QED
    BY <2>2, <2>3
<1>6. ASSUME NEW e \in Events, LockKey(e) = LockKey(ev[h]) /\ to \in Occupied
      PROVE  \E p \in Hooks : pc'[p] \in Occupied /\ LockKey(ev'[p]) = LockKey(e)
  BY <1>2, <1>6
<1> QED
  BY <1>3, <1>5, <1>6 DEF Answered, Holds

LEMMA LooksAnswered ==
  ASSUME HookTypeOK, Answered, NEW h \in Hooks, Looks(h)
  PROVE  Answered'
<1>1. PICK to : /\ pc' = [pc EXCEPT ![h] = to]
                /\ to \notin Noting
                /\ Holds(h) /\ Pending(ev[h]) => to \in Occupied
  <2>1. CASE CooldownOfAny(h) \/ CooldownOfTask(h) \/ ContentAge(h)
    <3>1. PICK to \in {"content", "cooldown_task", "content_replace", Abandon(h)} :
            pc' = [pc EXCEPT ![h] = to]
      BY <2>1 DEF CooldownOfAny, CooldownOfTask, ContentAge, Goto
    <3>2. to \notin Noting
      BY <3>1 DEF Finish, Abandon, Noting
    <3>3. Pending(ev[h]) => to \in Occupied
      BY <3>1 DEF Abandon, Occupied, InAttempt
    <3> QED
      BY <3>1, <3>2, <3>3
  <2>2. CASE CheckAge(h)
    <3>1. PICK to \in {"recreate", Finish(h), "replace"} : pc' = [pc EXCEPT ![h] = to]
      BY <2>2 DEF CheckAge, Goto
    <3>2. to \notin Noting /\ ~Holds(h)
      BY <2>2, <3>1 DEF CheckAge, Goto, Finish, Noting, Holds, Occupied, InAttempt
    <3> QED
      BY <3>1, <3>2
  <2>3. CASE EarlyExists(h) \/ EarlyAge(h) \/ Classify(h) \/ Filter(h)
    BY <2>3 DEF EarlyExists, EarlyAge, Classify, Filter, Goto, Finish, Noting, Holds, Occupied, InAttempt
  <2> QED
    BY <2>1, <2>2, <2>3 DEF Looks
<1>2. UNCHANGED <<locks, ev, killed, shown>>
  BY DEF Looks, EarlyExists, EarlyAge, Classify, Filter, CheckAge, CooldownOfAny, CooldownOfTask,
         ContentAge, files, local, history
<1> QED
  BY <1>1, <1>2, Answer

LEMMA LockingAnswered ==
  ASSUME HookTypeOK, Answered, NEW h \in Hooks, Locking(h)
  PROVE  Answered'
<1>0. /\ locks \in [LockFiles -> {Absent} \cup (1 .. now)] /\ ev[h] \in Events
      /\ \A e \in Events : LockKey(e) \in LockFiles /\ LockKey(e) # Content
  BY Facts DEF HookTypeOK, LockKey, Content
<1>1. UNCHANGED <<ev, killed, shown>>
  BY DEF Locking, Acquire, Replace, Recreate, AcquireContent, ReplaceContent, RecreateContent,
         ReleaseContent, Unreserve, local, history
<1>2. PICK to : /\ pc' = [pc EXCEPT ![h] = to]
                /\ to \notin Noting
                /\ Holds(h) /\ to \notin Occupied /\ Pending(ev[h]) => Unreserve(h)
                /\ (Acquire(h) \/ Recreate(h)) /\ to \notin Occupied => UNCHANGED locks
  <2>1. CASE Acquire(h) \/ Recreate(h)
    BY <2>1 DEF Acquire, Recreate, Create, Goto, Finish, Noting, Holds, Occupied, InAttempt
  <2>2. CASE Replace(h) \/ AcquireContent(h) \/ ReplaceContent(h)
    BY <2>2 DEF Replace, AcquireContent, ReplaceContent, Create, Remove, Goto, Noting, Holds, Occupied,
         InAttempt, Acquire, Recreate
  <2>3. CASE RecreateContent(h) \/ ReleaseContent(h)
    BY <2>3 DEF RecreateContent, ReleaseContent, Create, Remove, Goto, Finish, Abandon, Noting, Occupied,
         InAttempt, Acquire, Recreate
  <2>4. CASE Unreserve(h)
    BY <2>4 DEF Unreserve, Remove, Goto, Finish, Noting, Acquire, Recreate, Create
  <2> QED
    BY <2>1, <2>2, <2>3, <2>4 DEF Locking
<1>3. ASSUME NEW e \in Events, locks'[LockKey(e)] # Absent, locks[LockKey(e)] = Absent
      PROVE  LockKey(e) = LockKey(ev[h]) /\ to \in Occupied
  <2>1. CASE Acquire(h) \/ Recreate(h)
    BY <1>0, <1>2, <1>3, <2>1 DEF Acquire, Recreate, Create
  <2>2. CASE ~(Acquire(h) \/ Recreate(h))
    BY <1>0, <1>3, <2>2 DEF Locking, Replace, AcquireContent, ReplaceContent, RecreateContent,
         ReleaseContent, Unreserve, Create, Remove
  <2> QED
    BY <2>1, <2>2
<1>4. Unreserve(h) => locks'[LockKey(ev[h])] = Absent
  BY <1>0 DEF Unreserve, Remove
<1> QED
  BY <1>1, <1>2, <1>3, <1>4, Answer

LEMMA DeliverAnswered ==
  ASSUME HookTypeOK, Answered, NEW h \in Hooks, Deliver(h)
  PROVE  Answered'
<1>0. ev[h] \in Events /\ now \in 1 .. MaxTime /\ Body(ev[h]) \in Bodies
  BY Facts DEF HookTypeOK
<1>1. PICK to : /\ pc' = [pc EXCEPT ![h] = to]
                /\ to \in Noting => shown' = [shown EXCEPT ![Body(ev[h])] = now]
                /\ Pending(ev[h]) => to \in Occupied
                /\ UNCHANGED shown \/ shown' = [shown EXCEPT ![Body(ev[h])] = now]
  BY DEF Deliver, Goto, Finish, Abandon, Noting, Occupied, InAttempt, history
<1>2. UNCHANGED <<locks, ev, killed>>
  BY DEF Deliver, files, local, history
<1>3. /\ \A b \in Bodies : shown[b] # 0 => shown'[b] # 0
      /\ to \in Noting => shown'[Body(ev[h])] # 0
  BY <1>0, <1>1 DEF HookTypeOK
<1> QED
  BY <1>1, <1>2, <1>3, Answer

LEMMA NoteAnswered ==
  ASSUME HookTypeOK, Answered, NEW h \in Hooks,
         LoadTool(h) \/ LoadNote(h) \/ OpenTool(h) \/ OpenNote(h) \/ WriteTool(h) \/ WriteNote(h)
  PROVE  Answered'
<1>1. PICK to : /\ pc' = [pc EXCEPT ![h] = to]
                /\ to \in Noting => pc[h] \in Noting
                /\ Holds(h) => pc[h] \in Noting
                /\ to \in Occupied => pc[h] \in Noting
  <2>1. CASE LoadTool(h) \/ OpenTool(h) \/ WriteTool(h)
    BY <2>1 DEF LoadTool, LoadFor, OpenTool, Open, WriteTool, Write, Goto, Noting, Holds, Occupied, InAttempt
  <2>2. CASE LoadNote(h) \/ OpenNote(h) \/ WriteNote(h)
    BY <2>2 DEF LoadNote, LoadFor, OpenNote, Open, WriteNote, Write, Goto, Noting
  <2> QED
    BY <2>1, <2>2
<1>0. now \in 1 .. MaxTime /\ shown \in [Bodies -> 0 .. now] /\ ev[h] \in Events
  BY DEF HookTypeOK
<1>2. UNCHANGED <<locks, ev, killed>>
  BY DEF LoadTool, LoadNote, LoadFor, OpenTool, OpenNote, Open, WriteTool, WriteNote, Write, files, history
<1>3. pc[h] \in Noting => shown[Body(ev[h])] # 0
  BY DEF Answered
<1>4. \A b \in Bodies : shown[b] # 0 => shown'[b] # 0
  <2>1. CASE LoadNote(h)
    BY <1>0, <2>1 DEF LoadNote
  <2>2. CASE ~LoadNote(h)
    BY <2>2 DEF LoadTool, OpenTool, OpenNote, Open, WriteTool, WriteNote, Write, history
  <2> QED
    BY <2>1, <2>2
<1>5. Body(ev[h]) \in Bodies
  BY <1>0, Facts
<1> QED
  BY <1>1, <1>2, <1>3, <1>4, <1>5, Answer

LEMMA OtherAnswered ==
  ASSUME HookTypeOK, Answered, NEW h \in Hooks,
         Judging(h) \/ (\E e \in Events : Start(h, e)) \/ Sweep(h) \/ Swept(h) \/ Exit(h)
  PROVE  Answered'
<1>0. /\ locks \in [LockFiles -> {Absent} \cup (1 .. now)]
      /\ \A e \in Events : LockKey(e) \in LockFiles
  BY Facts DEF HookTypeOK
<1>1. PICK to : /\ pc' = [pc EXCEPT ![h] = to]
                /\ to \notin Noting
                /\ Holds(h) => to \in Occupied
                /\ to \in Occupied => UNCHANGED ev
  BY DEF Judging, CheckStop, CheckTurn, CheckPrevious, CheckMessage, Judge, Start, Sweep, Swept, Exit,
         Goto, Noting, Holds, Occupied, InAttempt
<1>2. UNCHANGED <<killed, shown>> /\ \A p \in Hooks \ {h} : ev'[p] = ev[p]
  BY DEF Judging, CheckStop, CheckTurn, CheckPrevious, CheckMessage, Judge, Start, Sweep, Swept, Exit,
         Forget, history, HookTypeOK
<1>3. \A e \in Events : locks'[LockKey(e)] # Absent => locks[LockKey(e)] # Absent
  BY <1>0 DEF Judging, CheckStop, CheckTurn, CheckPrevious, CheckMessage, Judge, Start, Sweep, Swept, Exit,
         files
<1> QED
  BY <1>1, <1>2, <1>3, Answer

LEMMA KillAnswered ==
  ASSUME HookTypeOK, Answered, NEW h \in Hooks, Kill(h)
  PROVE  Answered'
<1>1. pc' = [pc EXCEPT ![h] = "ready"] /\ UNCHANGED <<locks, shown>>
      /\ killed \subseteq killed' /\ (Pending(ev[h]) => LockKey(ev[h]) \in killed')
  BY DEF Kill, Goto, files
<1>2. "ready" \notin Occupied /\ "ready" \notin Noting
  BY DEF Occupied, InAttempt, Noting
<1>3. \A p \in Hooks \ {h} : ev'[p] = ev[p]
  BY DEF Kill, Forget, HookTypeOK
<1> QED
  BY <1>1, <1>2, <1>3, Answer

LEMMA AnsweredInit == HookInit => Answered
<1> SUFFICES ASSUME HookInit PROVE Answered
  OBVIOUS
<1>1. \A e \in Events : locks[LockKey(e)] = Absent
  BY Facts DEF HookInit
<1> QED
  BY <1>1 DEF HookInit, Answered, Noting

LEMMA AnsweredNext == HookTypeOK /\ Answered /\ [HookNext]_vars => Answered'
<1> SUFFICES ASSUME HookTypeOK, Answered, [HookNext]_vars PROVE Answered'
  OBVIOUS
<1>1. CASE HookNext /\ ~Tick
  BY <1>1, HookSteps, LooksAnswered, LockingAnswered, DeliverAnswered, NoteAnswered, OtherAnswered,
     KillAnswered
<1>2. CASE Tick \/ UNCHANGED vars
  BY <1>2 DEF vars, Tick, files, local, history, Answered, Holds, Spoken
<1> QED
  BY <1>1, <1>2

\* A delayed Stop that ends without a delivery, whatever ends it, releases the lock of its turn
\* (the deferred release of HandleHook, hooks.go): only a killed process leaves it behind.
THEOREM TurnReleased == HookSpec => []UndeliveredReleases
<1>1. Answered => UndeliveredReleases
  BY DEF Answered, UndeliveredReleases, Holds, Spoken, Occupied, InAttempt
<1> QED
  BY <1>1, TypeInit, TypeNext, AnsweredInit, AnsweredNext, PTL DEF HookSpec

-----------------------------------------------------------------------------
(* Silence.                                                                  *)

\* What a state says was noted has been shown, and not before.
Backs(s) ==
  s.tag = "ok" =>
    /\ s.time # 0 => \E e \in Events : /\ s.content = Body(e) /\ s.message = Message(e)
                                       /\ shown[Body(e)] >= s.time
    /\ s.stopTime # 0 => \E e \in Events : s.stop = Body(e) /\ shown[Body(e)] >= s.stopTime
    /\ s.task # 0 => \E e \in Events : Complete(e) /\ shown[Body(e)] >= s.task

\* The state file says so, and whatever a hook is about to write over it.
Backed == Backs(session) /\ \A h \in Hooks : Backs(snap[h])

\* What has been shown stays shown.
LEMMA Backing ==
  ASSUME HookTypeOK, shown' \in [Bodies -> 0 .. now'],
         \A b \in Bodies : shown[b] <= shown'[b],
         NEW s \in {NoState, Torn} \cup SessionStates, Backs(s)
  PROVE  Backs(s)'
<1>1. CASE s \in {NoState, Torn}
  BY <1>1 DEF Backs, NoState, Torn
<1>2. CASE s \in SessionStates
  <2>0. s.tag = "ok" /\ s.time \in Nat /\ s.stopTime \in Nat /\ s.task \in Nat
    BY <1>2 DEF SessionStates
  <2>1. \A e \in Events : shown[Body(e)] \in Nat /\ shown'[Body(e)] \in Nat
                          /\ shown[Body(e)] <= shown'[Body(e)]
    BY Facts DEF HookTypeOK
  <2>2. \A e \in Events, t \in Nat : shown[Body(e)] >= t => shown'[Body(e)] >= t
    BY <2>1
  <2> QED
    BY <2>0, <2>2 DEF Backs
<1> QED
  BY <1>1, <1>2

\* So is what is noted of an event that has just been shown.
LEMMA NotedBacked ==
  ASSUME HookTypeOK, NEW s \in SessionStates, Backs(s)', NEW e \in Events,
         shown'[Body(e)] = now, NEW note, note = Noted(s, e)
  PROVE  Backs(note)'
<1>0. now \in Nat /\ now # 0 /\ s.tag = "ok"
  BY DEF HookTypeOK, SessionStates
<1>1. PICK task : task = IF Complete(e) THEN now ELSE s.task
  OBVIOUS
<1>2. PICK stop : stop = IF StopHash(e) # <<>> THEN StopHash(e) ELSE s.stop
  OBVIOUS
<1>3. PICK time : time = IF StopHash(e) # <<>> THEN now ELSE s.stopTime
  OBVIOUS
<1>4. PICK m, c, k : m = Message(e) /\ c = Body(e) /\ k = e.kind
  OBVIOUS
<1>5. PICK n : n = [s EXCEPT !.time = now, !.task = task, !.kind = k, !.message = m, !.content = c,
                             !.stop = stop, !.stopTime = time]
  OBVIOUS
<1>6. Noted(s, e) = n
  BY <1>1, <1>2, <1>3, <1>4, <1>5 DEF Noted
<1>7. /\ n.time = now /\ n.message = m /\ n.content = c /\ n.task = task
      /\ n.stop = stop /\ n.stopTime = time
  BY <1>5 DEF SessionStates
<1>8. \E x \in Events : n.content = Body(x) /\ n.message = Message(x) /\ shown'[Body(x)] >= n.time
  BY <1>0, <1>4, <1>7
<1>9. n.stopTime # 0 => \E x \in Events : n.stop = Body(x) /\ shown'[Body(x)] >= n.stopTime
  <2>1. CASE StopHash(e) # <<>>
    BY <1>0, <1>2, <1>3, <1>7, <2>1 DEF StopHash
  <2>2. CASE StopHash(e) = <<>>
    BY <1>0, <1>2, <1>3, <1>7, <2>2 DEF Backs
  <2> QED
    BY <2>1, <2>2
<1>10. n.task # 0 => \E x \in Events : Complete(x) /\ shown'[Body(x)] >= n.task
  <2>1. CASE Complete(e)
    BY <1>0, <1>1, <1>7, <2>1
  <2>2. CASE ~Complete(e)
    BY <1>0, <1>1, <1>7, <2>2 DEF Backs
  <2> QED
    BY <2>1, <2>2
<1> QED
  BY <1>6, <1>8, <1>9, <1>10 DEF Backs

LEMMA BackedInit == HookInit => Backed
BY DEF HookInit, Backed, Backs, NoState

\* A step after which the states are those of before, with what was shown still shown.
LEMMA StillBacked ==
  ASSUME HookTypeOK, Backed, HookTypeOK',
         \A b \in Bodies : shown[b] <= shown'[b],
         session' \in {session, NoState, Torn} \cup {snap[h] : h \in Hooks},
         \A h \in Hooks : snap'[h] \in {snap[h], NoState, session, Blank} \/ Backs(snap[h])'
  PROVE  Backed'
<1>1. \A s \in {NoState, Torn, Blank} : Backs(s)
  BY DEF Backs, NoState, Torn, Blank
<1>2. /\ Blank \in SessionStates
      /\ session \in {NoState, Torn} \cup SessionStates
      /\ \A h \in Hooks : snap[h] \in {NoState, Torn} \cup SessionStates
      /\ shown' \in [Bodies -> 0 .. now']
  BY BlankType DEF HookTypeOK
<1>3. ASSUME NEW s \in {session, NoState, Torn, Blank} \cup {snap[h] : h \in Hooks}
      PROVE  Backs(s)'
  BY <1>1, <1>2, Backing DEF Backed
<1>4. Backs(session)'
  <2>1. PICK s \in {session, NoState, Torn} \cup {snap[h] : h \in Hooks} : session' = s
    OBVIOUS
  <2>2. Backs(s)'
    BY <1>3
  <2> QED
    BY <2>1, <2>2 DEF Backs
<1>5. ASSUME NEW h \in Hooks
      PROVE  Backs(snap[h])'
  <2>0. CASE Backs(snap[h])'
    BY <2>0
  <2> SUFFICES ASSUME ~Backs(snap[h])' PROVE Backs(snap[h])'
    BY <2>0
  <2>1. PICK s \in {session, NoState, Torn, Blank} \cup {snap[p] : p \in Hooks} : snap'[h] = s
    OBVIOUS
  <2>2. Backs(s)'
    BY <1>3
  <2> QED
    BY <2>1, <2>2 DEF Backs
<1> QED
  BY <1>4, <1>5 DEF Backed

LEMMA LoadBacked ==
  ASSUME HookTypeOK, HookTypeOK', Answered, Backed, NEW h \in Hooks, LoadTool(h) \/ LoadNote(h)
  PROVE  Backed'
<1>0. /\ ev[h] \in Events /\ Body(ev[h]) \in Bodies /\ now \in 1 .. MaxTime
      /\ shown \in [Bodies -> 0 .. now]
      /\ \A p \in Hooks \ {h} : snap'[p] = snap[p]
  BY Facts DEF HookTypeOK, LoadTool, LoadNote, LoadFor
<1>1. UNCHANGED <<now, session>> /\ \A b \in Bodies : shown[b] <= shown'[b]
  BY <1>0 DEF LoadTool, LoadNote, LoadFor, files
<1>2. CASE session = Torn
  <2>1. snap'[h] = NoState
    BY <1>2 DEF LoadTool, LoadNote, LoadFor, HookTypeOK
  <2> QED
    BY <1>0, <1>1, <2>1, StillBacked
<1>3. CASE session # Torn /\ LoadTool(h)
  <2>1. snap'[h] \in {session, Blank}
    BY <1>3 DEF LoadTool, LoadFor, HookTypeOK, Loaded
  <2> QED
    BY <1>0, <1>1, <2>1, StillBacked
<1>4. CASE session # Torn /\ LoadNote(h)
  <2>1. PICK s \in SessionStates : s = Loaded
    BY <1>4, LoadedType
  <2>2. Backs(s)
    BY <2>1 DEF Loaded, Backed, Backs, Blank
  <2>3. Backs(s)'
    <3>1. shown' \in [Bodies -> 0 .. now']
      BY DEF HookTypeOK
    <3> QED
      BY <1>1, <2>2, <3>1, Backing
  <2>4. pc[h] = "note_load" /\ shown[Body(ev[h])] # 0
    BY <1>4 DEF LoadNote, LoadFor, Goto, Answered, Noting
  <2>5. shown'[Body(ev[h])] = now
    BY <1>0, <1>4, <2>4 DEF LoadNote
  <2>6. snap'[h] = Noted(s, ev[h])
    BY <1>4, <2>1 DEF LoadNote, LoadFor, HookTypeOK
  <2>7. PICK note : note = Noted(s, ev[h])
    OBVIOUS
  <2>8. Backs(note)'
    BY <1>0, <2>3, <2>5, <2>7, NotedBacked
  <2>9. Backs(snap[h])'
    BY <2>6, <2>7, <2>8 DEF Backs
  <2> QED
    BY <1>0, <1>1, <2>9, StillBacked
<1> QED
  BY <1>2, <1>3, <1>4

LEMMA WriteBacked ==
  ASSUME HookTypeOK, HookTypeOK', Backed, NEW h \in Hooks,
         OpenTool(h) \/ OpenNote(h) \/ WriteTool(h) \/ WriteNote(h)
  PROVE  Backed'
<1>1. UNCHANGED shown
  BY DEF OpenTool, OpenNote, WriteTool, WriteNote, Open, Write, history
<1>2. session' \in {session, Torn, snap[h]}
  BY DEF OpenTool, OpenNote, WriteTool, WriteNote, Open, Write
<1>3. \A p \in Hooks : snap'[p] \in {snap[p], NoState}
  BY DEF OpenTool, OpenNote, WriteTool, WriteNote, Open, Write, HookTypeOK
<1>4. \A b \in Bodies : shown[b] <= shown'[b]
  BY <1>1 DEF HookTypeOK
<1> QED
  BY <1>2, <1>3, <1>4, StillBacked

LEMMA OtherBacked ==
  ASSUME HookTypeOK, HookTypeOK', Backed, NEW h \in Hooks,
         \/ Looks(h) \/ Locking(h) \/ Judging(h) \/ Deliver(h) \/ \E e \in Events : Start(h, e)
         \/ Sweep(h) \/ Swept(h) \/ Exit(h) \/ Kill(h)
  PROVE  Backed'
<1>0. now \in 1 .. MaxTime /\ shown \in [Bodies -> 0 .. now]
  BY DEF HookTypeOK
<1>1. session' \in {session, NoState} /\ \A p \in Hooks : snap'[p] \in {snap[p], NoState}
  <2>1. CASE Exit(h) \/ Kill(h)
    BY <2>1 DEF Exit, Kill, Forget, files, HookTypeOK
  <2>2. CASE Sweep(h) \/ Swept(h)
    BY <2>2 DEF Sweep, Swept, files, HookTypeOK
  <2>3. CASE Looks(h) \/ Locking(h)
    BY <2>3 DEF Looks, EarlyExists, EarlyAge, Classify, Filter, CheckAge, CooldownOfAny, CooldownOfTask,
         ContentAge, Locking, Acquire, Replace, Recreate, AcquireContent, ReplaceContent,
         RecreateContent, ReleaseContent, Unreserve, files, local
  <2>4. CASE Judging(h) \/ Deliver(h) \/ \E e \in Events : Start(h, e)
    BY <2>4 DEF Judging, CheckStop, CheckTurn, CheckPrevious, CheckMessage, Judge, Deliver, Start,
         files, local
  <2> QED
    BY <2>1, <2>2, <2>3, <2>4
<1>2. \A b \in Bodies : shown[b] <= shown'[b]
  <2>1. CASE Deliver(h)
    BY <1>0, <2>1 DEF Deliver, history
  <2>2. CASE ~Deliver(h)
    <3>1. UNCHANGED shown
      BY <2>2 DEF Looks, EarlyExists, EarlyAge, Classify, Filter, CheckAge, CooldownOfAny, CooldownOfTask,
           ContentAge, Locking, Acquire, Replace, Recreate, AcquireContent, ReplaceContent,
           RecreateContent, ReleaseContent, Unreserve, Judging, CheckStop, CheckTurn, CheckPrevious,
           CheckMessage, Judge, Start, Sweep, Swept, Exit, Kill, history
    <3> QED
      BY <1>0, <3>1
  <2> QED
    BY <2>1, <2>2
<1> QED
  BY <1>1, <1>2, StillBacked

LEMMA BackedNext ==
  HookTypeOK /\ HookTypeOK' /\ Answered /\ Backed /\ [HookNext]_vars => Backed'
<1> SUFFICES ASSUME HookTypeOK, HookTypeOK', Answered, Backed, [HookNext]_vars PROVE Backed'
  OBVIOUS
<1>1. CASE HookNext /\ ~Tick
  BY <1>1, HookSteps, LoadBacked, WriteBacked, OtherBacked
<1>2. CASE Tick \/ UNCHANGED vars
  <2>1. UNCHANGED <<session, snap, shown>>
    BY <1>2 DEF vars, Tick, files, local, history
  <2>2. \A b \in Bodies : shown[b] <= shown'[b]
    BY <2>1 DEF HookTypeOK
  <2> QED
    BY <2>1, <2>2, StillBacked
<1> QED
  BY <1>1, <1>2

\* A check of the state that finds something finds what has been shown since.
LEMMA Found ==
  ASSUME HookTypeOK, Backed, Known
  PROVE  /\ \A limit \in Nat :
              session.time # 0 /\ Elapsed(session.time) <= limit
                => \E e \in Events : /\ session.content = Body(e) /\ session.message = Message(e)
                                     /\ ShownWithin(e, limit)
         /\ \A limit \in Nat :
              session.stopTime # 0 /\ Elapsed(session.stopTime) <= limit
                => \E e \in Events : session.stop = Body(e) /\ ShownWithin(e, limit)
         /\ \A limit \in Nat :
              session.task # 0 /\ Elapsed(session.task) <= limit
                => \E e \in Events : Complete(e) /\ ShownWithin(e, limit)
<1>1. session \in SessionStates
  BY DEF HookTypeOK, Known, NoState, Torn
<1>2. session.tag = "ok" /\ session.time \in Nat /\ session.stopTime \in Nat /\ session.task \in Nat
  BY <1>1 DEF SessionStates
<1>3. \A e \in Events, t \in Nat, limit \in Nat :
        t # 0 /\ shown[Body(e)] >= t /\ Elapsed(t) <= limit => ShownWithin(e, limit)
  <2>1. \A e \in Events : shown[Body(e)] \in Nat
    BY Facts DEF HookTypeOK
  <2>2. now \in Nat
    BY DEF HookTypeOK
  <2> QED
    BY <2>1, <2>2 DEF ShownWithin, Elapsed
<1>4. Backs(session)
  BY DEF Backed
<1>5. ASSUME NEW limit \in Nat, session.time # 0, Elapsed(session.time) <= limit
      PROVE  \E e \in Events : /\ session.content = Body(e) /\ session.message = Message(e)
                               /\ ShownWithin(e, limit)
  BY <1>2, <1>3, <1>4, <1>5 DEF Backs
<1>6. ASSUME NEW limit \in Nat, session.stopTime # 0, Elapsed(session.stopTime) <= limit
      PROVE  \E e \in Events : session.stop = Body(e) /\ ShownWithin(e, limit)
  BY <1>2, <1>3, <1>4, <1>6 DEF Backs
<1>7. ASSUME NEW limit \in Nat, session.task # 0, Elapsed(session.task) <= limit
      PROVE  \E e \in Events : Complete(e) /\ ShownWithin(e, limit)
  BY <1>2, <1>3, <1>4, <1>7 DEF Backs
<1> QED
  BY <1>5, <1>6, <1>7

LEMMA JudgingSilent ==
  ASSUME HookTypeOK, Backed, NEW h \in Hooks, Judging(h)
  PROVE  JustlySilent(h)
<1>0. Window \in Nat /\ ev[h] \in Events
  BY Facts DEF HookTypeOK
<1>1. ~DroppedAt(h, "cooldown_any") /\ ~DroppedAt(h, "cooldown_task")
  BY DEF DroppedAt, Judging, CheckStop, CheckTurn, CheckPrevious, CheckMessage, Judge, Goto
<1>2. CASE CheckStop(h)
  <2>1. FoundDuplicate(h) => DuplicateStop(ev[h])
    BY <1>2 DEF FoundDuplicate, CheckStop, Judge, HookTypeOK
  <2>2. DuplicateStop(ev[h]) => \E e \in Events : Body(e) = Body(ev[h]) /\ ShownWithin(e, Window)
    BY <1>0, Found DEF DuplicateStop, StopHash, Recent
  <2> QED
    BY <1>1, <2>1, <2>2 DEF JustlySilent
<1>3. CASE CheckTurn(h)
  <2>1. FoundDuplicate(h) => DuplicateTurnBody(ev[h])
    BY <1>3 DEF FoundDuplicate, CheckTurn, Judge, HookTypeOK
  <2>2. DuplicateTurnBody(ev[h]) => \E e \in Events : Body(e) = Body(ev[h]) /\ ShownWithin(e, Window)
    BY <1>0, Found DEF DuplicateTurnBody, Recent
  <2> QED
    BY <1>1, <2>1, <2>2 DEF JustlySilent
<1>4. CASE CheckPrevious(h)
  <2>1. ~FoundDuplicate(h)
    BY <1>4 DEF FoundDuplicate, CheckPrevious, Judge, HookTypeOK
  <2> QED
    BY <1>1, <2>1 DEF JustlySilent
<1>5. CASE CheckMessage(h)
  <2>1. FoundDuplicate(h) => DuplicateMessage(ev[h]) /\ pc[h] = "check_message"
    BY <1>5 DEF FoundDuplicate, CheckMessage, Judge, Goto, HookTypeOK
  <2>2. DuplicateMessage(ev[h])
          => \E e \in Events : Message(e) = Message(ev[h]) /\ ShownWithin(e, Window)
    BY <1>0, Found DEF DuplicateMessage
  <2> QED
    BY <1>1, <2>1, <2>2 DEF JustlySilent
<1> QED
  BY <1>2, <1>3, <1>4, <1>5 DEF Judging

LEMMA CooldownSilent ==
  ASSUME HookTypeOK, Backed, NEW h \in Hooks, CooldownOfAny(h) \/ CooldownOfTask(h)
  PROVE  JustlySilent(h)
<1>0. /\ CooldownAny \in Nat /\ CooldownTask \in Nat /\ now \in Int
      /\ Known => session.time \in Int /\ session.task \in Int
  BY Facts DEF HookTypeOK, Known, NoState, Torn, SessionStates
<1>1. ~FoundDuplicate(h)
  BY DEF FoundDuplicate, CooldownOfAny, CooldownOfTask, local
<1>2. CASE CooldownOfAny(h)
  <2>1. DroppedAt(h, "cooldown_any") => AnyCooldown
    BY <1>2 DEF DroppedAt, CooldownOfAny, Goto, HookTypeOK
  <2>2. AnyCooldown => \E e \in Events : ShownWithin(e, CooldownAny)
    BY <1>0, Found DEF AnyCooldown, Elapsed
  <2>3. ~DroppedAt(h, "cooldown_task")
    BY <1>2 DEF DroppedAt, CooldownOfAny, Goto
  <2> QED
    BY <1>1, <2>1, <2>2, <2>3 DEF JustlySilent
<1>3. CASE CooldownOfTask(h)
  <2>1. DroppedAt(h, "cooldown_task") => TaskCooldown
    BY <1>3 DEF DroppedAt, CooldownOfTask, Goto, HookTypeOK
  <2>2. TaskCooldown => \E e \in Events : Complete(e) /\ ShownWithin(e, CooldownTask)
    BY <1>0, Found DEF TaskCooldown, Elapsed
  <2>3. ~DroppedAt(h, "cooldown_any")
    BY <1>3 DEF DroppedAt, CooldownOfTask, Goto
  <2> QED
    BY <1>1, <2>1, <2>2, <2>3 DEF JustlySilent
<1> QED
  BY <1>2, <1>3

\* No other step decides on silence at a check or a cooldown.
LEMMA OtherSilent ==
  ASSUME HookTypeOK, NEW h \in Hooks, pc'[h] = pc[h] \/ pc'[h] = "ready" \/ ~(pc[h] \in {"cooldown_any", "cooldown_task"}),
         verdict'[h] \in {verdict[h], "none"}
  PROVE  JustlySilent(h)
BY DEF JustlySilent, FoundDuplicate, DroppedAt

LEMMA SilentNext ==
  ASSUME HookTypeOK, Backed, [HookNext]_vars, NEW p \in Hooks
  PROVE  JustlySilent(p)
<1>1. CASE Tick \/ UNCHANGED vars
  BY <1>1, OtherSilent DEF vars, Tick, local
<1>2. ASSUME NEW h \in Hooks, HookStep(h), p # h
      PROVE  JustlySilent(p)
  <2>1. pc'[p] = pc[p]
    BY <1>2 DEF HookTypeOK, HookStep, Start, EarlyExists, EarlyAge, Classify, Filter, LoadTool, OpenTool,
         WriteTool, Acquire, CheckAge, Replace, Recreate, CooldownOfAny, CooldownOfTask, AcquireContent,
         ContentAge, ReplaceContent, RecreateContent, CheckStop, CheckTurn, CheckPrevious, CheckMessage,
         Judge, ReleaseContent, Deliver, LoadNote, LoadFor, OpenNote, Open, WriteNote, Write, Unreserve,
         Sweep, Swept, Exit, Kill, Create, Remove, Goto
  <2>2. verdict'[p] = verdict[p]
    BY <1>2 DEF HookTypeOK, HookStep, Start, EarlyExists, EarlyAge, Classify, Filter, LoadTool, OpenTool,
         WriteTool, Acquire, CheckAge, Replace, Recreate, CooldownOfAny, CooldownOfTask, AcquireContent,
         ContentAge, ReplaceContent, RecreateContent, CheckStop, CheckTurn, CheckPrevious, CheckMessage,
         Judge, ReleaseContent, Deliver, LoadNote, LoadFor, OpenNote, Open, WriteNote, Write, Unreserve,
         Sweep, Swept, Exit, Kill, Forget, local
  <2> QED
    BY <2>1, <2>2, OtherSilent
<1>3. ASSUME Judging(p) \/ CooldownOfAny(p) \/ CooldownOfTask(p)
      PROVE  JustlySilent(p)
  BY <1>3, JudgingSilent, CooldownSilent
<1>4. ASSUME HookStep(p), ~(Judging(p) \/ CooldownOfAny(p) \/ CooldownOfTask(p))
      PROVE  JustlySilent(p)
  <2>1. pc[p] \in {"cooldown_any", "cooldown_task"} => pc'[p] = "ready"
    BY <1>4 DEF HookTypeOK, HookStep, Judging, Start, EarlyExists, EarlyAge, Classify, Filter, LoadTool,
         OpenTool, WriteTool, Acquire, CheckAge, Replace, Recreate, AcquireContent,
         ContentAge, ReplaceContent, RecreateContent, ReleaseContent, Deliver, LoadNote, LoadFor,
         OpenNote, Open, WriteNote, Write, Unreserve, Sweep, Swept, Exit, Kill, Create, Remove, Goto
  <2>2. verdict'[p] \in {verdict[p], "none"}
    BY <1>4 DEF HookTypeOK, HookStep, Judging, Start, EarlyExists, EarlyAge, Classify, Filter, LoadTool,
         OpenTool, WriteTool, Acquire, CheckAge, Replace, Recreate, AcquireContent,
         ContentAge, ReplaceContent, RecreateContent, ReleaseContent, Deliver, LoadNote, LoadFor,
         OpenNote, Open, WriteNote, Write, Unreserve, Sweep, Swept, Exit, Kill, Forget, local
  <2> QED
    BY <2>1, <2>2, OtherSilent
<1> QED
  BY <1>1, <1>2, <1>3, <1>4 DEF HookNext

\* A hook is silenced as a duplicate (prepareHookContent, content.go) or at a cooldown (hooks.go)
\* only when what silences it has been shown within the window or the cooldown, however the
\* updates of state.go overlap, are lost, torn or cleaned up.
THEOREM SilenceJustified == HookSpec => SilentOnlyAfterShown
<1>1. HookTypeOK /\ Backed /\ [HookNext]_vars => [\A h \in Hooks : JustlySilent(h)]_vars
  BY SilentNext
<1> QED
  BY <1>1, TypeInit, TypeNext, AnsweredInit, AnsweredNext, BackedInit, BackedNext, PTL
     DEF HookSpec, SilentOnlyAfterShown

=============================================================================
